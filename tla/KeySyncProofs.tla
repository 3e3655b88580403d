--------------------------- MODULE KeySyncProofs ---------------------------
(***************************************************************************)
(* Theorems about KeySync: rows never fall behind a confirmed change,      *)
(* nothing of an old connection survives, confirmations are stored,        *)
(* reconciliation repairs, and every step keeps the abstract promise.      *)
(***************************************************************************)
EXTENDS KeySync, TLAPS

-----------------------------------------------------------------------------
(* Records and frames.                                                     *)

LEMMA FlightAtFields ==
  ASSUME NEW pc \in {"idle", "queued", "settings", "listing"}, NEW g \in Nat,
         NEW c \in Conns, NEW h \in Nat, NEW r \in SUBSET Keys,
         NEW l \in [Keys -> Nat]
  PROVE  LET f == FlightAt(pc, g, c, h, r, l) IN
         /\ f \in FlightStates
         /\ f.pc = pc /\ f.connGen = g /\ f.conn = c /\ f.keyGen = h
         /\ f.read = r /\ f.list = l
  BY DEF FlightAt, FlightStates

LEMMA CallAtFields ==
  ASSUME NEW pc \in {"idle", "calling"}, NEW g \in Nat, NEW c \in Conns,
         NEW v \in Nat
  PROVE  LET a == CallAt(pc, g, c, v) IN
         /\ a \in CallStates
         /\ a.pc = pc /\ a.connGen = g /\ a.conn = c /\ a.applied = v
  BY DEF CallAt, CallStates

LEMMA FlightFields ==
  ASSUME NEW s \in FlightStates
  PROVE  /\ s.pc \in {"idle", "queued", "settings", "listing"}
         /\ s.connGen \in Nat /\ s.conn \in Conns /\ s.keyGen \in Nat
         /\ s.read \in SUBSET Keys /\ s.list \in [Keys -> Nat]
  BY DEF FlightStates

LEMMA CallFields ==
  ASSUME NEW s \in CallStates
  PROVE  /\ s.pc \in {"idle", "calling"} /\ s.connGen \in Nat
         /\ s.conn \in Conns /\ s.applied \in Nat
  BY DEF CallStates

LEMMA NoUsageType == NoUsage \in [Keys -> Nat] /\ \A k \in Keys : NoUsage[k] = 0
  BY DEF NoUsage

LEMMA IdleFlightFields ==
  /\ IdleFlight \in FlightStates /\ IdleFlight.pc = "idle"
  /\ IdleFlight.connGen = 0 /\ IdleFlight.keyGen = 0
  BY FlightAtFields, NoUsageType, KeySyncConstants DEF IdleFlight

LEMMA QueuedFlightFields ==
  /\ QueuedFlight \in FlightStates /\ QueuedFlight.pc = "queued"
  /\ QueuedFlight.connGen = 0 /\ QueuedFlight.keyGen = 0
  BY FlightAtFields, NoUsageType, KeySyncConstants DEF QueuedFlight

LEMMA IdleCallFields ==
  /\ IdleCall \in CallStates /\ IdleCall.pc = "idle"
  BY CallAtFields, KeySyncConstants DEF IdleCall

-----------------------------------------------------------------------------
(* Type correctness.                                                       *)

LEMMA FlightTypes ==
  ASSUME TypeOK, NEW f \in Flights
  PROVE  /\ StartFlight(f) => /\ flight' \in [Flights -> FlightStates]
                              /\ current' \in Flights \cup {None}
         /\ ReadSettings(f) \/ ReadKeyGeneration(f)
              \/ (\E k \in Keys : ReadPage(f, k)) => TypeOK'
  <1>0. flight[f] \in FlightStates
    BY DEF TypeOK
  <1>1. StartFlight(f) => /\ flight' \in [Flights -> FlightStates]
                          /\ current' \in Flights \cup {None}
    BY QueuedFlightFields DEF TypeOK, StartFlight
  <1>2. ASSUME NEW s \in FlightStates,
               flight' = [flight EXCEPT ![f] = s], UNCHANGED current, OnlyFlights
        PROVE  TypeOK'
    BY <1>2 DEF TypeOK, OnlyFlights, rowVars, generationVars, cacheVars,
                workflowVars, boundVars
  <1>3. ReadSettings(f) => TypeOK'
    <2>1. FlightAt("settings", connectionGeneration, conn, 0, {}, NoUsage)
            \in FlightStates
      BY FlightAtFields, NoUsageType DEF TypeOK
    <2> QED
      BY <1>2, <2>1 DEF ReadSettings
  <1>4. ReadKeyGeneration(f) => TypeOK'
    <2>1. FlightAt("listing", flight[f].connGen, flight[f].conn, keyGeneration,
                   {}, NoUsage) \in FlightStates
      BY <1>0, FlightFields, FlightAtFields, NoUsageType DEF TypeOK
    <2> QED
      BY <1>2, <2>1 DEF ReadKeyGeneration
  <1>5. ASSUME NEW k \in Keys, ReadPage(f, k) PROVE TypeOK'
    <2> DEFINE l == [flight[f].list EXCEPT ![k] = upstream[flight[f].conn][k]]
    <2>1. l \in [Keys -> Nat]
      BY <1>0, FlightFields DEF TypeOK
    <2>2. FlightAt("listing", flight[f].connGen, flight[f].conn,
                   flight[f].keyGen, flight[f].read \cup {k}, l) \in FlightStates
      BY <1>0, <2>1, FlightFields, FlightAtFields
    <2> QED
      BY <1>2, <1>5, <2>2 DEF ReadPage
  <1> QED
    BY <1>1, <1>3, <1>4, <1>5

LEMMA EndFlightTypes ==
  ASSUME TypeOK, NEW f \in Flights, NEW outcome \in {"ok", "failed"},
         EndFlight(f, outcome)
  PROVE  /\ upstream' \in [Conns -> [Keys -> Nat]] /\ conn' \in Conns
         /\ connectionGeneration' \in Nat /\ keyGeneration' \in Nat
         /\ current' \in Flights \cup {None}
         /\ flight' \in [Flights -> FlightStates]
         /\ call' \in [Keys -> CallStates]
         /\ workflow' \in Workflows /\ waiting' \in Flights \cup {None}
         /\ reconciled' \in {"none", "ok", "failed"}
         /\ reconcileGeneration' \in Nat /\ owed' \in SUBSET Changes
  BY IdleFlightFields DEF TypeOK, EndFlight, generationVars

LEMMA RowTypes ==
  ASSUME TypeOK, NEW f \in Flights, ApplyKeySnapshots(f)
  PROVE  /\ bound' \in SUBSET Keys /\ usage' \in [Keys -> Nat]
         /\ origin' \in [Keys -> Conns \cup {None}] /\ marked' \in SUBSET Keys
         /\ saved' \in [Keys -> Nat]
  <1>1. flight[f] \in FlightStates
    BY DEF TypeOK
  <1> QED
    BY <1>1, FlightFields DEF TypeOK, ApplyKeySnapshots

LEMMA FailsTypes ==
  ASSUME TypeOK, NEW n \in Nat, Fails(n)
  PROVE  /\ faults' \in 0..MaxFaults /\ rotations' \in 0..MaxRotations
         /\ restarts' \in 0..MaxRestarts
  BY KeySyncConstants DEF TypeOK, Fails

LEMMA EndTypes ==
  ASSUME TypeOK, NEW f \in Flights,
         FlightGivesUp(f) \/ ListFails(f) \/ Publish(f) \/ PublishFails(f)
  PROVE  TypeOK'
  <1>0. flight[f] \in FlightStates
    BY DEF TypeOK
  <1>1. CASE FlightGivesUp(f)
    BY <1>1, EndFlightTypes, FailsTypes
       DEF FlightGivesUp, TypeOK, rowVars, cacheVars
  <1>2. CASE ListFails(f)
    <2>1. \/ Fails(1) \/ Fails(2)
      BY <1>2 DEF ListFails
    <2>2. /\ marked' \in SUBSET Keys /\ cacheError' \in BOOLEAN
      BY <1>2 DEF ListFails, TypeOK
    <2>3. \E o \in {"ok", "failed"} : EndFlight(f, o)
      BY <1>2 DEF ListFails
    <2> QED
      BY <1>2, <2>1, <2>2, <2>3, EndFlightTypes, FailsTypes DEF ListFails, TypeOK
  <1>3. CASE Publish(f)
    <2>1. EndFlight(f, "ok") /\ UNCHANGED boundVars
      BY <1>3 DEF Publish
    <2>2. \/ /\ ApplyKeySnapshots(f) /\ syncedFrom' = flight[f].conn
             /\ cacheConn' = flight[f].conn /\ cacheUsage' = flight[f].list
             /\ cacheError' = FALSE
          \/ UNCHANGED syncedFrom /\ UNCHANGED rowVars /\ UNCHANGED cacheVars
      BY <1>3 DEF Publish
    <2>3. /\ bound' \in SUBSET Keys /\ usage' \in [Keys -> Nat]
          /\ origin' \in [Keys -> Conns \cup {None}] /\ marked' \in SUBSET Keys
          /\ saved' \in [Keys -> Nat]
      BY <2>2, RowTypes DEF TypeOK, rowVars
    <2>4. /\ syncedFrom' \in Conns \cup {None} /\ cacheConn' \in Conns \cup {None}
          /\ cacheUsage' \in [Keys -> Nat] /\ cacheError' \in BOOLEAN
      BY <1>0, <2>2, FlightFields DEF TypeOK, cacheVars
    <2> QED
      BY <2>1, <2>3, <2>4, EndFlightTypes DEF TypeOK, boundVars
  <1>4. CASE PublishFails(f)
    <2>1. EndFlight(f, "failed") /\ Fails(1) /\ UNCHANGED syncedFrom
          /\ UNCHANGED cacheVars
      BY <1>4 DEF PublishFails
    <2>2. /\ bound' \in SUBSET Keys /\ usage' \in [Keys -> Nat]
          /\ origin' \in [Keys -> Conns \cup {None}] /\ marked' \in SUBSET Keys
          /\ saved' \in [Keys -> Nat]
      BY <1>4, RowTypes DEF PublishFails, TypeOK, rowVars
    <2> QED
      BY <2>1, <2>2, EndFlightTypes, FailsTypes DEF TypeOK, cacheVars
  <1> QED
    BY <1>1, <1>2, <1>3, <1>4

LEMMA RowStepTypes ==
  ASSUME TypeOK, NEW k \in Keys
  PROVE  /\ DeleteBinding(k) => TypeOK'
         /\ \A old \in Keys : SetBinding(k, old) => TypeOK'
  <1>1. DeleteBinding(k) => TypeOK'
    BY DEF DeleteBinding, OnlyRows, TypeOK, generationVars, cacheVars,
           workflowVars, boundVars
  <1>2. ASSUME NEW old \in Keys, SetBinding(k, old) PROVE TypeOK'
    BY <1>2 DEF SetBinding, OnlyRows, TypeOK, generationVars, cacheVars,
                workflowVars, boundVars
  <1> QED
    BY <1>1, <1>2

LEMMA SettingsTypes ==
  ASSUME TypeOK
  PROVE  /\ \A c \in Conns : RotateConnection(c) => TypeOK'
         /\ UpdateSettings => TypeOK'
         /\ Restart => TypeOK'
         /\ \A c \in Conns, k \in Keys : UpstreamChanges(c, k) => TypeOK'
         /\ BackgroundSync => TypeOK'
  <1>1. ASSUME NEW c \in Conns, RotateConnection(c) PROVE TypeOK'
    <2>1. /\ connectionGeneration' \in Nat /\ keyGeneration' \in Nat
          /\ current' \in Flights \cup {None} /\ cacheConn' \in Conns \cup {None}
          /\ cacheUsage' \in [Keys -> Nat]
      BY <1>1, NoUsageType DEF RotateConnection, BeginConnectionRotation, TypeOK
    <2>2. cacheError' \in BOOLEAN
      BY <1>1 DEF RotateConnection, BeginConnectionRotation
    <2>3. /\ rotations' \in 0..MaxRotations /\ faults' \in 0..MaxFaults
          /\ restarts' \in 0..MaxRestarts
      BY <1>1, KeySyncConstants DEF RotateConnection, TypeOK
    <2>4. conn' \in Conns /\ syncedFrom' \in Conns \cup {None}
      BY <1>1 DEF RotateConnection, TypeOK
    <2>5. /\ UNCHANGED <<upstream, flight, call>>
          /\ UNCHANGED rowVars /\ UNCHANGED workflowVars
      BY <1>1 DEF RotateConnection
    <2> QED
      BY <2>1, <2>2, <2>3, <2>4, <2>5 DEF TypeOK, rowVars, workflowVars
  <1>2. UpdateSettings => TypeOK'
    BY DEF UpdateSettings, TypeOK, rowVars, generationVars, cacheVars,
           workflowVars, boundVars
  <1>3. ASSUME Restart PROVE TypeOK'
    <2>1. /\ connectionGeneration' \in Nat /\ keyGeneration' \in Nat
          /\ current' \in Flights \cup {None}
          /\ flight' \in [Flights -> FlightStates]
          /\ call' \in [Keys -> CallStates]
      BY <1>3, IdleFlightFields, IdleCallFields DEF Restart
    <2>2. /\ cacheConn' \in Conns \cup {None} /\ cacheUsage' \in [Keys -> Nat]
          /\ workflow' \in Workflows /\ waiting' \in Flights \cup {None}
          /\ reconciled' \in {"none", "ok", "failed"}
          /\ reconcileGeneration' \in Nat /\ owed' \in SUBSET Changes
      BY <1>3, NoUsageType DEF Restart, Workflows
    <2>3. cacheError' \in BOOLEAN
      BY <1>3 DEF Restart
    <2>4. /\ rotations' \in 0..MaxRotations /\ faults' \in 0..MaxFaults
          /\ restarts' \in 0..MaxRestarts
      BY <1>3, KeySyncConstants DEF Restart, TypeOK
    <2>5. UNCHANGED <<upstream, conn, syncedFrom>> /\ UNCHANGED rowVars
      BY <1>3 DEF Restart
    <2> QED
      BY <2>1, <2>2, <2>3, <2>4, <2>5 DEF TypeOK, rowVars
  <1>4. ASSUME NEW c \in Conns, NEW k \in Keys, UpstreamChanges(c, k)
        PROVE  TypeOK'
    <2>1. upstream' \in [Conns -> [Keys -> Nat]]
      BY <1>4 DEF UpstreamChanges, TypeOK
    <2> QED
      BY <1>4, <2>1 DEF UpstreamChanges, OnlyUpstream, TypeOK, rowVars,
           generationVars, cacheVars, workflowVars, boundVars
  <1>5. BackgroundSync => TypeOK'
    BY FlightTypes DEF BackgroundSync, OnlyFlights, TypeOK, rowVars,
           generationVars, cacheVars, workflowVars, boundVars
  <1> QED
    BY <1>1, <1>2, <1>3, <1>4, <1>5

LEMMA CallTypes ==
  ASSUME TypeOK, NEW k \in Keys
  PROVE  /\ \A kind \in Singles : AdmitSingle(k, kind) => TypeOK'
         /\ WorkerCalls(k) => TypeOK'
         /\ UpstreamApplies(k) => TypeOK'
         /\ CallFails(k) => TypeOK'
         /\ Confirm(k) => TypeOK'
  <1>0. call[k] \in CallStates /\ call[k].connGen \in Nat
        /\ call[k].conn \in Conns /\ call[k].applied \in Nat
    BY CallFields DEF TypeOK
  <1>1. ASSUME BeginCall(k), workflow' \in Workflows PROVE TypeOK'
    <2>1. CallAt("calling", connectionGeneration, conn, 0) \in CallStates
      BY CallAtFields DEF TypeOK
    <2> QED
      BY <1>1, <2>1 DEF BeginCall, TypeOK, rowVars, generationVars, cacheVars,
                        boundVars
  <1>2. \A kind \in Singles : AdmitSingle(k, kind) => TypeOK'
    BY <1>1 DEF AdmitSingle, Workflows
  <1>3. WorkerCalls(k) => TypeOK'
    BY <1>1 DEF WorkerCalls, TypeOK
  <1>4. ASSUME UpstreamApplies(k) PROVE TypeOK'
    <2> DEFINE v == upstream[call[k].conn][k] + 1
    <2>1. v \in Nat
      BY <1>0 DEF TypeOK
    <2>2. CallAt("calling", call[k].connGen, call[k].conn, v) \in CallStates
      BY <1>0, <2>1, CallAtFields
    <2>3. upstream' \in [Conns -> [Keys -> Nat]]
      BY <1>0, <1>4, <2>1 DEF UpstreamApplies, TypeOK
    <2> QED
      BY <1>4, <2>2, <2>3 DEF UpstreamApplies, TypeOK, rowVars, generationVars,
           cacheVars, workflowVars, boundVars
  <1>5. ASSUME NEW r \in BOOLEAN, NEW ch \in SUBSET Changes, Proceed(r, ch)
        PROVE  /\ workflow' \in Workflows /\ owed' \in SUBSET Changes
               /\ waiting' \in Flights \cup {None}
               /\ reconciled' \in {"none", "ok", "failed"}
               /\ reconcileGeneration' \in Nat
    BY <1>5 DEF Proceed, TypeOK, Workflows
  <1>6. CallFails(k) => TypeOK'
    <2>1. SUFFICES ASSUME CallFails(k) PROVE TypeOK'
      OBVIOUS
    <2>2. /\ workflow' \in Workflows /\ owed' \in SUBSET Changes
          /\ waiting' \in Flights \cup {None}
          /\ reconciled' \in {"none", "ok", "failed"}
          /\ reconcileGeneration' \in Nat
      BY <1>5, <2>1 DEF CallFails
    <2>3. call' \in [Keys -> CallStates]
      BY <2>1, IdleCallFields DEF CallFails, TypeOK
    <2> QED
      BY <2>1, <2>2, <2>3 DEF CallFails, TypeOK, rowVars,
           generationVars, cacheVars, boundVars
  <1>7. ASSUME Confirm(k) PROVE TypeOK'
    <2> DEFINE change == {[conn |-> call[k].conn, key |-> k,
                           version |-> call[k].applied]}
    <2>1. change \in SUBSET Changes
      BY <1>0 DEF Changes
    <2>2. \E r \in BOOLEAN : Proceed(r, change)
      BY <1>7 DEF Confirm
    <2>3. /\ bound' \in SUBSET Keys /\ usage' \in [Keys -> Nat]
          /\ origin' \in [Keys -> Conns \cup {None}] /\ marked' \in SUBSET Keys
          /\ saved' \in [Keys -> Nat]
      <3>1. ApplyConfirmed(k) \/ UNCHANGED rowVars
        BY <1>7 DEF Confirm
      <3> QED
        BY <1>0, <3>1 DEF ApplyConfirmed, rowVars, TypeOK
    <2>4. /\ keyGeneration' \in Nat /\ current' \in Flights \cup {None}
      <3>1. InvalidateFlights \/ UNCHANGED <<keyGeneration, current>>
        BY <1>7 DEF Confirm
      <3> QED
        BY <3>1 DEF InvalidateFlights, TypeOK
    <2>5. UNCHANGED boundVars \/ Fails(1)
      BY <1>7 DEF Confirm
    <2>6. /\ faults' \in 0..MaxFaults /\ rotations' \in 0..MaxRotations
          /\ restarts' \in 0..MaxRestarts
      BY <2>5, FailsTypes DEF boundVars, TypeOK
    <2>7. /\ call' = [call EXCEPT ![k] = IdleCall]
          /\ UNCHANGED <<upstream, conn, syncedFrom, flight>>
          /\ UNCHANGED cacheVars /\ UNCHANGED connectionGeneration
      BY <1>7 DEF Confirm
    <2>8. call' \in [Keys -> CallStates]
      BY <2>7, IdleCallFields DEF TypeOK
    <2>9. /\ workflow' \in Workflows /\ owed' \in SUBSET Changes
          /\ waiting' \in Flights \cup {None}
          /\ reconciled' \in {"none", "ok", "failed"}
          /\ reconcileGeneration' \in Nat
      BY <1>5, <2>1, <2>2
    <2> QED
      BY <2>3, <2>4, <2>6, <2>7, <2>8, <2>9 DEF TypeOK, cacheVars
  <1> QED
    BY <1>2, <1>3, <1>4, <1>6, <1>7

LEMMA WorkflowTypes ==
  ASSUME TypeOK,
         StartBatch \/ EndBatch \/ BeginReconcile \/ StopWaiting \/ EndWorkflow
  PROVE  TypeOK'
  <1>1. CASE BeginReconcile
    <2>1. /\ flight' \in [Flights -> FlightStates]
          /\ current' \in Flights \cup {None} /\ waiting' \in Flights \cup {None}
      <3>1. CASE UNCHANGED <<current, flight>> /\ waiting' = current
        BY <3>1 DEF TypeOK
      <3>2. CASE \E f \in Flights : StartFlight(f) /\ waiting' = f
        BY <3>2, FlightTypes
      <3> QED
        BY <1>1, <3>1, <3>2 DEF BeginReconcile
    <2>2. /\ reconcileGeneration' = connectionGeneration
          /\ UNCHANGED <<workflow, reconciled, owed>>
          /\ UNCHANGED <<upstream, conn, syncedFrom, call>>
          /\ UNCHANGED rowVars /\ UNCHANGED generationVars
          /\ UNCHANGED cacheVars /\ UNCHANGED boundVars
      BY <1>1 DEF BeginReconcile
    <2> QED
      BY <2>1, <2>2 DEF TypeOK, rowVars, generationVars, cacheVars, boundVars
  <1>2. CASE StartBatch \/ EndBatch \/ StopWaiting \/ EndWorkflow
    BY <1>2 DEF StartBatch, EndBatch, StopWaiting, EndWorkflow, OnlyWorkflow,
       TypeOK, Workflows, rowVars, generationVars, cacheVars, boundVars
  <1> QED
    BY <1>1, <1>2

LEMMA TypeStep == TypeOK /\ [Next]_vars => TypeOK'
  <1> SUFFICES ASSUME TypeOK, [Next]_vars PROVE TypeOK'
    OBVIOUS
  <1>1. CASE UNCHANGED vars
    BY <1>1 DEF vars, TypeOK
  <1>2. CASE \E f \in Flights : FlightSteps(f)
    BY <1>2, FlightTypes, EndTypes DEF FlightSteps
  <1>3. CASE Administration
    <2>1. \A k \in Keys : \A old \in bound \cup {k} : old \in Keys
      BY DEF TypeOK
    <2> QED
      BY <1>3, <2>1, RowStepTypes, SettingsTypes, CallTypes, WorkflowTypes
         DEF Administration
  <1>4. CASE \E k \in Keys : WorkerCalls(k) \/ UpstreamApplies(k) \/ CallEnds(k)
    BY <1>4, CallTypes DEF CallEnds
  <1>5. CASE WorkflowSteps \/ StopWaiting
    BY <1>5, WorkflowTypes DEF WorkflowSteps
  <1>6. CASE \/ \E c \in Conns, k \in Keys : UpstreamChanges(c, k)
             \/ BackgroundSync \/ Restart
    BY <1>6, SettingsTypes
  <1> QED
    BY <1>1, <1>2, <1>3, <1>4, <1>5, <1>6 DEF Next

LEMMA TypeInit == Init => TypeOK
  <1> SUFFICES ASSUME Init PROVE TypeOK
    OBVIOUS
  <1>1. /\ upstream \in [Conns -> [Keys -> Nat]]
        /\ usage \in [Keys -> Nat] /\ origin \in [Keys -> Conns \cup {None}]
        /\ cacheUsage \in [Keys -> Nat] /\ saved \in [Keys -> Nat]
    BY NoUsageType DEF Init
  <1>2. /\ flight \in [Flights -> FlightStates]
        /\ call \in [Keys -> CallStates]
    BY IdleFlightFields, IdleCallFields DEF Init
  <1>3. cacheError \in BOOLEAN
    BY DEF Init
  <1>4. /\ faults \in 0..MaxFaults /\ rotations \in 0..MaxRotations
        /\ restarts \in 0..MaxRestarts
    BY KeySyncConstants DEF Init
  <1>5. /\ conn \in Conns /\ syncedFrom \in Conns \cup {None}
        /\ bound \in SUBSET Keys /\ marked \in SUBSET Keys
        /\ connectionGeneration \in Nat /\ keyGeneration \in Nat
        /\ current \in Flights \cup {None} /\ cacheConn \in Conns \cup {None}
        /\ workflow \in Workflows /\ waiting \in Flights \cup {None}
        /\ reconciled \in {"none", "ok", "failed"}
        /\ reconcileGeneration \in Nat /\ owed \in SUBSET Changes
    BY KeySyncConstants DEF Init, Workflows
  <1> QED
    BY <1>1, <1>2, <1>3, <1>4, <1>5 DEF TypeOK

\* Every variable keeps to its type, whatever the number of keys, connections,
\* flights and faults.
THEOREM TypeCorrect == Spec => []TypeOK
  BY TypeInit, TypeStep, PTL DEF Spec

-----------------------------------------------------------------------------
(* The inductive invariant.  What a flight holds is true of the connection  *)
(* it was started on and, while both generations are its own, no older      *)
(* than what was confirmed; rows, cache and answers lie between the last    *)
(* confirmed version and the version upstream.                              *)

FlightTrue(s) ==
  /\ s.connGen <= connectionGeneration /\ s.keyGen <= keyGeneration
  /\ s.pc \in {"settings", "listing"} /\ s.connGen = connectionGeneration =>
       s.conn = conn
  /\ s.pc = "listing" => \A k \in s.read :
       /\ s.list[k] <= upstream[s.conn][k]
       /\ s.connGen = connectionGeneration /\ s.keyGen = keyGeneration =>
            saved[k] <= s.list[k]

FlightsAreTrue == \A f \in Flights : FlightTrue(flight[f])

RowsAreTrue ==
  \A k \in Keys : /\ saved[k] <= usage[k] /\ usage[k] <= upstream[conn][k]
                  /\ k \notin bound => usage[k] = 0

CacheIsTrue == \A k \in Keys : cacheUsage[k] <= upstream[conn][k]

CallsAreTrue ==
  \A k \in Keys : call[k].pc = "calling" /\ call[k].applied # 0 =>
    saved[k] < call[k].applied /\ call[k].applied <= upstream[conn][k]

SafetyInv ==
  /\ TypeOK
  /\ FlightsAreTrue /\ RowsAreTrue /\ CacheIsTrue /\ CallsAreTrue
  /\ ConfirmationsAreSaved /\ OneConnection

LEMMA SafetyInit == Init => SafetyInv
  <1> SUFFICES ASSUME Init PROVE SafetyInv
    OBVIOUS
  <1>1. TypeOK
    BY TypeInit
  <1>2. FlightsAreTrue
    BY IdleFlightFields DEF Init, FlightsAreTrue, FlightTrue
  <1>3. RowsAreTrue /\ CacheIsTrue
    BY NoUsageType, KeySyncConstants DEF Init, RowsAreTrue, CacheIsTrue
  <1>4. CallsAreTrue /\ ConfirmationsAreSaved
    BY IdleCallFields DEF Init, CallsAreTrue, ConfirmationsAreSaved
  <1>5. OneConnection
    BY DEF Init, OneConnection
  <1> QED
    BY <1>1, <1>2, <1>3, <1>4, <1>5 DEF SafetyInv

\* A step of one flight disturbs no other flight.
LEMMA FlightSet ==
  ASSUME TypeOK, FlightsAreTrue, NEW f \in Flights, NEW s \in FlightStates,
         FlightTrue(s), flight' = [flight EXCEPT ![f] = s],
         UNCHANGED <<upstream, conn, connectionGeneration, keyGeneration, saved>>
  PROVE  FlightsAreTrue'
  <1> SUFFICES ASSUME NEW x \in Flights PROVE FlightTrue(flight[x])'
    BY DEF FlightsAreTrue
  <1>1. FlightTrue(flight'[x])
    BY DEF TypeOK, FlightsAreTrue
  <1> QED
    BY <1>1 DEF FlightTrue

\* An idle or queued flight holds nothing that could be wrong.
LEMMA EmptyFlights ==
  ASSUME TypeOK
  PROVE  FlightTrue(IdleFlight) /\ FlightTrue(QueuedFlight)
  BY IdleFlightFields, QueuedFlightFields DEF TypeOK, FlightTrue

\* Versions upstream only grow.
LEMMA UpstreamGrows ==
  ASSUME TypeOK, TypeOK', FlightsAreTrue, RowsAreTrue, CacheIsTrue,
         \A c \in Conns, k \in Keys : upstream[c][k] <= upstream'[c][k],
         UNCHANGED <<conn, bound, usage, saved, connectionGeneration,
                     keyGeneration, flight, cacheUsage>>
  PROVE  FlightsAreTrue' /\ RowsAreTrue' /\ CacheIsTrue'
  <1>1. ASSUME NEW c \in Conns, NEW k \in Keys, NEW n \in Nat,
               n <= upstream[c][k]
        PROVE  n <= upstream'[c][k]
    BY <1>1 DEF TypeOK
  <1>2. ASSUME NEW f \in Flights PROVE FlightTrue(flight[f])'
    <2>1. flight[f] \in FlightStates
      BY DEF TypeOK
    <2>2. FlightTrue(flight[f])
      BY DEF FlightsAreTrue
    <2>3. ASSUME flight[f].pc = "listing", NEW k \in flight[f].read
          PROVE  flight[f].list[k] <= upstream'[flight[f].conn][k]
      BY <1>1, <2>1, <2>2, <2>3, FlightFields DEF FlightTrue
    <2> QED
      BY <2>2, <2>3 DEF FlightTrue
  <1>3. RowsAreTrue'
    BY <1>1 DEF RowsAreTrue, TypeOK
  <1>4. CacheIsTrue'
    BY <1>1 DEF CacheIsTrue, TypeOK
  <1> QED
    BY <1>2, <1>3, <1>4 DEF FlightsAreTrue

\* Steps that touch nothing the invariant speaks of.
LEMMA SafetyQuiet ==
  ASSUME SafetyInv, TypeOK',
         UNCHANGED <<upstream, conn, bound, usage, origin, saved,
                     connectionGeneration, keyGeneration, flight, cacheConn,
                     cacheUsage, call>>,
         syncedFrom' \in {syncedFrom, None}
  PROVE  SafetyInv'
  <1>1. FlightsAreTrue'
    BY DEF SafetyInv, FlightsAreTrue, FlightTrue
  <1>2. RowsAreTrue' /\ CacheIsTrue' /\ CallsAreTrue'
    BY DEF SafetyInv, RowsAreTrue, CacheIsTrue, CallsAreTrue
  <1>3. ConfirmationsAreSaved' /\ OneConnection'
    BY DEF SafetyInv, ConfirmationsAreSaved, OneConnection
  <1> QED
    BY <1>1, <1>2, <1>3 DEF SafetyInv

LEMMA SafetyUpstream ==
  ASSUME SafetyInv, TypeOK', NEW c \in Conns, NEW k \in Keys,
         UpstreamChanges(c, k)
  PROVE  SafetyInv'
  <1>0. TypeOK
    BY DEF SafetyInv
  <1>1. \A d \in Conns, x \in Keys : upstream[d][x] <= upstream'[d][x]
    BY <1>0 DEF UpstreamChanges, TypeOK
  <1>2. UNCHANGED <<conn, syncedFrom, bound, usage, origin, saved,
                    connectionGeneration, keyGeneration, flight, cacheConn,
                    cacheUsage, call>>
    BY DEF UpstreamChanges, OnlyUpstream, rowVars, generationVars, cacheVars
  <1>3. FlightsAreTrue' /\ RowsAreTrue' /\ CacheIsTrue'
    BY <1>0, <1>1, <1>2, UpstreamGrows DEF SafetyInv
  <1>4. ASSUME NEW x \in Keys, call[x].pc = "calling", call[x].applied # 0
        PROVE  saved[x] < call[x].applied /\ call[x].applied <= upstream'[conn][x]
    <2>1. saved[x] < call[x].applied /\ call[x].applied <= upstream[conn][x]
      BY <1>4 DEF SafetyInv, CallsAreTrue
    <2>2. call[x].applied \in Nat /\ upstream[conn][x] \in Nat
          /\ upstream'[conn][x] \in Nat /\ upstream[conn][x] <= upstream'[conn][x]
      BY <1>0, <1>1, <1>2, CallFields DEF TypeOK
    <2> QED
      BY <2>1, <2>2
  <1>5. CallsAreTrue'
    BY <1>2, <1>4 DEF CallsAreTrue
  <1>6. ConfirmationsAreSaved' /\ OneConnection'
    BY <1>2 DEF SafetyInv, ConfirmationsAreSaved, OneConnection
  <1> QED
    BY <1>3, <1>5, <1>6 DEF SafetyInv

\* A flight goes on without storing anything.
LEMMA SafetyFlight ==
  ASSUME SafetyInv, TypeOK', NEW f \in Flights, NEW s \in FlightStates,
         FlightTrue(s), flight' = [flight EXCEPT ![f] = s],
         UNCHANGED <<upstream, conn, syncedFrom, bound, usage, origin, saved,
                     connectionGeneration, keyGeneration, cacheConn,
                     cacheUsage, call>>
  PROVE  SafetyInv'
  <1>1. FlightsAreTrue'
    BY FlightSet DEF SafetyInv
  <1>2. RowsAreTrue' /\ CacheIsTrue' /\ CallsAreTrue'
    BY DEF SafetyInv, RowsAreTrue, CacheIsTrue, CallsAreTrue
  <1>3. ConfirmationsAreSaved' /\ OneConnection'
    BY DEF SafetyInv, ConfirmationsAreSaved, OneConnection
  <1> QED
    BY <1>1, <1>2, <1>3 DEF SafetyInv

LEMMA SafetyFlightGoesOn ==
  ASSUME SafetyInv, TypeOK', NEW f \in Flights,
         \/ OnlyFlights /\ StartFlight(f)
         \/ ReadSettings(f) \/ ReadKeyGeneration(f)
         \/ \E k \in Keys : ReadPage(f, k)
  PROVE  SafetyInv'
  <1>0. TypeOK /\ flight[f] \in FlightStates /\ FlightTrue(flight[f])
    BY DEF SafetyInv, TypeOK, FlightsAreTrue
  <1>1. ASSUME NEW s \in FlightStates, FlightTrue(s), OnlyFlights,
               flight' = [flight EXCEPT ![f] = s]
        PROVE  SafetyInv'
    <2>1. UNCHANGED <<upstream, conn, syncedFrom, bound, usage, origin, saved,
                      connectionGeneration, keyGeneration, cacheConn,
                      cacheUsage, call>>
      BY <1>1 DEF OnlyFlights, rowVars, generationVars, cacheVars
    <2> QED
      BY <1>1, <2>1, SafetyFlight
  <1>2. CASE OnlyFlights /\ StartFlight(f)
    BY <1>0, <1>1, <1>2, QueuedFlightFields, EmptyFlights DEF StartFlight
  <1>3. CASE ReadSettings(f)
    <2> DEFINE s == FlightAt("settings", connectionGeneration, conn, 0, {}, NoUsage)
    <2>1. /\ s \in FlightStates /\ s.pc = "settings"
          /\ s.connGen = connectionGeneration /\ s.conn = conn /\ s.keyGen = 0
      <3>1. connectionGeneration \in Nat /\ conn \in Conns
        BY <1>0 DEF TypeOK
      <3> QED
        BY <3>1, FlightAtFields, NoUsageType
    <2>2. FlightTrue(s)
      BY <1>0, <2>1 DEF FlightTrue, TypeOK
    <2> QED
      BY <1>1, <1>3, <2>1, <2>2 DEF ReadSettings
  <1>4. CASE ReadKeyGeneration(f)
    <2> DEFINE s == FlightAt("listing", flight[f].connGen, flight[f].conn,
                             keyGeneration, {}, NoUsage)
    <2>1. /\ s \in FlightStates /\ s.pc = "listing"
          /\ s.connGen = flight[f].connGen /\ s.conn = flight[f].conn
          /\ s.keyGen = keyGeneration /\ s.read = {}
      <3>1. /\ flight[f].connGen \in Nat /\ flight[f].conn \in Conns
            /\ keyGeneration \in Nat
        BY <1>0, FlightFields DEF TypeOK
      <3> QED
        BY <3>1, FlightAtFields, NoUsageType
    <2>2. flight[f].pc = "settings"
      BY <1>4 DEF ReadKeyGeneration
    <2>3. FlightTrue(s)
      BY <1>0, <2>1, <2>2 DEF FlightTrue, TypeOK
    <2> QED
      BY <1>1, <1>4, <2>1, <2>3 DEF ReadKeyGeneration
  <1>5. ASSUME NEW k \in Keys, ReadPage(f, k) PROVE SafetyInv'
    <2> DEFINE old == flight[f]
               l == [old.list EXCEPT ![k] = upstream[old.conn][k]]
               s == FlightAt("listing", old.connGen, old.conn, old.keyGen,
                             old.read \cup {k}, l)
    <2>1. /\ l \in [Keys -> Nat] /\ old.conn \in Conns /\ old.read \in SUBSET Keys
          /\ old.connGen \in Nat /\ old.keyGen \in Nat
      BY <1>0, FlightFields DEF TypeOK
    <2>2. /\ s \in FlightStates /\ s.pc = "listing" /\ s.connGen = old.connGen
          /\ s.conn = old.conn /\ s.keyGen = old.keyGen
          /\ s.read = old.read \cup {k} /\ s.list = l
      BY <2>1, FlightAtFields
    <2>3. old.pc = "listing"
      BY <1>5 DEF ReadPage
    <2>4. ASSUME NEW x \in s.read
          PROVE  /\ l[x] <= upstream[old.conn][x]
                 /\ old.connGen = connectionGeneration /\ old.keyGen = keyGeneration
                      => saved[x] <= l[x]
      <3>1. CASE x = k
        <4>1. l[k] = upstream[old.conn][k] /\ l[k] \in Nat
          BY <1>0, <2>1, FlightFields DEF TypeOK
        <4>2. old.connGen = connectionGeneration => old.conn = conn
          BY <1>0, <2>3 DEF FlightTrue
        <4>3. saved[k] <= upstream[conn][k]
          BY <1>0 DEF SafetyInv, RowsAreTrue, TypeOK
        <4> QED
          BY <3>1, <4>1, <4>2, <4>3
      <3>2. CASE x # k
        <4>1. x \in old.read /\ l[x] = old.list[x]
          BY <1>0, <2>1, <2>2, <3>2, FlightFields
        <4> QED
          BY <1>0, <2>3, <4>1 DEF FlightTrue
      <3> QED
        BY <3>1, <3>2
    <2>5. FlightTrue(s)
      BY <1>0, <2>2, <2>3, <2>4 DEF FlightTrue
    <2> QED
      BY <1>1, <1>5, <2>2, <2>5 DEF ReadPage
  <1> QED
    BY <1>2, <1>3, <1>4, <1>5

\* A flight ends: what it stores is a complete list that no confirmation and
\* no rotation has overtaken.
LEMMA SafetyFlightEnds ==
  ASSUME SafetyInv, TypeOK', NEW f \in Flights,
         FlightGivesUp(f) \/ ListFails(f) \/ Publish(f) \/ PublishFails(f)
  PROVE  SafetyInv'
  <1>0. TypeOK /\ flight[f] \in FlightStates /\ FlightTrue(flight[f])
    BY DEF SafetyInv, TypeOK, FlightsAreTrue
  <1>1. ASSUME NEW o \in {"ok", "failed"}, EndFlight(f, o)
        PROVE  /\ flight' = [flight EXCEPT ![f] = IdleFlight]
               /\ UNCHANGED <<upstream, conn, connectionGeneration,
                              keyGeneration, call>>
    BY <1>1 DEF EndFlight, generationVars
  <1>2. ASSUME NEW o \in {"ok", "failed"}, EndFlight(f, o),
               UNCHANGED <<syncedFrom, bound, usage, origin, saved, cacheConn,
                           cacheUsage>>
        PROVE  SafetyInv'
    BY <1>0, <1>1, <1>2, SafetyFlight, IdleFlightFields, EmptyFlights
  <1>3. ASSUME SameConnection(f), SameKeys(f), flight[f].pc = "listing",
               flight[f].read = Keys, NEW o \in {"ok", "failed"},
               EndFlight(f, o), ApplyKeySnapshots(f),
               \/ UNCHANGED <<syncedFrom, cacheConn, cacheUsage>>
               \/ /\ syncedFrom' = flight[f].conn /\ cacheConn' = flight[f].conn
                  /\ cacheUsage' = flight[f].list
        PROVE  SafetyInv'
    <2> DEFINE l == flight[f].list
    <2>1. /\ flight[f].conn = conn /\ l \in [Keys -> Nat]
          /\ \A k \in Keys : saved[k] <= l[k] /\ l[k] <= upstream[conn][k]
      BY <1>0, <1>3, FlightFields DEF FlightTrue, SameConnection, SameKeys
    <2>2. UNCHANGED <<upstream, conn, connectionGeneration, keyGeneration, call,
                      bound, saved>>
      BY <1>1, <1>3 DEF ApplyKeySnapshots
    <2>3. FlightsAreTrue'
      BY <1>0, <1>1, <1>3, <2>2, FlightSet, IdleFlightFields, EmptyFlights
         DEF SafetyInv
    <2>4. RowsAreTrue'
      BY <1>3, <2>1, <2>2 DEF SafetyInv, RowsAreTrue, ApplyKeySnapshots
    <2>5. CacheIsTrue'
      BY <1>3, <2>1, <2>2 DEF SafetyInv, CacheIsTrue
    <2>6. CallsAreTrue' /\ ConfirmationsAreSaved'
      BY <2>2 DEF SafetyInv, CallsAreTrue, ConfirmationsAreSaved
    <2>7. OneConnection'
      <3>1. \A k \in bound : origin'[k] = conn
        BY <1>0, <1>3, <2>1 DEF ApplyKeySnapshots, TypeOK
      <3> QED
        BY <1>3, <2>1, <2>2, <3>1 DEF SafetyInv, OneConnection
    <2> QED
      BY <2>3, <2>4, <2>5, <2>6, <2>7 DEF SafetyInv
  <1>4. CASE FlightGivesUp(f)
    BY <1>2, <1>4 DEF FlightGivesUp, rowVars, cacheVars
  <1>5. CASE ListFails(f)
    <2>1. /\ \E o \in {"ok", "failed"} : EndFlight(f, o)
          /\ UNCHANGED <<syncedFrom, bound, usage, origin, saved, cacheConn,
                         cacheUsage>>
      BY <1>5 DEF ListFails
    <2> QED
      BY <1>2, <2>1
  <1>6. CASE Publish(f)
    <2>1. /\ flight[f].pc = "listing" /\ flight[f].read = Keys
          /\ EndFlight(f, "ok")
      BY <1>6 DEF Publish
    <2>2. \/ /\ SameConnection(f) /\ SameKeys(f) /\ ApplyKeySnapshots(f)
             /\ syncedFrom' = flight[f].conn /\ cacheConn' = flight[f].conn
             /\ cacheUsage' = flight[f].list
          \/ UNCHANGED <<syncedFrom, bound, usage, origin, saved, cacheConn,
                         cacheUsage>>
      BY <1>6 DEF Publish, rowVars, cacheVars
    <2> QED
      BY <1>2, <1>3, <2>1, <2>2
  <1>7. CASE PublishFails(f)
    <2>1. /\ flight[f].pc = "listing" /\ flight[f].read = Keys
          /\ SameConnection(f) /\ SameKeys(f) /\ EndFlight(f, "failed")
          /\ UNCHANGED <<syncedFrom, cacheConn, cacheUsage>>
      BY <1>7 DEF PublishFails, cacheVars
    <2>2. \/ ApplyKeySnapshots(f)
          \/ UNCHANGED <<bound, usage, origin, saved>>
      BY <1>7 DEF PublishFails, rowVars
    <2> QED
      BY <1>2, <1>3, <2>1, <2>2
  <1> QED
    BY <1>4, <1>5, <1>6, <1>7

\* Bindings change while no call is under way.
LEMMA SafetyRows ==
  ASSUME SafetyInv, TypeOK', NEW k \in Keys,
         DeleteBinding(k) \/ \E old \in Keys : SetBinding(k, old)
  PROVE  SafetyInv'
  <1>0. TypeOK
    BY DEF SafetyInv
  <1>1. /\ UNCHANGED <<upstream, conn, syncedFrom, connectionGeneration,
                       keyGeneration, flight, cacheConn, cacheUsage, call>>
        /\ NoCalls
    BY DEF DeleteBinding, SetBinding, OnlyRows, generationVars, cacheVars
  <1>2. \A x \in Keys : saved'[x] \in {saved[x], 0}
    BY <1>0 DEF DeleteBinding, SetBinding, TypeOK
  <1>3. ASSUME NEW f \in Flights PROVE FlightTrue(flight[f])'
    <2>1. FlightTrue(flight[f]) /\ flight[f].read \in SUBSET Keys
          /\ flight[f].list \in [Keys -> Nat]
      BY <1>0, FlightFields DEF SafetyInv, FlightsAreTrue, TypeOK
    <2>2. ASSUME flight[f].pc = "listing", NEW x \in flight[f].read,
                 saved[x] <= flight[f].list[x]
          PROVE  saved'[x] <= flight[f].list[x]
      BY <1>0, <1>2, <2>1, <2>2 DEF TypeOK
    <2> QED
      BY <1>1, <2>1, <2>2 DEF FlightTrue
  <1>4. RowsAreTrue'
    <2>1. CASE DeleteBinding(k)
      BY <1>0, <1>1, <2>1 DEF SafetyInv, RowsAreTrue, DeleteBinding, TypeOK
    <2>2. ASSUME NEW old \in Keys, SetBinding(k, old) PROVE RowsAreTrue'
      <3>1. cacheUsage[k] \in Nat /\ cacheUsage[k] <= upstream[conn][k]
        BY <1>0 DEF SafetyInv, CacheIsTrue, TypeOK
      <3>2. \A x \in Keys : upstream[conn][x] \in Nat
        BY <1>0 DEF TypeOK
      <3> QED
        BY <1>0, <1>1, <2>2, <3>1, <3>2
           DEF SafetyInv, RowsAreTrue, SetBinding, TypeOK
    <2> QED
      BY <2>1, <2>2
  <1>5. CacheIsTrue'
    BY <1>1 DEF SafetyInv, CacheIsTrue
  <1>6. CallsAreTrue' /\ ConfirmationsAreSaved'
    BY <1>1 DEF NoCalls, CallsAreTrue, ConfirmationsAreSaved
  <1>7. OneConnection'
    <2>1. \A x \in bound' : origin'[x] = conn
      BY <1>0 DEF SafetyInv, OneConnection, DeleteBinding, SetBinding, TypeOK
    <2> QED
      BY <1>1, <2>1 DEF SafetyInv, OneConnection
  <1> QED
    BY <1>3, <1>4, <1>5, <1>6, <1>7 DEF SafetyInv, FlightsAreTrue

LEMMA SafetyRotation ==
  ASSUME SafetyInv, TypeOK', NEW c \in Conns, RotateConnection(c)
  PROVE  SafetyInv'
  <1>0. TypeOK
    BY DEF SafetyInv
  <1>1. /\ UNCHANGED <<upstream, flight, call, bound, usage, origin, saved,
                       keyGeneration>>
        /\ connectionGeneration' = connectionGeneration + 1
        /\ cacheConn' = None /\ cacheUsage' = NoUsage
        /\ NoCalls
    BY DEF RotateConnection, BeginConnectionRotation, rowVars
  <1>2. \/ bound = {} /\ conn' = c /\ syncedFrom' = None
        \/ UNCHANGED <<conn, syncedFrom>>
    BY DEF RotateConnection
  <1>3. ASSUME NEW f \in Flights PROVE FlightTrue(flight[f])'
    <2>1. FlightTrue(flight[f]) /\ flight[f].connGen \in Nat
          /\ flight[f].keyGen \in Nat
      BY <1>0, FlightFields DEF SafetyInv, FlightsAreTrue, TypeOK
    <2>2. flight[f].connGen # connectionGeneration'
          /\ flight[f].connGen <= connectionGeneration'
      BY <1>0, <1>1, <2>1 DEF FlightTrue, TypeOK
    <2> QED
      BY <1>1, <2>1, <2>2 DEF FlightTrue
  <1>4. RowsAreTrue'
    <2>1. CASE bound = {}
      <3>1. \A x \in Keys : usage[x] = 0 /\ saved[x] = 0
        BY <1>0, <2>1 DEF SafetyInv, RowsAreTrue, TypeOK
      <3>2. \A x \in Keys : upstream'[conn'][x] \in Nat
        BY DEF TypeOK
      <3> QED
        BY <1>1, <3>1, <3>2 DEF RowsAreTrue
    <2>2. CASE conn' = conn
      BY <1>1, <2>2 DEF SafetyInv, RowsAreTrue
    <2> QED
      BY <1>2, <2>1, <2>2
  <1>5. CacheIsTrue'
    <2>1. \A x \in Keys : upstream'[conn'][x] \in Nat
      BY DEF TypeOK
    <2> QED
      BY <1>1, <2>1, NoUsageType DEF CacheIsTrue
  <1>6. CallsAreTrue' /\ ConfirmationsAreSaved'
    BY <1>1 DEF NoCalls, CallsAreTrue, ConfirmationsAreSaved
  <1>7. OneConnection'
    BY <1>1, <1>2 DEF SafetyInv, OneConnection
  <1> QED
    BY <1>3, <1>4, <1>5, <1>6, <1>7 DEF SafetyInv, FlightsAreTrue

LEMMA SafetyRestart ==
  ASSUME SafetyInv, TypeOK', Restart
  PROVE  SafetyInv'
  <1>0. TypeOK
    BY DEF SafetyInv
  <1>1. /\ UNCHANGED <<upstream, conn, syncedFrom, bound, usage, origin, saved>>
        /\ cacheConn' = None /\ cacheUsage' = NoUsage
        /\ connectionGeneration' = 0 /\ keyGeneration' = 0
        /\ flight' = [f \in Flights |-> IdleFlight]
        /\ call' = [k \in Keys |-> IdleCall]
    BY DEF Restart, rowVars
  <1>2. FlightsAreTrue'
    BY <1>1, IdleFlightFields DEF FlightsAreTrue, FlightTrue
  <1>3. RowsAreTrue'
    BY <1>1 DEF SafetyInv, RowsAreTrue
  <1>4. CacheIsTrue'
    BY <1>0, <1>1, NoUsageType DEF CacheIsTrue, TypeOK
  <1>5. CallsAreTrue' /\ ConfirmationsAreSaved'
    BY <1>1, IdleCallFields DEF CallsAreTrue, ConfirmationsAreSaved
  <1>6. OneConnection'
    BY <1>1 DEF SafetyInv, OneConnection
  <1> QED
    BY <1>2, <1>3, <1>4, <1>5, <1>6 DEF SafetyInv

\* A call begins, is carried out or ends without an answer.
LEMMA SafetyCalls ==
  ASSUME SafetyInv, TypeOK', NEW k \in Keys,
         BeginCall(k) \/ UpstreamApplies(k) \/ CallFails(k)
  PROVE  SafetyInv'
  <1>0. /\ TypeOK /\ call[k].connGen \in Nat /\ call[k].conn \in Conns
        /\ call[k].applied \in Nat
    BY CallFields DEF SafetyInv, TypeOK
  <1>1. UNCHANGED <<conn, syncedFrom, flight, bound, usage, origin, saved,
                    connectionGeneration, keyGeneration, cacheConn, cacheUsage>>
    BY DEF BeginCall, UpstreamApplies, CallFails, rowVars, generationVars, cacheVars
  <1>2. \A d \in Conns, x \in Keys : upstream[d][x] <= upstream'[d][x]
    <2>1. CASE UpstreamApplies(k)
      <3> DEFINE v == upstream[call[k].conn][k] + 1
      <3>1. upstream' = [upstream EXCEPT ![call[k].conn][k] = v]
        BY <2>1 DEF UpstreamApplies
      <3>2. upstream \in [Conns -> [Keys -> Nat]]
        BY <1>0 DEF TypeOK
      <3> QED
        BY <1>0, <3>1, <3>2
    <2>2. CASE UNCHANGED upstream
      BY <1>0, <2>2 DEF TypeOK
    <2> QED
      BY <2>1, <2>2 DEF BeginCall, CallFails
  <1>4. FlightsAreTrue' /\ RowsAreTrue' /\ CacheIsTrue'
    BY <1>0, <1>1, <1>2, UpstreamGrows DEF SafetyInv
  <1>5. OneConnection'
    BY <1>1 DEF SafetyInv, OneConnection
  <1>6. CallsAreTrue' /\ ConfirmationsAreSaved'
    <2>1. CASE BeginCall(k)
      <3> DEFINE a == CallAt("calling", connectionGeneration, conn, 0)
      <3>1. /\ a.pc = "calling" /\ a.connGen = connectionGeneration
            /\ a.conn = conn /\ a.applied = 0
        <4>1. connectionGeneration \in Nat /\ conn \in Conns
          BY <1>0 DEF TypeOK
        <4> QED
          BY <4>1, CallAtFields
      <3>2. call' = [call EXCEPT ![k] = a] /\ k \in bound /\ UNCHANGED upstream
        BY <2>1 DEF BeginCall
      <3>3. \A x \in Keys : call'[x] = IF x = k THEN a ELSE call[x]
        BY <1>0, <3>2 DEF TypeOK
      <3> QED
        BY <1>1, <3>1, <3>2, <3>3
           DEF SafetyInv, CallsAreTrue, ConfirmationsAreSaved
    <2>2. CASE UpstreamApplies(k)
      <3> DEFINE v == upstream[call[k].conn][k] + 1
                 a == CallAt("calling", call[k].connGen, call[k].conn, v)
      <3>1. v \in Nat
        BY <1>0 DEF TypeOK
      <3>2. /\ a.pc = "calling" /\ a.connGen = call[k].connGen
            /\ a.conn = call[k].conn /\ a.applied = v
        BY <1>0, <3>1, CallAtFields
      <3>3. /\ call' = [call EXCEPT ![k] = a] /\ call[k].pc = "calling"
            /\ upstream' = [upstream EXCEPT ![call[k].conn][k] = v]
        BY <2>2 DEF UpstreamApplies
      <3>4. \A x \in Keys : call'[x] = IF x = k THEN a ELSE call[x]
        BY <1>0, <3>3 DEF TypeOK
      <3>5. call[k].conn = conn
        BY <3>3 DEF SafetyInv, ConfirmationsAreSaved
      <3>6. upstream'[conn][k] = v /\ saved[k] < v
        BY <1>0, <3>3, <3>5 DEF SafetyInv, RowsAreTrue, TypeOK
      <3>7. \A x \in Keys : x # k => upstream'[conn][x] = upstream[conn][x]
        BY <1>0, <3>3, <3>5 DEF TypeOK
      <3>8. ASSUME NEW x \in Keys, call'[x].pc = "calling", call'[x].applied # 0
            PROVE  saved[x] < call'[x].applied
                   /\ call'[x].applied <= upstream'[conn][x]
        <4>1. CASE x = k
          BY <3>1, <3>2, <3>4, <3>6, <4>1
        <4>2. CASE x # k
          BY <3>4, <3>7, <3>8, <4>2 DEF SafetyInv, CallsAreTrue
        <4> QED
          BY <4>1, <4>2
      <3>9. CallsAreTrue'
        BY <1>1, <3>8 DEF CallsAreTrue
      <3> QED
        BY <1>1, <3>2, <3>3, <3>4, <3>9 DEF SafetyInv, ConfirmationsAreSaved
    <2>3. CASE CallFails(k)
      <3>1. \A x \in Keys : call'[x] = IF x = k THEN IdleCall ELSE call[x]
        BY <1>0, <2>3 DEF CallFails, TypeOK
      <3> QED
        BY <1>1, <2>3, <3>1, IdleCallFields
           DEF SafetyInv, CallsAreTrue, ConfirmationsAreSaved, CallFails
    <2> QED
      BY <2>1, <2>2, <2>3
  <1> QED
    BY <1>4, <1>5, <1>6 DEF SafetyInv

\* A confirmation: a stored one ends every list under way, so the list it
\* would have been lost to is void.
LEMMA ConfirmEffect ==
  ASSUME SafetyInv, NEW k \in Keys, Confirm(k)
  PROVE  /\ UNCHANGED <<upstream, conn, syncedFrom, flight, bound, cacheConn,
                        cacheUsage, connectionGeneration>>
         /\ call' = [call EXCEPT ![k] = IdleCall]
         /\ call[k].pc = "calling" /\ call[k].applied # 0
         /\ call[k].connGen = connectionGeneration /\ call[k].conn = conn
         /\ k \in bound
         /\ keyGeneration' = keyGeneration + 1
         /\ ApplyConfirmed(k) \/ UNCHANGED <<usage, origin, saved>>
  <1>1. /\ call[k].connGen = connectionGeneration /\ call[k].conn = conn
        /\ k \in bound
    BY DEF Confirm, SafetyInv, ConfirmationsAreSaved
  <1>2. InvalidateFlights /\ (ApplyConfirmed(k) \/ UNCHANGED rowVars)
    BY <1>1 DEF Confirm
  <1>3. keyGeneration' = keyGeneration + 1
    BY <1>2 DEF InvalidateFlights
  <1>4. /\ UNCHANGED bound
        /\ ApplyConfirmed(k) \/ UNCHANGED <<usage, origin, saved>>
    BY <1>2 DEF ApplyConfirmed, rowVars
  <1> QED
    BY <1>1, <1>3, <1>4 DEF Confirm, cacheVars

LEMMA SafetyConfirm ==
  ASSUME SafetyInv, TypeOK', NEW k \in Keys, Confirm(k)
  PROVE  SafetyInv'
  <1>0. /\ TypeOK /\ call[k].applied \in Nat
    BY CallFields DEF SafetyInv, TypeOK
  <1>1. /\ UNCHANGED <<upstream, conn, syncedFrom, flight, bound, cacheConn,
                       cacheUsage, connectionGeneration>>
        /\ call' = [call EXCEPT ![k] = IdleCall]
        /\ call[k].pc = "calling" /\ call[k].applied # 0 /\ call[k].conn = conn
        /\ keyGeneration' = keyGeneration + 1
        /\ ApplyConfirmed(k) \/ UNCHANGED <<usage, origin, saved>>
    BY ConfirmEffect
  <1>2. ASSUME NEW f \in Flights PROVE FlightTrue(flight[f])'
    <2>1. FlightTrue(flight[f]) /\ flight[f].keyGen \in Nat
      BY <1>0, FlightFields DEF SafetyInv, FlightsAreTrue, TypeOK
    <2>2. flight[f].keyGen # keyGeneration' /\ flight[f].keyGen <= keyGeneration'
      BY <1>0, <1>1, <2>1 DEF FlightTrue, TypeOK
    <2> QED
      BY <1>1, <2>1, <2>2 DEF FlightTrue
  <1>3. \A x \in Keys : call'[x] = IF x = k THEN IdleCall ELSE call[x]
    BY <1>0, <1>1 DEF TypeOK
  <1>4. \A x \in Keys : x # k => usage'[x] = usage[x] /\ saved'[x] = saved[x]
    BY <1>0, <1>1 DEF ApplyConfirmed, TypeOK
  <1>5. \/ usage'[k] = call[k].applied /\ saved'[k] = call[k].applied
        \/ usage'[k] = usage[k] /\ saved'[k] = saved[k]
    BY <1>0, <1>1 DEF ApplyConfirmed, TypeOK
  <1>6. call[k].applied <= upstream[conn][k] /\ k \in bound
    BY <1>1, ConfirmEffect DEF SafetyInv, CallsAreTrue
  <1>7. RowsAreTrue'
    BY <1>0, <1>1, <1>4, <1>5, <1>6 DEF SafetyInv, RowsAreTrue
  <1>8. CacheIsTrue'
    BY <1>1 DEF SafetyInv, CacheIsTrue
  <1>9. CallsAreTrue'
    BY <1>1, <1>3, <1>4, IdleCallFields DEF SafetyInv, CallsAreTrue
  <1>10. ConfirmationsAreSaved'
    BY <1>1, <1>3, IdleCallFields DEF SafetyInv, ConfirmationsAreSaved
  <1>11. OneConnection'
    <2>1. \A x \in bound : origin'[x] = conn
      BY <1>0, <1>1 DEF SafetyInv, OneConnection, ApplyConfirmed, TypeOK
    <2> QED
      BY <1>1, <2>1 DEF SafetyInv, OneConnection
  <1> QED
    BY <1>2, <1>7, <1>8, <1>9, <1>10, <1>11 DEF SafetyInv, FlightsAreTrue

LEMMA SafetyWorkflow ==
  ASSUME SafetyInv, TypeOK',
         StartBatch \/ EndBatch \/ BeginReconcile \/ StopWaiting \/ EndWorkflow
  PROVE  SafetyInv'
  <1>1. UNCHANGED <<upstream, conn, syncedFrom, bound, usage, origin, saved,
                    connectionGeneration, keyGeneration, cacheConn, cacheUsage,
                    call>>
    BY DEF StartBatch, EndBatch, BeginReconcile, StopWaiting, EndWorkflow,
           OnlyWorkflow, rowVars, generationVars, cacheVars
  <1>2. CASE UNCHANGED flight
    BY <1>1, <1>2, SafetyQuiet
  <1>3. ASSUME NEW f \in Flights, StartFlight(f) PROVE SafetyInv'
    BY <1>1, <1>3, SafetyFlight, QueuedFlightFields, EmptyFlights
       DEF StartFlight, SafetyInv
  <1> QED
    BY <1>2, <1>3 DEF StartBatch, EndBatch, BeginReconcile, StopWaiting,
                      EndWorkflow, OnlyWorkflow

LEMMA SafetyStep == SafetyInv /\ [Next]_vars => SafetyInv'
  <1> SUFFICES ASSUME SafetyInv, [Next]_vars PROVE SafetyInv'
    OBVIOUS
  <1>0. TypeOK /\ TypeOK'
    BY TypeStep DEF SafetyInv
  <1>1. CASE UNCHANGED vars
    BY <1>0, <1>1, SafetyQuiet DEF vars
  <1>2. CASE \E f \in Flights : FlightSteps(f)
    BY <1>0, <1>2, SafetyFlightGoesOn, SafetyFlightEnds DEF FlightSteps
  <1>3. CASE Administration
    <2>1. CASE \E k \in Keys : DeleteBinding(k)
                 \/ \E old \in bound \cup {k} : SetBinding(k, old)
      BY <1>0, <2>1, SafetyRows DEF TypeOK
    <2>2. CASE \E c \in Conns : RotateConnection(c)
      BY <1>0, <2>2, SafetyRotation
    <2>3. CASE UpdateSettings
      BY <1>0, <2>3, SafetyQuiet
         DEF UpdateSettings, rowVars, generationVars, cacheVars
    <2>4. CASE \E k \in Keys, kind \in Singles : AdmitSingle(k, kind)
      BY <1>0, <2>4, SafetyCalls DEF AdmitSingle
    <2>5. CASE StartBatch
      BY <1>0, <2>5, SafetyWorkflow
    <2> QED
      BY <1>3, <2>1, <2>2, <2>3, <2>4, <2>5 DEF Administration
  <1>4. CASE \E k \in Keys : WorkerCalls(k) \/ UpstreamApplies(k) \/ CallEnds(k)
    BY <1>0, <1>4, SafetyCalls, SafetyConfirm DEF CallEnds, WorkerCalls
  <1>5. CASE WorkflowSteps \/ StopWaiting
    BY <1>0, <1>5, SafetyWorkflow DEF WorkflowSteps
  <1>6. CASE \E c \in Conns, k \in Keys : UpstreamChanges(c, k)
    BY <1>0, <1>6, SafetyUpstream
  <1>7. CASE BackgroundSync
    BY <1>0, <1>7, SafetyFlightGoesOn DEF BackgroundSync
  <1>8. CASE Restart
    BY <1>0, <1>8, SafetyRestart
  <1> QED
    BY <1>1, <1>2, <1>3, <1>4, <1>5, <1>6, <1>7, <1>8 DEF Next

LEMMA SafetyHolds == Spec => []SafetyInv
  BY SafetyInit, SafetyStep, PTL DEF Spec

\* No row ever shows a version older than the last change confirmed for it:
\* Publish compares both generations under the mutexes that a confirmation
\* takes to count keyGeneration up.
THEOREM ConfirmedStays == Spec => []NeverOlderThanConfirmed
  <1>1. SafetyInv => NeverOlderThanConfirmed
    BY DEF SafetyInv, TypeOK, RowsAreTrue, NeverOlderThanConfirmed
  <1> QED
    BY <1>1, SafetyHolds, PTL

\* Rows, cache and last sync are of the current connection: putSettings
\* starts a new generation, empties the cache and refuses while keys are bound.
THEOREM RotationIsClean == Spec => []OneConnection
  <1>1. SafetyInv => OneConnection
    BY DEF SafetyInv
  <1> QED
    BY <1>1, SafetyHolds, PTL

\* What ResetQuota and SetKeyLimits confirm finds the connection it was made
\* on and a row: bindingMu keeps rotations and bindings waiting.
THEOREM ConfirmationsMeetTheirRow == Spec => []ConfirmationsAreSaved
  <1>1. SafetyInv => ConfirmationsAreSaved
    BY DEF SafetyInv
  <1> QED
    BY <1>1, SafetyHolds, PTL

-----------------------------------------------------------------------------
(* Every step keeps the abstract promise.                                  *)

LEMMA RefinesInit == Init => Published!PublishedInit
  <1> SUFFICES ASSUME Init PROVE Published!PublishedInit
    OBVIOUS
  <1>1. FirstConn \in Conns
    BY KeySyncConstants
  <1> QED
    BY <1>1 DEF Init, NoUsage, Published!PublishedInit

\* Whatever a list changes in the rows is a refresh: the invariant after the
\* step bounds the new versions.
LEMMA ListsRefresh ==
  ASSUME SafetyInv', UNCHANGED <<upstream, conn, bound, saved>>
  PROVE  Published!PublishedNext
  <1>1. usage' \in [Keys -> Nat]
    BY DEF SafetyInv, TypeOK
  <1>2. \A k \in Keys : /\ saved[k] <= usage'[k] /\ usage'[k] <= upstream[conn][k]
                        /\ k \notin bound => usage'[k] = 0
    BY DEF SafetyInv, RowsAreTrue
  <1>3. bound \in SUBSET Keys
    BY DEF SafetyInv, TypeOK
  <1>4. usage' = [k \in Keys |-> IF k \in bound THEN usage'[k] ELSE 0]
    BY <1>1, <1>2
  <1>5. Published!Refresh
    BY <1>2, <1>3, <1>4 DEF Published!Refresh
  <1> QED
    BY <1>5 DEF Published!PublishedNext

LEMMA ChangesChange ==
  ASSUME TypeOK, NEW k \in Keys,
         UpstreamApplies(k) \/ \E c \in Conns : UpstreamChanges(c, k)
  PROVE  Published!PublishedNext
  <1>1. UNCHANGED <<conn, bound, usage, saved>>
    BY DEF UpstreamApplies, UpstreamChanges, OnlyUpstream, rowVars
  <1>2. call[k].conn \in Conns
    BY CallFields DEF TypeOK
  <1>3. \E c \in Conns : upstream' = [upstream EXCEPT ![c][k] = @ + 1]
    BY <1>2 DEF UpstreamApplies, UpstreamChanges
  <1> QED
    BY <1>1, <1>3 DEF Published!PublishedNext, Published!Change

LEMMA ConfirmationsConfirm ==
  ASSUME SafetyInv, SafetyInv', NEW k \in Keys, Confirm(k)
  PROVE  Published!PublishedNext
  <1>1. /\ UNCHANGED <<upstream, conn, bound>> /\ k \in bound
        /\ call[k].pc = "calling" /\ call[k].applied # 0
        /\ ApplyConfirmed(k) \/ UNCHANGED <<usage, origin, saved>>
    BY ConfirmEffect
  <1>2. CASE UNCHANGED <<usage, origin, saved>>
    BY <1>1, <1>2, ListsRefresh
  <1>3. CASE ApplyConfirmed(k)
    <2>1. saved[k] < call[k].applied /\ call[k].applied <= upstream[conn][k]
      BY <1>1 DEF SafetyInv, CallsAreTrue
    <2>2. /\ usage' = [usage EXCEPT ![k] = call[k].applied]
          /\ saved' = [saved EXCEPT ![k] = call[k].applied]
      BY <1>3 DEF ApplyConfirmed
    <2>3. saved'[k] = call[k].applied
      BY <2>2 DEF SafetyInv, TypeOK
    <2>4. Published!ConfirmChange(k)
      BY <1>1, <2>1, <2>2, <2>3 DEF Published!ConfirmChange
    <2> QED
      BY <2>4 DEF Published!PublishedNext
  <1> QED
    BY <1>1, <1>2, <1>3

LEMMA BindingsRevealOrHide ==
  ASSUME SafetyInv, SafetyInv', NEW k \in Keys,
         DeleteBinding(k) \/ \E old \in Keys : SetBinding(k, old)
  PROVE  Published!PublishedNext
  <1>0. TypeOK /\ UNCHANGED <<upstream, conn>>
    BY DEF SafetyInv, DeleteBinding, SetBinding, OnlyRows
  <1>1. CASE DeleteBinding(k)
    <2>1. Published!Hide(k)
      BY <1>0, <1>1 DEF DeleteBinding, Published!Hide
    <2> QED
      BY <2>1 DEF Published!PublishedNext
  <1>2. ASSUME NEW old \in Keys, SetBinding(k, old)
        PROVE  Published!PublishedNext
    <2>1. bound' = (bound \ {old}) \cup {k}
      BY <1>2 DEF SetBinding
    <2>2. usage' = [x \in Keys |-> IF x = k THEN cacheUsage[k]
                                   ELSE IF x = old THEN 0 ELSE usage[x]]
      BY <1>2 DEF SetBinding
    <2>3. saved' = [x \in Keys |-> IF x \in {old} \cup {k} THEN 0 ELSE saved[x]]
      BY <1>2 DEF SetBinding
    <2>4. usage'[k] = cacheUsage[k] /\ cacheUsage[k] <= upstream[conn][k]
      BY <2>2 DEF SafetyInv, CacheIsTrue
    <2>5. usage' = [x \in Keys |-> IF x = k THEN usage'[k]
                                   ELSE IF x \in {old} THEN 0 ELSE usage[x]]
      BY <2>2, <2>4
    <2>6. Published!Reveal(k, {old})
      BY <1>0, <2>1, <2>3, <2>4, <2>5 DEF Published!Reveal
    <2> QED
      BY <2>6 DEF Published!PublishedNext
  <1> QED
    BY <1>1, <1>2

LEMMA RotationsSwitch ==
  ASSUME SafetyInv, SafetyInv', NEW c \in Conns, RotateConnection(c)
  PROVE  Published!PublishedNext
  <1>1. UNCHANGED <<upstream, bound, usage, saved>>
    BY DEF RotateConnection, rowVars
  <1>2. CASE bound = {} /\ conn' = c
    BY <1>1, <1>2 DEF Published!PublishedNext, Published!Switch
  <1>3. CASE UNCHANGED conn
    BY <1>1, <1>3, ListsRefresh
  <1> QED
    BY <1>2, <1>3 DEF RotateConnection

LEMMA RefinesStep ==
  ASSUME SafetyInv, SafetyInv', [Next]_vars
  PROVE  [Published!PublishedNext]_(Published!publishedVars)
  <1>1. CASE UNCHANGED <<upstream, conn, bound, saved>>
    BY <1>1, ListsRefresh
  <1>2. ASSUME NEW f \in Flights, FlightSteps(f)
        PROVE  UNCHANGED <<upstream, conn, bound, saved>>
    BY <1>2 DEF FlightSteps, ReadSettings, FlightGivesUp, ReadKeyGeneration,
                ReadPage, ListFails, Publish, PublishFails, OnlyFlights,
                EndFlight, ApplyKeySnapshots, rowVars
  <1>3. CASE Administration
    <2>1. CASE \E k \in Keys : DeleteBinding(k)
                 \/ \E old \in bound \cup {k} : SetBinding(k, old)
      BY <2>1, BindingsRevealOrHide DEF SafetyInv, TypeOK
    <2>2. CASE \E c \in Conns : RotateConnection(c)
      BY <2>2, RotationsSwitch
    <2>3. CASE \/ UpdateSettings \/ StartBatch
               \/ \E k \in Keys, kind \in Singles : AdmitSingle(k, kind)
      BY <1>1, <2>3 DEF UpdateSettings, StartBatch, OnlyWorkflow, AdmitSingle,
                        BeginCall, rowVars
    <2> QED
      BY <1>3, <2>1, <2>2, <2>3 DEF Administration
  <1>4. CASE \E k \in Keys : WorkerCalls(k) \/ CallFails(k)
    BY <1>1, <1>4 DEF WorkerCalls, BeginCall, CallFails, rowVars
  <1>5. CASE \E k \in Keys : UpstreamApplies(k) \/ Confirm(k)
    BY <1>5, ChangesChange, ConfirmationsConfirm DEF SafetyInv
  <1>6. CASE \E c \in Conns, k \in Keys : UpstreamChanges(c, k)
    BY <1>6, ChangesChange DEF SafetyInv
  <1>7. CASE WorkflowSteps \/ StopWaiting
    BY <1>1, <1>7 DEF WorkflowSteps, EndBatch, BeginReconcile, EndWorkflow,
                      StopWaiting, OnlyWorkflow, rowVars
  <1>8. CASE BackgroundSync \/ Restart \/ UNCHANGED vars
    BY <1>1, <1>8 DEF BackgroundSync, OnlyFlights, Restart, rowVars, vars
  <1> QED
    BY <1>1, <1>2, <1>3, <1>4, <1>5, <1>6, <1>7, <1>8 DEF Next, CallEnds

\* The portal implements PublishedUsage: what users see of a key is a version
\* the current upstream has had, never below the last confirmed change.
THEOREM PublishesWhatItPromises == Spec => ShowsWhatItPromises
  <1>1. SafetyInv /\ SafetyInv' /\ [Next]_vars
          => [Published!PublishedNext]_(Published!publishedVars)
    BY RefinesStep
  <1> QED
    BY <1>1, RefinesInit, SafetyHolds, PTL
       DEF Spec, ShowsWhatItPromises, Published!PublishedSpec

-----------------------------------------------------------------------------
(* Reconciliation.  The flight a workflow waits for was started, or had its *)
(* key generation read, after the last confirmation: its list contains it.  *)

WorkflowShape ==
  /\ workflow \in {"idle", "reconcile"} => NoCalls
  /\ workflow \in Singles => \A k, x \in Keys :
       call[k].pc = "calling" /\ call[x].pc = "calling" => k = x
  /\ workflow # "reconcile" => waiting = None /\ reconciled = "none"
  /\ waiting # None => reconciled = "none"
  /\ workflow = "idle" => owed = {}
  /\ reconcileGeneration <= connectionGeneration

OwedIsTrue == \A d \in owed : d.version <= upstream[d.conn][d.key]

\* A confirmed change ends a call and is owed from then on.
LEMMA CallEndsEffect ==
  ASSUME TypeOK, NEW k \in Keys, CallEnds(k)
  PROVE  /\ call[k].pc = "calling" /\ call' = [call EXCEPT ![k] = IdleCall]
         /\ workflow = "batch" => workflow' = "batch"
         /\ workflow # "batch" => workflow' \in {"reconcile", "idle"}
         /\ workflow' = "idle" => owed' = {}
         /\ UNCHANGED <<upstream, conn, flight, waiting, reconciled,
                        reconcileGeneration, connectionGeneration, bound,
                        cacheUsage>>
         /\ CallFails(k) => /\ owed' \subseteq owed
                            /\ UNCHANGED <<usage, keyGeneration, current>>
         /\ Confirm(k) => owed' \subseteq owed \cup
              {[conn |-> call[k].conn, key |-> k, version |-> call[k].applied]}
  <1>1. ASSUME NEW r \in BOOLEAN, NEW ch, Proceed(r, ch)
        PROVE  /\ workflow = "batch" => workflow' = "batch"
               /\ workflow # "batch" => workflow' \in {"reconcile", "idle"}
               /\ workflow' = "idle" => owed' = {}
               /\ owed' \subseteq owed \cup ch
               /\ UNCHANGED <<waiting, reconciled, reconcileGeneration>>
    BY <1>1 DEF Proceed
  <1>2. ASSUME CallFails(k)
        PROVE  owed' \subseteq owed /\ UNCHANGED <<usage, keyGeneration, current>>
    <2>1. Proceed(FALSE, {})
      BY <1>2 DEF CallFails
    <2>2. owed' \subseteq owed \cup {}
      BY <1>1, <2>1
    <2> QED
      BY <1>2, <2>2 DEF CallFails, rowVars, generationVars
  <1>3. ASSUME Confirm(k)
        PROVE  owed' \subseteq owed \cup
                 {[conn |-> call[k].conn, key |-> k, version |-> call[k].applied]}
    <2> DEFINE change == {[conn |-> call[k].conn, key |-> k,
                           version |-> call[k].applied]}
    <2>1. \E r \in BOOLEAN : Proceed(r, change)
      BY <1>3 DEF Confirm
    <2> QED
      BY <1>1, <2>1
  <1>4. \E r \in BOOLEAN : \E ch : Proceed(r, ch)
    BY DEF CallEnds, CallFails, Confirm
  <1>5. /\ workflow = "batch" => workflow' = "batch"
        /\ workflow # "batch" => workflow' \in {"reconcile", "idle"}
        /\ workflow' = "idle" => owed' = {}
        /\ UNCHANGED <<waiting, reconciled, reconcileGeneration>>
    BY <1>1, <1>4
  <1>6. /\ call[k].pc = "calling" /\ call' = [call EXCEPT ![k] = IdleCall]
        /\ UNCHANGED <<upstream, conn, flight, connectionGeneration, cacheUsage>>
    BY DEF CallEnds, CallFails, Confirm, generationVars, cacheVars
  <1>7. UNCHANGED bound
    BY DEF CallEnds, CallFails, Confirm, ApplyConfirmed, rowVars
  <1> QED
    BY <1>2, <1>3, <1>5, <1>6, <1>7

LEMMA ShapeStep ==
  ASSUME SafetyInv, TypeOK', WorkflowShape, [Next]_vars
  PROVE  WorkflowShape'
  <1>0. TypeOK
    BY DEF SafetyInv
  <1>1. CASE UNCHANGED <<workflow, call, waiting, reconciled, owed,
                         reconcileGeneration, connectionGeneration>>
    BY <1>1 DEF WorkflowShape, NoCalls
  <1>2. ASSUME NEW f \in Flights, NEW o \in {"ok", "failed"}, EndFlight(f, o)
        PROVE  WorkflowShape'
    <2>1. /\ UNCHANGED <<workflow, call, owed, reconcileGeneration,
                         connectionGeneration>>
          /\ \/ waiting = f /\ waiting' = None
             \/ UNCHANGED <<waiting, reconciled>>
      BY <1>2 DEF EndFlight, generationVars
    <2>2. f # None
      BY KeySyncConstants
    <2> QED
      BY <2>1, <2>2 DEF WorkflowShape, NoCalls
  <1>3. ASSUME NEW f \in Flights, FlightSteps(f) PROVE WorkflowShape'
    BY <1>1, <1>2, <1>3 DEF FlightSteps, ReadSettings, FlightGivesUp,
       ReadKeyGeneration, ReadPage, ListFails, Publish, PublishFails,
       OnlyFlights, workflowVars, generationVars
  <1>4. ASSUME NEW c \in Conns, RotateConnection(c) PROVE WorkflowShape'
    BY <1>0, <1>4 DEF RotateConnection, BeginConnectionRotation, workflowVars,
                      WorkflowShape, NoCalls, TypeOK
  <1>5. ASSUME NEW k \in Keys, BeginCall(k), workflow \in {"idle", "batch"},
               workflow = "idle" => workflow' \in Singles,
               workflow = "batch" => workflow' = "batch"
        PROVE  WorkflowShape'
    <2>1. /\ UNCHANGED <<waiting, reconciled, owed, reconcileGeneration,
                         connectionGeneration>>
          /\ \A x \in Keys : x # k => call'[x] = call[x]
      BY <1>0, <1>5 DEF BeginCall, generationVars, TypeOK
    <2> QED
      BY <1>5, <2>1 DEF WorkflowShape, NoCalls, Singles
  <1>6. ASSUME NEW k \in Keys, UpstreamApplies(k) PROVE WorkflowShape'
    <2> DEFINE v == upstream[call[k].conn][k] + 1
               a == CallAt("calling", call[k].connGen, call[k].conn, v)
    <2>1. /\ call[k].connGen \in Nat /\ call[k].conn \in Conns /\ v \in Nat
      BY <1>0, CallFields DEF TypeOK
    <2>2. a.pc = "calling"
      BY <2>1, CallAtFields
    <2>3. call' = [call EXCEPT ![k] = a] /\ call[k].pc = "calling"
      BY <1>6 DEF UpstreamApplies
    <2>4. \A x \in Keys : call'[x].pc = call[x].pc
      BY <1>0, <2>2, <2>3 DEF TypeOK
    <2>5. UNCHANGED <<workflow, waiting, reconciled, owed, reconcileGeneration,
                      connectionGeneration>>
      BY <1>6 DEF UpstreamApplies, workflowVars, generationVars
    <2> QED
      BY <2>4, <2>5 DEF WorkflowShape, NoCalls
  <1>7. ASSUME NEW k \in Keys, CallEnds(k) PROVE WorkflowShape'
    <2>1. /\ call[k].pc = "calling"
          /\ \A x \in Keys : call'[x] = IF x = k THEN IdleCall ELSE call[x]
          /\ workflow = "batch" => workflow' = "batch"
          /\ workflow # "batch" => workflow' \in {"reconcile", "idle"}
          /\ workflow' = "idle" => owed' = {}
          /\ UNCHANGED <<waiting, reconciled, reconcileGeneration,
                         connectionGeneration>>
      BY <1>0, <1>7, CallEndsEffect DEF TypeOK
    <2>2. workflow \in Singles \cup {"batch"}
      BY <1>0, <2>1 DEF TypeOK, Workflows, WorkflowShape, NoCalls
    <2>3. \A x \in Keys : call[x].pc \in {"idle", "calling"}
      BY <1>0, CallFields DEF TypeOK
    <2>4. workflow \in Singles => NoCalls'
      BY <2>1, <2>3, IdleCallFields DEF WorkflowShape, NoCalls
    <2>5. waiting = None /\ reconciled = "none"
      BY <2>2 DEF WorkflowShape, Singles
    <2> QED
      BY <2>1, <2>2, <2>4, <2>5 DEF WorkflowShape, Singles
  <1>8. CASE StartBatch \/ EndBatch \/ StopWaiting \/ EndWorkflow
    BY <1>0, <1>8 DEF StartBatch, EndBatch, StopWaiting, EndWorkflow,
       OnlyWorkflow, generationVars, WorkflowShape, NoCalls, Singles, TypeOK
  <1>9. CASE BeginReconcile
    BY <1>0, <1>9 DEF BeginReconcile, generationVars, WorkflowShape, NoCalls,
       Singles, TypeOK
  <1>10. CASE Restart
    BY <1>10, IdleCallFields DEF Restart, WorkflowShape, NoCalls, Singles
  <1>11. CASE Administration
    <2>1. CASE \E k \in Keys : DeleteBinding(k)
                 \/ \E old \in bound \cup {k} : SetBinding(k, old)
      BY <1>1, <2>1 DEF DeleteBinding, SetBinding, OnlyRows, workflowVars,
                        generationVars
    <2>2. CASE UpdateSettings
      BY <1>1, <2>2 DEF UpdateSettings, workflowVars, generationVars
    <2>3. CASE \E k \in Keys, kind \in Singles : AdmitSingle(k, kind)
      BY <1>5, <2>3 DEF AdmitSingle
    <2> QED
      BY <1>4, <1>8, <1>11, <2>1, <2>2, <2>3 DEF Administration
  <1>12. CASE \E k \in Keys : WorkerCalls(k)
    BY <1>5, <1>12 DEF WorkerCalls
  <1>13. CASE \/ \E c \in Conns, k \in Keys : UpstreamChanges(c, k)
              \/ BackgroundSync \/ UNCHANGED vars
    BY <1>1, <1>13 DEF UpstreamChanges, BackgroundSync, OnlyUpstream,
                       OnlyFlights, workflowVars, generationVars, vars
  <1> QED
    BY <1>3, <1>6, <1>7, <1>8, <1>9, <1>10, <1>11, <1>12, <1>13
       DEF Next, WorkflowSteps

\* Only a confirmation, a rotation and a restart end a generation; only a
\* confirmation adds to what is owed.
LEMMA StepKinds ==
  ASSUME SafetyInv, [Next]_vars
  PROVE  \/ Restart
         \/ \E c \in Conns : RotateConnection(c)
         \/ \E k \in Keys : Confirm(k)
         \/ /\ UNCHANGED <<conn, connectionGeneration, keyGeneration>>
            /\ owed' \subseteq owed
  <1>0. TypeOK
    BY DEF SafetyInv
  <1> DEFINE Kept == /\ UNCHANGED <<conn, connectionGeneration, keyGeneration>>
                     /\ owed' \subseteq owed
  <1>1. ASSUME NEW f \in Flights, FlightSteps(f) PROVE Kept
    BY <1>1 DEF FlightSteps, ReadSettings, FlightGivesUp,
       ReadKeyGeneration, ReadPage, ListFails, Publish, PublishFails,
       OnlyFlights, EndFlight, workflowVars, generationVars
  <1>2. ASSUME NEW k \in Keys, CallFails(k) PROVE Kept
    BY <1>0, <1>2, CallEndsEffect DEF CallEnds
  <1>3. ASSUME NEW k \in Keys, WorkerCalls(k) \/ UpstreamApplies(k) PROVE Kept
    BY <1>3 DEF WorkerCalls, BeginCall, UpstreamApplies, workflowVars,
                generationVars
  <1>4. CASE WorkflowSteps \/ StopWaiting \/ StartBatch
    BY <1>4 DEF WorkflowSteps, EndBatch, BeginReconcile, EndWorkflow,
       StopWaiting, StartBatch, OnlyWorkflow, generationVars
  <1>5. CASE \/ \E c \in Conns, k \in Keys : UpstreamChanges(c, k)
             \/ BackgroundSync \/ UNCHANGED vars
    BY <1>5 DEF UpstreamChanges, BackgroundSync, OnlyUpstream,
                OnlyFlights, workflowVars, generationVars, vars
  <1>6. ASSUME NEW k \in Keys, NEW kind \in Singles, AdmitSingle(k, kind)
        PROVE  Kept
    BY <1>6 DEF AdmitSingle, BeginCall, generationVars
  <1>7. ASSUME NEW k \in Keys, NEW old, DeleteBinding(k) \/ SetBinding(k, old)
        PROVE  Kept
    BY <1>7 DEF DeleteBinding, SetBinding, OnlyRows, workflowVars, generationVars
  <1>8. UpdateSettings => Kept
    BY DEF UpdateSettings, workflowVars, generationVars
  <1> QED
    BY <1>1, <1>2, <1>3, <1>4, <1>5, <1>6, <1>7, <1>8
       DEF Next, Administration, CallEnds

LEMMA UpstreamNeverShrinks ==
  ASSUME TypeOK, [Next]_vars
  PROVE  \A c \in Conns, k \in Keys : upstream[c][k] <= upstream'[c][k]
  <1>1. ASSUME NEW c \in Conns, NEW k \in Keys, NEW d \in Conns, NEW x \in Keys,
               upstream' = [upstream EXCEPT ![d][x] = upstream[d][x] + 1]
        PROVE  upstream[c][k] <= upstream'[c][k]
    BY <1>1 DEF TypeOK
  <1>2. ASSUME NEW x \in Keys, UpstreamApplies(x)
        PROVE  \E d \in Conns : upstream' = [upstream EXCEPT ![d][x] = upstream[d][x] + 1]
    BY <1>2, CallFields DEF UpstreamApplies, TypeOK
  <1>3. ASSUME NEW d \in Conns, NEW x \in Keys, UpstreamChanges(d, x)
        PROVE  upstream' = [upstream EXCEPT ![d][x] = upstream[d][x] + 1]
    BY <1>3 DEF UpstreamChanges
  <1>4. CASE UNCHANGED upstream
    BY <1>4 DEF TypeOK
  <1>5. ASSUME NEW f \in Flights, FlightSteps(f) PROVE UNCHANGED upstream
    BY <1>5 DEF FlightSteps, ReadSettings, FlightGivesUp,
       ReadKeyGeneration, ReadPage, ListFails, Publish, PublishFails,
       OnlyFlights, EndFlight
  <1>6. Administration => UNCHANGED upstream
    BY DEF Administration, DeleteBinding, SetBinding, OnlyRows,
           RotateConnection, UpdateSettings, AdmitSingle, BeginCall, StartBatch,
           OnlyWorkflow
  <1>7. ASSUME NEW k \in Keys, WorkerCalls(k) \/ CallEnds(k)
        PROVE  UNCHANGED upstream
    BY <1>7 DEF WorkerCalls, BeginCall, CallEnds, CallFails, Confirm
  <1>8. WorkflowSteps \/ StopWaiting \/ Restart \/ BackgroundSync \/ UNCHANGED vars
          => UNCHANGED upstream
    BY DEF WorkflowSteps, EndBatch, BeginReconcile, EndWorkflow, StopWaiting,
           OnlyWorkflow, Restart, BackgroundSync, OnlyFlights, vars
  <1> QED
    BY <1>1, <1>2, <1>3, <1>4, <1>5, <1>6, <1>7, <1>8 DEF Next

LEMMA OwedStep ==
  ASSUME SafetyInv, TypeOK', OwedIsTrue, [Next]_vars
  PROVE  OwedIsTrue'
  <1>0. TypeOK
    BY DEF SafetyInv
  <1> SUFFICES ASSUME NEW d \in owed' PROVE d.version <= upstream'[d.conn][d.key]
    BY DEF OwedIsTrue
  <1>1. d.conn \in Conns /\ d.key \in Keys /\ d.version \in Nat
    BY DEF TypeOK, Changes
  <1>2. /\ upstream[d.conn][d.key] \in Nat /\ upstream'[d.conn][d.key] \in Nat
        /\ upstream[d.conn][d.key] <= upstream'[d.conn][d.key]
    BY <1>0, <1>1, UpstreamNeverShrinks DEF TypeOK
  <1>3. CASE d \in owed
    BY <1>1, <1>2, <1>3 DEF OwedIsTrue
  <1>4. ASSUME NEW k \in Keys, Confirm(k), d \notin owed
        PROVE  d.version <= upstream[d.conn][d.key]
    <2>1. d = [conn |-> call[k].conn, key |-> k, version |-> call[k].applied]
      BY <1>0, <1>4, CallEndsEffect DEF CallEnds
    <2>2. d.conn = call[k].conn /\ d.key = k /\ d.version = call[k].applied
      BY <2>1
    <2>3. /\ call[k].pc = "calling" /\ call[k].applied # 0 /\ call[k].conn = conn
      BY <1>4, ConfirmEffect
    <2>4. call[k].applied <= upstream[conn][k]
      BY <2>3 DEF SafetyInv, CallsAreTrue
    <2> QED
      BY <2>2, <2>3, <2>4
  <1>5. CASE Restart \/ \E c \in Conns : RotateConnection(c)
    BY <1>3, <1>5 DEF Restart, RotateConnection, workflowVars
  <1> QED
    BY <1>1, <1>2, <1>3, <1>4, <1>5, StepKinds

\* What a step can do to one flight.
LEMMA FlightEffect ==
  ASSUME TypeOK, [Next]_vars, NEW x \in Flights
  PROVE  \/ flight'[x] = flight[x]
         \/ flight'[x] = QueuedFlight
         \/ ReadSettings(x) \/ ReadKeyGeneration(x)
         \/ \E k \in Keys : ReadPage(x, k)
         \/ flight'[x] = IdleFlight /\ (Restart \/ \E o : EndFlight(x, o))
  <1>1. CASE UNCHANGED flight
    BY <1>1
  <1>2. ASSUME NEW f \in Flights, FlightSteps(f), f # x
        PROVE  flight'[x] = flight[x]
    BY <1>2 DEF FlightSteps, ReadSettings, FlightGivesUp,
       ReadKeyGeneration, ReadPage, ListFails, Publish, PublishFails,
       EndFlight, TypeOK
  <1>3. ASSUME NEW o, EndFlight(x, o) PROVE flight'[x] = IdleFlight
    BY <1>3 DEF EndFlight, TypeOK
  <1>4. FlightSteps(x) => \/ ReadSettings(x) \/ ReadKeyGeneration(x)
                          \/ \E k \in Keys : ReadPage(x, k)
                          \/ \E o : EndFlight(x, o)
    BY DEF FlightSteps, FlightGivesUp, ListFails, Publish, PublishFails
  <1>5. ASSUME NEW f \in Flights, StartFlight(f)
        PROVE  flight'[x] = flight[x] \/ flight'[x] = QueuedFlight
    BY <1>5 DEF StartFlight, TypeOK
  <1>6. BackgroundSync \/ BeginReconcile =>
          UNCHANGED flight \/ \E f \in Flights : StartFlight(f)
    BY DEF BackgroundSync, BeginReconcile
  <1>7. Restart => flight'[x] = IdleFlight
    BY DEF Restart
  <1>8. Administration => UNCHANGED flight
    BY DEF Administration, DeleteBinding, SetBinding, OnlyRows,
           RotateConnection, UpdateSettings, AdmitSingle, BeginCall, StartBatch,
           OnlyWorkflow
  <1>9. ASSUME NEW k \in Keys, WorkerCalls(k) \/ UpstreamApplies(k) \/ CallEnds(k)
        PROVE  UNCHANGED flight
    BY <1>9 DEF WorkerCalls, BeginCall, UpstreamApplies, CallEnds, CallFails,
                Confirm
  <1>10. EndBatch \/ EndWorkflow \/ StopWaiting \/ UNCHANGED vars
           \/ (\E c \in Conns, k \in Keys : UpstreamChanges(c, k))
         => UNCHANGED flight
    BY DEF EndBatch, EndWorkflow, StopWaiting, OnlyWorkflow, UpstreamChanges,
           OnlyUpstream, vars
  <1>11. \/ \E f \in Flights : FlightSteps(f)
         \/ UNCHANGED flight
         \/ \E f \in Flights : StartFlight(f)
         \/ Restart
    BY <1>6, <1>8, <1>9, <1>10 DEF Next, WorkflowSteps
  <1>12. CASE FlightSteps(x)
    BY <1>3, <1>4, <1>12
  <1> QED
    BY <1>1, <1>2, <1>5, <1>7, <1>11, <1>12

\* The records that the three reading steps leave behind.
LEMMA ReadingEffect ==
  ASSUME SafetyInv, NEW f \in Flights
  PROVE  /\ ReadSettings(f) => /\ flight'[f].pc = "settings"
                               /\ flight'[f].connGen = connectionGeneration
         /\ ReadKeyGeneration(f) =>
              /\ flight[f].pc = "settings" /\ flight'[f].pc = "listing"
              /\ flight'[f].connGen = flight[f].connGen
              /\ flight'[f].keyGen = keyGeneration /\ flight'[f].read = {}
         /\ \A k \in Keys : ReadPage(f, k) =>
              /\ flight[f].pc = "listing" /\ flight'[f].pc = "listing"
              /\ flight'[f].connGen = flight[f].connGen
              /\ flight'[f].keyGen = flight[f].keyGen
              /\ flight'[f].read = flight[f].read \cup {k}
              /\ flight'[f].list =
                   [flight[f].list EXCEPT ![k] = upstream[flight[f].conn][k]]
  <1>0. /\ TypeOK /\ connectionGeneration \in Nat /\ keyGeneration \in Nat
        /\ conn \in Conns
        /\ flight[f].connGen \in Nat /\ flight[f].conn \in Conns
        /\ flight[f].keyGen \in Nat /\ flight[f].read \in SUBSET Keys
        /\ flight[f].list \in [Keys -> Nat]
    BY FlightFields DEF SafetyInv, TypeOK
  <1>1. ASSUME NEW s, flight' = [flight EXCEPT ![f] = s] PROVE flight'[f] = s
    BY <1>0, <1>1 DEF TypeOK
  <1>2. ASSUME ReadSettings(f)
        PROVE  /\ flight'[f].pc = "settings"
               /\ flight'[f].connGen = connectionGeneration
    <2>1. flight'[f] = FlightAt("settings", connectionGeneration, conn, 0, {},
                                NoUsage)
      BY <1>1, <1>2 DEF ReadSettings
    <2> QED
      BY <2>1 DEF FlightAt
  <1>3. ASSUME ReadKeyGeneration(f)
        PROVE  /\ flight[f].pc = "settings" /\ flight'[f].pc = "listing"
               /\ flight'[f].connGen = flight[f].connGen
               /\ flight'[f].keyGen = keyGeneration /\ flight'[f].read = {}
    <2>1. flight'[f] = FlightAt("listing", flight[f].connGen, flight[f].conn,
                                keyGeneration, {}, NoUsage)
          /\ flight[f].pc = "settings"
      BY <1>1, <1>3 DEF ReadKeyGeneration
    <2> QED
      BY <2>1 DEF FlightAt
  <1>4. ASSUME NEW k \in Keys, ReadPage(f, k)
        PROVE  /\ flight[f].pc = "listing" /\ flight'[f].pc = "listing"
               /\ flight'[f].connGen = flight[f].connGen
               /\ flight'[f].keyGen = flight[f].keyGen
               /\ flight'[f].read = flight[f].read \cup {k}
               /\ flight'[f].list =
                    [flight[f].list EXCEPT ![k] = upstream[flight[f].conn][k]]
    <2> DEFINE l == [flight[f].list EXCEPT ![k] = upstream[flight[f].conn][k]]
    <2>1. flight'[f] = FlightAt("listing", flight[f].connGen, flight[f].conn,
                                flight[f].keyGen, flight[f].read \cup {k}, l)
          /\ flight[f].pc = "listing"
      BY <1>1, <1>4 DEF ReadPage
    <2> HIDE DEF l
    <2>2. /\ flight'[f].pc = "listing"
          /\ flight'[f].connGen = flight[f].connGen
          /\ flight'[f].keyGen = flight[f].keyGen
          /\ flight'[f].read = flight[f].read \cup {k} /\ flight'[f].list = l
      BY <2>1 DEF FlightAt
    <2> QED
      BY <2>1, <2>2 DEF l
  <1> QED
    BY <1>2, <1>3, <1>4

\* Every list whose generations are current contains what is owed: it was
\* read after the confirmation.
ListsRepair ==
  \A f \in Flights :
    flight[f].pc = "listing" /\ SameConnection(f) /\ SameKeys(f) =>
      \A d \in owed : d.conn = conn /\ d.key \in flight[f].read =>
        d.version <= flight[f].list[d.key]

LEMMA ListsStep ==
  ASSUME SafetyInv, TypeOK', OwedIsTrue, ListsRepair, [Next]_vars
  PROVE  ListsRepair'
  <1>0. TypeOK
    BY DEF SafetyInv
  <1> SUFFICES ASSUME NEW f \in Flights, flight'[f].pc = "listing",
                      flight'[f].connGen = connectionGeneration',
                      flight'[f].keyGen = keyGeneration',
                      NEW d \in owed', d.conn = conn', d.key \in flight'[f].read
               PROVE  d.version <= flight'[f].list[d.key]
    BY DEF ListsRepair, SameConnection, SameKeys
  <1>1. /\ flight[f].connGen <= connectionGeneration
        /\ flight[f].keyGen <= keyGeneration
        /\ flight[f].connGen \in Nat /\ flight[f].keyGen \in Nat
        /\ flight[f].list \in [Keys -> Nat]
    BY <1>0, FlightFields DEF SafetyInv, FlightsAreTrue, FlightTrue, TypeOK
  <1>2. ~Restart
    BY IdleFlightFields DEF Restart
  <1>3. ASSUME NEW c \in Conns, RotateConnection(c) PROVE FALSE
    BY <1>0, <1>1, <1>3 DEF RotateConnection, BeginConnectionRotation, TypeOK
  <1>4. ASSUME NEW k \in Keys, Confirm(k) PROVE FALSE
    BY <1>0, <1>1, <1>4, ConfirmEffect DEF TypeOK
  <1>5. /\ UNCHANGED <<conn, connectionGeneration, keyGeneration>>
        /\ d \in owed
    BY <1>2, <1>3, <1>4, StepKinds
  <1>6. CASE flight'[f] = flight[f]
    BY <1>5, <1>6 DEF ListsRepair, SameConnection, SameKeys
  <1>7. ASSUME NEW k \in Keys, ReadPage(f, k)
        PROVE  d.version <= flight'[f].list[d.key]
    <2>1. /\ flight[f].pc = "listing" /\ flight'[f].read = flight[f].read \cup {k}
          /\ flight'[f].connGen = flight[f].connGen
          /\ flight'[f].keyGen = flight[f].keyGen
          /\ flight'[f].list =
               [flight[f].list EXCEPT ![k] = upstream[flight[f].conn][k]]
      BY <1>7, ReadingEffect
    <2>2. flight[f].connGen = connectionGeneration /\ flight[f].keyGen = keyGeneration
      BY <1>5, <2>1
    <2>3. CASE d.key = k
      <3>1. flight[f].conn = conn
        BY <2>1, <2>2 DEF SafetyInv, FlightsAreTrue, FlightTrue
      <3>2. d.version <= upstream[d.conn][d.key]
        BY <1>5 DEF OwedIsTrue
      <3>3. flight'[f].list[k] = upstream[conn][k]
        BY <1>1, <2>1, <3>1
      <3> QED
        BY <1>5, <2>3, <3>2, <3>3
    <2>4. CASE d.key # k
      <3>1. flight'[f].list[d.key] = flight[f].list[d.key]
            /\ d.key \in flight[f].read
        BY <1>1, <2>1, <2>4
      <3> QED
        BY <1>5, <2>1, <2>2, <3>1 DEF ListsRepair, SameConnection, SameKeys
    <2> QED
      BY <2>3, <2>4
  <1>8. flight'[f] # QueuedFlight /\ flight'[f] # IdleFlight /\ ~ReadSettings(f)
        /\ ~ReadKeyGeneration(f)
    <2>1. flight'[f] # QueuedFlight /\ flight'[f] # IdleFlight
      BY QueuedFlightFields, IdleFlightFields
    <2>2. ReadSettings(f) => flight'[f].pc = "settings"
      BY ReadingEffect
    <2>3. ReadKeyGeneration(f) => flight'[f].read = {}
      BY ReadingEffect
    <2> QED
      BY <2>1, <2>2, <2>3
  <1> QED
    BY <1>0, <1>6, <1>7, <1>8, FlightEffect

\* A flight whose list, once complete, will be stored and contain all that is
\* owed.
IsFresh(f) ==
  /\ flight[f].pc # "idle"
  /\ flight[f].pc \in {"settings", "listing"} => SameConnection(f)
  /\ flight[f].pc = "listing" => SameKeys(f)

LEMMA FreshStays ==
  ASSUME SafetyInv, TypeOK', [Next]_vars, NEW f \in Flights, IsFresh(f),
         UNCHANGED <<connectionGeneration, keyGeneration>>,
         ~Restart, ~\E o : EndFlight(f, o)
  PROVE  IsFresh(f)'
  <1>0. TypeOK
    BY DEF SafetyInv
  <1>1. CASE flight'[f] = flight[f]
    BY <1>1 DEF IsFresh, SameConnection, SameKeys
  <1>2. CASE flight'[f] = QueuedFlight
    BY <1>2, QueuedFlightFields DEF IsFresh
  <1>3. CASE ReadSettings(f)
    BY <1>3, ReadingEffect DEF IsFresh, SameConnection
  <1>4. CASE ReadKeyGeneration(f)
    <2>1. /\ flight[f].pc = "settings" /\ flight'[f].pc = "listing"
          /\ flight'[f].connGen = flight[f].connGen
          /\ flight'[f].keyGen = keyGeneration
      BY <1>4, ReadingEffect
    <2> QED
      BY <2>1 DEF IsFresh, SameConnection, SameKeys
  <1>5. ASSUME NEW k \in Keys, ReadPage(f, k) PROVE IsFresh(f)'
    <2>1. /\ flight[f].pc = "listing" /\ flight'[f].pc = "listing"
          /\ flight'[f].connGen = flight[f].connGen
          /\ flight'[f].keyGen = flight[f].keyGen
      BY <1>5, ReadingEffect
    <2> QED
      BY <2>1 DEF IsFresh, SameConnection, SameKeys
  <1> QED
    BY <1>0, <1>1, <1>2, <1>3, <1>4, <1>5, FlightEffect

\* A flight that starts is queued.
LEMMA StartedIsFresh ==
  ASSUME TypeOK, NEW f \in Flights, StartFlight(f)
  PROVE  IsFresh(f)'
  <1>1. flight'[f] = QueuedFlight
    BY DEF StartFlight, TypeOK
  <1> QED
    BY <1>1, QueuedFlightFields DEF IsFresh

CurrentIsFresh == current # None => IsFresh(current)

WaitIsFresh ==
  waiting # None /\ reconcileGeneration = connectionGeneration => IsFresh(waiting)

\* How the group comes to know a flight.
LEMMA CurrentEffect ==
  ASSUME TypeOK, [Next]_vars, current' # None
  PROVE  \/ \E f \in Flights : StartFlight(f) /\ current' = f
         \/ /\ current' = current /\ ~Restart
            /\ \A o : ~EndFlight(current, o)
            /\ \A c \in Conns : ~RotateConnection(c)
            /\ \A k \in Keys : Confirm(k) => UNCHANGED keyGeneration
  <1>1. ~Restart /\ \A c \in Conns : ~RotateConnection(c)
    BY DEF Restart, RotateConnection, BeginConnectionRotation
  <1>2. ASSUME NEW k \in Keys, Confirm(k)
        PROVE  UNCHANGED <<keyGeneration, current>>
    BY <1>2 DEF Confirm, InvalidateFlights
  <1>3. \A o : ~EndFlight(current, o)
    BY DEF EndFlight
  <1>4. CASE \E f \in Flights : StartFlight(f)
    BY <1>4 DEF StartFlight
  <1>5. ASSUME NEW f \in Flights, FlightSteps(f) PROVE current' = current
    BY <1>5 DEF FlightSteps, ReadSettings, FlightGivesUp, ReadKeyGeneration,
                ReadPage, ListFails, Publish, PublishFails, EndFlight
  <1>6. ASSUME Administration PROVE current' = current
    BY <1>1, <1>6 DEF Administration, DeleteBinding, SetBinding, OnlyRows,
       UpdateSettings, AdmitSingle, BeginCall, StartBatch, OnlyWorkflow
  <1>7. ASSUME NEW k \in Keys, WorkerCalls(k) \/ UpstreamApplies(k) \/ CallFails(k)
        PROVE  current' = current
    BY <1>7 DEF WorkerCalls, BeginCall, UpstreamApplies, CallFails
  <1>8. EndBatch \/ EndWorkflow \/ StopWaiting \/ UNCHANGED vars
           \/ (\E c \in Conns, k \in Keys : UpstreamChanges(c, k))
         => current' = current
    BY DEF EndBatch, EndWorkflow, StopWaiting, OnlyWorkflow, UpstreamChanges,
           OnlyUpstream, vars
  <1>9. BackgroundSync \/ BeginReconcile =>
          current' = current \/ \E f \in Flights : StartFlight(f)
    BY DEF BackgroundSync, BeginReconcile
  <1>10. current' = current \/ \E f \in Flights : StartFlight(f)
    BY <1>1, <1>2, <1>5, <1>6, <1>7, <1>8, <1>9 DEF Next, CallEnds, WorkflowSteps
  <1> QED
    BY <1>1, <1>2, <1>3, <1>4, <1>10

LEMMA CurrentStep ==
  ASSUME SafetyInv, TypeOK', CurrentIsFresh, [Next]_vars
  PROVE  CurrentIsFresh'
  <1>0. TypeOK
    BY DEF SafetyInv
  <1> SUFFICES ASSUME current' # None PROVE IsFresh(current)'
    BY DEF CurrentIsFresh
  <1>1. ASSUME NEW f \in Flights, StartFlight(f), current' = f
        PROVE  IsFresh(current)'
    <2>1. IsFresh(f)'
      BY <1>0, <1>1, StartedIsFresh
    <2> QED
      BY <1>1, <2>1 DEF IsFresh, SameConnection, SameKeys
  <1>2. CASE /\ current' = current /\ ~Restart
             /\ \A o : ~EndFlight(current, o)
             /\ \A c \in Conns : ~RotateConnection(c)
             /\ \A k \in Keys : Confirm(k) => UNCHANGED keyGeneration
    <2>1. current \in Flights /\ IsFresh(current)
      BY <1>0, <1>2 DEF CurrentIsFresh, TypeOK
    <2>2. \A k \in Keys : ~Confirm(k)
      BY <1>0, <1>2, ConfirmEffect DEF TypeOK
    <2>3. UNCHANGED <<connectionGeneration, keyGeneration>>
      BY <1>2, <2>2, StepKinds
    <2>4. ASSUME NEW f \in Flights, f = current PROVE IsFresh(f)'
      BY <1>2, <2>1, <2>3, <2>4, FreshStays
    <2> QED
      BY <1>2, <2>1, <2>4 DEF IsFresh, SameConnection, SameKeys
  <1> QED
    BY <1>0, <1>1, <1>2, CurrentEffect

\* How a reconciliation goes on waiting.
LEMMA WaitEffect ==
  ASSUME TypeOK, WorkflowShape, [Next]_vars, waiting' # None
  PROVE  \/ BeginReconcile
         \/ /\ waiting' = waiting /\ reconcileGeneration' = reconcileGeneration
            /\ ~Restart /\ \A o : ~EndFlight(waiting, o)
  <1>1. ~Restart /\ ~StopWaiting /\ \A o : ~EndFlight(waiting, o)
    BY DEF Restart, StopWaiting, EndFlight
  <1> DEFINE Kept == UNCHANGED <<waiting, reconcileGeneration>>
  <1>2. ASSUME NEW f \in Flights, FlightSteps(f) PROVE Kept
    BY <1>2 DEF FlightSteps, ReadSettings, FlightGivesUp, ReadKeyGeneration,
                ReadPage, ListFails, Publish, PublishFails, EndFlight,
                OnlyFlights, workflowVars
  <1>3. ASSUME Administration PROVE Kept
    BY <1>3 DEF Administration, DeleteBinding, SetBinding, OnlyRows,
       RotateConnection, UpdateSettings, AdmitSingle, BeginCall, StartBatch,
       workflowVars
  <1>4. ASSUME NEW k \in Keys, WorkerCalls(k) \/ UpstreamApplies(k) \/ CallEnds(k)
        PROVE  Kept
    BY <1>4, CallEndsEffect DEF WorkerCalls, BeginCall, UpstreamApplies,
                                workflowVars
  <1>5. ASSUME EndWorkflow PROVE FALSE
    BY <1>5 DEF EndWorkflow, WorkflowShape
  <1>6. BackgroundSync \/ EndBatch \/ UNCHANGED vars
           \/ (\E c \in Conns, k \in Keys : UpstreamChanges(c, k))
         => Kept
    BY DEF BackgroundSync, OnlyFlights, EndBatch, UpstreamChanges, OnlyUpstream,
           workflowVars, vars
  <1> QED
    BY <1>1, <1>2, <1>3, <1>4, <1>5, <1>6 DEF Next, WorkflowSteps

LEMMA WaitStep ==
  ASSUME SafetyInv, TypeOK', WorkflowShape, CurrentIsFresh, WaitIsFresh,
         [Next]_vars
  PROVE  WaitIsFresh'
  <1>0. TypeOK
    BY DEF SafetyInv
  <1> SUFFICES ASSUME waiting' # None, reconcileGeneration' = connectionGeneration'
               PROVE  IsFresh(waiting)'
    BY DEF WaitIsFresh
  <1>1. CASE BeginReconcile
    <2>1. ASSUME NEW f \in Flights, StartFlight(f), waiting' = f
          PROVE  IsFresh(waiting)'
      <3>1. IsFresh(f)'
        BY <1>0, <2>1, StartedIsFresh
      <3> QED
        BY <2>1, <3>1 DEF IsFresh, SameConnection, SameKeys
    <2>2. CASE current # None /\ waiting' = current /\ UNCHANGED flight
      <3>1. UNCHANGED <<connectionGeneration, keyGeneration>>
        BY <1>1 DEF BeginReconcile, generationVars
      <3>2. IsFresh(current)
        BY <2>2 DEF CurrentIsFresh
      <3> QED
        BY <2>2, <3>1, <3>2 DEF IsFresh, SameConnection, SameKeys
    <2> QED
      BY <1>1, <2>1, <2>2 DEF BeginReconcile
  <1>2. CASE /\ waiting' = waiting /\ reconcileGeneration' = reconcileGeneration
             /\ ~Restart /\ \A o : ~EndFlight(waiting, o)
    <2>1. waiting \in Flights /\ NoCalls
      BY <1>0, <1>2 DEF WorkflowShape, TypeOK
    <2>2. \A k \in Keys : ~Confirm(k)
      BY <2>1 DEF NoCalls, Confirm
    <2>3. \A c \in Conns : ~RotateConnection(c)
      BY <1>0, <1>2 DEF RotateConnection, BeginConnectionRotation,
                        WorkflowShape, TypeOK
    <2>4. UNCHANGED <<connectionGeneration, keyGeneration>>
      BY <1>2, <2>2, <2>3, StepKinds
    <2>5. IsFresh(waiting)
      BY <1>2, <2>4 DEF WaitIsFresh
    <2>6. ASSUME NEW f \in Flights, f = waiting PROVE IsFresh(f)'
      BY <1>2, <2>4, <2>5, <2>6, FreshStays
    <2> QED
      BY <1>2, <2>1, <2>6 DEF IsFresh, SameConnection, SameKeys
  <1> QED
    BY <1>0, <1>1, <1>2, WaitEffect

\* A complete list of the current generations is stored in the rows, and
\* perhaps in the cache.
Stores(f) ==
  /\ SameConnection(f) /\ SameKeys(f)
  /\ flight[f].pc = "listing" /\ flight[f].read = Keys
  /\ ApplyKeySnapshots(f)
  /\ cacheUsage' \in {cacheUsage, flight[f].list}

LEMMA RowsEffect ==
  ASSUME TypeOK, [Next]_vars
  PROVE  \/ Restart
         \/ \E c \in Conns : RotateConnection(c)
         \/ \E k \in Keys : Confirm(k)
         \/ \E k \in Keys : DeleteBinding(k) \/ \E old \in Keys : SetBinding(k, old)
         \/ \E f \in Flights : Stores(f)
         \/ UNCHANGED <<bound, usage, cacheUsage>>
  <1> DEFINE Kept == UNCHANGED <<bound, usage, cacheUsage>>
  <1>1. ASSUME NEW f \in Flights, Publish(f) \/ PublishFails(f)
        PROVE  Stores(f) \/ Kept
    BY <1>1 DEF Publish, PublishFails, Stores, rowVars, cacheVars
  <1>2. ASSUME NEW f \in Flights, FlightSteps(f), ~Publish(f), ~PublishFails(f)
        PROVE  Kept
    BY <1>2 DEF FlightSteps, ReadSettings, FlightGivesUp, ReadKeyGeneration,
                ReadPage, ListFails, OnlyFlights, rowVars, cacheVars
  <1>3. ASSUME NEW k \in Keys, NEW kind \in Singles, AdmitSingle(k, kind)
        PROVE  Kept
    BY <1>3 DEF AdmitSingle, BeginCall, rowVars, cacheVars
  <1>4. ASSUME NEW k \in Keys, WorkerCalls(k) \/ UpstreamApplies(k) \/ CallFails(k)
        PROVE  Kept
    BY <1>4 DEF WorkerCalls, BeginCall, UpstreamApplies, CallFails, rowVars,
                cacheVars
  <1>5. UpdateSettings \/ StartBatch \/ WorkflowSteps \/ StopWaiting
           \/ BackgroundSync \/ UNCHANGED vars
           \/ (\E c \in Conns, k \in Keys : UpstreamChanges(c, k))
         => Kept
    BY DEF UpdateSettings, StartBatch, WorkflowSteps, EndBatch, BeginReconcile,
           EndWorkflow, StopWaiting, OnlyWorkflow, BackgroundSync, OnlyFlights,
           UpstreamChanges, OnlyUpstream, rowVars, cacheVars, vars
  <1>6. \A k \in Keys : \A old \in bound \cup {k} : old \in Keys
    BY DEF TypeOK
  <1> QED
    BY <1>1, <1>2, <1>3, <1>4, <1>5, <1>6 DEF Next, Administration, CallEnds

\* How a reconciliation comes to have succeeded.
LEMMA OkEffect ==
  ASSUME TypeOK, [Next]_vars, reconciled' = "ok"
  PROVE  \/ /\ UNCHANGED <<reconciled, reconcileGeneration>> /\ ~Restart
         \/ \E f \in Flights : waiting = f /\ (ListFails(f) \/ Publish(f))
  <1> DEFINE Kept == UNCHANGED <<reconciled, reconcileGeneration>>
  <1>1. ~Restart /\ ~StopWaiting /\ ~EndWorkflow
    BY DEF Restart, StopWaiting, EndWorkflow
  <1>2. ASSUME NEW f \in Flights, FlightSteps(f), ~ListFails(f), ~Publish(f)
        PROVE  Kept
    BY <1>2 DEF FlightSteps, ReadSettings, FlightGivesUp, ReadKeyGeneration,
                ReadPage, PublishFails, OnlyFlights, EndFlight, workflowVars
  <1>3. ASSUME NEW f \in Flights, ListFails(f) \/ Publish(f), waiting # f
        PROVE  Kept
    BY <1>3 DEF ListFails, Publish, EndFlight
  <1>4. ASSUME Administration PROVE Kept
    BY <1>4 DEF Administration, DeleteBinding, SetBinding, OnlyRows,
       RotateConnection, UpdateSettings, AdmitSingle, BeginCall, StartBatch,
       workflowVars
  <1>5. ASSUME NEW k \in Keys, WorkerCalls(k) \/ UpstreamApplies(k) \/ CallEnds(k)
        PROVE  Kept
    BY <1>5, CallEndsEffect DEF WorkerCalls, BeginCall, UpstreamApplies,
                                workflowVars
  <1>6. ~BeginReconcile
    BY DEF BeginReconcile
  <1>7. BackgroundSync \/ EndBatch \/ UNCHANGED vars
           \/ (\E c \in Conns, k \in Keys : UpstreamChanges(c, k))
         => Kept
    BY DEF BackgroundSync, OnlyFlights, EndBatch, UpstreamChanges, OnlyUpstream,
           workflowVars, vars
  <1> QED
    BY <1>1, <1>2, <1>3, <1>4, <1>5, <1>6, <1>7 DEF Next, WorkflowSteps

\* After a sync that succeeded for the current connection, the cache and the
\* rows contain what is owed.
OkIsRepaired ==
  reconciled = "ok" /\ reconcileGeneration = connectionGeneration =>
    \A d \in owed : d.conn = conn =>
      /\ d.version <= cacheUsage[d.key]
      /\ d.key \in bound => d.version <= usage[d.key]

RepairInv ==
  /\ SafetyInv
  /\ WorkflowShape /\ OwedIsTrue /\ ListsRepair
  /\ CurrentIsFresh /\ WaitIsFresh /\ OkIsRepaired

LEMMA OkStep ==
  ASSUME RepairInv, TypeOK', [Next]_vars
  PROVE  OkIsRepaired'
  <1>0. TypeOK /\ SafetyInv
    BY DEF RepairInv, SafetyInv
  <1> SUFFICES ASSUME reconciled' = "ok",
                      reconcileGeneration' = connectionGeneration',
                      NEW d \in owed', d.conn = conn'
               PROVE  /\ d.version <= cacheUsage'[d.key]
                      /\ d.key \in bound' => d.version <= usage'[d.key]
    BY DEF OkIsRepaired
  <1>1. d.key \in Keys /\ d.version \in Nat
    BY DEF TypeOK, Changes
  <1>2. ASSUME NEW f \in Flights, Stores(f), d \in owed, d.conn = conn
        PROVE  /\ d.version <= flight[f].list[d.key]
               /\ d.key \in bound' => d.version <= usage'[d.key]
    <2>1. d.version <= flight[f].list[d.key]
      BY <1>1, <1>2 DEF Stores, RepairInv, ListsRepair
    <2>2. d.key \in bound' => usage'[d.key] = flight[f].list[d.key]
      BY <1>1, <1>2 DEF Stores, ApplyKeySnapshots
    <2> QED
      BY <2>1, <2>2
  <1>3. CASE UNCHANGED <<reconciled, reconcileGeneration>> /\ ~Restart
    <2>1. workflow = "reconcile" /\ NoCalls
          /\ reconcileGeneration <= connectionGeneration
      BY <1>3 DEF RepairInv, WorkflowShape
    <2>2. \A k \in Keys : ~Confirm(k)
      BY <2>1 DEF NoCalls, Confirm
    <2>3. \A c \in Conns : ~RotateConnection(c)
      BY <1>0, <1>3, <2>1 DEF RotateConnection, BeginConnectionRotation, TypeOK
    <2>4. UNCHANGED <<conn, connectionGeneration, keyGeneration>> /\ d \in owed
      BY <1>0, <1>3, <2>2, <2>3, StepKinds
    <2>5. /\ d.version <= cacheUsage[d.key]
          /\ d.key \in bound => d.version <= usage[d.key]
      BY <1>3, <2>4 DEF RepairInv, OkIsRepaired
    <2>6. CASE UNCHANGED <<bound, usage, cacheUsage>>
      BY <2>5, <2>6
    <2>7. ASSUME NEW f \in Flights, Stores(f)
          PROVE  /\ d.version <= cacheUsage'[d.key]
                 /\ d.key \in bound' => d.version <= usage'[d.key]
      <3>1. /\ d.version <= flight[f].list[d.key]
            /\ d.key \in bound' => d.version <= usage'[d.key]
        BY <1>2, <2>4, <2>7
      <3>2. cacheUsage' = cacheUsage \/ cacheUsage' = flight[f].list
        BY <2>7 DEF Stores
      <3> QED
        BY <2>5, <3>1, <3>2
    <2>8. ASSUME NEW k \in Keys, DeleteBinding(k)
          PROVE  /\ d.version <= cacheUsage'[d.key]
                 /\ d.key \in bound' => d.version <= usage'[d.key]
      BY <1>0, <1>1, <2>5, <2>8 DEF DeleteBinding, OnlyRows, cacheVars, TypeOK
    <2>9. ASSUME NEW k \in Keys, NEW old \in Keys, SetBinding(k, old)
          PROVE  /\ d.version <= cacheUsage'[d.key]
                 /\ d.key \in bound' => d.version <= usage'[d.key]
      <3>1. UNCHANGED cacheUsage
        BY <2>9 DEF SetBinding, OnlyRows, cacheVars
      <3>2. bound' = (bound \ {old}) \cup {k}
        BY <2>9 DEF SetBinding
      <3>3. usage'[d.key] = IF d.key = k THEN cacheUsage[k]
                            ELSE IF d.key = old THEN 0 ELSE usage[d.key]
        BY <1>1, <2>9 DEF SetBinding
      <3> QED
        BY <2>5, <3>1, <3>2, <3>3
    <2> QED
      BY <1>0, <1>3, <2>2, <2>3, <2>6, <2>7, <2>8, <2>9, RowsEffect
  <1>4. ASSUME NEW f \in Flights, waiting = f, ListFails(f) \/ Publish(f)
        PROVE  /\ d.version <= cacheUsage'[d.key]
               /\ d.key \in bound' => d.version <= usage'[d.key]
    <2>1. \E o : EndFlight(f, o)
      BY <1>4 DEF ListFails, Publish
    <2>2. UNCHANGED <<conn, connectionGeneration, reconcileGeneration, owed>>
      BY <2>1 DEF EndFlight, generationVars
    <2>3. flight[f].pc = "listing" /\ f # None
      BY <1>4, KeySyncConstants DEF ListFails, Publish
    <2>4. SameConnection(f) /\ SameKeys(f)
      BY <1>4, <2>2, <2>3 DEF RepairInv, WaitIsFresh, IsFresh
    <2>5. ~ListFails(f)
      BY <1>4, <2>4 DEF ListFails, EndFlight
    <2>6. Stores(f) /\ cacheUsage' = flight[f].list
      BY <1>4, <2>4, <2>5 DEF Publish, Stores
    <2>7. /\ d.version <= flight[f].list[d.key]
          /\ d.key \in bound' => d.version <= usage'[d.key]
      BY <1>2, <2>2, <2>6
    <2> QED
      BY <2>6, <2>7
  <1> QED
    BY <1>0, <1>3, <1>4, OkEffect

LEMMA RepairInit == Init => RepairInv
  <1> SUFFICES ASSUME Init PROVE RepairInv
    OBVIOUS
  <1>1. SafetyInv
    BY SafetyInit
  <1>2. WorkflowShape
    BY IdleCallFields DEF Init, WorkflowShape, NoCalls, Singles
  <1>3. ListsRepair
    BY IdleFlightFields DEF Init, ListsRepair
  <1>4. OwedIsTrue /\ CurrentIsFresh /\ WaitIsFresh /\ OkIsRepaired
    BY DEF Init, OwedIsTrue, CurrentIsFresh, WaitIsFresh, OkIsRepaired
  <1> QED
    BY <1>1, <1>2, <1>3, <1>4 DEF RepairInv

LEMMA RepairStep == RepairInv /\ [Next]_vars => RepairInv'
  <1> SUFFICES ASSUME RepairInv, [Next]_vars PROVE RepairInv'
    OBVIOUS
  <1>1. SafetyInv /\ SafetyInv' /\ TypeOK'
    BY SafetyStep DEF RepairInv, SafetyInv
  <1>2. WorkflowShape'
    BY <1>1, ShapeStep DEF RepairInv
  <1>3. OwedIsTrue' /\ ListsRepair'
    BY <1>1, OwedStep, ListsStep DEF RepairInv
  <1>4. CurrentIsFresh' /\ WaitIsFresh'
    BY <1>1, CurrentStep, WaitStep DEF RepairInv
  <1>5. OkIsRepaired'
    BY <1>1, OkStep
  <1> QED
    BY <1>1, <1>2, <1>3, <1>4, <1>5 DEF RepairInv

\* When the sync after a reset, a limit change or a batch succeeds, the rows
\* contain every change confirmed to it, unless a rotation came between: the
\* flight it joined cannot be one that a confirmation had outrun, because
\* each confirmation makes the group forget the flight it knew.
THEOREM SyncsRepair == Spec => []ReconciliationRepairs
  <1>1. RepairInv => ReconciliationRepairs
    <2> SUFFICES ASSUME RepairInv, reconciled = "ok",
                        reconcileGeneration = connectionGeneration,
                        NEW d \in owed, d.conn = conn, d.key \in bound
                 PROVE  usage[d.key] >= d.version
      BY DEF ReconciliationRepairs, Repaired
    <2>1. d.version <= usage[d.key]
      BY DEF RepairInv, OkIsRepaired
    <2>2. d.version \in Nat /\ usage[d.key] \in Nat
      BY DEF RepairInv, SafetyInv, TypeOK, Changes
    <2> QED
      BY <2>1, <2>2
  <1> QED
    BY <1>1, RepairInit, RepairStep, PTL DEF Spec

=============================================================================
