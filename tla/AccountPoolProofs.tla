------------------------- MODULE AccountPoolProofs -------------------------
(***************************************************************************)
(* Theorems about AccountPool: rows are of the connection the settings     *)
(* name and their status never claims more than they say, for any number   *)
(* of accounts, connections, flights and requests.                         *)
(***************************************************************************)
EXTENDS AccountPool, TLAPS

-----------------------------------------------------------------------------
(* Records.                                                                *)

LEMMA NoInventoryFields ==
  /\ NoInventory \in Inventories /\ NoInventory.pc = "idle"
  /\ NoInventory.generation = 0
  BY PoolConstants DEF NoInventory, Inventories, Listed, States

LEMMA NoUsageFields ==
  /\ NoUsage \in Usages /\ NoUsage.pc = "idle" /\ NoUsage.generation = 0
  BY PoolConstants DEF NoUsage, Usages

LEMMA NoRowFields ==
  /\ NoRow \in Rows /\ NoRow.origin = None /\ NoRow.usedFrom = None
  /\ NoRow.status = "unavailable" /\ ~NoRow.published
  BY DEF NoRow, Rows, States, Statuses

LEMMA IdlePutFields ==
  /\ IdlePut \in PutStates /\ IdlePut.pc = "idle"
  BY PoolConstants DEF IdlePut, PutStates

LEMMA StartedInventory ==
  ASSUME NEW g \in Nat, NEW c \in Conns
  PROVE  LET r == [NoInventory EXCEPT !.pc = "fetching", !.generation = g, !.conn = c]
         IN  r \in Inventories /\ r.pc = "fetching" /\ r.generation = g /\ r.conn = c
  BY NoInventoryFields DEF Inventories

LEMMA StartedUsage ==
  ASSUME NEW g \in Nat, NEW c \in Conns
  PROVE  LET r == [NoUsage EXCEPT !.pc = "started", !.generation = g, !.conn = c]
         IN  r \in Usages /\ r.pc = "started" /\ r.generation = g /\ r.conn = c
  BY NoUsageFields DEF Usages

LEMMA StatusType ==
  ASSUME NEW state \in States, NEW missing \in BOOLEAN, NEW failed \in BOOLEAN,
         NEW full \in BOOLEAN
  PROVE  /\ Status(state, missing, failed, full) \in Statuses
         /\ Status(state, missing, failed, full) \in {"healthy", "rate_limited"}
              => ~missing /\ ~failed /\ state = "ok"
         /\ Status(state, missing, failed, full) = "rate_limited" => full
         /\ Status(state, missing, failed, full) = "healthy" => ~full
         /\ missing => Status(state, missing, failed, full) = "unavailable"
  BY DEF Status, Statuses, States

LEMMA ListedRowFields ==
  ASSUME NEW a \in Accounts, row[a] \in Rows, NEW c \in Conns, NEW s \in States
  PROVE  LET r == ListedRow(a, c, s) IN
         /\ r \in Rows /\ r.origin = c /\ r.usedFrom = row[a].usedFrom
         /\ ~r.missing /\ r.state = s /\ r.failed = row[a].failed
         /\ r.used = row[a].used /\ r.relisted
         /\ r.status # "rate_limited"
         /\ r.status = "healthy" => ~row[a].failed /\ s = "ok"
<1> DEFINE r == ListedRow(a, c, s)
<1>1. Status(s, FALSE, FALSE, FALSE) \in Statuses
  BY StatusType
<1>2. /\ r \in Rows /\ r.origin = c /\ r.usedFrom = row[a].usedFrom
      /\ ~r.missing /\ r.state = s /\ r.failed = row[a].failed
      /\ r.used = row[a].used /\ r.relisted
      /\ r.status = IF row[a].failed THEN "degraded"
                    ELSE Status(s, FALSE, FALSE, FALSE)
  BY <1>1 DEF ListedRow, Rows, Statuses
<1> HIDE DEF r
<1>3. /\ r.status # "rate_limited"
      /\ r.status = "healthy" => ~row[a].failed /\ s = "ok"
  BY <1>2 DEF Status, States
<1> QED
  BY <1>2, <1>3 DEF r

LEMMA UsedRowFields ==
  ASSUME NEW a \in Accounts, row[a] \in Rows, NEW c \in Conns, NEW A,
         NEW u \in [Accounts -> Nat], a \in A
  PROVE  LET r == UsedRow(a, c, A, u) IN
         /\ r \in Rows /\ r.origin = row[a].origin /\ r.usedFrom = c
         /\ r.missing = row[a].missing /\ r.state = row[a].state
         /\ ~r.failed /\ r.used = u[a]
         /\ r.status \in {"healthy", "rate_limited"}
              => ~row[a].missing /\ row[a].state = "ok"
         /\ r.status = "rate_limited" => Full(u[a])
         /\ r.status = "healthy" => ~Full(u[a])
         /\ row[a].missing => r.status = "unavailable"
<1>1. row[a].state \in States /\ row[a].missing \in BOOLEAN
      /\ Full(u[a]) \in BOOLEAN /\ u[a] \in Nat
  BY DEF Rows, Full
<1>2. Status(row[a].state, row[a].missing, FALSE, Full(u[a])) \in Statuses
  BY <1>1, StatusType
<1> DEFINE r == UsedRow(a, c, A, u)
<1>3. /\ r \in Rows /\ r.origin = row[a].origin /\ r.usedFrom = c
      /\ r.missing = row[a].missing /\ r.state = row[a].state
      /\ ~r.failed /\ r.used = u[a]
      /\ r.status = Status(row[a].state, row[a].missing, FALSE, Full(u[a]))
  BY <1>1, <1>2 DEF UsedRow, Rows
<1> HIDE DEF r
<1>4. /\ r.status \in {"healthy", "rate_limited"}
           => ~row[a].missing /\ row[a].state = "ok"
      /\ r.status = "rate_limited" => Full(u[a])
      /\ r.status = "healthy" => ~Full(u[a])
      /\ row[a].missing => r.status = "unavailable"
  BY <1>1, <1>3 DEF Status, States
<1> QED
  BY <1>3, <1>4 DEF r

LEMMA UnansweredRowFields ==
  ASSUME NEW a \in Accounts, row[a] \in Rows, NEW c, NEW A, NEW u, a \notin A
  PROVE  LET r == UsedRow(a, c, A, u) IN
         /\ r \in Rows /\ r.origin = row[a].origin
         /\ r.usedFrom = row[a].usedFrom
         /\ r.missing = row[a].missing /\ r.state = row[a].state
         /\ r.failed /\ r.used = row[a].used
         /\ r.status \notin {"healthy", "rate_limited"}
         /\ row[a].missing => r.status = "unavailable"
<1>1. row[a].state \in States /\ row[a].missing \in BOOLEAN
  BY DEF Rows
<1>2. Status(row[a].state, row[a].missing, TRUE, FALSE) \in Statuses
  BY <1>1, StatusType
<1> QED
  BY <1>1, <1>2 DEF UsedRow, Rows, Status

LEMMA FailedRowFields ==
  ASSUME NEW a \in Accounts, row[a] \in Rows
  PROVE  LET r == FailedRow(a) IN
         /\ r \in Rows /\ r.origin = row[a].origin
         /\ r.usedFrom = row[a].usedFrom
         /\ r.missing = row[a].missing
         /\ r.status = IF row[a].missing THEN "unavailable" ELSE "degraded"
  BY DEF FailedRow, Rows, Statuses

LEMMA PublishedRowFields ==
  ASSUME NEW a \in Accounts, row[a] \in Rows, NEW b \in BOOLEAN
  PROVE  LET r == [row[a] EXCEPT !.published = b] IN
         /\ r \in Rows /\ r.origin = row[a].origin
         /\ r.usedFrom = row[a].usedFrom /\ r.missing = row[a].missing
         /\ r.failed = row[a].failed /\ r.state = row[a].state
         /\ r.used = row[a].used /\ r.status = row[a].status
         /\ r.relisted = row[a].relisted
  BY DEF Rows

LEMMA MissingRowFields ==
  ASSUME NEW a \in Accounts, row[a] \in Rows
  PROVE  LET r == [row[a] EXCEPT !.missing = TRUE, !.relisted = TRUE,
                                 !.status = "unavailable"] IN
         /\ r \in Rows /\ r.origin = row[a].origin
         /\ r.usedFrom = row[a].usedFrom /\ r.missing
         /\ r.status = "unavailable"
  BY DEF Rows, Statuses

-----------------------------------------------------------------------------
(* The inductive invariant, by the part of the state it is about.          *)

\* One row: of the present connection, and shown as far as its columns allow.
RowIsTrue(r, conn) ==
  /\ {r.origin, r.usedFrom} \subseteq {conn, None}
  /\ r.status \in {"healthy", "rate_limited"}
       => ~r.missing /\ ~r.failed /\ r.state = "ok"
  /\ r.status = "rate_limited" => Full(r.used)
  /\ r.status = "healthy" /\ Full(r.used) => r.relisted
  /\ r.missing => r.status = "unavailable"

RowPart ==
  /\ row \in [Accounts -> Rows]
  /\ \A a \in Accounts : RowIsTrue(row[a], base)

\* No flight is of a later generation, and one of the present generation asks
\* the present connection.
FlightIsTrue(flight) ==
  /\ flight.generation <= generation
  /\ flight.pc # "idle" /\ flight.generation = generation => flight.conn = base

InventoryPart ==
  /\ inventory \in [Flights -> Inventories]
  /\ \A f \in Flights : FlightIsTrue(inventory[f])

UsagePart ==
  /\ usage \in [Flights -> Usages]
  /\ \A f \in Flights : FlightIsTrue(usage[f])

\* Whoever probes holds settingsMu, and what it read is still so.
PutPart ==
  /\ put \in [Puts -> PutStates]
  /\ settingsMu \in Puts \cup {None}
  /\ \A p \in Puts : put[p].pc = "probing" => settingsMu = p /\ put[p].read = base

OtherPart ==
  /\ upstream \in [Conns -> [Accounts -> Upstream]]
  /\ base \in Conns
  /\ generation \in Nat
  /\ current \in [Scopes -> Flights \cup {None}]
  /\ changes \in 0 .. MaxChanges
  /\ faults \in 0 .. MaxFaults
  /\ rotations \in 0 .. MaxRotations

PoolInv == RowPart /\ InventoryPart /\ UsagePart /\ PutPart /\ OtherPart

-----------------------------------------------------------------------------
(* Rows.                                                                   *)

LEMMA RowFields ==
  ASSUME RowPart, NEW a \in Accounts
  PROVE  /\ row[a] \in Rows /\ RowIsTrue(row[a], base)
         /\ row[a].state \in States /\ row[a].missing \in BOOLEAN
         /\ row[a].failed \in BOOLEAN /\ row[a].used \in Nat
  BY DEF RowPart, Rows

\* Rows are of one connection and none of another.
LEMMA RowsStep ==
  ASSUME NEW T, row' = [a \in Accounts |-> T[a]], base' = base,
         \A a \in Accounts : T[a] \in Rows /\ RowIsTrue(T[a], base)
  PROVE  RowPart'
  BY DEF RowPart, RowIsTrue

LEMMA ListedRowTrue ==
  ASSUME RowPart, NEW a \in Accounts, NEW s \in States, base \in Conns
  PROVE  ListedRow(a, base, s) \in Rows /\ RowIsTrue(ListedRow(a, base, s), base)
<1> DEFINE r == ListedRow(a, base, s)
<1>1. /\ r \in Rows /\ r.origin = base /\ r.usedFrom = row[a].usedFrom
      /\ ~r.missing /\ r.state = s /\ r.failed = row[a].failed
      /\ r.status # "rate_limited" /\ r.relisted
      /\ r.status = "healthy" => ~row[a].failed /\ s = "ok"
  BY RowFields, ListedRowFields
<1> HIDE DEF r
<1>2. row[a].usedFrom \in {base, None}
  BY RowFields DEF RowIsTrue
<1>3. RowIsTrue(r, base)
  BY <1>1, <1>2 DEF RowIsTrue
<1> QED
  BY <1>1, <1>3 DEF r

LEMMA MissingRowTrue ==
  ASSUME RowPart, NEW a \in Accounts
  PROVE  LET r == [row[a] EXCEPT !.missing = TRUE, !.relisted = TRUE,
                                 !.status = "unavailable"]
         IN  r \in Rows /\ RowIsTrue(r, base)
<1> DEFINE r == [row[a] EXCEPT !.missing = TRUE, !.relisted = TRUE,
                               !.status = "unavailable"]
<1>1. /\ r \in Rows /\ r.origin = row[a].origin
      /\ r.usedFrom = row[a].usedFrom /\ r.missing /\ r.status = "unavailable"
  BY RowFields, MissingRowFields
<1> HIDE DEF r
<1>2. RowIsTrue(r, base)
  BY <1>1, RowFields DEF RowIsTrue
<1> QED
  BY <1>1, <1>2 DEF r

LEMMA InventoryRows ==
  ASSUME RowPart, base \in Conns, NEW list \in [Accounts -> Listed],
         ApplyPoolInventory(base, list), base' = base
  PROVE  RowPart'
<1> DEFINE T == [a \in Accounts |->
                   IF list[a] # "absent" THEN ListedRow(a, base, list[a])
                   ELSE IF Exists(a) THEN [row[a] EXCEPT !.missing = TRUE,
                                                         !.relisted = TRUE,
                                                         !.status = "unavailable"]
                   ELSE row[a]]
<1>1. ASSUME NEW a \in Accounts
      PROVE  T[a] \in Rows /\ RowIsTrue(T[a], base)
  <2>1. CASE list[a] # "absent"
    <3>1. list[a] \in States /\ T[a] = ListedRow(a, base, list[a])
      BY <2>1 DEF Listed
    <3> QED
      BY <3>1, ListedRowTrue
  <2>2. CASE list[a] = "absent" /\ Exists(a)
    <3>1. T[a] = [row[a] EXCEPT !.missing = TRUE, !.relisted = TRUE,
                                !.status = "unavailable"]
      BY <2>2
    <3> QED
      BY <3>1, MissingRowTrue
  <2>3. CASE list[a] = "absent" /\ ~Exists(a)
    BY <2>3, RowFields
  <2> QED
    BY <2>1, <2>2, <2>3
<1>2. row' = [a \in Accounts |-> T[a]]
  BY DEF ApplyPoolInventory
<1> HIDE DEF T
<1> QED
  BY <1>1, <1>2, RowsStep

LEMMA UsedRowTrue ==
  ASSUME RowPart, NEW a \in Accounts, NEW A, NEW u \in [Accounts -> Nat],
         base \in Conns
  PROVE  UsedRow(a, base, A, u) \in Rows /\ RowIsTrue(UsedRow(a, base, A, u), base)
<1> DEFINE r == UsedRow(a, base, A, u)
<1>1. row[a].origin \in {base, None} /\ row[a].usedFrom \in {base, None}
  BY RowFields DEF RowIsTrue
<1>2. ASSUME a \in A
      PROVE  r \in Rows /\ RowIsTrue(r, base)
  <2>1. /\ r \in Rows /\ r.origin = row[a].origin /\ r.usedFrom = base
        /\ r.missing = row[a].missing /\ r.state = row[a].state
        /\ ~r.failed /\ r.used = u[a]
        /\ r.status \in {"healthy", "rate_limited"}
             => ~row[a].missing /\ row[a].state = "ok"
        /\ r.status = "rate_limited" => Full(u[a])
        /\ r.status = "healthy" => ~Full(u[a])
        /\ row[a].missing => r.status = "unavailable"
    BY <1>2, RowFields, UsedRowFields
  <2> HIDE DEF r
  <2> QED
    BY <1>1, <2>1 DEF RowIsTrue
<1>3. ASSUME a \notin A
      PROVE  r \in Rows /\ RowIsTrue(r, base)
  <2>1. /\ r \in Rows /\ r.origin = row[a].origin
        /\ r.usedFrom = row[a].usedFrom
        /\ r.missing = row[a].missing
        /\ r.status \notin {"healthy", "rate_limited"}
        /\ row[a].missing => r.status = "unavailable"
    BY <1>3, RowFields, UnansweredRowFields
  <2> HIDE DEF r
  <2> QED
    BY <1>1, <2>1 DEF RowIsTrue
<1> QED
  BY <1>2, <1>3

LEMMA UsageRows ==
  ASSUME RowPart, base \in Conns, NEW flight \in Usages, flight.conn = base,
         ApplyPoolUsage(flight), base' = base
  PROVE  RowPart'
<1> DEFINE T == [a \in Accounts |->
                   IF a \in flight.ids /\ Exists(a)
                   THEN UsedRow(a, base, flight.answered, flight.used)
                   ELSE row[a]]
<1>1. flight.used \in [Accounts -> Nat]
  BY DEF Usages
<1>2. ASSUME NEW a \in Accounts
      PROVE  T[a] \in Rows /\ RowIsTrue(T[a], base)
  <2>1. CASE a \in flight.ids /\ Exists(a)
    <3>1. T[a] = UsedRow(a, base, flight.answered, flight.used)
      BY <2>1
    <3> QED
      BY <1>1, <3>1, UsedRowTrue
  <2>2. CASE ~(a \in flight.ids /\ Exists(a))
    BY <2>2, RowFields
  <2> QED
    BY <2>1, <2>2
<1>3. row' = [a \in Accounts |-> T[a]]
  BY DEF ApplyPoolUsage
<1> HIDE DEF T
<1> QED
  BY <1>2, <1>3, RowsStep

LEMMA FailedRows ==
  ASSUME RowPart, base' = base, NEW S,
         row' = [a \in Accounts |-> IF a \in S THEN FailedRow(a) ELSE row[a]]
  PROVE  RowPart'
<1> DEFINE T == [a \in Accounts |-> IF a \in S THEN FailedRow(a) ELSE row[a]]
<1>1. ASSUME NEW a \in Accounts
      PROVE  T[a] \in Rows /\ RowIsTrue(T[a], base)
  <2>1. CASE a \in S
    <3> DEFINE r == FailedRow(a)
    <3>1. /\ r \in Rows /\ r.origin = row[a].origin
          /\ r.usedFrom = row[a].usedFrom /\ r.missing = row[a].missing
          /\ r.status = IF row[a].missing THEN "unavailable" ELSE "degraded"
      BY RowFields, FailedRowFields
    <3> HIDE DEF r
    <3>2. RowIsTrue(r, base)
      BY <3>1, RowFields DEF RowIsTrue
    <3> QED
      BY <2>1, <3>1, <3>2 DEF r
  <2>2. CASE a \notin S
    BY <2>2, RowFields
  <2> QED
    BY <2>1, <2>2
<1>2. row' = [a \in Accounts |-> T[a]]
  OBVIOUS
<1> HIDE DEF T
<1> QED
  BY <1>1, <1>2, RowsStep

LEMMA PublishedRows ==
  ASSUME RowPart, base' = base, NEW S, NEW b \in BOOLEAN,
         row' = [a \in Accounts |-> IF a \in S THEN [row[a] EXCEPT !.published = b]
                                    ELSE row[a]]
  PROVE  RowPart'
<1> DEFINE T == [a \in Accounts |-> IF a \in S THEN [row[a] EXCEPT !.published = b]
                                    ELSE row[a]]
<1>1. ASSUME NEW a \in Accounts
      PROVE  T[a] \in Rows /\ RowIsTrue(T[a], base)
  <2>1. CASE a \in S
    <3> DEFINE r == [row[a] EXCEPT !.published = b]
    <3>1. /\ r \in Rows /\ r.origin = row[a].origin
          /\ r.usedFrom = row[a].usedFrom /\ r.missing = row[a].missing
          /\ r.failed = row[a].failed /\ r.state = row[a].state
          /\ r.used = row[a].used /\ r.status = row[a].status
          /\ r.relisted = row[a].relisted
      BY RowFields, PublishedRowFields
    <3> HIDE DEF r
    <3>2. RowIsTrue(r, base)
      BY <3>1, RowFields DEF RowIsTrue
    <3> QED
      BY <2>1, <3>1, <3>2 DEF r
  <2>2. CASE a \notin S
    BY <2>2, RowFields
  <2> QED
    BY <2>1, <2>2
<1>2. row' = [a \in Accounts |-> T[a]]
  OBVIOUS
<1> HIDE DEF T
<1> QED
  BY <1>1, <1>2, RowsStep

LEMMA NoRows ==
  ASSUME row' = [a \in Accounts |-> NoRow]
  PROVE  RowPart'
<1>1. NoRow \in Rows /\ \A c : RowIsTrue(NoRow, c)
  BY NoRowFields DEF RowIsTrue, NoRow
<1> QED
  BY <1>1 DEF RowPart, RowIsTrue

LEMMA RowsStay == RowPart /\ UNCHANGED <<row, base>> => RowPart'
  BY DEF RowPart, RowIsTrue

-----------------------------------------------------------------------------
(* Flights, requests and the rest.                                         *)

LEMMA InventoryStays ==
  InventoryPart /\ UNCHANGED <<inventory, generation, base>> => InventoryPart'
  BY DEF InventoryPart, FlightIsTrue

LEMMA UsageStays ==
  UsagePart /\ UNCHANGED <<usage, generation, base>> => UsagePart'
  BY DEF UsagePart, FlightIsTrue

LEMMA PutStays == PutPart /\ UNCHANGED <<put, settingsMu, base>> => PutPart'
  BY DEF PutPart

LEMMA InventoryStep1 ==
  ASSUME InventoryPart, NEW f \in Flights, NEW r \in Inventories,
         r.generation <= generation,
         r.pc # "idle" /\ r.generation = generation => r.conn = base,
         inventory' = [inventory EXCEPT ![f] = r],
         UNCHANGED <<generation, base>>
  PROVE  InventoryPart'
  BY DEF InventoryPart, FlightIsTrue

LEMMA UsageStep1 ==
  ASSUME UsagePart, NEW f \in Flights, NEW r \in Usages,
         r.generation <= generation,
         r.pc # "idle" /\ r.generation = generation => r.conn = base,
         usage' = [usage EXCEPT ![f] = r],
         UNCHANGED <<generation, base>>
  PROVE  UsagePart'
  BY DEF UsagePart, FlightIsTrue

LEMMA EndInventoryPart ==
  ASSUME InventoryPart, OtherPart, NEW f \in Flights, EndInventory(f),
         UNCHANGED <<generation, base>>
  PROVE  InventoryPart' /\ current' \in [Scopes -> Flights \cup {None}]
<1>1. InventoryPart'
  <2>1. NoInventory.generation <= generation
    BY NoInventoryFields DEF OtherPart
  <2> QED
    BY <2>1, NoInventoryFields, InventoryStep1 DEF EndInventory
<1>2. current' \in [Scopes -> Flights \cup {None}]
  BY DEF EndInventory, Leave, OtherPart
<1> QED
  BY <1>1, <1>2

LEMMA EndUsagePart ==
  ASSUME UsagePart, OtherPart, NEW f \in Flights, EndUsage(f),
         UNCHANGED <<generation, base>>
  PROVE  UsagePart' /\ current' \in [Scopes -> Flights \cup {None}]
<1>1. UsagePart'
  <2>1. NoUsage.generation <= generation
    BY NoUsageFields DEF OtherPart
  <2> QED
    BY <2>1, NoUsageFields, UsageStep1 DEF EndUsage
<1>2. current' \in [Scopes -> Flights \cup {None}]
  BY DEF EndUsage, Leave, OtherPart
<1> QED
  BY <1>1, <1>2

\* What the bounds count, when everything else of this part stays.
LEMMA OthersStay ==
  ASSUME OtherPart, UNCHANGED <<upstream, base, generation>>,
         current' \in [Scopes -> Flights \cup {None}],
         CountFault \/ UNCHANGED boundVars
  PROVE  OtherPart'
  BY PoolConstants DEF OtherPart, CountFault, boundVars

LEMMA EnterType ==
  ASSUME OtherPart, NEW f \in Flights, NEW scope \in Scopes, Enter(f, scope)
  PROVE  current' \in [Scopes -> Flights \cup {None}]
  BY DEF OtherPart, Enter

-----------------------------------------------------------------------------
(* The steps of the inventory.                                             *)

LEMMA StartInventoryInv ==
  ASSUME PoolInv, NEW f \in Flights, StartInventory(f)
  PROVE  PoolInv'
<1> DEFINE r == [NoInventory EXCEPT !.pc = "fetching", !.generation = generation,
                                    !.conn = base]
<1>1. /\ inventory' = [inventory EXCEPT ![f] = r] /\ Enter(f, "accounts")
      /\ UNCHANGED <<upstream, row, usage, base, generation, put, settingsMu>>
      /\ UNCHANGED boundVars
  BY DEF StartInventory, settingsVars, putVars
<1>2. /\ r \in Inventories /\ r.generation = generation /\ r.conn = base
      /\ generation \in Nat
  BY StartedInventory DEF PoolInv, OtherPart
<1> HIDE DEF r
<1>3. InventoryPart'
  <2>1. r.generation <= generation
    BY <1>2
  <2> QED
    BY <1>1, <1>2, <2>1, InventoryStep1 DEF PoolInv
<1>4. OtherPart'
  BY <1>1, EnterType, OthersStay DEF PoolInv, Scopes
<1> QED
  BY <1>1, <1>3, <1>4, RowsStay, UsageStays, PutStays DEF PoolInv

LEMMA FetchInventoryInv ==
  ASSUME PoolInv, NEW f \in Flights, FetchInventory(f)
  PROVE  PoolInv'
<1> DEFINE l == [a \in Accounts |-> upstream[inventory[f].conn][a].state]
           r == [inventory[f] EXCEPT !.pc = "fetched", !.list = l]
<1>1. /\ inventory[f].pc = "fetching"
      /\ inventory' = [inventory EXCEPT ![f].pc = "fetched", ![f].list = l]
      /\ UNCHANGED <<upstream, row, usage, current, base, generation, put, settingsMu>>
      /\ UNCHANGED boundVars
  BY DEF FetchInventory, settingsVars, putVars
<1>2. inventory[f] \in Inventories /\ FlightIsTrue(inventory[f])
  BY DEF PoolInv, InventoryPart
<1>3. inventory[f].conn \in Conns
  BY <1>2 DEF Inventories
<1>4. l \in [Accounts -> Listed]
  BY <1>3 DEF PoolInv, OtherPart, Upstream
<1> HIDE DEF l
<1>5. inventory' = [inventory EXCEPT ![f] = r]
  BY <1>1 DEF PoolInv, InventoryPart
<1>6. /\ r \in Inventories /\ r.generation = inventory[f].generation
      /\ r.conn = inventory[f].conn
  BY <1>2, <1>4 DEF Inventories
<1> HIDE DEF r
<1>7. InventoryPart'
  BY <1>1, <1>2, <1>5, <1>6, InventoryStep1 DEF PoolInv, FlightIsTrue
<1>8. OtherPart'
  BY <1>1, OthersStay DEF PoolInv, OtherPart
<1> QED
  BY <1>1, <1>7, <1>8, RowsStay, UsageStays, PutStays DEF PoolInv

\* The rows a list of the present connection leaves.
LEMMA ListedRows ==
  ASSUME PoolInv, NEW f \in Flights, inventory[f].pc = "fetched",
         Current(inventory[f]), base' = base,
         ApplyPoolInventory(inventory[f].conn, inventory[f].list)
  PROVE  RowPart'
<1>1. inventory[f].conn = base /\ inventory[f].list \in [Accounts -> Listed]
  BY DEF PoolInv, InventoryPart, FlightIsTrue, Inventories, Current
<1> QED
  BY <1>1, InventoryRows DEF PoolInv, OtherPart

LEMMA StoreInventoryInv ==
  ASSUME PoolInv, NEW f \in Flights, StoreInventory(f) \/ FailInventory(f)
  PROVE  PoolInv'
<1>1. /\ EndInventory(f)
      /\ UNCHANGED <<upstream, usage, base, generation, put, settingsMu>>
      /\ CountFault \/ UNCHANGED boundVars
      /\ \/ row' = row
         \/ /\ inventory[f].pc = "fetched" /\ Current(inventory[f])
            /\ ApplyPoolInventory(inventory[f].conn, inventory[f].list)
  BY DEF StoreInventory, FailInventory, settingsVars, putVars
<1>2. RowPart'
  BY <1>1, RowsStay, ListedRows DEF PoolInv
<1>3. InventoryPart' /\ current' \in [Scopes -> Flights \cup {None}]
  BY <1>1, EndInventoryPart DEF PoolInv
<1>4. OtherPart'
  BY <1>1, <1>3, OthersStay DEF PoolInv
<1> QED
  BY <1>1, <1>2, <1>3, <1>4, UsageStays, PutStays DEF PoolInv

-----------------------------------------------------------------------------
(* The steps of the usage.                                                 *)

LEMMA StartUsageInv ==
  ASSUME PoolInv, NEW f \in Flights, StartUsage(f)
  PROVE  PoolInv'
<1> DEFINE r == [NoUsage EXCEPT !.pc = "started", !.generation = generation,
                                !.conn = base]
<1>1. /\ usage' = [usage EXCEPT ![f] = r] /\ Enter(f, "usage")
      /\ UNCHANGED <<upstream, row, inventory, base, generation, put, settingsMu>>
      /\ UNCHANGED boundVars
  BY DEF StartUsage, settingsVars, putVars
<1>2. /\ r \in Usages /\ r.generation = generation /\ r.conn = base
      /\ generation \in Nat
  BY StartedUsage DEF PoolInv, OtherPart
<1> HIDE DEF r
<1>3. UsagePart'
  <2>1. r.generation <= generation
    BY <1>2
  <2> QED
    BY <1>1, <1>2, <2>1, UsageStep1 DEF PoolInv
<1>4. OtherPart'
  BY <1>1, EnterType, OthersStay DEF PoolInv, Scopes
<1> QED
  BY <1>1, <1>3, <1>4, RowsStay, InventoryStays, PutStays DEF PoolInv

\* A step within a usage flight keeps its connection and its generation.
LEMMA WithinUsage ==
  ASSUME PoolInv, NEW f \in Flights, NEW r \in Usages,
         usage[f].pc # "idle", r.generation = usage[f].generation,
         r.conn = usage[f].conn, usage' = [usage EXCEPT ![f] = r],
         UNCHANGED <<upstream, row, inventory, current, base, generation, put,
                     settingsMu>>,
         CountFault \/ UNCHANGED boundVars
  PROVE  PoolInv'
<1>1. UsagePart'
  BY UsageStep1 DEF PoolInv, UsagePart, FlightIsTrue
<1>2. OtherPart'
  BY OthersStay DEF PoolInv, OtherPart
<1> QED
  BY <1>1, <1>2, RowsStay, InventoryStays, PutStays DEF PoolInv

LEMMA UsageFields ==
  ASSUME PoolInv, NEW f \in Flights
  PROVE  /\ usage[f] \in Usages /\ usage[f].conn \in Conns
         /\ usage[f].ids \in SUBSET Accounts
  BY DEF PoolInv, UsagePart, Usages

LEMMA ReadPublishedInv ==
  ASSUME PoolInv, NEW f \in Flights, ReadPublished(f)
  PROVE  PoolInv'
<1>1. /\ usage[f].pc = "started" /\ row' = row
      /\ UNCHANGED <<upstream, inventory, base, generation, put, settingsMu>>
      /\ UNCHANGED boundVars
  BY DEF ReadPublished, settingsVars, putVars
<1>2. CASE PublishedIDs = {}
  <2>1. UsagePart' /\ current' \in [Scopes -> Flights \cup {None}]
    BY <1>1, <1>2, EndUsagePart DEF ReadPublished, PoolInv
  <2>2. OtherPart'
    BY <1>1, <2>1, OthersStay DEF PoolInv
  <2> QED
    BY <1>1, <2>1, <2>2, RowsStay, InventoryStays, PutStays DEF PoolInv
<1>3. CASE PublishedIDs # {}
  <2> DEFINE r == [usage[f] EXCEPT !.pc = "fetching", !.ids = PublishedIDs]
  <2>1. /\ usage' = [usage EXCEPT ![f].pc = "fetching", ![f].ids = PublishedIDs]
        /\ current' = current
    BY <1>3 DEF ReadPublished
  <2>2. usage' = [usage EXCEPT ![f] = r]
    BY <2>1 DEF PoolInv, UsagePart
  <2>3. PublishedIDs \in SUBSET Accounts
    BY DEF PublishedIDs
  <2>4. /\ r \in Usages /\ r.generation = usage[f].generation
        /\ r.conn = usage[f].conn
    BY <2>3, UsageFields DEF Usages
  <2> HIDE DEF r
  <2> QED
    BY <1>1, <2>1, <2>2, <2>4, WithinUsage
<1> QED
  BY <1>2, <1>3

LEMMA AnswerInv ==
  ASSUME PoolInv, NEW f \in Flights, NEW E, usage[f].pc = "fetching", Answer(f, E),
         UNCHANGED <<upstream, row, inventory, current, base, generation, put,
                     settingsMu>>,
         CountFault \/ UNCHANGED boundVars
  PROVE  PoolInv'
<1> DEFINE A == {a \in usage[f].ids \ E :
                   upstream[usage[f].conn][a].state # "absent"}
           u == [a \in Accounts |-> IF a \in usage[f].ids
                                    THEN upstream[usage[f].conn][a].used ELSE 0]
           r == [usage[f] EXCEPT !.pc = "fetched", !.answered = A, !.used = u]
<1>1. usage' = [usage EXCEPT ![f].pc = "fetched", ![f].answered = A, ![f].used = u]
  BY DEF Answer
<1>2. A \in SUBSET Accounts
  BY UsageFields
<1>3. u \in [Accounts -> Nat]
  BY UsageFields DEF PoolInv, OtherPart, Upstream
<1> HIDE DEF A, u
<1>4. usage' = [usage EXCEPT ![f] = r]
  BY <1>1 DEF PoolInv, UsagePart
<1>5. r \in Usages /\ r.generation = usage[f].generation /\ r.conn = usage[f].conn
  BY <1>2, <1>3, UsageFields DEF Usages
<1> HIDE DEF r
<1> QED
  BY <1>4, <1>5, WithinUsage

LEMMA FetchUsageInv ==
  ASSUME PoolInv, NEW f \in Flights,
         FetchUsage(f) \/ \E a \in Accounts : FetchUsageWithError(f, a)
  PROVE  PoolInv'
<1>1. CASE FetchUsage(f)
  BY <1>1, AnswerInv DEF FetchUsage, settingsVars, putVars
<1>2. ASSUME NEW a \in Accounts, FetchUsageWithError(f, a)
      PROVE  PoolInv'
  BY <1>2, AnswerInv DEF FetchUsageWithError, settingsVars, putVars
<1> QED
  BY <1>1, <1>2

LEMMA UsageUnansweredInv ==
  ASSUME PoolInv, NEW f \in Flights, UsageUnanswered(f)
  PROVE  PoolInv'
<1> DEFINE r == [usage[f] EXCEPT !.pc = "failed"]
<1>1. usage' = [usage EXCEPT ![f] = r]
  BY DEF UsageUnanswered, PoolInv, UsagePart
<1>2. r \in Usages /\ r.generation = usage[f].generation /\ r.conn = usage[f].conn
  BY UsageFields DEF Usages
<1> HIDE DEF r
<1> QED
  BY <1>1, <1>2, WithinUsage DEF UsageUnanswered, settingsVars, putVars

\* The rows an answer of the present connection leaves.
LEMMA AnsweredRows ==
  ASSUME PoolInv, NEW f \in Flights, usage[f].pc = "fetched",
         Current(usage[f]), base' = base, ApplyPoolUsage(usage[f])
  PROVE  RowPart'
<1>1. usage[f].conn = base /\ usage[f] \in Usages
  BY DEF PoolInv, UsagePart, FlightIsTrue, Current
<1> QED
  BY <1>1, UsageRows DEF PoolInv, OtherPart

LEMMA StoreUsageInv ==
  ASSUME PoolInv, NEW f \in Flights,
         StoreUsage(f) \/ MarkUsageFailed(f) \/ FailUsage(f)
  PROVE  PoolInv'
<1>1. /\ EndUsage(f)
      /\ UNCHANGED <<upstream, inventory, base, generation, put, settingsMu>>
      /\ CountFault \/ UNCHANGED boundVars
  BY DEF StoreUsage, MarkUsageFailed, FailUsage, settingsVars, putVars
<1>2. RowPart'
  <2>1. CASE MarkUsageFailed(f)
    <3> DEFINE S == {a \in Accounts : Current(usage[f]) /\ row[a].published}
    <3>1. row' = [a \in Accounts |-> IF a \in S THEN FailedRow(a) ELSE row[a]]
      BY <2>1 DEF MarkUsageFailed
    <3> HIDE DEF S
    <3> QED
      BY <1>1, <3>1, FailedRows DEF PoolInv
  <2>2. CASE StoreUsage(f) \/ FailUsage(f)
    <3>1. \/ row' = row
          \/ /\ usage[f].pc = "fetched" /\ Current(usage[f])
             /\ ApplyPoolUsage(usage[f])
      BY <2>2 DEF StoreUsage, FailUsage
    <3> QED
      BY <1>1, <3>1, RowsStay, AnsweredRows DEF PoolInv
  <2> QED
    BY <2>1, <2>2
<1>3. UsagePart' /\ current' \in [Scopes -> Flights \cup {None}]
  BY <1>1, EndUsagePart DEF PoolInv
<1>4. OtherPart'
  BY <1>1, <1>3, OthersStay DEF PoolInv
<1> QED
  BY <1>1, <1>2, <1>3, <1>4, InventoryStays, PutStays DEF PoolInv

-----------------------------------------------------------------------------
(* Administrators and the environment.                                     *)

LEMMA PublishInv ==
  ASSUME PoolInv, NEW S, Publish(S) \/ Unpublish(S)
  PROVE  PoolInv'
<1>1. UNCHANGED <<upstream, inventory, usage, current, base, generation, put,
                  settingsMu>> /\ UNCHANGED boundVars
  BY DEF Publish, Unpublish, flightVars, settingsVars, putVars
<1>2. RowPart'
  BY <1>1, PublishedRows DEF Publish, Unpublish, PoolInv
<1>3. OtherPart'
  BY <1>1, OthersStay DEF PoolInv, OtherPart
<1> QED
  BY <1>1, <1>2, <1>3, InventoryStays, UsageStays, PutStays DEF PoolInv

\* Nobody else probes: settingsMu was free.
LEMMA StartPutInv ==
  ASSUME PoolInv, NEW p \in Puts, StartPut(p)
  PROVE  PoolInv'
<1> DEFINE r == [pc |-> "probing", read |-> base]
<1>1. /\ settingsMu = None /\ settingsMu' = p /\ put' = [put EXCEPT ![p] = r]
      /\ UNCHANGED <<upstream, row, inventory, usage, current, base, generation>>
      /\ UNCHANGED boundVars
  BY DEF StartPut, flightVars, settingsVars
<1>2. r \in PutStates /\ r.read = base
  BY DEF PoolInv, OtherPart, PutStates
<1> HIDE DEF r
<1>3. \A q \in Puts : put[q].pc # "probing"
  BY <1>1, PoolConstants DEF PoolInv, PutPart, Puts
<1>4. PutPart'
  BY <1>1, <1>2, <1>3 DEF PoolInv, PutPart
<1>5. OtherPart'
  BY <1>1, OthersStay DEF PoolInv, OtherPart
<1> QED
  BY <1>1, <1>4, <1>5, RowsStay, InventoryStays, UsageStays DEF PoolInv

\* With the only request that probes, the last one ends.
LEMMA FinishPutPart ==
  ASSUME PutPart, NEW p \in Puts, put[p].pc = "probing", FinishPut(p)
  PROVE  PutPart'
<1>1. /\ put' = [put EXCEPT ![p] = IdlePut] /\ settingsMu' = None
      /\ put' \in [Puts -> PutStates]
  BY IdlePutFields DEF FinishPut, PutPart
<1>2. ASSUME NEW q \in Puts
      PROVE  put'[q].pc # "probing"
  BY <1>1, IdlePutFields DEF PutPart
<1> QED
  BY <1>1, <1>2 DEF PutPart

LEMMA EndPutInv ==
  ASSUME PoolInv, NEW p \in Puts, RefusePut(p) \/ SaveSettings(p)
  PROVE  PoolInv'
<1>1. /\ put[p].pc = "probing" /\ FinishPut(p)
      /\ UNCHANGED <<upstream, row, inventory, usage, current, generation>>
      /\ UNCHANGED boundVars
      /\ base' = base \/ base' = put[p].read
  BY DEF RefusePut, SaveSettings, flightVars, settingsVars
<1>2. base' = base
  BY <1>1 DEF PoolInv, PutPart
<1>3. PutPart'
  BY <1>1, FinishPutPart DEF PoolInv
<1>4. OtherPart'
  BY <1>1, <1>2, OthersStay DEF PoolInv, OtherPart
<1> QED
  BY <1>1, <1>2, <1>3, <1>4, RowsStay, InventoryStays, UsageStays DEF PoolInv

\* After a rotation every flight is of an earlier generation.
LEMMA VoidFlights ==
  ASSUME PoolInv, generation' = generation + 1, UNCHANGED <<inventory, usage>>
  PROVE  InventoryPart' /\ UsagePart'
<1>1. generation \in Nat
  BY DEF PoolInv, OtherPart
<1>2. ASSUME NEW f \in Flights
      PROVE  FlightIsTrue(inventory[f])'
  <2>1. inventory[f].generation \in Nat /\ inventory[f].generation <= generation
    BY DEF PoolInv, InventoryPart, FlightIsTrue, Inventories
  <2> QED
    BY <1>1, <2>1 DEF FlightIsTrue
<1>3. ASSUME NEW f \in Flights
      PROVE  FlightIsTrue(usage[f])'
  <2>1. usage[f].generation \in Nat /\ usage[f].generation <= generation
    BY DEF PoolInv, UsagePart, FlightIsTrue, Usages
  <2> QED
    BY <1>1, <2>1 DEF FlightIsTrue
<1> QED
  BY <1>2, <1>3 DEF PoolInv, InventoryPart, UsagePart

LEMMA RotateInv ==
  ASSUME PoolInv, NEW p \in Puts,
         RotationRefused(p) \/ \E next \in Conns : Rotate(p, next)
  PROVE  PoolInv'
<1>1. /\ put[p].pc = "probing" /\ FinishPut(p) /\ BeginRotation
      /\ upstream' = upstream
      /\ \/ UNCHANGED <<base, row>>
         \/ base' \in Conns /\ row' = [a \in Accounts |-> NoRow]
  BY DEF RotationRefused, Rotate
<1>2. generation' = generation + 1 /\ UNCHANGED <<inventory, usage>>
  BY <1>1 DEF BeginRotation
<1>3. RowPart'
  BY <1>1, RowsStay, NoRows DEF PoolInv
<1>4. PutPart'
  BY <1>1, FinishPutPart DEF PoolInv
<1>5. OtherPart'
  BY <1>1, PoolConstants DEF BeginRotation, PoolInv, OtherPart
<1> QED
  BY <1>2, <1>3, <1>4, <1>5, VoidFlights DEF PoolInv

LEMMA UpstreamChangesInv ==
  ASSUME PoolInv, NEW c \in Conns, NEW a \in Accounts, NEW s \in Listed,
         UpstreamChanges(c, a, s)
  PROVE  PoolInv'
<1> DEFINE r == [state |-> s, used |-> upstream[c][a].used + 1]
<1>1. /\ upstream' = [upstream EXCEPT ![c][a] = r]
      /\ UNCHANGED <<row, inventory, usage, current, base, generation, put,
                     settingsMu, faults, rotations>>
      /\ changes < MaxChanges /\ changes' = changes + 1
  BY DEF UpstreamChanges, flightVars, settingsVars, putVars, PoolInv, OtherPart
<1>2. r \in Upstream
  BY DEF PoolInv, OtherPart, Upstream
<1> HIDE DEF r
<1>3. upstream' \in [Conns -> [Accounts -> Upstream]]
  BY <1>1, <1>2 DEF PoolInv, OtherPart
<1>4. OtherPart'
  BY <1>1, <1>3, PoolConstants DEF PoolInv, OtherPart
<1> QED
  BY <1>1, <1>4, RowsStay, InventoryStays, UsageStays, PutStays DEF PoolInv

\* Nothing is under way in a new process, or in the first.
LEMMA NothingUnderWay ==
  ASSUME inventory' = [f \in Flights |-> NoInventory],
         usage' = [f \in Flights |-> NoUsage],
         put' = [p \in Puts |-> IdlePut], settingsMu' = None, generation' = 0
  PROVE  InventoryPart' /\ UsagePart' /\ PutPart'
  BY NoInventoryFields, NoUsageFields, IdlePutFields
  DEF InventoryPart, UsagePart, PutPart, FlightIsTrue

LEMMA RestartInv ==
  ASSUME PoolInv, Restart
  PROVE  PoolInv'
<1>1. RowPart'
  BY RowsStay DEF Restart, PoolInv
<1>2. InventoryPart' /\ UsagePart' /\ PutPart'
  BY NothingUnderWay DEF Restart
<1>3. OtherPart'
  BY PoolConstants DEF Restart, CountFault, PoolInv, OtherPart
<1> QED
  BY <1>1, <1>2, <1>3 DEF PoolInv

LEMMA InitInv == Init => PoolInv
<1> SUFFICES ASSUME Init PROVE PoolInv
  OBVIOUS
<1>1. RowPart
  <2>1. NoRow \in Rows /\ \A c : RowIsTrue(NoRow, c)
    BY NoRowFields DEF RowIsTrue, NoRow
  <2> QED
    BY <2>1 DEF Init, RowPart
<1>2. InventoryPart /\ UsagePart /\ PutPart
  BY NoInventoryFields, NoUsageFields, IdlePutFields
  DEF Init, InventoryPart, UsagePart, PutPart, FlightIsTrue
<1>3. OtherPart
  BY PoolConstants DEF Init, OtherPart, Upstream, Listed, States
<1> QED
  BY <1>1, <1>2, <1>3 DEF PoolInv

LEMMA NextInv == PoolInv /\ [Next]_vars => PoolInv'
<1> SUFFICES ASSUME PoolInv, [Next]_vars PROVE PoolInv'
  OBVIOUS
<1>1. ASSUME NEW f \in Flights,
             \/ StartInventory(f) \/ InventoryStep(f) \/ FailInventory(f)
             \/ StartUsage(f) \/ UsageStep(f) \/ UsageUnanswered(f) \/ FailUsage(f)
             \/ \E a \in Accounts : FetchUsageWithError(f, a)
      PROVE  PoolInv'
  BY <1>1, StartInventoryInv, FetchInventoryInv, StoreInventoryInv, StartUsageInv,
     ReadPublishedInv, FetchUsageInv, StoreUsageInv, UsageUnansweredInv
  DEF InventoryStep, UsageStep
<1>2. ASSUME NEW S \in (SUBSET Accounts) \ {{}}, Publish(S) \/ Unpublish(S)
      PROVE  PoolInv'
  BY <1>2, PublishInv
<1>3. ASSUME NEW p \in Puts,
             \/ StartPut(p) \/ RefusePut(p) \/ SaveSettings(p)
             \/ \E next \in Conns : Rotate(p, next)
             \/ RotationRefused(p)
      PROVE  PoolInv'
  BY <1>3, StartPutInv, EndPutInv, RotateInv
<1>4. ASSUME NEW c \in Conns, NEW a \in Accounts, NEW s \in Listed,
             UpstreamChanges(c, a, s)
      PROVE  PoolInv'
  BY <1>4, UpstreamChangesInv
<1>5. CASE Restart
  BY <1>5, RestartInv
<1>6. CASE UNCHANGED vars
  <2>1. UNCHANGED <<upstream, row, inventory, usage, current, base, generation, put,
                    settingsMu>> /\ UNCHANGED boundVars
    BY <1>6 DEF vars, boundVars
  <2>2. OtherPart'
    BY <2>1, OthersStay DEF PoolInv, OtherPart
  <2> QED
    BY <2>1, <2>2, RowsStay, InventoryStays, UsageStays, PutStays DEF PoolInv
<1> QED
  BY <1>1, <1>2, <1>3, <1>4, <1>5, <1>6 DEF Next

LEMMA PoolInvariant == Spec => []PoolInv
  BY InitInv, NextInv, PTL DEF Spec

-----------------------------------------------------------------------------
(* Theorems.                                                               *)

\* Every variable keeps its type, whichever flights, requests and restarts of
\* the portal cross.
THEOREM TypeCorrect == Spec => []TypeOK
<1>1. PoolInv => TypeOK
  BY DEF PoolInv, RowPart, InventoryPart, UsagePart, PutPart, OtherPart, TypeOK
<1> QED
  BY <1>1, PoolInvariant, PTL

\* No flight of a former connection and no settings request that lost a race
\* leaves rows, or their usage, of a connection the settings do not name.
THEOREM RowsAreOfOneConnection == Spec => []OneConnection
<1>1. PoolInv => OneConnection
  BY DEF PoolInv, RowPart, RowIsTrue, OneConnection
<1> QED
  BY <1>1, PoolInvariant, PTL

\* The four statements that write normalized_status show an account usable only
\* when its row says active, listed and refreshed, at its limit only when the
\* stored usage says so, and healthy over a stored usage at the limit only when
\* the inventory, which does not look at the usage, wrote the status last.
THEOREM StatusIsTrue == Spec => []StatusIsBacked
<1>1. PoolInv => StatusIsBacked
  BY DEF PoolInv, RowPart, RowIsTrue, StatusIsBacked
<1> QED
  BY <1>1, PoolInvariant, PTL
=============================================================================
