-------------------------- MODULE CostReportProofs --------------------------
(***************************************************************************)
(* Proofs about CostReport: its type invariant; that the breakdown never   *)
(* runs ahead of the reports; that a fulfilment leaves no hole; that a     *)
(* day the process sees out is reported, unless main was late; and, of     *)
(* runs that do not overlap, that report and breakdown agree and a         *)
(* fulfilment changes no report.                                           *)
(***************************************************************************)
EXTENDS CostReport, TLAPS

-----------------------------------------------------------------------------
(***************************************************************************)
(* Rows and runs                                                           *)
(***************************************************************************)

\* The empty values are values.
LEMMA EmptyTypes ==
  /\ NoRow \in Row /\ NoRows \in Rows /\ NoPrices \in PriceList
  /\ [w \in Workloads |-> Nowhere] \in Places
  BY BoundsAssumption DEF NoRow, Row, NoRows, Rows, NoPrices, PriceList, Places

LEMMA IdleRunType == IdleRun \in RunState
  BY EmptyTypes, BoundsAssumption DEF IdleRun, RunState, Days

\* What a run starts with.
LEMMA StartTypes ==
  ASSUME TypeOK, NEW d \in Days, NEW end \in Days
  PROVE  Calculation(d) \in RunState /\ Fulfilment(d, end) \in RunState
  BY IdleRunType DEF Calculation, Fulfilment, RunState, TypeOK

\* The last day of a fulfilment is a day, and not before the first.
LEMMA FulfilmentStarts ==
  ASSUME NEW q, NEW d, RequestFulfill(q, d)
  PROVE  \E end \in Days : d <= end /\ Start(q, Fulfilment(d, end))
  BY DEF RequestFulfill

\* A run that begins begins with the catalog.
LEMMA StartsAtList ==
  \A d, end : Calculation(d).pc = "list" /\ Fulfilment(d, end).pc = "list"
  BY DEF Calculation, Fulfilment, IdleRun

\* So does every request.
LEMMA RequestsStart ==
  ASSUME NEW q, NEW d, RequestCalculate(q, d) \/ RequestFulfill(q, d)
  PROVE  \E begun : Start(q, begun) /\ begun.pc = "list"
<1>1. CASE RequestCalculate(q, d)
  BY <1>1, StartsAtList DEF RequestCalculate
<1>2. CASE RequestFulfill(q, d)
  BY <1>2, FulfilmentStarts, StartsAtList
<1>3. QED
  BY <1>1, <1>2

\* The rows of a service are a breakdown.
LEMMA GroupsType ==
  ASSUME NEW s, NEW places \in Places, NEW list \in PriceList
  PROVE  GroupsOf(s, places, list) \in Rows
<1> DEFINE group(dc) == {w \in Workloads : Owner(w) = s /\ places[w] = dc}
           row(dc) == IF group(dc) = {} THEN NoRow
                      ELSE [workloads |-> group(dc), price |-> list[dc]]
<1>1. ASSUME NEW dc \in Datacenters
      PROVE  row(dc) \in Row
  <2>1. [workloads |-> group(dc), price |-> list[dc]] \in Row
    BY DEF PriceList, Row
  <2>2. QED
    BY <2>1, EmptyTypes
<1>2. GroupsOf(s, places, list) = [dc \in Datacenters |-> row(dc)]
  BY DEF GroupsOf
<1> HIDE DEF row
<1>3. QED
  BY <1>1, <1>2 DEF Rows

\* The loop over the days stays within the days of the run.
LEMMA NextDayType ==
  ASSUME NEW r \in RunState
  PROVE  NextDay(r) \in RunState
<1>1. CASE r.day < r.last
  <2>1. r.day + 1 \in Days
    BY <1>1, BoundsAssumption DEF RunState, Days
  <2>2. IdleRun.places \in Places
    BY EmptyTypes DEF IdleRun
  <2>3. AtDay(r, r.day + 1) \in RunState
    BY <2>1, <2>2, EmptyTypes DEF AtDay, RunState
  <2>4. QED
    BY <1>1, <2>3 DEF NextDay
<1>2. CASE ~(r.day < r.last)
  BY <1>2, IdleRunType DEF NextDay
<1>3. QED
  BY <1>1, <1>2

\* A day that is done leaves a run at the beginning of the next one, or over.
LEMMA NextDayPc ==
  ASSUME NEW r \in RunState
  PROVE  NextDay(r).pc \in {"idle", "list"}
  BY DEF NextDay, AtDay, IdleRun, RunState

\* The saves leave tables tables.
LEMMA UpsertReportsType ==
  ASSUME TypeOK, NEW r \in RunState, UpsertReports(r)
  PROVE  /\ reported' \in [Days -> SUBSET Services]
         /\ report' \in [Days -> [Services -> Rows]]
         /\ breakdown' \in [Days -> [Services -> Rows]]
<1> DEFINE page(old) == [s \in Services |-> IF s \in r.todo THEN Computed(r, s) ELSE old[s]]
<1>1. r.places \in Places /\ r.prices \in PriceList /\ r.day \in Days /\ r.todo \subseteq Services
  BY DEF RunState
<1>2. \A s \in Services : Computed(r, s) \in Rows
  BY <1>1, GroupsType DEF Computed
<1>3. page(report[r.day]) \in [Services -> Rows]
  BY <1>1, <1>2 DEF TypeOK
<1>4. report' = [report EXCEPT ![r.day] = page(report[r.day])]
  BY <1>1 DEF UpsertReports, TypeOK
<1> HIDE DEF page
<1>5. report' \in [Days -> [Services -> Rows]]
  BY <1>1, <1>3, <1>4 DEF TypeOK
<1>6. QED
  BY <1>1, <1>5 DEF UpsertReports, TypeOK

LEMMA UpsertBreakdownType ==
  ASSUME TypeOK, NEW r \in RunState, UpsertBreakdown(r)
  PROVE  /\ reported' \in [Days -> SUBSET Services]
         /\ report' \in [Days -> [Services -> Rows]]
         /\ breakdown' \in [Days -> [Services -> Rows]]
<1> DEFINE row(old, s, dc) == IF s \in r.todo /\ Computed(r, s)[dc] # NoRow
                              THEN Computed(r, s)[dc] ELSE old[s][dc]
           page(old) == [s \in Services |-> [dc \in Datacenters |-> row(old, s, dc)]]
<1>1. r.places \in Places /\ r.prices \in PriceList /\ r.day \in Days
  BY DEF RunState
<1>2. breakdown[r.day] \in [Services -> Rows]
  BY <1>1 DEF TypeOK
<1>3. ASSUME NEW s \in Services, NEW dc \in Datacenters
      PROVE  row(breakdown[r.day], s, dc) \in Row
  <2>1. breakdown[r.day][s] \in Rows /\ Computed(r, s) \in Rows
    BY <1>1, <1>2, GroupsType DEF Computed
  <2>2. breakdown[r.day][s][dc] \in Row /\ Computed(r, s)[dc] \in Row
    BY <2>1 DEF Rows
  <2>3. QED
    BY <2>2
<1>4. breakdown' = [breakdown EXCEPT ![r.day] = page(breakdown[r.day])]
  BY <1>1 DEF UpsertBreakdown, TypeOK
<1> HIDE DEF row
<1>5. page(breakdown[r.day]) \in [Services -> Rows]
  BY <1>3 DEF Rows
<1> HIDE DEF page
<1>6. breakdown' \in [Days -> [Services -> Rows]]
  BY <1>1, <1>4, <1>5 DEF TypeOK
<1>7. QED
  BY <1>6 DEF UpsertBreakdown, TypeOK

-----------------------------------------------------------------------------
(***************************************************************************)
(* Type correctness                                                        *)
(***************************************************************************)
LEMMA TypeInit == Init => TypeOK
<1> SUFFICES ASSUME Init
             PROVE  TypeOK
  OBVIOUS
<1>1. today \in Days /\ bootDay \in Days
  BY BoundsAssumption DEF Init, Days
<1>2. /\ edits \in 0..MaxEdits /\ failures \in 0..MaxFailures /\ crashes \in 0..MaxCrashes
      /\ created \in [Services -> 0..(MaxDay + 1)]
  BY BoundsAssumption DEF Init, NotYet
<1>3. /\ placement \in Places /\ prices \in [Days -> PriceList]
      /\ report \in [Days -> [Services -> Rows]]
      /\ breakdown \in [Days -> [Services -> Rows]]
      /\ run \in [Callers -> RunState]
  BY EmptyTypes, IdleRunType DEF Init
<1>4. reported \in [Days -> SUBSET Services] /\ deleted \subseteq Services
  BY DEF Init
<1>5. server \in ServerState /\ due \in BOOLEAN /\ late \in BOOLEAN /\ overlapped \in BOOLEAN
  BY DEF Init, ServerState
<1>6. QED
  BY <1>1, <1>2, <1>3, <1>4, <1>5 DEF TypeOK

\* What a step of a run leaves alone stays well typed.
LEMMA RunTypeStep ==
  ASSUME TypeOK, NEW c \in Callers, NEW r \in RunState,
         run' = [run EXCEPT ![c] = r],
         UNCHANGED <<today, catalog, prices, process, edits, crashes>>,
         overlapped' \in BOOLEAN, failures' \in 0..MaxFailures,
         reported' \in [Days -> SUBSET Services],
         report' \in [Days -> [Services -> Rows]],
         breakdown' \in [Days -> [Services -> Rows]]
  PROVE  TypeOK'
<1>1. run' \in [Callers -> RunState]
  BY DEF TypeOK
<1>2. QED
  BY <1>1 DEF TypeOK, catalog, process

LEMMA TypeStep == TypeOK /\ [Next]_vars => TypeOK'
<1> SUFFICES ASSUME TypeOK, [Next]_vars
             PROVE  TypeOK'
  OBVIOUS
<1>t. /\ run \in [Callers -> RunState] /\ today \in Days
      /\ reported \in [Days -> SUBSET Services]
      /\ report \in [Days -> [Services -> Rows]]
      /\ breakdown \in [Days -> [Services -> Rows]]
      /\ failures \in 0..MaxFailures
  BY DEF TypeOK
<1>v. overlapped \in BOOLEAN
  BY DEF TypeOK
<1>c. "main" \in Callers /\ "scheduler" \in Callers /\ Requests \subseteq Callers
  BY DEF Callers
<1>1. CASE Midnight
  <2>1. today' \in Days
    BY <1>1, BoundsAssumption DEF Midnight, TypeOK, Days
  <2>2. QED
    BY <1>1, <2>1 DEF Midnight, TypeOK, catalog, tables, runs, bounds
<1>2. CASE Boot
  <2>1. run' \in [Callers -> RunState] /\ overlapped' \in BOOLEAN
    BY <1>2, <1>c, <1>t, StartTypes DEF Boot, Start
  <2>2. QED
    BY <1>2, <2>1 DEF Boot, TypeOK, catalog, tables, bounds, ServerState
<1>3. CASE Serve
  <2>1. due' \in BOOLEAN /\ late' \in BOOLEAN
    BY <1>3 DEF Serve
  <2>2. bootDay' \in Days
    BY <1>3, BoundsAssumption DEF Serve, Days
  <2>3. QED
    BY <1>3, <2>1, <2>2 DEF Serve, TypeOK, catalog, tables, runs, bounds, ServerState
<1>4. CASE Crash
  <2>1. run' \in [Callers -> RunState] /\ bootDay' \in Days /\ crashes' \in 0..MaxCrashes
    BY <1>4, IdleRunType, BoundsAssumption DEF Crash, TypeOK, Days
  <2>2. QED
    BY <1>4, <2>1 DEF Crash, TypeOK, catalog, tables, ServerState
<1>5. CASE Timer
  <2>1. run' \in [Callers -> RunState] /\ overlapped' \in BOOLEAN
    BY <1>5, <1>c, <1>t, StartTypes DEF Timer, Start
  <2>2. QED
    BY <1>5, <2>1 DEF Timer, TypeOK, catalog, tables, bounds
<1>6. ASSUME NEW s \in Services, CreateService(s)
      PROVE  TypeOK'
  <2>1. created' \in [Services -> 0..(MaxDay + 1)] /\ edits' \in 0..MaxEdits
    BY <1>6, BoundsAssumption DEF CreateService, Edit, TypeOK, Days
  <2>2. QED
    BY <1>6, <2>1 DEF CreateService, TypeOK, tables, process, runs
<1>7. ASSUME NEW s \in Services, DeleteService(s)
      PROVE  TypeOK'
  <2>1. edits' \in 0..MaxEdits
    BY <1>7, BoundsAssumption DEF DeleteService, Edit, TypeOK
  <2>2. QED
    BY <1>7, <2>1 DEF DeleteService, TypeOK, tables, process, runs
<1>8. ASSUME NEW w \in Workloads, NEW place \in Datacenters \cup {Nowhere},
             PlaceWorkload(w, place)
      PROVE  TypeOK'
  <2>1. placement' \in Places /\ edits' \in 0..MaxEdits
    BY <1>8, BoundsAssumption DEF PlaceWorkload, Edit, TypeOK, Places
  <2>2. QED
    BY <1>8, <2>1 DEF PlaceWorkload, TypeOK, tables, process, runs
<1>9. ASSUME NEW d \in Days, NEW dc \in Datacenters, SavePrice(d, dc)
      PROVE  TypeOK'
  <2>1. prices[d] \in PriceList /\ prices[d][dc] + 1 \in 0..MaxPrice
    BY <1>9, BoundsAssumption DEF SavePrice, TypeOK, PriceList
  <2>2. [prices[d] EXCEPT ![dc] = @ + 1] \in PriceList
    BY <2>1 DEF PriceList
  <2>3. prices' = [prices EXCEPT ![d] = [prices[d] EXCEPT ![dc] = @ + 1]]
    BY <1>9 DEF SavePrice, TypeOK
  <2>4. prices' \in [Days -> PriceList] /\ edits' \in 0..MaxEdits
    BY <1>9, <2>2, <2>3, BoundsAssumption DEF SavePrice, Edit, TypeOK
  <2>5. QED
    BY <1>9, <2>4 DEF SavePrice, TypeOK, catalog, tables, process, runs
<1>10. ASSUME NEW r \in Requests, NEW d \in Days, RequestCalculate(r, d)
       PROVE  TypeOK'
  <2>1. Calculation(d) \in RunState /\ overlapped' \in BOOLEAN
    BY <1>10, StartTypes DEF RequestCalculate, Start
  <2>2. QED
    BY <1>10, <1>c, <1>t, <2>1, RunTypeStep DEF RequestCalculate, Start, tables, bounds
<1>11. ASSUME NEW r \in Requests, NEW d \in Days, RequestFulfill(r, d)
       PROVE  TypeOK'
  <2>1. PICK end \in Days : Start(r, Fulfilment(d, end))
    BY <1>11, FulfilmentStarts
  <2>2. Fulfilment(d, end) \in RunState /\ overlapped' \in BOOLEAN
    BY <2>1, StartTypes DEF Start
  <2>3. QED
    BY <1>11, <1>c, <1>t, <2>1, <2>2, RunTypeStep DEF RequestFulfill, Start, tables, bounds
<1>12. ASSUME NEW c \in Callers, ReadCatalog(c)
       PROVE  TypeOK'
  <2> DEFINE pc == IF run[c].skip THEN "existing" ELSE "prices"
             read == [run[c] EXCEPT !.pc = pc, !.todo = Listed, !.places = placement]
             next == IF Listed = {} THEN NextDay(run[c]) ELSE read
  <2>1. Listed \subseteq Services /\ placement \in Places
    BY DEF Listed, Created, TypeOK
  <2>2. pc \in {"existing", "prices"}
    OBVIOUS
  <2>3. run' = [run EXCEPT ![c] = next]
    BY <1>12, <1>t DEF ReadCatalog
  <2> HIDE DEF pc
  <2>4. read \in RunState
    BY <1>t, <2>1, <2>2 DEF RunState
  <2>5. next \in RunState
    BY <1>t, <2>4, NextDayType
  <2> HIDE DEF next
  <2>6. QED
    BY <1>12, <1>t, <1>v, <2>3, <2>5, RunTypeStep DEF ReadCatalog, tables, bounds
<1>13. ASSUME NEW c \in Callers, ReadExisting(c)
       PROVE  TypeOK'
  <2> DEFINE next == [run[c] EXCEPT !.pc = "prices", !.todo = ServicesWithoutReport(run[c])]
  <2>1. next \in RunState
    BY <1>t DEF RunState, ServicesWithoutReport
  <2>2. run' = [run EXCEPT ![c] = next]
    BY <1>13, <1>t DEF ReadExisting
  <2> HIDE DEF next
  <2>3. QED
    BY <1>13, <1>t, <1>v, <2>1, <2>2, RunTypeStep DEF ReadExisting, tables, bounds
<1>14. ASSUME NEW c \in Callers, ReadPrices(c)
       PROVE  TypeOK'
  <2> DEFINE read == [run[c] EXCEPT !.pc = "saveReports", !.prices = prices[run[c].day]]
             next == IF run[c].todo = {} THEN NextDay(run[c]) ELSE read
  <2>1. run[c] \in RunState /\ prices[run[c].day] \in PriceList
    BY <1>t DEF TypeOK, RunState
  <2>2. read \in RunState
    BY <2>1 DEF RunState
  <2>3. next \in RunState
    BY <2>1, <2>2, NextDayType
  <2>4. run' = [run EXCEPT ![c] = next]
    BY <1>14, <1>t DEF ReadPrices
  <2> HIDE DEF next
  <2>5. QED
    BY <1>14, <1>t, <1>v, <2>3, <2>4, RunTypeStep DEF ReadPrices, tables, bounds
<1>15. ASSUME NEW c \in Callers, SaveReports(c)
       PROVE  TypeOK'
  <2> DEFINE saved == [run[c] EXCEPT !.pc = "saveBreakdown"]
             next == IF HasRows(run[c]) THEN saved ELSE NextDay(run[c])
  <2>1. run[c] \in RunState
    BY <1>t
  <2>2. saved \in RunState
    BY <2>1 DEF RunState
  <2>3. next \in RunState
    BY <2>1, <2>2, NextDayType
  <2>4. run' = [run EXCEPT ![c] = next]
    BY <1>15, <1>t DEF SaveReports
  <2> HIDE DEF next
  <2>5. QED
    BY <1>15, <1>t, <1>v, <2>1, <2>3, <2>4, UpsertReportsType, RunTypeStep DEF SaveReports, bounds
<1>16. ASSUME NEW c \in Callers, SaveBreakdown(c)
       PROVE  TypeOK'
  <2>1. run[c] \in RunState
    BY <1>t
  <2>2. run' = [run EXCEPT ![c] = NextDay(run[c])]
    BY <1>16, <1>t DEF SaveBreakdown
  <2>3. QED
    BY <1>16, <1>t, <1>v, <2>1, <2>2, NextDayType, UpsertBreakdownType, RunTypeStep
       DEF SaveBreakdown, bounds
<1>17. ASSUME NEW c \in Callers, Fail(c)
       PROVE  TypeOK'
  <2>1. run[c] \in RunState
    BY <1>t
  <2>2. failures' \in 0..MaxFailures
    BY <1>17, <1>t, BoundsAssumption DEF Fail
  <2>3. /\ reported' \in [Days -> SUBSET Services]
        /\ report' \in [Days -> [Services -> Rows]]
        /\ breakdown' \in [Days -> [Services -> Rows]]
    BY <1>17, <1>t, <2>1, UpsertReportsType, UpsertBreakdownType DEF Fail, tables
  <2>4. QED
    BY <1>17, <1>v, <2>2, <2>3, IdleRunType, RunTypeStep DEF Fail
<1>18. CASE UNCHANGED vars
  BY <1>18 DEF vars, TypeOK
<1>19. QED
  BY <1>1, <1>2, <1>3, <1>4, <1>5, <1>6, <1>7, <1>8, <1>9, <1>10, <1>11, <1>12,
     <1>13, <1>14, <1>15, <1>16, <1>17, <1>18 DEF Next, Step

\* The state is well typed: in particular the loop of a fulfilment never
\* leaves the days it was asked for.
THEOREM TypeCorrect == Spec => []TypeOK
  BY TypeInit, TypeStep, PTL DEF Spec

-----------------------------------------------------------------------------
(***************************************************************************)
(* The breakdown never runs ahead of the reports.  A run saves the         *)
(* breakdown of services it has saved the reports of, and no report is     *)
(* ever removed: that is what has to be carried along.                     *)
(***************************************************************************)
SavedReports ==
    \A c \in Callers :
        run[c].pc = "saveBreakdown" => run[c].todo \subseteq reported[run[c].day]

ReportInv == BreakdownHasReport /\ SavedReports

LEMMA ReportInit == Init => ReportInv
  BY DEF Init, ReportInv, BreakdownHasReport, SavedReports, IdleRun

\* No save removes a report.
LEMMA ReportsStay ==
  ASSUME TypeOK, NEW r \in RunState, NEW d \in Days,
         UpsertReports(r) \/ UpsertBreakdown(r)
  PROVE  reported[d] \subseteq reported'[d]
<1>1. CASE UpsertReports(r)
  <2>1. reported' = [reported EXCEPT ![r.day] = @ \cup r.todo]
    BY <1>1 DEF UpsertReports
  <2>2. reported'[d] = IF d = r.day THEN reported[d] \cup r.todo ELSE reported[d]
    BY <2>1 DEF TypeOK
  <2>3. QED
    BY <2>2
<1>2. CASE UpsertBreakdown(r)
  BY <1>2 DEF UpsertBreakdown
<1>3. QED
  BY <1>1, <1>2

\* A save of reports keeps the breakdown behind them; so does a save of the
\* breakdown of services that have reports.
LEMMA ReportsKeepBehind ==
  ASSUME TypeOK, BreakdownHasReport, NEW r \in RunState, UpsertReports(r)
  PROVE  BreakdownHasReport'
<1>1. \A d \in Days : reported[d] \subseteq reported'[d]
  BY ReportsStay
<1>2. UNCHANGED breakdown
  BY DEF UpsertReports
<1>3. QED
  BY <1>1, <1>2 DEF BreakdownHasReport, NoRows, NoRow

LEMMA BreakdownStaysBehind ==
  ASSUME TypeOK, BreakdownHasReport, NEW r \in RunState, UpsertBreakdown(r),
         r.todo \subseteq reported[r.day]
  PROVE  BreakdownHasReport'
<1>1. UNCHANGED reported
  BY DEF UpsertBreakdown
<1>2. ASSUME NEW d \in Days, NEW s \in Services, breakdown'[d][s] # NoRows, s \notin reported[d]
      PROVE  FALSE
  <2>1. breakdown[d] \in [Services -> Rows] /\ breakdown[d][s] \in Rows /\ r.day \in Days
    BY DEF TypeOK, RunState
  <2>2. ~(d = r.day /\ s \in r.todo)
    BY <1>2
  <2>3. breakdown'[d][s] = breakdown[d][s]
    <3>1. CASE d # r.day
      BY <2>1, <3>1 DEF UpsertBreakdown, TypeOK
    <3>2. CASE d = r.day
      <4>1. breakdown'[d][s] = [dc \in Datacenters |-> breakdown[d][s][dc]]
        BY <2>1, <2>2, <3>2 DEF UpsertBreakdown, TypeOK
      <4>2. QED
        BY <2>1, <4>1 DEF Rows
    <3>3. QED
      BY <3>1, <3>2
  <2>4. QED
    BY <1>2, <2>3 DEF BreakdownHasReport
<1>3. QED
  BY <1>1, <1>2 DEF BreakdownHasReport, NoRows, NoRow

LEMMA ReportStep == TypeOK /\ ReportInv /\ [Next]_vars => ReportInv'
<1> SUFFICES ASSUME TypeOK, ReportInv, [Next]_vars
             PROVE  ReportInv'
  OBVIOUS
<1> USE DEF ReportInv
<1>t. run \in [Callers -> RunState]
  BY DEF TypeOK
<1>c. "main" \in Callers /\ "scheduler" \in Callers /\ Requests \subseteq Callers
  BY DEF Callers
\* Steps that save nothing, and bring no run to the save of a breakdown.
<1>quiet. ASSUME UNCHANGED tables
          PROVE  BreakdownHasReport'
  BY <1>quiet DEF tables, BreakdownHasReport, NoRows, NoRow
<1>other. ASSUME NEW c \in Callers, NEW r, run' = [run EXCEPT ![c] = r],
                 r.pc # "saveBreakdown",
                 \A d \in Days : reported[d] \subseteq reported'[d]
          PROVE  SavedReports'
  <2>1. ASSUME NEW b \in Callers, run'[b].pc = "saveBreakdown"
        PROVE  run'[b].todo \subseteq reported'[run'[b].day]
    <3>1. run'[b] = run[b] /\ run[b].day \in Days
      BY <1>other, <1>t, <2>1 DEF RunState
    <3>2. run[b].todo \subseteq reported[run[b].day]
      BY <2>1, <3>1 DEF SavedReports
    <3>3. QED
      BY <1>other, <3>1, <3>2
  <2>2. QED
    BY <2>1 DEF SavedReports
<1>1. CASE Midnight \/ Serve
  BY <1>1, <1>quiet DEF Midnight, Serve, SavedReports, tables, runs
<1>2. CASE Boot
  <2>1. SavedReports'
    BY <1>2, <1>c, <1>other, StartsAtList DEF Boot, Start, tables
  <2>2. QED
    BY <1>2, <1>quiet, <2>1 DEF Boot
<1>3. CASE Timer
  <2>1. SavedReports'
    BY <1>3, <1>c, <1>other, StartsAtList DEF Timer, Start, tables
  <2>2. QED
    BY <1>3, <1>quiet, <2>1 DEF Timer
<1>4. CASE Crash
  BY <1>4, <1>quiet DEF Crash, SavedReports, IdleRun
<1>5. ASSUME NEW s \in Services, CreateService(s) \/ DeleteService(s)
      PROVE  ReportInv'
  BY <1>5, <1>quiet DEF CreateService, DeleteService, SavedReports, tables, runs
<1>6. ASSUME NEW w \in Workloads, NEW place \in Datacenters \cup {Nowhere},
             PlaceWorkload(w, place)
      PROVE  ReportInv'
  BY <1>6, <1>quiet DEF PlaceWorkload, SavedReports, tables, runs
<1>7. ASSUME NEW d \in Days, NEW dc \in Datacenters, SavePrice(d, dc)
      PROVE  ReportInv'
  BY <1>7, <1>quiet DEF SavePrice, SavedReports, tables, runs
<1>8. ASSUME NEW r \in Requests, NEW d \in Days, RequestCalculate(r, d) \/ RequestFulfill(r, d)
      PROVE  ReportInv'
  <2>2. PICK begun : run' = [run EXCEPT ![r] = begun] /\ begun.pc = "list"
    BY <1>8, RequestsStart DEF Start
  <2>3. UNCHANGED tables
    BY <1>8 DEF RequestCalculate, RequestFulfill
  <2>4. SavedReports'
    BY <1>c, <1>other, <2>2, <2>3 DEF tables
  <2>5. QED
    BY <1>quiet, <2>3, <2>4
<1>9. ASSUME NEW c \in Callers, ReadCatalog(c) \/ ReadExisting(c) \/ ReadPrices(c)
      PROVE  ReportInv'
  <2>1. UNCHANGED tables
    BY <1>9 DEF ReadCatalog, ReadExisting, ReadPrices
  <2>2. run[c] \in RunState
    BY <1>t
  <2>3. NextDay(run[c]).pc # "saveBreakdown"
    BY <2>2, NextDayPc
  <2>4. run'[c].pc # "saveBreakdown" /\ run' = [run EXCEPT ![c] = run'[c]]
    <3>1. CASE ReadCatalog(c)
      <4>1. CASE Listed = {}
        BY <1>t, <2>3, <3>1, <4>1 DEF ReadCatalog
      <4>2. CASE Listed # {}
        <5> DEFINE pc == IF run[c].skip THEN "existing" ELSE "prices"
                   read == [run[c] EXCEPT !.pc = pc, !.todo = Listed, !.places = placement]
        <5>1. run' = [run EXCEPT ![c] = read]
          BY <1>t, <3>1, <4>2 DEF ReadCatalog
        <5>2. pc # "saveBreakdown"
          OBVIOUS
        <5> HIDE DEF pc
        <5>3. read.pc # "saveBreakdown"
          BY <2>2, <5>2 DEF RunState
        <5> HIDE DEF read
        <5>4. QED
          BY <1>t, <5>1, <5>3
      <4>3. QED
        BY <4>1, <4>2
    <3>2. CASE ReadExisting(c)
      BY <1>t, <2>2, <3>2 DEF ReadExisting, RunState
    <3>3. CASE ReadPrices(c)
      BY <1>t, <2>2, <2>3, <3>3 DEF ReadPrices, RunState
    <3>4. QED
      BY <1>9, <3>1, <3>2, <3>3
  <2>5. SavedReports'
    BY <1>other, <2>1, <2>4 DEF tables
  <2>6. QED
    BY <1>quiet, <2>1, <2>5
<1>10. ASSUME NEW c \in Callers, SaveReports(c)
       PROVE  ReportInv'
  <2>1. run[c] \in RunState /\ UpsertReports(run[c])
    BY <1>10, <1>t DEF SaveReports
  <2>2. BreakdownHasReport'
    BY <2>1, ReportsKeepBehind
  <2>3. \A d \in Days : reported[d] \subseteq reported'[d]
    BY <2>1, ReportsStay
  <2>4. CASE HasRows(run[c])
    <3>1. run' = [run EXCEPT ![c] = [run[c] EXCEPT !.pc = "saveBreakdown"]]
      BY <1>10, <1>t, <2>4 DEF SaveReports
    <3>2. run'[c].todo = run[c].todo /\ run'[c].day = run[c].day
      BY <1>t, <2>1, <3>1 DEF RunState
    <3>3. run[c].todo \subseteq reported'[run[c].day]
      BY <2>1 DEF UpsertReports, TypeOK, RunState
    <3>4. ASSUME NEW b \in Callers, b # c, run'[b].pc = "saveBreakdown"
          PROVE  run'[b].todo \subseteq reported'[run'[b].day]
      <4>1. run'[b] = run[b] /\ run[b].day \in Days
        BY <1>t, <3>1, <3>4 DEF RunState
      <4>2. QED
        BY <2>3, <3>4, <4>1 DEF SavedReports
    <3>5. QED
      BY <2>2, <3>2, <3>3, <3>4 DEF SavedReports
  <2>5. CASE ~HasRows(run[c])
    <3>1. run' = [run EXCEPT ![c] = NextDay(run[c])]
      BY <1>10, <1>t, <2>5 DEF SaveReports
    <3>2. NextDay(run[c]).pc # "saveBreakdown"
      BY <2>1, NextDayPc
    <3>3. SavedReports'
      BY <1>other, <2>3, <3>1, <3>2
    <3>4. QED
      BY <2>2, <3>3
  <2>6. QED
    BY <2>4, <2>5
<1>11. ASSUME NEW c \in Callers, SaveBreakdown(c)
       PROVE  ReportInv'
  <2>1. run[c] \in RunState /\ UpsertBreakdown(run[c])
    BY <1>11, <1>t DEF SaveBreakdown
  <2>2. BreakdownHasReport'
    BY <1>11, <2>1, BreakdownStaysBehind DEF SaveBreakdown, SavedReports
  <2>3. run' = [run EXCEPT ![c] = NextDay(run[c])]
    BY <1>11, <1>t DEF SaveBreakdown
  <2>4. NextDay(run[c]).pc # "saveBreakdown"
    BY <2>1, NextDayPc
  <2>5. SavedReports'
    BY <1>other, <2>1, <2>3, <2>4, ReportsStay
  <2>6. QED
    BY <2>2, <2>5
<1>12. ASSUME NEW c \in Callers, Fail(c)
       PROVE  ReportInv'
  <2>1. run[c] \in RunState /\ run' = [run EXCEPT ![c] = IdleRun]
        /\ IdleRun.pc # "saveBreakdown"
    BY <1>12, <1>t DEF Fail, IdleRun
  <2>2. CASE UNCHANGED tables
    BY <1>quiet, <1>other, <2>1, <2>2 DEF tables
  <2>3. CASE run[c].pc = "saveReports" /\ UpsertReports(run[c])
    BY <1>other, <2>1, <2>3, ReportsKeepBehind, ReportsStay
  <2>4. CASE run[c].pc = "saveBreakdown" /\ UpsertBreakdown(run[c])
    <3>1. BreakdownHasReport'
      BY <2>1, <2>4, BreakdownStaysBehind DEF SavedReports
    <3>2. QED
      BY <1>other, <2>1, <2>4, <3>1, ReportsStay
  <2>5. QED
    BY <1>12, <2>2, <2>3, <2>4 DEF Fail
<1>13. CASE UNCHANGED vars
  BY <1>13, <1>quiet DEF vars, tables, SavedReports
<1>14. QED
  BY <1>1, <1>2, <1>3, <1>4, <1>5, <1>6, <1>7, <1>8, <1>9, <1>10, <1>11, <1>12, <1>13
     DEF Next, Step

\* A service that has breakdown rows for a day has a report for that day:
\* for any number of overlapping runs, and wherever they fail or crash.
THEOREM BreakdownBehindReports == Spec => []BreakdownHasReport
<1>1. ReportInv => BreakdownHasReport
  BY DEF ReportInv
<1>2. QED
  BY TypeInit, TypeStep, ReportInit, ReportStep, <1>1, PTL DEF Spec

-----------------------------------------------------------------------------
(***************************************************************************)
(* A fulfilment leaves no hole.  Reports are only added, and a service     *)
(* that appears while a fulfilment runs is not older than the day it was   *)
(* asked for: so whatever else happens meanwhile, what the fulfilment has  *)
(* covered stays covered.  Complete says what it has covered, at each of its labels.     *)
(***************************************************************************)
Older(s, d) == s \in Listed /\ created[s] < d

Complete(r) ==
    r.skip /\ r.pc # "idle" =>
        /\ r.first <= r.day /\ r.day <= r.last /\ r.asked <= today
        /\ \A s \in Services : Older(s, r.asked) =>
              /\ \A d \in Days : r.first <= d /\ d < r.day => s \in reported[d]
              /\ r.pc = "existing" => s \in r.todo
              /\ r.pc \in {"prices", "saveReports"} => s \in r.todo \cup reported[r.day]
              /\ r.pc = "saveBreakdown" => s \in reported[r.day]

AllComplete == \A c \in Callers : Complete(run[c])

\* The days a run has covered once the day in hand is done.
Covered(r) ==
    r.skip => \A s \in Services : Older(s, r.asked) =>
                  \A d \in Days : r.first <= d /\ d <= r.day => s \in reported[d]

\* No step removes a report, makes a service older, or turns time back.
LEMMA OnlyForward ==
  ASSUME TypeOK, [Next]_vars
  PROVE  /\ \A d \in Days : reported[d] \subseteq reported'[d]
         /\ today <= today'
         /\ \A s \in Services, d \in Days : d <= today /\ Older(s, d)' => Older(s, d)
<1> USE DEF Older, Listed, Created
<1>t. run \in [Callers -> RunState] /\ today \in Nat
  BY DEF TypeOK, Days
<1>1. CASE Midnight
  BY <1>1, <1>t DEF Midnight, tables, catalog
<1>2. CASE Boot \/ Serve \/ Crash \/ Timer
  <2>1. UNCHANGED <<today, created, deleted, reported>>
    BY <1>2 DEF Boot, Serve, Crash, Timer, tables, catalog
  <2>2. QED
    BY <1>t, <2>1
<1>3. ASSUME NEW s \in Services, CreateService(s)
      PROVE  /\ \A d \in Days : reported[d] \subseteq reported'[d]
             /\ today <= today'
             /\ \A b \in Services, d \in Days : d <= today /\ Older(b, d)' => Older(b, d)
  <2>1. today' = today /\ reported' = reported /\ deleted' = deleted
    BY <1>3 DEF CreateService, tables
  <2>2. \A b \in Services : b # s => created'[b] = created[b]
    BY <1>3 DEF CreateService, TypeOK
  <2>3. created'[s] = today
    BY <1>3 DEF CreateService, TypeOK
  <2>4. ASSUME NEW b \in Services, NEW d \in Days, d <= today, Older(b, d)'
        PROVE  Older(b, d)
    <3>1. b # s
      BY <1>t, <2>3, <2>4 DEF Days
    <3>2. QED
      BY <2>1, <2>2, <2>4, <3>1
  <2>5. QED
    BY <1>t, <2>1, <2>4
<1>4. ASSUME NEW s \in Services, DeleteService(s)
      PROVE  /\ \A d \in Days : reported[d] \subseteq reported'[d]
             /\ today <= today'
             /\ \A b \in Services, d \in Days : d <= today /\ Older(b, d)' => Older(b, d)
  BY <1>4, <1>t DEF DeleteService, tables
<1>5. ASSUME NEW w \in Workloads, NEW place \in Datacenters \cup {Nowhere},
             PlaceWorkload(w, place)
      PROVE  /\ \A d \in Days : reported[d] \subseteq reported'[d]
             /\ today <= today'
             /\ \A b \in Services, d \in Days : d <= today /\ Older(b, d)' => Older(b, d)
  BY <1>5, <1>t DEF PlaceWorkload, tables
<1>6. ASSUME NEW d \in Days, NEW dc \in Datacenters, SavePrice(d, dc)
      PROVE  /\ \A e \in Days : reported[e] \subseteq reported'[e]
             /\ today <= today'
             /\ \A b \in Services, e \in Days : e <= today /\ Older(b, e)' => Older(b, e)
  BY <1>6, <1>t DEF SavePrice, tables, catalog
<1>7. ASSUME NEW r \in Requests, NEW d \in Days, RequestCalculate(r, d) \/ RequestFulfill(r, d)
      PROVE  /\ \A e \in Days : reported[e] \subseteq reported'[e]
             /\ today <= today'
             /\ \A b \in Services, e \in Days : e <= today /\ Older(b, e)' => Older(b, e)
  BY <1>7, <1>t DEF RequestCalculate, RequestFulfill, tables, catalog
<1>8. ASSUME NEW c \in Callers, Step(c) \/ Fail(c)
      PROVE  /\ \A e \in Days : reported[e] \subseteq reported'[e]
             /\ today <= today'
             /\ \A b \in Services, e \in Days : e <= today /\ Older(b, e)' => Older(b, e)
  <2>1. UNCHANGED <<today, catalog>>
    BY <1>8 DEF Step, ReadCatalog, ReadExisting, ReadPrices, SaveReports, SaveBreakdown, Fail
  <2>2. run[c] \in RunState
    BY <1>t
  <2>3. UNCHANGED tables \/ UpsertReports(run[c]) \/ UpsertBreakdown(run[c])
    BY <1>8 DEF Step, ReadCatalog, ReadExisting, ReadPrices, SaveReports, SaveBreakdown, Fail
  <2>4. \A e \in Days : reported[e] \subseteq reported'[e]
    BY <2>2, <2>3, ReportsStay DEF tables
  <2>5. QED
    BY <1>t, <2>1, <2>4 DEF catalog
<1>9. CASE UNCHANGED vars
  BY <1>9, <1>t DEF vars
<1>10. QED
  BY <1>1, <1>2, <1>3, <1>4, <1>5, <1>6, <1>7, <1>8, <1>9 DEF Next

\* So a run that a step leaves alone has still covered what it had.
LEMMA CompleteStays ==
  ASSUME TypeOK, [Next]_vars, NEW r \in RunState, Complete(r)
  PROVE  Complete(r)'
<1> SUFFICES ASSUME r.skip, r.pc # "idle"
             PROVE  Complete(r)'
  BY DEF Complete
<1>1. r.first \in Nat /\ r.day \in Days /\ r.last \in Days /\ today \in Nat /\ today' \in Nat
      /\ r.day \in Nat /\ r.last \in Nat /\ r.asked \in Days /\ r.asked \in Nat
  BY TypeStep DEF TypeOK, RunState, Days
<1>2. r.first <= r.day /\ r.day <= r.last /\ r.asked <= today
  BY DEF Complete
<1>3. ASSUME NEW s \in Services, Older(s, r.asked)'
      PROVE  /\ \A d \in Days : r.first <= d /\ d < r.day => s \in reported'[d]
             /\ r.pc = "existing" => s \in r.todo
             /\ r.pc \in {"prices", "saveReports"} => s \in r.todo \cup reported'[r.day]
             /\ r.pc = "saveBreakdown" => s \in reported'[r.day]
  <2>1. Older(s, r.asked)
    BY <1>1, <1>2, <1>3, OnlyForward
  <2>2. \A d \in Days : reported[d] \subseteq reported'[d]
    BY OnlyForward
  <2>3. QED
    BY <1>1, <2>1, <2>2 DEF Complete
<1>4. r.asked <= today'
  BY <1>1, <1>2, OnlyForward
<1>5. QED
  BY <1>2, <1>3, <1>4 DEF Complete

\* The next turn of the loop, after a step that has covered the day in hand.
LEMMA NextDayComplete ==
  ASSUME NEW r \in RunState, Covered(r)', r.skip => r.first <= r.day /\ r.asked <= today'
  PROVE  Complete(NextDay(r))'
<1>1. CASE r.day < r.last
  <2>1. r.first \in Nat /\ r.day \in Nat /\ r.last \in Nat
    BY DEF RunState, Days
  <2>2. /\ NextDay(r).skip = r.skip /\ NextDay(r).first = r.first /\ NextDay(r).last = r.last
        /\ NextDay(r).asked = r.asked /\ NextDay(r).pc = "list" /\ NextDay(r).day = r.day + 1
    BY <1>1 DEF NextDay, AtDay, RunState
  <2>3. \A d \in Days : d < r.day + 1 => d <= r.day
    BY <2>1 DEF Days
  <2>4. r.skip => r.first <= r.day + 1 /\ r.day + 1 <= r.last
    BY <1>1, <2>1
  <2>5. QED
    BY <2>2, <2>3, <2>4 DEF Complete, Covered
<1>2. CASE ~(r.day < r.last)
  BY <1>2 DEF NextDay, IdleRun, Complete
<1>3. QED
  BY <1>1, <1>2

\* A step that ends a turn of the loop has covered the day.
LEMMA TurnCovers ==
  ASSUME TypeOK, NEW c \in Callers, Complete(run[c]), Step(c),
         run'[c].pc \in {"idle", "list"}
  PROVE  /\ run'[c] = NextDay(run[c])
         /\ UNCHANGED <<today, catalog>>
         /\ run[c].skip => \A s \in Services : Older(s, run[c].asked) =>
                \A d \in Days : run[c].first <= d /\ d <= run[c].day => s \in reported'[d]
<1> DEFINE r == run[c]
           done == r.skip => \A s \in Services : Older(s, r.asked) =>
                      \A d \in Days : r.first <= d /\ d <= r.day => s \in reported'[d]
<1>t. run \in [Callers -> RunState] /\ r \in RunState
  BY DEF TypeOK
<1>u. UNCHANGED <<today, catalog>>
  BY DEF Step, ReadCatalog, ReadExisting, ReadPrices, SaveReports, SaveBreakdown
<1>n. r.day \in Nat /\ r.day \in Days /\ \A d \in Days : d <= r.day => d < r.day \/ d = r.day
  BY <1>t DEF RunState, Days
<1>1. CASE ReadCatalog(c)
  <2>1. CASE Listed = {}
    <3>1. run'[c] = NextDay(r)
      BY <1>1, <1>t, <2>1 DEF ReadCatalog
    <3>2. QED
      BY <1>u, <2>1, <3>1 DEF Older
  <2>2. CASE Listed # {}
    <3>1. run'[c].pc = IF r.skip THEN "existing" ELSE "prices"
      BY <1>1, <1>t, <2>2 DEF ReadCatalog, RunState
    <3>2. QED
      BY <3>1
  <2>3. QED
    BY <2>1, <2>2
<1>2. CASE ReadExisting(c)
  BY <1>2, <1>t DEF ReadExisting, RunState
<1>3. CASE ReadPrices(c)
  <2>1. CASE r.todo = {}
    <3>1. run'[c] = NextDay(r) /\ r.pc = "prices" /\ reported' = reported
      BY <1>3, <1>t, <2>1 DEF ReadPrices, tables
    <3>2. done
      BY <1>n, <2>1, <3>1 DEF Complete
    <3>3. QED
      BY <1>u, <3>1, <3>2
  <2>2. CASE r.todo # {}
    BY <1>3, <1>t, <2>2 DEF ReadPrices, RunState
  <2>3. QED
    BY <2>1, <2>2
<1>4. CASE SaveReports(c)
  <2>1. CASE HasRows(r)
    BY <1>4, <1>t, <2>1 DEF SaveReports, RunState
  <2>2. CASE ~HasRows(r)
    <3>1. run'[c] = NextDay(r) /\ r.pc = "saveReports" /\ UpsertReports(r)
      BY <1>4, <1>t, <2>2 DEF SaveReports
    <3>2. reported'[r.day] = reported[r.day] \cup r.todo
          /\ \A d \in Days : reported[d] \subseteq reported'[d]
      BY <1>n, <1>t, <3>1, ReportsStay DEF UpsertReports, TypeOK
    <3>3. done
      BY <1>n, <3>1, <3>2 DEF Complete
    <3>4. QED
      BY <1>u, <3>1, <3>3
  <2>3. QED
    BY <2>1, <2>2
<1>5. CASE SaveBreakdown(c)
  <2>1. run'[c] = NextDay(r) /\ r.pc = "saveBreakdown" /\ reported' = reported
    BY <1>5, <1>t DEF SaveBreakdown, UpsertBreakdown
  <2>2. done
    BY <1>n, <2>1 DEF Complete
  <2>3. QED
    BY <1>u, <2>1, <2>2
<1>6. QED
  BY <1>1, <1>2, <1>3, <1>4, <1>5 DEF Step

LEMMA CompleteInit == Init => AllComplete
  BY DEF Init, AllComplete, Complete, IdleRun

LEMMA CompleteStep == TypeOK /\ AllComplete /\ [Next]_vars => AllComplete'
<1> SUFFICES ASSUME TypeOK, AllComplete, [Next]_vars, NEW c \in Callers
             PROVE  Complete(run[c])'
  BY DEF AllComplete
<1> DEFINE r == run[c]
<1>t. run \in [Callers -> RunState] /\ r \in RunState /\ today \in Days
  BY DEF TypeOK
<1>r. Complete(r)
  BY DEF AllComplete
<1>c. "main" \in Callers /\ "scheduler" \in Callers /\ Requests \subseteq Callers
  BY DEF Callers
<1>same. ASSUME run'[c] = run[c]
         PROVE  Complete(run[c])'
  <2>1. \A b \in RunState : Complete(b) => Complete(b)'
    BY CompleteStays
  <2>2. QED
    BY <1>r, <1>t, <1>same, <2>1 DEF Complete
<1>none. ASSUME ~run'[c].skip
         PROVE  Complete(run[c])'
  BY <1>none DEF Complete
<1>1. CASE UNCHANGED run
  BY <1>1, <1>same
<1>2. CASE Boot \/ Timer
  <2>1. Calculation(today).skip = FALSE
    BY DEF Calculation, IdleRun
  <2>2. run'[c] = run[c] \/ run'[c] = Calculation(today)
    BY <1>2, <1>t, <1>c DEF Boot, Timer, Start
  <2>3. QED
    BY <2>1, <2>2, <1>same, <1>none
<1>3. CASE Crash
  BY <1>3, <1>none DEF Crash, IdleRun
<1>4. ASSUME NEW q \in Requests, NEW d \in Days, RequestCalculate(q, d)
      PROVE  Complete(run[c])'
  <2>1. Calculation(d).skip = FALSE
    BY DEF Calculation, IdleRun
  <2>2. run'[c] = run[c] \/ run'[c] = Calculation(d)
    BY <1>4, <1>t, <1>c DEF RequestCalculate, Start
  <2>3. QED
    BY <2>1, <2>2, <1>same, <1>none
<1>5. ASSUME NEW q \in Requests, NEW d \in Days, RequestFulfill(q, d)
      PROVE  Complete(run[c])'
  <2>1. PICK end \in Days : d <= end /\ Start(q, Fulfilment(d, end))
    BY <1>5, FulfilmentStarts
  <2>2. run'[c] = run[c] \/ run'[c] = Fulfilment(d, end)
    BY <1>t, <1>c, <2>1 DEF Start
  <2>3. CASE run'[c] = Fulfilment(d, end)
    <3>1. /\ run'[c].first = d /\ run'[c].day = d /\ run'[c].last = end /\ run'[c].pc = "list"
          /\ run'[c].asked = today
      BY <2>3 DEF Fulfilment, IdleRun
    <3>2. today' = today /\ d \in Nat /\ today \in Nat
      BY <1>5, <1>t DEF RequestFulfill, Days
    <3>3. QED
      BY <2>1, <3>1, <3>2 DEF Complete, Days
  <2>4. QED
    BY <1>same, <2>2, <2>3
<1>6. ASSUME Step(c)
      PROVE  Complete(run[c])'
  <2>1. CASE run'[c].pc \in {"idle", "list"}
    <3>1. run'[c] = NextDay(r) /\ UNCHANGED <<today, catalog>>
      BY <1>6, <1>r, <2>1, TurnCovers
    <3>2. r.skip => \A s \in Services : Older(s, r.asked) =>
              \A d \in Days : r.first <= d /\ d <= r.day => s \in reported'[d]
      BY <1>6, <1>r, <2>1, TurnCovers
    <3>3. \A s \in Services, d \in Days : Older(s, d)' => Older(s, d)
      BY <3>1 DEF Older, Listed, Created, catalog
    <3>4. r.skip => r.first <= r.day /\ r.asked <= today'
      BY <1>6, <1>r, <3>1 DEF Complete, Step, ReadCatalog, ReadExisting, ReadPrices,
                              SaveReports, SaveBreakdown
    <3>5. \A b \in RunState :
              /\ b.skip => \A s \in Services : Older(s, b.asked)' =>
                    \A d \in Days : b.first <= d /\ d <= b.day => s \in reported'[d]
              /\ b.skip => b.first <= b.day /\ b.asked <= today'
              => Complete(NextDay(b))'
      BY NextDayComplete DEF Covered
    <3>6. r.asked \in Days
      BY <1>t DEF RunState
    <3>7. QED
      BY <1>t, <3>1, <3>2, <3>3, <3>4, <3>5, <3>6 DEF Complete
  <2>2. CASE run'[c].pc \notin {"idle", "list"}
    <3>u. UNCHANGED <<today, catalog>>
      BY <1>6 DEF Step, ReadCatalog, ReadExisting, ReadPrices, SaveReports, SaveBreakdown
    <3>o. /\ today' = today /\ \A d \in Days : reported[d] \subseteq reported'[d]
          /\ \A s \in Services, d \in Days : Older(s, d)' <=> Older(s, d)
      BY <3>u, OnlyForward DEF Older, Listed, Created, catalog
    <3>d. r.day \in Days /\ r.last \in Days /\ r.asked \in Days
      BY <1>t DEF RunState
    <3>n. NextDay(r).pc \in {"idle", "list"}
      BY <1>t, NextDayPc
    <3>k. /\ run'[c].skip = r.skip /\ run'[c].first = r.first
          /\ run'[c].day = r.day /\ run'[c].last = r.last /\ r.pc # "idle"
          /\ run'[c].asked = r.asked
          /\ \/ r.pc = "list" /\ run'[c].todo = Listed
                /\ run'[c].pc = IF r.skip THEN "existing" ELSE "prices"
             \/ r.pc = "existing" /\ run'[c].pc = "prices"
                /\ run'[c].todo = r.todo \ reported[r.day]
             \/ r.pc = "prices" /\ run'[c].pc = "saveReports" /\ run'[c].todo = r.todo
             \/ r.pc = "saveReports" /\ run'[c].pc = "saveBreakdown"
                /\ reported'[r.day] = reported[r.day] \cup r.todo
      <4>1. CASE ReadCatalog(c)
        <5>1. Listed # {}
          BY <1>t, <2>2, <3>n, <4>1 DEF ReadCatalog
        <5>2. QED
          BY <1>t, <4>1, <5>1 DEF ReadCatalog, RunState
      <4>2. CASE ReadExisting(c)
        BY <1>t, <4>2 DEF ReadExisting, ServicesWithoutReport, RunState
      <4>3. CASE ReadPrices(c)
        <5>1. r.todo # {}
          BY <1>t, <2>2, <3>n, <4>3 DEF ReadPrices
        <5>2. QED
          BY <1>t, <4>3, <5>1 DEF ReadPrices, RunState
      <4>4. CASE SaveReports(c)
        <5>1. HasRows(r)
          BY <1>t, <2>2, <3>n, <4>4 DEF SaveReports
        <5>2. run'[c] = [r EXCEPT !.pc = "saveBreakdown"] /\ r.pc = "saveReports"
          BY <1>t, <4>4, <5>1 DEF SaveReports
        <5>3. reported'[r.day] = reported[r.day] \cup r.todo
          BY <1>t, <3>d, <4>4 DEF SaveReports, UpsertReports, TypeOK
        <5>4. QED
          BY <1>t, <5>2, <5>3 DEF RunState
      <4>5. CASE SaveBreakdown(c)
        BY <1>t, <2>2, <3>n, <4>5 DEF SaveBreakdown
      <4>6. QED
        BY <1>6, <4>1, <4>2, <4>3, <4>4, <4>5 DEF Step
    <3> SUFFICES ASSUME r.skip
                 PROVE  Complete(run[c])'
      BY <1>none, <3>k
    <3>1. r.first <= r.day /\ r.day <= r.last /\ r.asked <= today
      BY <1>r, <3>k DEF Complete
    <3>2. ASSUME NEW s \in Services, Older(s, r.asked)
          PROVE  /\ \A d \in Days : r.first <= d /\ d < r.day => s \in reported'[d]
                 /\ run'[c].pc = "existing" => s \in run'[c].todo
                 /\ run'[c].pc \in {"prices", "saveReports"} =>
                        s \in run'[c].todo \cup reported'[r.day]
                 /\ run'[c].pc = "saveBreakdown" => s \in reported'[r.day]
      <4>1. s \in Listed
        BY <3>2 DEF Older
      <4>2. \A d \in Days : r.first <= d /\ d < r.day => s \in reported'[d]
        BY <1>r, <3>2, <3>k, <3>o DEF Complete
      <4>3. QED
        BY <1>r, <3>2, <3>d, <3>k, <3>o, <4>1, <4>2 DEF Complete
    <3>3. QED
      BY <3>1, <3>2, <3>d, <3>k, <3>o DEF Complete
  <2>3. QED
    BY <2>1, <2>2
<1>7. ASSUME NEW b \in Callers, Step(b) \/ Fail(b)
      PROVE  Complete(run[c])'
  <2>1. CASE b = c
    <3>1. CASE Step(b)
      BY <1>6, <2>1, <3>1
    <3>2. CASE Fail(b)
      BY <1>none, <1>t, <2>1, <3>2 DEF Fail, IdleRun
    <3>3. QED
      BY <1>7, <3>1, <3>2
  <2>2. CASE b # c
    <3>1. run'[c] = run[c]
      BY <1>7, <1>t, <2>2 DEF Step, ReadCatalog, ReadExisting, ReadPrices, SaveReports,
                              SaveBreakdown, Fail
    <3>2. QED
      BY <1>same, <3>1
  <2>3. QED
    BY <2>1, <2>2
<1>8. QED
  BY <1>1, <1>2, <1>3, <1>4, <1>5, <1>7
     DEF Next, Midnight, Serve, CreateService, DeleteService, PlaceWorkload, SavePrice, vars, runs

\* The step that ends a fulfilment without an error is its last turn.
LEMMA LastTurnCovers ==
  TypeOK /\ AllComplete /\ [Next]_vars =>
      [\A c \in Callers : run[c].skip /\ DayDone(c) /\ run'[c].pc = "idle" =>
            \A s \in Listed : created[s] < run[c].asked =>
                \A d \in run[c].first..run[c].last : s \in reported'[d]]_vars
<1> SUFFICES ASSUME TypeOK, AllComplete, [Next]_vars, NEW c \in Callers,
                    run[c].skip, DayDone(c), run'[c].pc = "idle",
                    NEW s \in Listed, created[s] < run[c].asked,
                    NEW d \in run[c].first..run[c].last
             PROVE  s \in reported'[d]
  OBVIOUS
<1>t. run \in [Callers -> RunState] /\ run[c] \in RunState
  BY DEF TypeOK
<1>c. "main" \in Callers /\ "scheduler" \in Callers /\ Requests \subseteq Callers
  BY DEF Callers
<1>1. run[c].pc # "idle" /\ failures' = failures /\ crashes' = crashes /\ run'[c] # run[c]
  BY DEF DayDone
<1>2. Step(c)
  <2>1. ~Crash
    BY <1>1 DEF Crash, TypeOK
  <2>2. ~Boot /\ ~Timer
    BY <1>1, <1>c, <1>t, StartsAtList DEF Boot, Timer, Start
  <2>3. \A q \in Requests, e \in Days : ~RequestCalculate(q, e) /\ ~RequestFulfill(q, e)
    <3>1. ASSUME NEW q \in Requests, NEW e \in Days, RequestCalculate(q, e) \/ RequestFulfill(q, e)
          PROVE  FALSE
      <4>1. PICK begun : run' = [run EXCEPT ![q] = begun] /\ begun.pc = "list"
        BY <3>1, RequestsStart DEF Start
      <4>2. Idle(q)
        BY <3>1 DEF RequestCalculate, RequestFulfill, MayRequest
      <4>3. QED
        BY <1>1, <1>c, <1>t, <4>1, <4>2 DEF Idle, DayDone
    <3>2. QED
      BY <3>1
  <2>4. \A b \in Callers : ~Fail(b)
    BY <1>1 DEF Fail, TypeOK
  <2>5. \A b \in Callers : Step(b) => b = c
    BY <1>1, <1>t DEF Step, ReadCatalog, ReadExisting, ReadPrices, SaveReports, SaveBreakdown
  <2>6. run' # run
    BY <1>1
  <2>7. QED
    BY <2>1, <2>2, <2>3, <2>4, <2>5, <2>6
       DEF Next, Midnight, Serve, CreateService, DeleteService, PlaceWorkload, SavePrice, vars, runs
<1>3. Complete(run[c])
  BY DEF AllComplete
<1>4. run'[c] = NextDay(run[c])
  BY <1>2, <1>3, TurnCovers
<1>5. \A b \in Services : Older(b, run[c].asked) =>
          \A e \in Days : run[c].first <= e /\ e <= run[c].day => b \in reported'[e]
  BY <1>2, <1>3, TurnCovers
<1>6. run[c].day \in Nat /\ run[c].last \in Nat /\ run[c].first \in Nat /\ run[c].last <= MaxDay
  BY <1>t, BoundsAssumption DEF RunState, Days
<1>7. run[c].day = run[c].last
  <2>1. ~(run[c].day < run[c].last)
    BY <1>4 DEF NextDay, AtDay
  <2>2. run[c].day <= run[c].last
    BY <1>1, <1>3 DEF Complete
  <2>3. QED
    BY <1>6, <2>1, <2>2
<1>8. d \in Days /\ run[c].first <= d /\ d <= run[c].day
  BY <1>6, <1>7, BoundsAssumption DEF Days
<1>9. Older(s, run[c].asked) /\ s \in Services
  BY DEF Older, Listed, Created
<1>10. QED
  BY <1>5, <1>8, <1>9

\* A fulfilment that ends without an error has left no hole: whatever other
\* runs and whatever edits overlap it, every service that existed before the
\* day it was asked for, and still does, has a report for each of its days.
THEOREM FulfilmentLeavesNoHole == Spec => FulfillReportsAll
  BY TypeInit, TypeStep, CompleteInit, CompleteStep, LastTurnCovers, PTL
     DEF Spec, FulfillReportsAll

-----------------------------------------------------------------------------
(***************************************************************************)
(* One run at a time.  Main is done before anything else starts; and what  *)
(* has not been overlapped is alone.                                       *)
(***************************************************************************)
LifeInv ==
    /\ server # "calculating" => Idle("main")
    /\ server # "serving" => ~due /\ \A c \in Callers \ {"main"} : Idle(c)
    /\ due => Idle("scheduler")
    /\ ~overlapped => \A b, c \in Callers : b # c => Idle(b) \/ Idle(c)

LEMMA LifeInit == Init => LifeInv
  BY DEF Init, LifeInv, Idle, IdleRun, Callers

LEMMA LifeStep == TypeOK /\ LifeInv /\ [Next]_vars => LifeInv'
<1> SUFFICES ASSUME TypeOK, LifeInv, [Next]_vars
             PROVE  LifeInv'
  OBVIOUS
<1>t. /\ run \in [Callers -> RunState] /\ "main" \in Callers /\ "scheduler" \in Callers
      /\ "main" # "scheduler" /\ Requests = Callers \ {"main", "scheduler"}
  BY RequestsAssumption DEF TypeOK, Callers
<1>still. ASSUME UNCHANGED <<server, due, runs>>
          PROVE  LifeInv'
  BY <1>still DEF LifeInv, Idle, runs
\* A run that begins while the others are idle is the only one.
<1>alone. ASSUME NEW c \in Callers, NEW r, Start(c, r), ~overlapped'
          PROVE  /\ \A b \in Callers \ {c} : Idle(b)'
                 /\ \A a, b \in Callers : a # b => Idle(a)' \/ Idle(b)'
  <2>1. \A b \in Callers \ {c} : Idle(b) /\ run'[b] = run[b]
    BY <1>alone, <1>t DEF Start
  <2>2. QED
    BY <2>1 DEF Idle
<1>1. CASE Midnight
  <2>1. /\ UNCHANGED <<server, runs>> /\ due' = (server = "serving")
        /\ server = "serving" => Idle("scheduler")
    BY <1>1 DEF Midnight
  <2>2. QED
    BY <2>1 DEF LifeInv, Idle, runs
<1>2. CASE Boot
  <2>1. /\ server = "down" /\ server' = "calculating" /\ due' = due
        /\ \A c \in Callers \ {"main"} : run'[c] = run[c]
    BY <1>2, <1>t DEF Boot, Start
  <2>2. ~overlapped' => \A b, c \in Callers : b # c => Idle(b)' \/ Idle(c)'
    BY <1>2, <1>t, <1>alone DEF Boot
  <2>3. QED
    BY <1>t, <2>1, <2>2 DEF LifeInv, Idle
<1>3. CASE Serve
  <2>1. server = "calculating" /\ server' = "serving" /\ Idle("main") /\ UNCHANGED runs
    BY <1>3 DEF Serve
  <2>2. QED
    BY <1>t, <2>1 DEF LifeInv, Idle, runs
<1>4. CASE Crash
  BY <1>4 DEF Crash, LifeInv, Idle, IdleRun, Callers
<1>5. CASE Timer
  <2>1. /\ due /\ ~due' /\ server' = server
        /\ \A c \in Callers \ {"scheduler"} : run'[c] = run[c]
    BY <1>5, <1>t DEF Timer, Start
  <2>2. server = "serving" /\ Idle("main")
    BY <2>1 DEF LifeInv
  <2>3. ~overlapped' => \A b, c \in Callers : b # c => Idle(b)' \/ Idle(c)'
    BY <1>5, <1>t, <1>alone DEF Timer
  <2>4. QED
    BY <1>t, <2>1, <2>2, <2>3 DEF LifeInv, Idle
<1>6. CASE \E s \in Services : CreateService(s) \/ DeleteService(s)
  BY <1>6, <1>still DEF CreateService, DeleteService, process
<1>7. CASE \E w \in Workloads, place \in Datacenters \cup {Nowhere} : PlaceWorkload(w, place)
  BY <1>7, <1>still DEF PlaceWorkload, process
<1>8. CASE \E d \in Days, dc \in Datacenters : SavePrice(d, dc)
  BY <1>8, <1>still DEF SavePrice, process
<1>9. ASSUME NEW r \in Requests, NEW d \in Days, RequestCalculate(r, d) \/ RequestFulfill(r, d)
      PROVE  LifeInv'
  <2>1. /\ MayRequest(r) /\ UNCHANGED <<server, due>>
    BY <1>9 DEF RequestCalculate, RequestFulfill, process
  <2>2. PICK begun : Start(r, begun)
    BY <1>9, FulfilmentStarts DEF RequestCalculate
  <2>3. r \in Callers /\ \A c \in Callers \ {r} : run'[c] = run[c]
    BY <1>t, <2>2 DEF Start
  <2>4. ~overlapped' => \A b, c \in Callers : b # c => Idle(b)' \/ Idle(c)'
    BY <1>alone, <2>2, <2>3
  <2>5. server = "serving"
    BY <2>1 DEF MayRequest
  <2>6. QED
    BY <1>t, <2>1, <2>3, <2>4, <2>5 DEF LifeInv, Idle
<1>10. ASSUME NEW c \in Callers, Step(c) \/ Fail(c)
       PROVE  LifeInv'
  <2>1. /\ ~Idle(c) /\ UNCHANGED <<server, due, overlapped>>
        /\ \A b \in Callers \ {c} : run'[b] = run[b]
    BY <1>10, <1>t DEF Step, ReadCatalog, ReadExisting, ReadPrices, SaveReports, SaveBreakdown,
                       Fail, Idle, process
  <2>2. \A b \in Callers : Idle(b) => Idle(b)'
    BY <2>1 DEF Idle
  <2>3. QED
    BY <1>t, <2>1, <2>2 DEF LifeInv
<1>11. CASE UNCHANGED vars
  BY <1>11, <1>still DEF vars, runs
<1>12. CASE \E r \in Requests, d \in Days : RequestCalculate(r, d) \/ RequestFulfill(r, d)
  BY <1>9, <1>12
<1>13. CASE \E c \in Callers : Step(c) \/ Fail(c)
  BY <1>10, <1>13
<1>14. QED
  BY <1>1, <1>2, <1>3, <1>4, <1>5, <1>6, <1>7, <1>8, <1>11, <1>12, <1>13 DEF Next

(***************************************************************************)
(* A run that no other run overlaps finds the reports as it has saved them *)
(* when it saves their breakdown, and a fulfilment still finds no report   *)
(* of the services it is about to report.                                  *)
(***************************************************************************)
Agrees(c) ==
    /\ run[c].skip /\ run[c].pc \in {"prices", "saveReports"} =>
          \A s \in run[c].todo : s \notin reported[run[c].day]
    /\ run[c].pc = "saveBreakdown" =>
          \A s \in run[c].todo : report[run[c].day][s] = Computed(run[c], s)

AgreeInv == ~overlapped => \A c \in Callers : Agrees(c)

LEMMA AgreeInit == Init => AgreeInv
  BY DEF Init, AgreeInv, Agrees, IdleRun

\* The reports that a save leaves.
LEMMA ReportsSaved ==
  ASSUME TypeOK, NEW r \in RunState, UpsertReports(r), NEW d \in Days, NEW s \in Services
  PROVE  report'[d][s] = IF d = r.day /\ s \in r.todo THEN Computed(r, s) ELSE report[d][s]
<1> DEFINE page(old) == [b \in Services |-> IF b \in r.todo THEN Computed(r, b) ELSE old[b]]
<1>1. r.day \in Days /\ report \in [Days -> [Services -> Rows]]
  BY DEF RunState, TypeOK
<1>2. report' = [report EXCEPT ![r.day] = page(report[r.day])]
  BY <1>1 DEF UpsertReports
<1>3. page(report[r.day])[s] = IF s \in r.todo THEN Computed(r, s) ELSE report[r.day][s]
  OBVIOUS
<1> HIDE DEF page
<1>4. report'[d] = IF d = r.day THEN page(report[r.day]) ELSE report[d]
  BY <1>1, <1>2
<1>5. QED
  BY <1>3, <1>4

LEMMA AgreeStep ==
  ASSUME TypeOK, LifeInv, AgreeInv, [Next]_vars
  PROVE  AgreeInv'
<1> SUFFICES ASSUME ~overlapped', NEW c \in Callers
             PROVE  Agrees(c)'
  BY DEF AgreeInv
<1>t. /\ run \in [Callers -> RunState] /\ run[c] \in RunState
      /\ "main" \in Callers /\ "scheduler" \in Callers /\ Requests \subseteq Callers
  BY DEF TypeOK, Callers
<1>i. overlapped' = overlapped => Agrees(c)
  BY DEF AgreeInv
<1>same. ASSUME run'[c] = run[c], UNCHANGED <<reported, report, overlapped>>
         PROVE  Agrees(c)'
  BY <1>i, <1>same DEF Agrees, Computed
<1>idle. ASSUME ~run'[c].skip, run'[c].pc \in {"idle", "list", "prices", "saveReports"}
         PROVE  Agrees(c)'
  BY <1>idle DEF Agrees
<1>list. ASSUME run'[c].pc = "list"
         PROVE  Agrees(c)'
  BY <1>list DEF Agrees
<1>stop. IdleRun.pc = "idle" /\ IdleRun.skip = FALSE
  BY DEF IdleRun
\* A run begins, and it is alone.
<1>start. ASSUME NEW b \in Callers, NEW begun, begun.pc = "list", Start(b, begun)
          PROVE  Agrees(c)'
  <2>1. CASE b = c
    BY <1>list, <1>start, <1>t, <2>1 DEF Start
  <2>2. CASE b # c
    BY <1>start, <1>t, <2>2 DEF Start, Idle, Agrees
  <2>3. QED
    BY <2>1, <2>2
<1>next. ASSUME run'[c] = NextDay(run[c])
         PROVE  Agrees(c)'
  <2>1. run'[c].pc = "list" \/ run'[c] = IdleRun
    BY <1>next, <1>t DEF NextDay, AtDay, RunState
  <2>2. QED
    BY <2>1, <1>list, <1>idle, <1>stop
<1>1. CASE UNCHANGED <<runs, reported, report>>
  BY <1>1, <1>same DEF runs
<1>2. CASE Boot \/ Timer
  BY <1>2, <1>start, <1>t, StartsAtList DEF Boot, Timer
<1>3. CASE Crash
  BY <1>3, <1>idle, <1>stop DEF Crash
<1>4. ASSUME NEW r \in Requests, NEW d \in Days, RequestCalculate(r, d) \/ RequestFulfill(r, d)
      PROVE  Agrees(c)'
  BY <1>4, <1>start, <1>t, StartsAtList, FulfilmentStarts DEF RequestCalculate
<1>5. ASSUME NEW b \in Callers, b # c, Step(b) \/ Fail(b)
      PROVE  Agrees(c)'
  <2>1. ~Idle(b) /\ run'[c] = run[c]
    BY <1>5, <1>t DEF Step, ReadCatalog, ReadExisting, ReadPrices, SaveReports, SaveBreakdown,
                      Fail, Idle
  <2>2. ~overlapped
    BY <1>5 DEF Step, ReadCatalog, ReadExisting, ReadPrices, SaveReports, SaveBreakdown, Fail
  <2>3. run[c].pc = "idle"
    BY <1>5, <2>1, <2>2 DEF LifeInv, Idle
  <2>4. QED
    BY <2>1, <2>3 DEF Agrees
<1>6. CASE ReadCatalog(c)
  <2>1. CASE Listed = {}
    <3>1. run'[c] = NextDay(run[c])
      BY <1>6, <1>t, <2>1 DEF ReadCatalog
    <3>2. QED
      BY <1>next, <3>1
  <2>2. CASE Listed # {}
    <3>1. /\ run'[c].pc = IF run[c].skip THEN "existing" ELSE "prices"
          /\ run'[c].skip = run[c].skip
      BY <1>6, <1>t, <2>2 DEF ReadCatalog, RunState
    <3>2. CASE run[c].skip
      BY <3>1, <3>2 DEF Agrees
    <3>3. CASE ~run[c].skip
      BY <1>idle, <3>1, <3>3
    <3>4. QED
      BY <3>2, <3>3
  <2>3. QED
    BY <2>1, <2>2
<1>7. CASE ReadExisting(c)
  <2>1. /\ run'[c].pc = "prices" /\ run'[c].day = run[c].day /\ reported' = reported
        /\ run'[c].todo = run[c].todo \ reported[run[c].day]
    BY <1>7, <1>t DEF ReadExisting, ServicesWithoutReport, RunState, tables
  <2>2. QED
    BY <2>1 DEF Agrees
<1>8. CASE ReadPrices(c)
  <2>1. CASE run[c].todo = {}
    <3>1. run'[c] = NextDay(run[c])
      BY <1>8, <1>t, <2>1 DEF ReadPrices
    <3>2. QED
      BY <1>next, <3>1
  <2>2. CASE run[c].todo # {}
    <3>1. /\ run'[c].pc = "saveReports" /\ run'[c].day = run[c].day /\ reported' = reported
          /\ run'[c].todo = run[c].todo /\ run'[c].skip = run[c].skip /\ run[c].pc = "prices"
      BY <1>8, <1>t, <2>2 DEF ReadPrices, RunState, tables
    <3>2. QED
      BY <1>8, <1>i, <3>1 DEF Agrees, ReadPrices
  <2>3. QED
    BY <2>1, <2>2
<1>9. CASE SaveReports(c)
  <2>1. CASE HasRows(run[c])
    <3>1. run'[c] = [run[c] EXCEPT !.pc = "saveBreakdown"] /\ UpsertReports(run[c])
      BY <1>9, <1>t, <2>1 DEF SaveReports
    <3>2. /\ run'[c].pc = "saveBreakdown" /\ run'[c].day = run[c].day
          /\ run'[c].todo = run[c].todo /\ run'[c].places = run[c].places
          /\ run'[c].prices = run[c].prices /\ run[c].day \in Days
          /\ run[c].todo \subseteq Services
      BY <1>t, <3>1 DEF RunState
    <3>3. \A s \in run[c].todo : report'[run[c].day][s] = Computed(run[c], s)
      BY <1>t, <3>1, <3>2, ReportsSaved
    <3>4. \A s : Computed(run[c], s)' = Computed(run[c], s)
      BY <3>2 DEF Computed
    <3>5. QED
      BY <3>2, <3>3, <3>4 DEF Agrees
  <2>2. CASE ~HasRows(run[c])
    <3>1. run'[c] = NextDay(run[c])
      BY <1>9, <1>t, <2>2 DEF SaveReports
    <3>2. QED
      BY <1>next, <3>1
  <2>3. QED
    BY <2>1, <2>2
<1>10. CASE SaveBreakdown(c)
  BY <1>10, <1>t, <1>next DEF SaveBreakdown
<1>11. CASE Fail(c)
  BY <1>11, <1>t, <1>idle, <1>stop DEF Fail
<1>12. QED
  BY <1>1, <1>2, <1>3, <1>4, <1>5, <1>6, <1>7, <1>8, <1>9, <1>10, <1>11
     DEF Next, Step, Midnight, Serve, CreateService, DeleteService, PlaceWorkload, SavePrice,
         tables, runs, vars

\* What a step that ends a day, and no error, is: the last step of its turn.
LEMMA DayDoneStep ==
  ASSUME TypeOK, LifeInv, [Next]_vars, NEW c \in Callers, DayDone(c)
  PROVE  Step(c)
<1>t. /\ run \in [Callers -> RunState] /\ "main" \in Callers /\ "scheduler" \in Callers
      /\ Requests \subseteq Callers
  BY DEF TypeOK, Callers
<1>1. run[c].pc # "idle" /\ failures' = failures /\ crashes' = crashes /\ run'[c] # run[c]
  BY DEF DayDone
<1>2. ~Crash /\ \A b \in Callers : ~Fail(b)
  BY <1>1 DEF Crash, Fail, TypeOK
<1>3. ~Timer /\ \A q \in Requests, e \in Days : ~RequestCalculate(q, e) /\ ~RequestFulfill(q, e)
  BY <1>1, <1>t, FulfilmentStarts DEF Timer, RequestCalculate, RequestFulfill, MayRequest, Start, Idle
<1>4. \A b \in Callers : Step(b) => b = c
  BY <1>1, <1>t DEF Step, ReadCatalog, ReadExisting, ReadPrices, SaveReports, SaveBreakdown
<1>5. ~Boot
  BY <1>1, <1>t DEF Boot, Start, LifeInv, Idle
<1>6. QED
  BY <1>1, <1>2, <1>3, <1>4, <1>5
     DEF Next, Midnight, Serve, CreateService, DeleteService, PlaceWorkload, SavePrice, vars, runs

\* The last save of a day leaves report and breakdown with the same addends.
LEMMA LastSaveAgrees ==
  ASSUME ~overlapped, TypeOK, LifeInv, AgreeInv, [Next]_vars,
         NEW c \in Callers, DayDone(c), run[c].pc \in {"saveReports", "saveBreakdown"},
         NEW s \in run[c].todo, NEW dc \in Datacenters,
         report'[run[c].day][s][dc] # NoRow
  PROVE  breakdown'[run[c].day][s][dc] = report'[run[c].day][s][dc]
<1> DEFINE r == run[c]
<1>t. /\ run \in [Callers -> RunState] /\ r \in RunState /\ r.day \in Days /\ s \in Services
  BY DEF TypeOK, RunState
<1>1. SaveReports(c) \/ SaveBreakdown(c)
  BY DayDoneStep DEF Step, ReadCatalog, ReadExisting, ReadPrices
<1>2. CASE SaveReports(c)
  <2>1. ~HasRows(r)
    BY <1>2, <1>t DEF SaveReports, DayDone, RunState
  <2>2. Computed(r, s) = NoRows
    BY <2>1 DEF HasRows
  <2>3. report'[r.day][s] = Computed(r, s)
    BY <1>2, <1>t, ReportsSaved DEF SaveReports
  <2>4. QED
    BY <2>2, <2>3 DEF NoRows
<1>3. CASE SaveBreakdown(c)
  <2>1. /\ report' = report /\ UpsertBreakdown(r) /\ r.pc = "saveBreakdown"
    BY <1>3 DEF SaveBreakdown, UpsertBreakdown
  <2>2. report[r.day][s] = Computed(r, s)
    BY <2>1 DEF AgreeInv, Agrees
  <2>3. breakdown'[r.day][s][dc] = Computed(r, s)[dc]
    BY <1>t, <2>1, <2>2 DEF UpsertBreakdown, TypeOK
  <2>4. QED
    BY <2>1, <2>2, <2>3
<1>4. QED
  BY <1>1, <1>2, <1>3

\* A run that no other one overlaps leaves every service it reports with the
\* breakdown its report is the sum of, whatever earlier runs that overlapped,
\* failed or crashed have left behind.
THEOREM DoneDayIsConsistent == Spec => DoneDayAgrees
<1>1. TypeOK /\ LifeInv /\ AgreeInv /\ [Next]_vars => AgreeInv'
  BY AgreeStep
<1>2. TypeOK /\ LifeInv /\ AgreeInv /\ [Next]_vars =>
        [\A c \in Callers : DayDone(c) /\ ~overlapped /\ run[c].pc \in {"saveReports", "saveBreakdown"} =>
            \A s \in run[c].todo, dc \in Datacenters :
                report'[run[c].day][s][dc] # NoRow =>
                    breakdown'[run[c].day][s][dc] = report'[run[c].day][s][dc]]_vars
  BY LastSaveAgrees
<1>3. QED
  BY TypeInit, TypeStep, LifeInit, LifeStep, AgreeInit, <1>1, <1>2, PTL DEF Spec, DoneDayAgrees

\* A save of a fulfilment that nothing overlaps changes no report there is.
LEMMA FulfilmentSavesNew ==
  ASSUME ~overlapped, TypeOK, LifeInv, AgreeInv, [Next]_vars,
         NEW c \in Callers, run[c].skip, ~Idle(c), NEW d \in Days, NEW s \in reported[d]
  PROVE  report'[d][s] = report[d][s]
<1>t. /\ run \in [Callers -> RunState] /\ run[c] \in RunState /\ s \in Services
  BY DEF TypeOK
<1>i. Agrees(c)
  BY DEF AgreeInv
<1>1. ASSUME NEW b \in Callers, run[b].pc = "saveReports", UpsertReports(run[b])
      PROVE  report'[d][s] = report[d][s]
  <2>1. b = c
    BY <1>1 DEF LifeInv, Idle
  <2>2. ~(d = run[c].day /\ s \in run[c].todo)
    BY <1>1, <1>i, <2>1 DEF Agrees
  <2>3. QED
    BY <1>1, <1>t, <2>1, <2>2, ReportsSaved
<1>2. ASSUME NEW b \in Callers, Step(b) \/ Fail(b)
      PROVE  report' = report \/ (run[b].pc = "saveReports" /\ UpsertReports(run[b]))
  <2>1. CASE ReadCatalog(b) \/ ReadExisting(b) \/ ReadPrices(b)
    BY <2>1 DEF ReadCatalog, ReadExisting, ReadPrices, tables
  <2>2. CASE SaveReports(b) \/ SaveBreakdown(b)
    BY <2>2 DEF SaveReports, SaveBreakdown, UpsertBreakdown
  <2>3. CASE Fail(b)
    BY <2>3 DEF Fail, UpsertBreakdown, tables
  <2>4. QED
    BY <1>2, <2>1, <2>2, <2>3 DEF Step
<1>3. QED
  BY <1>1, <1>2
     DEF Next, Midnight, Boot, Serve, Crash, Timer, CreateService, DeleteService, PlaceWorkload,
         SavePrice, RequestCalculate, RequestFulfill, tables, vars

\* A fulfilment that no other run overlaps adds reports and changes none.
THEOREM FulfilmentKeepsReports == Spec => FulfillKeepsReports
<1>1. TypeOK /\ LifeInv /\ AgreeInv /\ [Next]_vars => AgreeInv'
  BY AgreeStep
<1>2. TypeOK /\ LifeInv /\ AgreeInv /\ [Next]_vars =>
        [\A c \in Callers : run[c].skip /\ ~Idle(c) /\ ~overlapped =>
            \A d \in Days : \A s \in reported[d] : report'[d][s] = report[d][s]]_vars
  BY FulfilmentSavesNew
<1>3. QED
  BY TypeInit, TypeStep, LifeInit, LifeStep, AgreeInit, <1>1, <1>2, PTL
     DEF Spec, FulfillKeepsReports

-----------------------------------------------------------------------------
(***************************************************************************)
(* A day is reported by midnight.  Without failures, the run of main has   *)
(* reported the day it began on, and the run at 01:00 the day that has     *)
(* come since, unless main was ready for it too late; OnTime says how far  *)
(* such a run has come.                                                    *)
(***************************************************************************)
OnTime(r) ==
    r.pc # "idle" =>
        /\ ~r.skip /\ r.pc # "existing" /\ r.day = r.last /\ r.day <= today
        /\ \A s \in Services : Older(s, r.day) =>
              /\ r.pc \in {"prices", "saveReports"} => s \in r.todo
              /\ r.pc = "saveBreakdown" => s \in reported[r.day]

ReportedDay(d) == \A s \in Services : Older(s, d) => s \in reported[d]

TimeInv ==
    /\ OnTime(run["main"]) /\ OnTime(run["scheduler"])
    /\ run["main"].pc # "idle" => run["main"].day = bootDay
    /\ run["scheduler"].pc # "idle" => run["scheduler"].day = today
    /\ server = "calculating" => bootDay <= today
    /\ failures = 0 =>
          /\ server = "calculating" /\ Idle("main") => ReportedDay(bootDay)
          /\ server = "serving" /\ ~due /\ ~late /\ Idle("scheduler") => ReportedDay(today)

LEMMA TimeInit == Init => TimeInv
  BY DEF Init, TimeInv, OnTime, IdleRun, Idle, Callers

\* A run that a step leaves alone, and a day that is reported, stay what they are.
LEMMA OnTimeStays ==
  ASSUME TypeOK, [Next]_vars, NEW r \in RunState, OnTime(r)
  PROVE  OnTime(r)'
<1> SUFFICES ASSUME r.pc # "idle"
             PROVE  OnTime(r)'
  BY DEF OnTime
<1>1. /\ r.day \in Days /\ r.day \in Nat /\ today \in Nat /\ today' \in Nat
      /\ r.day <= today /\ today <= today'
  BY TypeStep, OnlyForward DEF TypeOK, RunState, Days, OnTime
<1>2. \A s \in Services : Older(s, r.day)' => Older(s, r.day)
  BY <1>1, OnlyForward
<1>3. reported[r.day] \subseteq reported'[r.day]
  BY <1>1, OnlyForward
<1>4. \A s \in Services : Older(s, r.day)' =>
          /\ r.pc \in {"prices", "saveReports"} => s \in r.todo
          /\ r.pc = "saveBreakdown" => s \in reported'[r.day]
  BY <1>2, <1>3 DEF OnTime
<1>5. r.day <= today'
  BY <1>1
<1>6. QED
  BY <1>4, <1>5 DEF OnTime

LEMMA ReportedStays ==
  ASSUME TypeOK, [Next]_vars, NEW d \in Days, d <= today, ReportedDay(d)
  PROVE  ReportedDay(d)'
  BY OnlyForward DEF ReportedDay

\* A step of a run of main or of the scheduler.
LEMMA OnTimeStep ==
  ASSUME TypeOK, TypeOK', [Next]_vars, NEW c \in Callers, OnTime(run[c]), Step(c)
  PROVE  /\ OnTime(run[c])'
         /\ run'[c].pc # "idle" => run'[c].day = run[c].day
         /\ run'[c].pc = "idle" =>
                \A s \in Services : Older(s, run[c].day) => s \in reported'[run[c].day]
         /\ run[c].pc # "idle"
<1> DEFINE r == run[c]
<1>t. /\ run \in [Callers -> RunState] /\ r \in RunState /\ r.day \in Days /\ r.day \in Nat
      /\ r.last \in Nat
  BY DEF TypeOK, RunState, Days
<1>u. UNCHANGED <<today, catalog>> /\ r.pc # "idle"
  BY DEF Step, ReadCatalog, ReadExisting, ReadPrices, SaveReports, SaveBreakdown
<1>o. /\ ~r.skip /\ r.pc # "existing" /\ r.day = r.last /\ r.day <= today
      /\ \A s \in Services : Older(s, r.day) =>
            /\ r.pc \in {"prices", "saveReports"} => s \in r.todo
            /\ r.pc = "saveBreakdown" => s \in reported[r.day]
  BY <1>u DEF OnTime
<1>n. NextDay(r) = IdleRun /\ IdleRun.pc = "idle"
  BY <1>o, <1>t DEF NextDay, IdleRun
<1>over. ASSUME run'[c] = NextDay(r),
                \A s \in Services : Older(s, r.day) => s \in reported'[r.day]
         PROVE  /\ OnTime(run[c])' /\ run'[c].pc = "idle"
                /\ \A s \in Services : Older(s, r.day) => s \in reported'[r.day]
  BY <1>n, <1>over DEF OnTime
<1>on. ASSUME run'[c].pc \in {"prices", "saveReports", "saveBreakdown"},
              run'[c].skip = r.skip, run'[c].day = r.day, run'[c].last = r.last,
              \A s \in Services : Older(s, r.day) =>
                  /\ run'[c].pc \in {"prices", "saveReports"} => s \in run'[c].todo
                  /\ run'[c].pc = "saveBreakdown" => s \in reported'[r.day]
       PROVE  OnTime(run[c])'
  <2>1. \A s \in Services : Older(s, run[c].day)' => Older(s, r.day)
    BY <1>on, <1>u DEF Older, Listed, Created, catalog
  <2>2. QED
    BY <1>o, <1>on, <1>u, <2>1 DEF OnTime
<1>1. CASE ReadCatalog(c)
  <2>1. CASE Listed = {}
    <3>1. run'[c] = NextDay(r)
      BY <1>1, <1>t, <2>1 DEF ReadCatalog
    <3>2. QED
      BY <1>over, <1>u, <2>1, <3>1 DEF Older
  <2>2. CASE Listed # {}
    <3>1. /\ run'[c].pc = "prices" /\ run'[c].skip = r.skip /\ run'[c].day = r.day
          /\ run'[c].last = r.last /\ run'[c].todo = Listed
      BY <1>1, <1>o, <1>t, <2>2 DEF ReadCatalog, RunState
    <3>2. QED
      BY <1>on, <1>u, <3>1 DEF Older
  <2>3. QED
    BY <2>1, <2>2
<1>2. CASE ReadPrices(c)
  <2>1. CASE r.todo = {}
    <3>1. run'[c] = NextDay(r) /\ r.pc = "prices"
      BY <1>2, <1>t, <2>1 DEF ReadPrices
    <3>2. QED
      BY <1>o, <1>over, <1>u, <2>1, <3>1
  <2>2. CASE r.todo # {}
    <3>1. /\ run'[c].pc = "saveReports" /\ run'[c].skip = r.skip /\ run'[c].day = r.day
          /\ run'[c].last = r.last /\ run'[c].todo = r.todo /\ r.pc = "prices"
      BY <1>2, <1>t, <2>2 DEF ReadPrices, RunState
    <3>2. QED
      BY <1>o, <1>on, <1>u, <3>1
  <2>3. QED
    BY <2>1, <2>2
<1>3. CASE SaveReports(c)
  <2>1. r.pc = "saveReports" /\ UpsertReports(r)
    BY <1>3 DEF SaveReports
  <2>2. reported'[r.day] = reported[r.day] \cup r.todo
    BY <1>t, <2>1 DEF UpsertReports, TypeOK
  <2>3. CASE HasRows(r)
    <3>1. run'[c] = [r EXCEPT !.pc = "saveBreakdown"]
      BY <1>3, <1>t, <2>3 DEF SaveReports
    <3>2. /\ run'[c].pc = "saveBreakdown" /\ run'[c].skip = r.skip /\ run'[c].day = r.day
          /\ run'[c].last = r.last
      BY <1>t, <3>1 DEF RunState
    <3>3. QED
      BY <1>o, <1>on, <1>u, <2>1, <2>2, <3>2
  <2>4. CASE ~HasRows(r)
    <3>1. run'[c] = NextDay(r)
      BY <1>3, <1>t, <2>4 DEF SaveReports
    <3>2. QED
      BY <1>o, <1>over, <1>u, <2>1, <2>2, <3>1
  <2>5. QED
    BY <2>3, <2>4
<1>4. CASE SaveBreakdown(c)
  <2>1. run'[c] = NextDay(r) /\ r.pc = "saveBreakdown" /\ reported' = reported
    BY <1>4, <1>t DEF SaveBreakdown, UpsertBreakdown
  <2>2. QED
    BY <1>o, <1>over, <1>u, <2>1
<1>5. CASE ReadExisting(c)
  BY <1>5, <1>o DEF ReadExisting
<1>6. QED
  BY <1>1, <1>2, <1>3, <1>4, <1>5 DEF Step

LEMMA TimeStep ==
  ASSUME TypeOK, TypeOK', LifeInv, TimeInv, [Next]_vars
  PROVE  TimeInv'
<1> DEFINE main == run["main"]
           sched == run["scheduler"]
<1>t. /\ run \in [Callers -> RunState] /\ "main" \in Callers /\ "scheduler" \in Callers
      /\ "main" # "scheduler" /\ Requests = Callers \ {"main", "scheduler"}
      /\ today \in Days /\ bootDay \in Days /\ today \in Nat /\ bootDay \in Nat
      /\ failures \in Nat
  BY RequestsAssumption DEF TypeOK, Callers, Days
<1>i. /\ OnTime(main) /\ OnTime(sched)
      /\ main.pc # "idle" => main.day = bootDay
      /\ sched.pc # "idle" => sched.day = today
      /\ server = "calculating" => bootDay <= today
      /\ failures = 0 =>
            /\ server = "calculating" /\ main.pc = "idle" => ReportedDay(bootDay)
            /\ server = "serving" /\ ~due /\ ~late /\ sched.pc = "idle" => ReportedDay(today)
  BY DEF TimeInv, Idle
<1>l. /\ server # "calculating" => main.pc = "idle"
      /\ server # "serving" => ~due /\ sched.pc = "idle"
      /\ due => sched.pc = "idle"
  BY <1>t DEF LifeInv, Idle
<1>stay. ASSUME NEW c \in {"main", "scheduler"}, run'[c] = run[c]
         PROVE  OnTime(run[c])'
  <2>1. \A r \in RunState : OnTime(r) => OnTime(r)'
    BY OnTimeStays
  <2>2. QED
    BY <1>i, <1>stay, <1>t, <2>1 DEF OnTime
<1>kept. \A d \in Days : d <= today /\ ReportedDay(d) => ReportedDay(d)'
  BY ReportedStays
<1>list. ASSUME NEW c \in {"main", "scheduler"}, run'[c] = Calculation(today), today' = today
         PROVE  OnTime(run[c])' /\ run'[c].pc = "list" /\ run'[c].day = today
  <2>1. /\ run'[c].pc = "list" /\ run'[c].skip = FALSE /\ run'[c].day = today
        /\ run'[c].last = today
    BY <1>list DEF Calculation, IdleRun
  <2>2. QED
    BY <1>list, <1>t, <2>1 DEF OnTime
\* Steps of other actors, or of a request.
<1>frame. ASSUME run'["main"] = main, run'["scheduler"] = sched,
                 UNCHANGED <<today, server, bootDay, due, late>>, failures' = 0 => failures = 0
          PROVE  TimeInv'
  <2>1. OnTime(run["main"])' /\ OnTime(run["scheduler"])'
    BY <1>frame, <1>stay
  <2>2. failures = 0 /\ server = "calculating" /\ main.pc = "idle" => ReportedDay(bootDay)'
    <3>1. \A d \in Days : d = bootDay /\ d <= today /\ ReportedDay(d) =>
              \A s \in Services : Older(s, d)' => s \in reported'[d]
      BY <1>kept DEF ReportedDay
    <3>2. QED
      BY <1>frame, <1>i, <1>t, <3>1 DEF ReportedDay
  <2>3. failures = 0 /\ server = "serving" /\ ~due /\ ~late /\ sched.pc = "idle" => ReportedDay(today)'
    <3>1. \A d \in Days : d = today /\ d <= today /\ ReportedDay(d) =>
              \A s \in Services : Older(s, d)' => s \in reported'[d]
      BY <1>kept DEF ReportedDay
    <3>2. QED
      BY <1>frame, <1>i, <1>t, <3>1 DEF ReportedDay
  <2>4. QED
    BY <1>frame, <1>i, <2>1, <2>2, <2>3 DEF TimeInv, Idle
<1>1. CASE Midnight
  <2>1. /\ UNCHANGED <<run, server, bootDay, failures>> /\ today' = today + 1
        /\ due' = (server = "serving") /\ (server = "serving" => sched.pc = "idle")
    BY <1>1 DEF Midnight, bounds, runs, Idle
  <2>2. OnTime(run["main"])' /\ OnTime(run["scheduler"])'
    BY <1>stay, <2>1
  <2>3. sched.pc = "idle"
    BY <1>l, <2>1
  <2>4. failures = 0 /\ server = "calculating" /\ main.pc = "idle" => ReportedDay(bootDay)'
    <3>1. \A d \in Days : d = bootDay /\ d <= today /\ ReportedDay(d) =>
              \A s \in Services : Older(s, d)' => s \in reported'[d]
      BY <1>kept DEF ReportedDay
    <3>2. QED
      BY <1>i, <1>t, <2>1, <3>1 DEF ReportedDay
  <2>5. server = "calculating" => bootDay <= today'
    BY <1>i, <1>t, <2>1
  <2>6. QED
    BY <1>i, <2>1, <2>2, <2>3, <2>4, <2>5 DEF TimeInv, Idle
<1>2. CASE Boot
  <2>1. /\ server = "down" /\ server' = "calculating" /\ bootDay' = today /\ today' = today
        /\ run'["main"] = Calculation(today) /\ run'["scheduler"] = sched
    BY <1>2, <1>t DEF Boot, Start
  <2>2. OnTime(run["main"])' /\ run'["main"].pc = "list" /\ run'["main"].day = today
    BY <1>list, <2>1
  <2>3. OnTime(run["scheduler"])'
    BY <1>stay, <2>1
  <2>4. QED
    BY <1>l, <1>t, <2>1, <2>2, <2>3 DEF TimeInv, Idle
<1>3. CASE Serve
  <2>1. /\ server = "calculating" /\ server' = "serving" /\ main.pc = "idle"
        /\ UNCHANGED <<run, today, failures, reported, created, deleted>>
        /\ ~due' /\ ~late' => today = bootDay
    BY <1>3 DEF Serve, Idle, bounds, runs, tables, catalog
  <2>2. OnTime(run["main"])' /\ OnTime(run["scheduler"])'
    BY <1>stay, <2>1
  <2>3. sched.pc = "idle"
    BY <1>l, <2>1
  <2>4. failures = 0 /\ ~due' /\ ~late' => ReportedDay(today)'
    BY <1>i, <2>1 DEF ReportedDay, Older, Listed, Created
  <2>5. QED
    BY <2>1, <2>2, <2>3, <2>4 DEF TimeInv, Idle
<1>4. CASE Crash
  BY <1>4, <1>t DEF Crash, TimeInv, OnTime, Idle, IdleRun
<1>5. CASE Timer
  <2>1. /\ due /\ UNCHANGED <<today, server>> /\ run'["scheduler"] = Calculation(today)
        /\ run'["main"] = main
    BY <1>5, <1>t DEF Timer, Start
  <2>2. OnTime(run["scheduler"])' /\ run'["scheduler"].pc = "list"
        /\ run'["scheduler"].day = today
    BY <1>list, <2>1
  <2>3. OnTime(run["main"])' /\ main.pc = "idle" /\ server = "serving"
    BY <1>l, <1>stay, <2>1
  <2>4. QED
    BY <2>1, <2>2, <2>3 DEF TimeInv, Idle
<1>6. CASE \/ \E s \in Services : CreateService(s) \/ DeleteService(s)
           \/ \E w \in Workloads, place \in Datacenters \cup {Nowhere} : PlaceWorkload(w, place)
           \/ \E d \in Days, dc \in Datacenters : SavePrice(d, dc)
  BY <1>6, <1>frame DEF CreateService, DeleteService, PlaceWorkload, SavePrice, process, runs
<1>7. ASSUME NEW r \in Requests, NEW d \in Days, RequestCalculate(r, d) \/ RequestFulfill(r, d)
      PROVE  TimeInv'
  <2>1. /\ run'["main"] = main /\ run'["scheduler"] = sched
        /\ UNCHANGED <<today, server, bootDay, due, late, failures>>
    BY <1>7, <1>t, FulfilmentStarts DEF RequestCalculate, RequestFulfill, Start, process, bounds
  <2>2. QED
    BY <1>frame, <2>1
<1>8. ASSUME NEW c \in Callers, Step(c) \/ Fail(c)
      PROVE  /\ \A b \in Callers : b # c => run'[b] = run[b]
             /\ UNCHANGED <<today, server, bootDay, due, late, created, deleted>>
             /\ Step(c) => failures' = failures
             /\ Fail(c) => failures' # 0 /\ run'[c] = IdleRun
  <2>1. CASE Step(c)
    <3>1. failures' = failures
      BY <2>1 DEF Step, ReadCatalog, ReadExisting, ReadPrices, SaveReports, SaveBreakdown, bounds
    <3>2. ~Fail(c)
      BY <1>t, <3>1 DEF Fail
    <3>3. QED
      BY <1>t, <2>1, <3>1, <3>2
      DEF Step, ReadCatalog, ReadExisting, ReadPrices, SaveReports, SaveBreakdown, process, catalog
  <2>2. CASE Fail(c)
    <3>1. ~Step(c)
      BY <1>t, <2>2 DEF Fail, Step, ReadCatalog, ReadExisting, ReadPrices, SaveReports,
                        SaveBreakdown, bounds
    <3>2. QED
      BY <1>t, <2>2, <3>1 DEF Fail, process, catalog
  <2>3. QED
    BY <1>8, <2>1, <2>2
<1>9. ASSUME NEW c \in Callers \ {"main", "scheduler"}, Step(c) \/ Fail(c)
      PROVE  TimeInv'
  <2>1. failures' = 0 => failures = 0
    BY <1>8, <1>9
  <2>2. QED
    BY <1>8, <1>9, <1>frame, <1>t, <2>1
<1>10. ASSUME NEW c \in {"main", "scheduler"}, Fail(c)
       PROVE  TimeInv'
  <2>1. /\ failures' # 0 /\ run'[c] = IdleRun /\ IdleRun.pc = "idle"
        /\ \A b \in Callers : b # c => run'[b] = run[b]
        /\ UNCHANGED <<today, server, bootDay, due, late>>
    BY <1>8, <1>10, <1>t DEF IdleRun
  <2>2. OnTime(run[c])'
    BY <2>1 DEF OnTime
  <2>3. OnTime(run["main"])' /\ OnTime(run["scheduler"])'
    BY <1>stay, <1>t, <2>1, <2>2
  <2>4. QED
    BY <1>i, <1>t, <2>1, <2>3 DEF TimeInv
<1>11. ASSUME NEW c \in {"main", "scheduler"}, Step(c)
       PROVE  TimeInv'
  <2>1. /\ failures' = failures /\ UNCHANGED <<today, server, bootDay, due, late, created, deleted>>
        /\ \A b \in Callers : b # c => run'[b] = run[b]
    BY <1>8, <1>11, <1>t
  <2>2. /\ OnTime(run[c])'
        /\ run'[c].pc # "idle" => run'[c].day = run[c].day
        /\ run'[c].pc = "idle" =>
                \A s \in Services : Older(s, run[c].day) => s \in reported'[run[c].day]
        /\ run[c].pc # "idle"
    BY <1>11, <1>i, <1>t, OnTimeStep
  <2>3. OnTime(run["main"])' /\ OnTime(run["scheduler"])'
    BY <1>stay, <1>t, <2>1, <2>2
  <2>4. CASE c = "main"
    <3>1. server = "calculating" /\ main.day = bootDay
      BY <1>i, <1>l, <2>2, <2>4
    <3>2. run'["main"].pc = "idle" => ReportedDay(bootDay)'
      BY <2>1, <2>2, <2>4, <3>1 DEF ReportedDay, Older, Listed, Created
    <3>3. QED
      BY <1>i, <1>t, <2>1, <2>2, <2>3, <2>4, <3>1, <3>2 DEF TimeInv, Idle
  <2>5. CASE c = "scheduler"
    <3>1. server = "serving" /\ sched.day = today
      BY <1>i, <1>l, <2>2, <2>5
    <3>2. run'["scheduler"].pc = "idle" => ReportedDay(today)'
      BY <2>1, <2>2, <2>5, <3>1 DEF ReportedDay, Older, Listed, Created
    <3>3. QED
      BY <1>i, <1>t, <2>1, <2>2, <2>3, <2>5, <3>1, <3>2 DEF TimeInv, Idle
  <2>6. QED
    BY <2>4, <2>5
<1>12. CASE UNCHANGED vars
  BY <1>12, <1>frame DEF vars
<1>13. QED
  BY <1>1, <1>2, <1>3, <1>4, <1>5, <1>6, <1>7, <1>9, <1>10, <1>11, <1>12, <1>t DEF Next

\* A process that sees the day out has reported it, for every service older
\* than the day, when no database call fails: by the run at 01:00 or by the
\* one at startup, however many days that takes and whatever requests overlap
\* them.  Only a day on which a startup that had begun earlier was done after
\* 01:00 is excepted.
THEOREM DayIsReported == Spec => DayReportedByMidnight
<1>1. TypeOK /\ TypeOK' /\ LifeInv /\ TimeInv /\ [Next]_vars => TimeInv'
  BY TimeStep
<1>2. TypeOK /\ LifeInv /\ TimeInv /\ [Next]_vars =>
        [today' # today /\ server = "serving" /\ ~late /\ failures = 0 =>
            \A s \in Listed : created[s] < today => s \in reported[today]]_vars
  <2> SUFFICES ASSUME TypeOK, LifeInv, TimeInv, [Next]_vars,
                      today' # today, server = "serving", ~late, failures = 0,
                      NEW s \in Listed, created[s] < today
               PROVE  s \in reported[today]
    OBVIOUS
  <2>1. Midnight
    BY DEF Next, Boot, Serve, Crash, Timer, CreateService, DeleteService, PlaceWorkload,
           SavePrice, RequestCalculate, RequestFulfill, Step, ReadCatalog, ReadExisting,
           ReadPrices, SaveReports, SaveBreakdown, Fail, vars
  <2>2. ~due /\ Idle("scheduler")
    BY <2>1 DEF Midnight
  <2>3. ReportedDay(today)
    BY <2>2 DEF TimeInv
  <2>4. s \in Services
    BY DEF Listed, Created
  <2>5. QED
    BY <2>3, <2>4 DEF ReportedDay, Older
<1>3. QED
  BY TypeInit, TypeStep, LifeInit, LifeStep, TimeInit, <1>1, <1>2, PTL
     DEF Spec, DayReportedByMidnight
=============================================================================
