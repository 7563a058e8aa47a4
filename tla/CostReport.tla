----------------------------- MODULE CostReport -----------------------------
(***************************************************************************)
(* The cost report service: the tables of daily reports, one row per       *)
(* service and day, and of their breakdown, one row per service, day and   *)
(* datacenter, and everything that writes them.                            *)
(*                                                                         *)
(*   - main, at startup: CalculateDailyServiceCosts(today), before the     *)
(*     scheduler and the HTTP server are started;                          *)
(*   - the scheduler: the same at 01:00;                                   *)
(*   - the requests POST /cost-reports/calculate (one day) and             *)
(*     POST /cost-reports/fulfill (every day from a first one to the       *)
(*     current one, without the services that have a report already).      *)
(*                                                                         *)
(* Main and the scheduler date a calculation with the local day, which is  *)
(* `today'; a fulfilment ends on the day in UTC, which may be another one. *)
(*                                                                         *)
(* They read the service catalog and the daily prices, which change under  *)
(* them.  Every database call is a step of its own, may fail, and if it is *)
(* a save may have committed all the same; the process may crash between   *)
(* two steps.                                                              *)
(*                                                                         *)
(* A cost is abstracted to what it is computed from: a breakdown row to    *)
(* the workloads of the service in the datacenter and the datacenter's     *)
(* price, and a report, which is their sum, to the rows it sums up.        *)
(* CostEngine has the arithmetic.                                          *)
(***************************************************************************)
EXTENDS Integers

CONSTANTS
    Services,           \* the services that may ever be created
    Workloads,          \* their pods and VMs
    Owner(_),           \* the service of a workload
    Datacenters,        \* the datacenters
    Nowhere,            \* where a workload is that does not exist
    Requests,           \* slots for the requests in progress
    UtcLeads,           \* by how many days the date in UTC may be ahead of the local one
    MaxDay,             \* bound: the last calendar day
    MaxPrice,           \* bound: prices are 1..MaxPrice; 0 stands for none
    MaxEdits,           \* bound: changes of the catalog and of the prices
    MaxFailures,        \* bound: database calls that fail
    MaxCrashes          \* bound: crashes of the process

Days    == 0..MaxDay
Callers == Requests \cup {"main", "scheduler"}

ASSUME BoundsAssumption ==
    /\ MaxDay \in Nat
    /\ MaxPrice \in Nat
    /\ MaxEdits \in Nat
    /\ MaxFailures \in Nat
    /\ MaxCrashes \in Nat

ASSUME UtcAssumption == UtcLeads \subseteq {-1, 0, 1}

ASSUME OwnerAssumption == \A w \in Workloads : Owner(w) \in Services

ASSUME RequestsAssumption == Requests \cap {"main", "scheduler"} = {}

VARIABLES
    today,
    created, deleted,   \* services: day of creation; those deleted since
    placement,          \* the datacenter of each workload
    prices,             \* daily_pricing: prices[d][dc]
    reported, report,   \* service_cost_reports: which rows there are, and the rows
    breakdown,          \* service_cost_reports_by_dc
    server,             \* how far main has come
    bootDay,            \* the day main started, until it serves
    due,                \* the scheduler is to run today, at 01:00 or as soon as it can
    late,               \* history: main was ready after 01:00 of a day it had not begun on
    run,                \* the calculations in progress
    overlapped,         \* history: a run in progress has had another one beside it
    edits, failures, crashes    \* used up so far

vars == <<today, created, deleted, placement, prices, reported, report, breakdown,
          server, bootDay, due, late, run, overlapped, edits, failures, crashes>>

catalog == <<created, deleted, placement>>
tables  == <<reported, report, breakdown>>
process == <<server, bootDay, due, late>>
runs    == <<run, overlapped>>
bounds  == <<edits, failures, crashes>>

(***************************************************************************)
(* The catalog                                                             *)
(***************************************************************************)
NotYet == MaxDay + 1            \* the day of creation of a service to come

Created == {s \in Services : created[s] # NotYet}

\* ListServices: the services that have not been deleted.
Listed  == Created \ deleted

(***************************************************************************)
(* Rows                                                                    *)
(***************************************************************************)
Row   == [workloads : SUBSET Workloads, price : 0..MaxPrice]
NoRow == [workloads |-> {}, price |-> 0]

\* A breakdown of one service, and also the addends of its report.
Rows   == [Datacenters -> Row]
NoRows == [dc \in Datacenters |-> NoRow]

Places     == [Workloads -> Datacenters \cup {Nowhere}]
PriceList  == [Datacenters -> 0..MaxPrice]
NoPrices   == [dc \in Datacenters |-> 0]

\* The workloads of a service grouped by datacenter.  A datacenter without a
\* price keeps its group, at no cost.
GroupsOf(s, places, list) ==
    [dc \in Datacenters |->
        LET group == {w \in Workloads : Owner(w) = s /\ places[w] = dc}
        IN  IF group = {} THEN NoRow ELSE [workloads |-> group, price |-> list[dc]]]

(***************************************************************************)
(* Runs                                                                    *)
(***************************************************************************)
IdleRun == [pc |-> "idle", skip |-> FALSE, asked |-> 0, first |-> 0, day |-> 0, last |-> 0,
            todo |-> {}, places |-> [w \in Workloads |-> Nowhere], prices |-> NoPrices]

RunState ==
    [pc     : {"idle",
               "list",          \* about to read the catalog
               "existing",      \* about to read which services have a report
               "prices",        \* about to read the prices of the day
               "saveReports",   \* about to save the reports of the day
               "saveBreakdown"},\* about to save their breakdown
     skip   : BOOLEAN,          \* skipExisting: a fulfilment
     asked  : Days,             \* history: the local day of a request to fulfil
     first  : Days,             \* the first day asked for
     day    : Days,             \* the day in hand
     last   : Days,             \* the last day: that in UTC in a fulfilment
     todo   : SUBSET Services,  \* the services to report
     places : Places,           \* the catalog as it was read
     prices : PriceList]        \* the prices of the day as they were read

Calculation(d)     == [IdleRun EXCEPT !.pc = "list", !.first = d, !.day = d, !.last = d]
Fulfilment(d, end) == [IdleRun EXCEPT !.pc = "list", !.skip = TRUE, !.asked = today,
                                      !.first = d, !.day = d, !.last = end]

ServerState == {"down", "calculating", "serving"}

TypeOK ==
    /\ today \in Days
    /\ created \in [Services -> 0..(MaxDay + 1)]
    /\ deleted \subseteq Services
    /\ placement \in Places
    /\ prices \in [Days -> PriceList]
    /\ reported \in [Days -> SUBSET Services]
    /\ report \in [Days -> [Services -> Rows]]
    /\ breakdown \in [Days -> [Services -> Rows]]
    /\ server \in ServerState
    /\ bootDay \in Days
    /\ due \in BOOLEAN
    /\ late \in BOOLEAN
    /\ run \in [Callers -> RunState]
    /\ overlapped \in BOOLEAN
    /\ edits \in 0..MaxEdits
    /\ failures \in 0..MaxFailures
    /\ crashes \in 0..MaxCrashes

Init ==
    /\ today = 0
    /\ created = [s \in Services |-> NotYet]
    /\ deleted = {}
    /\ placement = [w \in Workloads |-> Nowhere]
    /\ prices = [d \in Days |-> NoPrices]
    /\ reported = [d \in Days |-> {}]
    /\ report = [d \in Days |-> [s \in Services |-> NoRows]]
    /\ breakdown = [d \in Days |-> [s \in Services |-> NoRows]]
    /\ server = "down"
    /\ bootDay = 0
    /\ due = FALSE
    /\ late = FALSE
    /\ run = [c \in Callers |-> IdleRun]
    /\ overlapped = FALSE
    /\ edits = 0
    /\ failures = 0
    /\ crashes = 0

(***************************************************************************)
(* The catalog and the prices change: a service is created or deleted, a   *)
(* workload is added, moved or removed (also of a deleted service), and    *)
(* the pricing service saves the price of a datacenter, for a day that has *)
(* come, here or in UTC.                                                   *)
(***************************************************************************)
HasCome(d) == \E n \in UtcLeads \cup {0} : d <= today + n

Edit == edits < MaxEdits /\ edits' = edits + 1

CreateService(s) ==
    /\ Edit
    /\ server = "serving"
    /\ created[s] = NotYet
    /\ created' = [created EXCEPT ![s] = today]
    /\ UNCHANGED <<today, deleted, placement, prices, tables, process, runs, failures, crashes>>

DeleteService(s) ==
    /\ Edit
    /\ server = "serving"
    /\ s \in Listed
    /\ deleted' = deleted \cup {s}
    /\ UNCHANGED <<today, created, placement, prices, tables, process, runs, failures, crashes>>

PlaceWorkload(w, place) ==
    /\ Edit
    /\ server = "serving"
    /\ Owner(w) \in Created
    /\ placement[w] # place
    /\ placement' = [placement EXCEPT ![w] = place]
    /\ UNCHANGED <<today, created, deleted, prices, tables, process, runs, failures, crashes>>

SavePrice(d, dc) ==
    /\ Edit
    /\ HasCome(d)
    /\ prices[d][dc] < MaxPrice
    /\ prices' = [prices EXCEPT ![d][dc] = @ + 1]
    /\ UNCHANGED <<today, catalog, tables, process, runs, failures, crashes>>

(***************************************************************************)
(* The life of the process, and time.  The scheduler's run is over before  *)
(* the next midnight (runTimeout); the calculation at startup has no       *)
(* deadline, and may take days.  When it is done the timer is set for      *)
(* 01:00 of that day if this is still to come, and else for the next day.  *)
(***************************************************************************)
Idle(c) == run[c].pc = "idle"

\* A run begins.
Start(c, r) ==
    /\ run' = [run EXCEPT ![c] = r]
    /\ overlapped' = (\E d \in Callers \ {c} : ~Idle(d))

Midnight ==
    /\ today < MaxDay
    /\ ~due
    /\ server = "serving" => Idle("scheduler")
    /\ today' = today + 1
    /\ due' = (server = "serving")
    /\ late' = FALSE
    /\ UNCHANGED <<catalog, prices, tables, server, bootDay, runs, bounds>>

\* Wrong on purpose (see "Mutants" in the README): no calculation at startup.
BootWithoutCalculation ==
    /\ server = "down"
    /\ server' = "calculating"
    /\ bootDay' = today
    /\ UNCHANGED <<today, catalog, prices, tables, due, late, runs, bounds>>

Boot ==
    /\ server = "down"
    /\ server' = "calculating"
    /\ bootDay' = today
    /\ Start("main", Calculation(today))
    /\ UNCHANGED <<today, catalog, prices, tables, due, late, bounds>>

Serve ==
    /\ server = "calculating"
    /\ Idle("main")
    /\ server' = "serving"
    /\ bootDay' = 0
    /\ due' \in BOOLEAN
    /\ late' = (today # bootDay /\ ~due')
    /\ UNCHANGED <<today, catalog, prices, tables, runs, bounds>>

Crash ==
    /\ server # "down"
    /\ crashes < MaxCrashes
    /\ crashes' = crashes + 1
    /\ server' = "down"
    /\ bootDay' = 0
    /\ due' = FALSE
    /\ late' = FALSE
    /\ run' = [c \in Callers |-> IdleRun]
    /\ UNCHANGED <<today, catalog, prices, tables, overlapped, edits, failures>>

Timer ==
    /\ due
    /\ Idle("scheduler")
    /\ due' = FALSE
    /\ Start("scheduler", Calculation(today))
    /\ UNCHANGED <<today, catalog, prices, tables, server, bootDay, late, bounds>>

(***************************************************************************)
(* Requests.  A calculation takes any date, one to come included; a        *)
(* fulfilment goes on to the day it is in UTC, and is refused when it      *)
(* would start after it.                                                   *)
(***************************************************************************)
MayRequest(r) == server = "serving" /\ Idle(r)

RequestCalculate(r, d) ==
    /\ MayRequest(r)
    /\ Start(r, Calculation(d))
    /\ UNCHANGED <<today, catalog, prices, tables, process, bounds>>

RequestFulfill(r, d) ==
    /\ MayRequest(r)
    /\ \E n \in UtcLeads :
           /\ today + n \in Days
           /\ d <= today + n
           /\ Start(r, Fulfilment(d, today + n))
    /\ UNCHANGED <<today, catalog, prices, tables, process, bounds>>

(***************************************************************************)
(* calculateDailyServiceCosts, once for each day of the run                *)
(***************************************************************************)
\* A run about to begin with a day.
AtDay(r, d) == [r EXCEPT !.pc = "list", !.day = d, !.todo = {},
                         !.places = IdleRun.places, !.prices = NoPrices]

\* Wrong on purpose: the loop stops one day short, or goes one day too far.
NextDayShort(r) == IF r.day + 1 < r.last THEN AtDay(r, r.day + 1) ELSE IdleRun
NextDayTooFar(r) == IF r.day <= r.last THEN AtDay(r, r.day + 1) ELSE IdleRun

\* The next turn of the loop of FulfillServiceCosts, or the end of the run.
NextDay(r) == IF r.day < r.last THEN AtDay(r, r.day + 1) ELSE IdleRun

\* ListServicesForCost.  With no service there is nothing to do for the day.
ReadCatalog(c) ==
    /\ run[c].pc = "list"
    /\ run' = [run EXCEPT ![c] =
                  IF Listed = {} THEN NextDay(@)
                  ELSE [@ EXCEPT !.pc = IF run[c].skip THEN "existing" ELSE "prices",
                                 !.todo = Listed, !.places = placement]]
    /\ UNCHANGED <<today, catalog, prices, tables, process, overlapped, bounds>>

\* Wrong on purpose: the reports that exist are not skipped.
ServicesToReport(r) == r.todo

ServicesWithoutReport(r) == r.todo \ reported[r.day]

ReadExisting(c) ==
    /\ run[c].pc = "existing"
    /\ run' = [run EXCEPT ![c].pc = "prices", ![c].todo = ServicesWithoutReport(run[c])]
    /\ UNCHANGED <<today, catalog, prices, tables, process, overlapped, bounds>>

ReadPrices(c) ==
    /\ run[c].pc = "prices"
    /\ run' = [run EXCEPT ![c] =
                  IF run[c].todo = {} THEN NextDay(@)
                  ELSE [@ EXCEPT !.pc = "saveReports", !.prices = prices[run[c].day]]]
    /\ UNCHANGED <<today, catalog, prices, tables, process, overlapped, bounds>>

\* The rows a run has computed for a service.
Computed(r, s) == GroupsOf(s, r.places, r.prices)

HasRows(r) == \E s \in r.todo : Computed(r, s) # NoRows

\* Wrong on purpose: rows are updated but never inserted.
UpdateReports(r) ==
    /\ report' = [report EXCEPT ![r.day] =
                    [s \in Services |-> IF s \in r.todo THEN Computed(r, s) ELSE @[s]]]
    /\ UNCHANGED <<reported, breakdown>>

\* saveDailyReports: one batch, in one transaction.
UpsertReports(r) ==
    /\ reported' = [reported EXCEPT ![r.day] = @ \cup r.todo]
    /\ report' = [report EXCEPT ![r.day] =
                    [s \in Services |-> IF s \in r.todo THEN Computed(r, s) ELSE @[s]]]
    /\ UNCHANGED breakdown

\* Wrong on purpose: the catalog is read again for the breakdown.
UpsertCurrentBreakdown(r) ==
    /\ breakdown' = [breakdown EXCEPT ![r.day] =
                       [s \in Services |-> IF s \in r.todo
                                           THEN GroupsOf(s, placement, r.prices) ELSE @[s]]]
    /\ UNCHANGED <<reported, report>>

\* saveDcBreakdowns: one batch too.  The rows of datacenters in which the
\* service has no workload any more stay.
UpsertBreakdown(r) ==
    /\ breakdown' = [breakdown EXCEPT ![r.day] =
                       [s \in Services |-> [dc \in Datacenters |->
                           IF s \in r.todo /\ Computed(r, s)[dc] # NoRow
                           THEN Computed(r, s)[dc] ELSE @[s][dc]]]]
    /\ UNCHANGED <<reported, report>>

SaveReports(c) ==
    /\ run[c].pc = "saveReports"
    /\ UpsertReports(run[c])
    /\ run' = [run EXCEPT ![c] = IF HasRows(run[c]) THEN [@ EXCEPT !.pc = "saveBreakdown"]
                                                    ELSE NextDay(@)]
    /\ UNCHANGED <<today, catalog, prices, process, overlapped, bounds>>

SaveBreakdown(c) ==
    /\ run[c].pc = "saveBreakdown"
    /\ UpsertBreakdown(run[c])
    /\ run' = [run EXCEPT ![c] = NextDay(@)]
    /\ UNCHANGED <<today, catalog, prices, process, overlapped, bounds>>

\* A database call fails and so does the run; a save may have committed.
Fail(c) ==
    /\ ~Idle(c)
    /\ failures < MaxFailures
    /\ failures' = failures + 1
    /\ \/ UNCHANGED tables
       \/ run[c].pc = "saveReports" /\ UpsertReports(run[c])
       \/ run[c].pc = "saveBreakdown" /\ UpsertBreakdown(run[c])
    /\ run' = [run EXCEPT ![c] = IdleRun]
    /\ UNCHANGED <<today, catalog, prices, process, overlapped, edits, crashes>>

Step(c) == \/ ReadCatalog(c) \/ ReadExisting(c) \/ ReadPrices(c)
           \/ SaveReports(c) \/ SaveBreakdown(c)

-----------------------------------------------------------------------------
Next ==
    \/ Midnight \/ Boot \/ Serve \/ Crash \/ Timer
    \/ \E s \in Services : CreateService(s) \/ DeleteService(s)
    \/ \E w \in Workloads, place \in Datacenters \cup {Nowhere} : PlaceWorkload(w, place)
    \/ \E d \in Days, dc \in Datacenters : SavePrice(d, dc)
    \/ \E r \in Requests, d \in Days : RequestCalculate(r, d) \/ RequestFulfill(r, d)
    \/ \E c \in Callers : Step(c) \/ Fail(c)

Spec == Init /\ [][Next]_vars

(***************************************************************************)
(* Properties                                                              *)
(***************************************************************************)

\* The breakdown never runs ahead of the reports: a service that has a
\* breakdown row for a day has a report for it, after any crash between the
\* two saves and with any number of runs in progress.
BreakdownHasReport ==
    \A d \in Days, s \in Services : breakdown[d][s] # NoRows => s \in reported[d]

\* A run in progress goes from one day to the next, or ends, without an error.
DayDone(c) ==
    /\ run[c].pc # "idle"
    /\ run'[c].pc = "idle" \/ run'[c].day # run[c].day
    /\ failures' = failures /\ crashes' = crashes

\* A run that no other one overlaps leaves every service it reports, when a
\* day is done, with a breakdown that has all the addends of its
\* report - whatever earlier runs that failed or crashed have left behind.
DoneDayAgrees ==
    [][\A c \in Callers : DayDone(c) /\ ~overlapped /\ run[c].pc \in {"saveReports", "saveBreakdown"} =>
            \A s \in run[c].todo, dc \in Datacenters :
                report'[run[c].day][s][dc] # NoRow =>
                    breakdown'[run[c].day][s][dc] = report'[run[c].day][s][dc]]_vars

\* While no other run overlaps it, a fulfilment adds reports and changes
\* none: "Services that already have a report for a given day are
\* skipped".
FulfillKeepsReports ==
    [][\A c \in Callers : run[c].skip /\ ~Idle(c) /\ ~overlapped =>
            \A d \in Days : \A s \in reported[d] : report'[d][s] = report[d][s]]_vars

\* A fulfilment that succeeds has left no hole: every service that existed
\* before the day it was asked for, and still does, has a report for each of
\* its days, also when its last day in UTC is not the local one.
FulfillReportsAll ==
    [][\A c \in Callers : run[c].skip /\ DayDone(c) /\ run'[c].pc = "idle" =>
            \A s \in Listed : created[s] < run[c].asked =>
                \A d \in run[c].first..run[c].last : s \in reported'[d]]_vars

\* A process that sees the day out has reported it, for every service that
\* is older than the day: by the run at 01:00, or by the one at startup when
\* it has started later.  (A day it was down for is not made up for.)  The
\* calculation at startup has no deadline (main.go:120): one that begins on
\* an earlier day and is done after 01:00 leaves the day to nobody, and such
\* a day, on which main was late, is the only one excepted.
DayReportedByMidnight ==
    [][today' # today /\ server = "serving" /\ ~late /\ failures = 0 =>
            \A s \in Listed : created[s] < today => s \in reported[today]]_vars

\* What CalculateDailyServiceCosts says of itself: it computes and persists
\* the cost of every service, "overwriting any existing reports for that
\* day".  So after it, with no other run beside it, the breakdown of a
\* service is that of its report.
CalculateOverwrites ==
    [][\A c \in Callers : ~run[c].skip /\ DayDone(c) /\ ~overlapped =>
            \A s \in run[c].todo : breakdown'[run[c].day][s] = report'[run[c].day][s]]_vars
=============================================================================
