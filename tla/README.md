# Rashnu in TLA+

Rashnu prices datacenters and reports what services cost.  It is one Go server over one
PostgreSQL database, with a React frontend.  This directory holds a model of the server's core
and of the frontend's state and arithmetic in TLA+, the TLC configurations that check it on small
instances, and theorems about it with proofs that TLAPS checks.

    tlc -workers 2 -config PricingSchedulers.cfg MCPricing     # a run
    tlapm PricingProofs.tla                                    # the proofs of a module

`PROJECT.json` lists the components, the runs, the mutants, the lines of code behind every
definition (`map`), the places where code and documentation disagree (`findings`), what is hard
to test in this code (`hazards`) and the theorems.

## The system

| part | state | operations |
|---|---|---|
| inventory (`src/internal/inventory`) | datacenters, servers, infrastructure, colocation fees | create, read, update, delete of each |
| pricing (`src/internal/pricing`) | tables `pricing` (a row per datacenter and month) and `daily_pricing` (a row per datacenter and day) | `CreateMonthlyPrice`, `FulfillPriceData`, `EnsureDailyPricesFilled`, `EnsureMonthlyPricesForMonth` |
| pricing schedulers (`scheduler.go` there) | two timers | startup fill; daily at 00:30; monthly at 00:30 on the first |
| service catalog (`src/internal/service_catalog`) | services (deleted ones are only marked), their pods and VMs | create, update, delete of services and workloads |
| cost reports (`src/internal/cost_report`) | tables `service_cost_reports` (a row per service and day) and `service_cost_reports_by_dc` (a row per service, day and datacenter) | `CalculateDailyServiceCosts`, `FulfillServiceCosts`; queries |
| cost report scheduler | a timer | startup calculation; daily at 01:00 |
| identity (`src/internal/identity`) | users in the database, tokens in memory | login, logout, password change, token validation; users |
| database pool, migrations | connections; the schema version | acquire and release; up, when the server starts |
| HTTP API (`src/internal/api`) | none | check the token, decode, call, encode |
| frontend state (`src/frontend/src/state`, `lib`, `App.tsx`) | the token and the person in local storage, the person of each tab, the lists, the functions that wait for an answer | sign in and out, refresh, save, delete; the edit of a service as a series of calls |
| frontend views (`src/frontend/src/pages`, `lib/data.ts`) | open forms, tweaks of the estimate | map rows to the page and back; the monthly estimate |

`main` (`src/cmd/server/main.go`) ties them together.  At startup it runs the
migrations, prices the current month, fills the missing daily prices, starts the pricing schedulers,
calculates today's costs, starts the cost scheduler and then serves HTTP.  It ends when the migrations
fail, and only logs a price, a fill or a calculation that does.  Pricing reads the
inventory.  Cost reports read the catalog and the daily prices, through two adapters in `main`.
All of this is done by plain calls; the parts share state through the database alone, without
locks and, apart from one batch per save, without transactions.  So a run (of a scheduler or of
a request) is a series of database calls, and other runs, edits, failures and crashes come
between any two of them.

What is hard about it, and the properties that make each part correct:

| part | what is hard | what must hold |
|---|---|---|
| pricing | a fill reads the inventory, the latest priced day and each day in separate calls, and a fulfilment writes the same tables meanwhile; failures in mid-run; a save that commits although its answer is lost; days on which the process was down | no day left out or rewritten by the schedulers; missed days are made up for; no price for a day to come; monthly prices settle; a run that reports success has done its work |
| cost reports | the catalog and the prices change during a run; reports and breakdown are saved in two transactions; calculations overlap | no breakdown without a report; both agree once a day is done; fulfilling again changes nothing; a day the process has seen out is reported |
| arithmetic | integer cents, truncation from floating point, blended prices, datacenters without a price | costs never exceed what the hardware costs; blending is fair; totals are those of the workloads |
| inventory, catalog | datacenters that workloads or prices refer to; names that stay taken; reads one by one | nothing is in a datacenter that is gone; a read counts what is not edited meanwhile once |
| identity, pool | a password change between a login's read and its token; a connection that is not given back | no token outlives the password it was made with; the pool does not run dry |
| migrations | a deadline that passes while the migration goes on, after which the server ends | the schema version is one of those the files define |
| frontend: services | a service edited by deleting its workloads and adding them again, call by call; stale views; two administrators | what a save replaces is gone when it adds; two saves do not both replace the same |
| frontend: session | tabs share a token but not the person they show; the token is written at once, the person a render later; answers of before a reload or a sign-out come after it | the token is that of the person a reload shows, unless two changes mix; nobody sees what the person before saw; a password change ends at the login page |
| frontend: lists | a change shows before it is answered; refreshes overlap with changes and with each other | the page ends up with what the server has |
| frontend: estimate | shares with weights that may be zero, parts that may be idle; rows mapped to the page and back | what is paid and what is idle is the cost; a refresh shows what a save has shown |

## The modules

| module | models | extends, instantiates |
|---|---|---|
| `Pricing` | the pricing service, its schedulers and the part of `main` that starts them | instantiates `PriceBook` |
| `PriceBook` | what the table of daily prices promises its readers: the abstract specification of `Pricing` without requests | |
| `MCPricing` | a calendar of two-day months for TLC | `Pricing` |
| `PricingProofs` | theorems about `Pricing` | `Pricing` |
| `CostReport` | the cost report service, its scheduler and the part of `main` that starts them | |
| `MCCostReport` | who owns the workloads, for TLC | `CostReport` |
| `CostReportProofs` | theorems about `CostReport` | `CostReport` |
| `CostEngine` | the arithmetic of prices and costs | |
| `MCCostEngine` | small hardware for TLC | `CostEngine` |
| `CostEngineProofs` | theorems about `CostEngine` | `CostEngine` |
| `ServiceEdit` | editing services from the browser: the frontend's saves and the catalog's calls | |
| `MCServiceEdit` | forms and a symmetry for TLC | `ServiceEdit` |
| `ServiceEditProofs` | theorems about `ServiceEdit` | `ServiceEdit` |
| `Inventory` | the tables of the inventory with their keys and references, and the read of the hardware | |
| `MCInventory` | a symmetry for TLC | `Inventory` |
| `InventoryProofs` | theorems about `Inventory` | `Inventory` |
| `Session` | who is signed in: accounts, tokens and connections of the server, the tabs of a browser | |
| `MCSession` | the first account and a symmetry, for TLC | `Session` |
| `SessionProofs` | theorems about `Session` | `Session` |
| `Console` | one tab: its lists, and the functions that change and refresh them | |
| `MCConsole` | a row in most lists, for TLC | `Console` |
| `ConsoleProofs` | theorems about `Console` | `Console` |
| `Forms` | the mapping of rows to the page, to a form and back | |
| `Estimate` | the monthly estimate, and the saves that change its inputs | `Forms` |
| `MCEstimate` | datacenters, assets and services for TLC | `Estimate` |
| `EstimateProofs` | theorems about `Estimate` | `Estimate` |

The modules of different parts do not instantiate each other, because the parts share the database
and nothing else: each module has what the others write as an environment that may change at any step
(`EditInventory` in `Pricing`, `SavePrice`, `CreateService`, `PlaceWorkload` in `CostReport`,
`ChangeElsewhere` in `Console`), which is more than the real others do.

### Pricing

`daily` and `monthly` are the two tables: a page for each day, and for each first of a month.  A
unit price is a function of a datacenter's hardware (and of the length of the month), so a row
is abstracted to the *version* of the hardware it was computed from; 0 is a row that does not
exist.  `inventory` gives each datacenter its current version, `EditInventory` changes it.

`server` says how far `main` has come: `Boot` starts `CreateMonthlyPrice`, `StartupFill` starts
the fill, `Serve` starts the schedulers and the HTTP server.  `Midnight` and `MidnightUTC` move
the clock; the first one sets off the timers (`due`), which `DailyTimer` and `MonthlyTimer`
serve.  The server's zone is a constant: `today` is local time in the code, but the days of a
month are compared as UTC midnights, so the two dates are apart for some hours each day.

A run is a record with a `pc` that names the *next* database call.  `fill` is the run of
`EnsureDailyPricesFilled` (there is one at a time: at startup, then by the scheduler);
`call[c]` is the run of `CreateMonthlyPrice`, `EnsureMonthlyPricesForMonth` or
`FulfillPriceData` that `main`, the monthly scheduler or a request is in.  Every call is an
action: `FillReadInventory`, `FillReadLatest`, `FillCheckDay`, `FillSaveDay`, `ReadForMonth`,
`SavePrice`, `ReadForFulfill`, `FulfillSaveMonth`, `FulfillSaveDays`.  What Go does between two
calls belongs to the first of them.  `FillFail` and `CallFail` are an error at any call: the run
ends, and a save may have committed or not.  `Crash` ends every run and loses the timers.

### CostReport

`created`, `deleted` and `placement` are the catalog, `prices` the table of daily prices as the
pricing service leaves it; `reported`, `report` and `breakdown` are the tables of reports (which
rows exist, what is in them) and of breakdowns.  A breakdown row is abstracted to what its cost
is computed from, the workloads and the price; a report, whose costs are sums over datacenters,
to the rows it sums up, so that "the breakdown adds up to the report" can be said row by row.

The runs of `calculateDailyServiceCosts` are records with a `pc` again: `ReadCatalog`,
`ReadExisting` (a fulfilment only), `ReadPrices`, `SaveReports`, `SaveBreakdown`, and `Fail` at
any of them.  `NextDay` is the loop of `FulfillServiceCosts`; a run for one day is a loop of one.
`Boot`, `Timer` and `Crash` are as in `Pricing`.  The scheduler's run has a deadline (`runTimeout`)
and is over before the next midnight; the calculation at startup has none (`main.go:120`), so
`Midnight` may come during it any number of times, and `Serve` then sets the timer either for
01:00 of the day it has become (`due`) or, when that has passed, for the next day.

Main and the scheduler calculate for the local day, `today`.  A fulfilment goes on to the day in
UTC (`service.go:66`); `UtcLeads` are the numbers of days by which that may be ahead.

Two history variables name what the properties except.  `overlapped`: a run in progress has had
another one beside it (`Start`).  `late`: main was ready after 01:00 of a day it had not begun on.

### CostEngine

The state is one service, a sequence of workloads, and the hardware and prices of a few
datacenters; a behaviour adds workloads and prices in any order, so that its states enumerate the
inputs of the calculation.  `DailyUnitPrices` is the arithmetic of
`calculateBasePriceDataForMonth` and `calculateDailyUnitPrice`, the rest that of
`pricing_blend.go` and of the loop in `calculateDailyServiceCosts`.  The code divides in floating
point and truncates; a quotient that is a whole number may come out just below it, so the unit
price is a choice of the exact quotient and of one less.

### ServiceEdit

`owner` (which service has a name), `deleted` and `rows` (pods and VMs) are the catalog's
tables.  A browser has a `view`, the services it shows, a `draft`, what it has open, and a `save`,
the run of `upsertService` or `deleteService` (`useAppState.ts`) that it is in.  The actions come
in two groups: what an administrator does (`Reload`, `Open`, `AddService`, `EditService`,
`RemoveService`), and the calls of a save, one action each: `CreateService`; `UpdateService`,
the three queries of `GetServiceByID` (`GetService`, `GetPods`, `GetVMs`), `DeleteWorkload` for
each row, `AddWorkload` for each workload of the form; `DeleteService`; and the `Refresh` at the
end.  `Refuse` is an answer that is an error (a name that is taken, a row that is gone, a request
without a datacenter); `Answer` may get lost after the call took effect, and `CallFails` is a call
that never does.  In each of these cases the save stops where it is, as the `catch` does.

A workload is its kind and its place.  In the form the place of a pod is a server and that of a
VM is a datacenter (`Items`); `DatacenterFor` is how `syncWorkloads` turns it into a datacenter,
and `MapBackendWorkload` is how the browser turns a row back.  A browser runs one save at a time
here; two at a time in one browser are like two browsers that have loaded the same view.

### Inventory

`datacenters` and `assets` (servers and infrastructure hardware) are tables by id, `placed` is
the datacenter of each pod and VM.  Ids are never given twice (`used`).  The guards are the keys
and references of the schema (`migrations/000001_init.up.sql`): unique names, unique hostnames
within region and datacenter, hardware deleted with its datacenter, servers and workloads that
keep it.  An edit that breaks one is an error and changes nothing, so there is no action for it.

`read` is a run of `GetDatacentersWithHardware`: `ListDatacenters` with its filters, then
`ReadServers` and `ReadHardware` for each datacenter in turn, `EndRead`; `CloseRead` is the return,
or the error of any query.  `changed` is a history variable, the assets that were edited since
the read began.

### Session

`account` is the table of users, `store` the one token that the server accepts of each, in memory,
`leaked` the connections of the pool that password changes have kept.  `localToken` and `savedMe`
are local storage, which all tabs share; `me` is the person each tab shows, and `leaving` counts the
two-second timers after password changes that run in each tab (`App.tsx`).  `calls` are the HTTP
calls in flight, with the token they were sent with and a `stage`: sent, the steps of the handler,
an answer.  The server's steps are `LoginReads` and `LoginStores` (look-up and token),
`PasswordReads`, `PasswordWrites` and `PasswordRevokes` (look-up, update, revocation), `Logout`,
`Data` for every other call, and `DatabaseFails`; `Accepted` is the middleware.  A tab hears an
answer with `HearLogin`, `HearEnd` (a refusal, or a logout: `apiFetch` and `setMe(null)` of
`useAppState.ts`) or `HearOther`.  `Reload` drops timers and answers.  A token names its user, role
and second, as the signed text does.  An answer keeps nothing of its call but what is heard.

What a tab does when it signs in or out comes in two steps, as in the code: token and person change at
once (`HearLogin`, `SignOut`), and the tab is `unsaved` until its `Effects` save the person and load
the data.  A tab that has been reloaded is `mounting` until its first effects, which save the person
too.  Between the two come all other steps, of this tab and of others.  A change that is undone
before it is rendered counts as a change, so the model saves, at times, what React would not;
what it saves then is what the tab shows.  `torn` is the history that `TokenIsOfSavedMe` excepts: the
token was last written while another tab was `unsaved` or `mounting` (`OthersBusy`), or a tab was
reloaded while one was `unsaved`.  The next change that no other tab is in the middle of clears it.

### Console

`server` and `page` are the rows at the server and on the page, by id; `Phantom` is the id a new
user has on the page alone.  `tasks` are the asynchronous functions of `useAppState.ts` that are
under way: `Save`, `Create`, `Delete` and `Recalculate` send a change, `CarryOut` and `Refuse` are
the server's, `HearAnswer` goes on with the answer: done, or `refreshData`.  A refresh has three
stages, each with its own calls: the lists of one `Promise.all`, an administrator's users, the cost
reports; `ReadList` is the server's answer to one of the calls, `HearLists` what is shown when all
are there, `HearRefused` and `FailRefresh` the two `catch`es.  `Leave` is `setMe(null)`.  `Kinds`,
`Home` and `Hosted` say which lists there are, which list an id belongs to, and what goes with it.

### Forms and Estimate

`Forms` has the functions of `mappers.ts` and of the forms' defaults as operators: a backend's row
to the page, the page's to a form, the form's to the row that is saved.  `Estimate` has the tables,
the lists of one browser, the cost engine of `data.ts` over them (depreciation, colocation fees by
power draw, shares of services by usage, requests, weight or evenly, idle parts), the figures the
pages make of it, and the saves as actions.  Amounts are exact fractions, reduced at each step by
`Gcd`, a function of pairs, where JavaScript has floating point; a `reduce` over an array is
a fold over a set (`SumOf`, of amounts, and `SumOver`, of counts); a date is its month.

### What the models abstract from

* `Pricing` and `CostReport` read the inventory and the catalog in one step.  In the code they are
  read table by table and service by service; `Inventory` shows what such a read is worth.
* A batch of upserts is one implicit transaction of the driver: all of it is saved or nothing.
* Days are calendar days and the hours in them are left out.  `Pricing` has two clocks, the local one
  and that of UTC; `CostReport` has the local one, and takes the day in UTC to be any that it may be.
* `FulfillSaveDays` with no day of the month in the past makes no database call, and cannot fail.
* Unit prices of GPUs are always 0 in the code, and left out of `CostEngine`.
* Reads that change nothing (report queries, lists) are left out.

## The runs

| run | module, cfg | expects | properties |
|---|---|---|---|
| `pricing_schedulers` | `MCPricing`, `PricingSchedulers.cfg` | pass | `SchedulerInv`, `BookSpec`, `MonthlyPricesSettle`, `DayEventuallyPriced` |
| `pricing_requests` | `MCPricing`, `PricingRequests.cfg` | pass | `TypeOK`, `NoDayAhead`, `FillCompletes`, `FulfillCompletes` |
| `cost_reports` | `MCCostReport`, `CostReports.cfg` | pass | `TypeOK`, `BreakdownHasReport`, `DoneDayAgrees`, `FulfillKeepsReports`, `DayReportedByMidnight`, `FulfillReportsAll` |
| `cost_overwrite` | `MCCostReport`, `CostOverwrite.cfg` | violation | `CalculateOverwrites` |
| `cost_engine` | `MCCostEngine`, `CostEngine.cfg` | pass | `CostWithinPrice`, `TotalIsWhatWorkloadsPay`, `EvenBlendKeepsTotal`, `AddingCostsNoLess` |
| `service_saves` | `MCServiceEdit`, `ServiceSaves.cfg` | pass | `TypeOK`, `SaveReplacesWhatItRead`, `OneOfTwoReaders` |
| `service_pod_host` | `MCServiceEdit`, `ServicePodHost.cfg` | violation | `PodHostIsNode` |
| `inventory` | `MCInventory`, `Inventory.cfg` | pass | `TypeOK`, `PlacesExist`, `UntouchedCountedOnce` |
| `session` | `MCSession`, `Session.cfg` | pass | `TypeOK`, `OldPasswordsAreOut`, `PasswordChangeSignsOut`, `LoginEnds` |
| `session_tabs` | `MCSession`, `SessionTabs.cfg` | pass | `TokenIsOfSavedMe` |
| `console` | `MCConsole`, `Console.cfg` | pass | `TypeOK`, `PageIsServer`, `NothingIsLeftBehind`, `PageSettles` |
| `estimate` | `MCEstimate`, `Estimate.cfg` | pass | `TypeOK`, `CostIsPaidOrIdle`, `PagesAgree`, `RefreshKeepsTheFigures`, `SaveChangesOneColumn`, `ElsewhereNothingChanges` |

**pricing_schedulers**: no requests; two datacenters, four days in two months, one failure and
one crash.  The schedulers keep the daily prices a *price book*: one page per calendar day, in
order, none left out, none ahead of its day, none ever rewritten; this is the refinement
`BookSpec`.  `SchedulerInv` is the inductive invariant behind it.  `MonthlyPricesSettle`: the
prices of a month change until the first day of the next one and never later.
`DayEventuallyPriced`: a day that comes gets its prices, whatever fails or crashes; `LastFaultyDay`
keeps failures off the last day, so that there is a later fill within the bound to make up for
one.  (Without it the last day's fill may fail with no successor, which is the bound's doing.)

**pricing_requests**: one request beside the schedulers, west of UTC, where the date is ahead in
UTC for a part of the day.  A fill and a fulfilment that report success have done their work
although the other writes the same table (`FillCompletes`, `FulfillCompletes`).  `NoDayAhead`:
a stored price is of a day that has come somewhere; it may be tomorrow's in local time.

**cost_reports**: one service whose workload comes and goes in one datacenter, a request beside
main and the scheduler, three days, three edits, one failure and one crash; the server is east of
UTC, where the day in UTC may be yesterday's.  Whatever overlaps, there is no breakdown without a
report (`BreakdownHasReport`), and a fulfilment that succeeds leaves no hole (`FulfillReportsAll`).
Of a run that no other has been beside (`~overlapped`): after a day that is done the breakdown has
all of the report's addends (`DoneDayAgrees`), and a fulfilment changes no report
(`FulfillKeepsReports`).  Beside another run a fulfilment does overwrite reports, since it checks
and saves in two calls; the comment that promises the skipping (`service.go:62`) does not say so.
A day that the process has seen out, without a failure, is reported (`DayReportedByMidnight`),
unless main was `late` for it.

**cost_overwrite**: a recalculation leaves stale breakdown rows, against a comment in the code.

**cost_engine**: every service of at most three workloads in three datacenters, each with one of
three sets of hardware, in every order of pricing and adding.

**service_saves**: two administrators, one service, a form with a pod and a VM, one call that
fails.  The saves have no transaction and no lock, yet a save that gets as far as adding has got
rid of every workload it read (`SaveReplacesWhatItRead`), and of two saves that read the same
workload at most one gets there (`OneOfTwoReaders`), because deleting a row that is gone is an
error.  What does *not* hold, and is not claimed: a service without workloads that two
administrators save together gets the workloads of both; a save that fails loses what it has
deleted.

**service_pod_host**: a service is opened and saved as it is.  The pod's host is by then a
datacenter, `syncWorkloads` finds no server of that id, and the call is refused after the old
pods are deleted.  Contradicts a comment in the code.

**inventory**: two datacenters in two regions, two servers that compete for one hostname, a
piece of hardware and a workload, with a read under any filter in between.
`PlacesExist` is what the references of the schema add up to over any sequence of edits.
`UntouchedCountedOnce` is what the read is worth although it is not a snapshot: only what was
edited during the read can be counted twice, or left out.

**session**: one user in one tab, with calls of before and after a reload, an edit of the account,
a failure or a restart, and a pool with one connection to lose.  A token that is accepted was made with the
present password (`OldPasswordsAreOut`), but for three cases the property names: between the two
steps of a change, after a change whose answer was lost, and when a login had read the old
password before.  A tab that has changed its password ends at the login page
(`PasswordChangeSignsOut`), and a login ends even when the pool is dry (`LoginEnds`).

**session_tabs**: two users in two tabs of one browser.  When no tab has a person still to save,
the token in local storage is that of the person a reload would show, with the same role
(`TokenIsOfSavedMe`): tabs may sign in and out in turn, be reloaded and hear late answers, and none
of this mixes two people.  It does not hold where two changes overlap: a login is heard, the tab
is reloaded before its effects, and it shows the person before, with the new one's token.  That is
what `torn` excepts, and only until the next change on its own.

**console**: a datacenter with a switch in it, a user and a report, two functions under way.  What
the page shows is what the server has (`PageIsServer`), but for the keys that the history variable
`doubtful` collects: changed twice at a time, changed during a refresh, changed elsewhere, or
changed by a call whose answer was lost.  A refresh that nothing disturbs takes a key out again.
`NothingIsLeftBehind`: the next person at the browser does not see what the one before saw, but
for reports, unless functions were under way at the sign-out (`late`).  `PageSettles`: all
functions come to an end, and the page then agrees with the server.

**estimate**: two datacenters, servers, a router and two services, edited in every form.  What the
services pay and what is idle is what the hosts cost, for every method, weight and setting
(`CostIsPaidOrIdle`); the figures of the pages add up to each other (`PagesAgree`); the next refresh
shows what a save has shown (`RefreshKeepsTheFigures`); a save changes the column that was typed
into, and those that `Overwritten` names (`SaveChangesOneColumn`), and no payments elsewhere
(`ElsewhereNothingChanges`).

### Bounds

A month of two days is the shortest one with a first day that is not the last; four days are two
months, with a month that ends, is finalized, and a day after that.  One failure and one crash
are enough to break each kind of run at each step and to see the next run; a second one only
repeats this.  In `cost_reports` one workload that is placed, removed or priced is every way in which a
breakdown can lag behind its report; that it moves between two datacenters matters to
`cost_overwrite` alone, which has two.  A row of one service is in no property together with one of
another, so one service is enough.  `MaxEdits` bounds changes of the catalog and prices together:
creating a service, placing a workload and removing or pricing it takes three.  `MaxDay` 2 lets a
service that is a day old see a day out with a process that has started on that day, or has
been starting since the day before.
Every constant that is a bound is marked as one where it is declared.

In `ServiceEdit` two administrators are what a race takes; `MaxRows` 4 lets a service with a pod and
a VM be created and replaced once, by either of two saves that overlap or by parts of both.  In
`Inventory` every set is of two where two can get into each other's way.  `MaxEdits`,
`MaxServices`, `MaxRows` and `MaxFailures` bound the configurations only: the proofs are for all of
their values.

In `session` one tab with two calls under way has the races of a reload, a timer, a sign-out and
a late answer; two passwords and one connection to lose are the fewest with both outcomes.  All
logins there fall into one second, in which they make the same token, because liveness is costly;
`session_tabs` has two seconds.  Its two tabs, with two users, are what it takes to mix two changes
of what tabs share; one call at a time is enough, since a tab hears one answer at a time, and the
other tab's call may be sent while the first tab has its effects still to run.  In `Console` two
functions under way and three events are a change, a second change or refresh, and something that
goes wrong or a person who leaves.  `Estimate` saves twice in a row, so that a form is opened on
what another save has left; its states are few because all values of the tweaks are looked at in
each of them.  `Texts` is what a column of a row may say where the schema restricts nothing; for TLC
it is the few words that the mappers tell apart, and some they do not know.

Symmetry is used where all properties are invariants and no definition tells the values apart:
the administrators of `ServiceEdit`, ids, names and regions of `Inventory`, and the users and tabs
of `session_tabs`.  Deadlock is checked for `ServiceEdit` and `Inventory`; the behaviours of the
others end where their bounds do.

### Fairness

Three runs have liveness properties.

*pricing_schedulers.*  `FairSpec` assumes weak fairness of the
clock, of `main`'s steps, of the timers and of each run.  The timers are the Go runtime's; a run
is a goroutine that waits for the database only, under a deadline (`runTimeout`, ten minutes).
`Boot` is fair because the container is restarted whenever it ends (`restart: unless-stopped`,
`src/docker-compose.yml:16`).  Requests, edits, failures and crashes are not fair: they may never
happen.

`SchedulersRest` holds the clock at midnight until the schedulers' runs are over: they start at
00:30 and end within `runTimeout`.  Requests have no such deadline and may last for days.

*session.*  Weak fairness of the effects, which React runs after each render, of the browser's
timer (`Leave`), and, per tab, of logins and logouts: the server answers them, if only because the
timeout of the router ends the call, and the tab hears the answer.  For the data that a load asks
for it is strong fairness: a reload drops the call, and nobody reloads before each answer for ever.
Nothing is assumed of password changes, and what users do is not fair.

*console.*  Weak fairness of each function's `Progress`: a `fetch` ends with an answer or an
error, and a promise that is settled wakes the function that awaits it.  Buttons, changes made
elsewhere and sign-outs are not fair, and `MaxEvents` ends them.

### Findings

Two disagreements of the code with its own comments are runs that expect a violation:

1. A recalculation leaves the breakdown rows of datacenters the service has left
   (`cost_overwrite`).  The comment: "overwriting any existing reports for that day".
2. The browser keeps the datacenter of a pod where a save needs its server: a service saved as
   it was opened loses its pods (`service_pod_host`).  The comment: "Pods: hostId is a k8s-node
   server asset ID; derive datacenter from it."

What else the modelling met.  Each of these is in the model as the code does it, and the
properties are stated with it:

* A fill asks whether a day is priced and saves later, with the inventory it read at the start: a
  fulfilment in between is overwritten, although "Days that already have rows are skipped"
  (`src/internal/pricing/service.go:113`).  A fill starts after the latest priced day, so a hole
  before it stays.
* The calculation at startup has no deadline (`main.go:120`).  When it is done after 01:00 of a day it
  did not begin on, nothing reports that day (`late`).
* A fulfilment finds out which services have a report and saves later, so it overwrites what another
  run has saved in between, in spite of "Services that already have a report for a given day are
  skipped" (`src/internal/cost_report/service.go:62`).
* `ErrNoPricingData` is never returned: a day without prices is reported at cost 0, and a later
  fulfilment skips it.
* `UpdateUserPassword` does not give its connection back (`leaked`).  `DeleteUser` marks the row
  (`identity/postgres_repository.go:116-120`) but scans what that returns into a value, so its answer
  is always an error; `GetUsers` lists the marked row all the same, so a user who was deleted
  is back on the page after the refresh.  `UpdatePassword`
  takes a failed look-up for a wrong password (401), which signs the tab out.
* A refusal of a call that was sent before a sign-out signs out whoever is signed in by then.
* Tabs share the token, which is written at once (`Login.tsx:25`, `useAppState.ts:225`), and the
  person a reload shows, which an effect writes after the render (`useAppState.ts:113`).  A reload,
  or another tab, between the two writes leaves the token of one with the person of another until
  the next change (`torn`).
  Cost reports are not emptied at a sign-out.
* A form of a row that was deleted meanwhile creates it again when it is saved.  The hardware of a
  deleted datacenter stays on the page until a refresh (`useAppState.ts:264`).
* Environment, criticality and manual weight of a service are not stored: after the save the
  weight is 1 again.  So the allocation by manual weight is the even one, although
  `src/frontend/README.md:72` lists "manual weight" among the ways to split a host's cost and the
  form offers it as "Used only when allocation method is set to 'manual weight'"
  (`src/frontend/src/pages/Services.tsx:511`).  The utilization of hosts counts workloads by the id of
  a server where they have that of a datacenter, and is 0.  Both are so in every state
  (`EstimateProofs!NoWeightAndNoHost`).
* A save of a server or of hardware that nobody has edited turns routers into switches, drops
  GPUs, sets status and region, and replaces a power draw, an amortization time or a height of 0
  by a default.  The estimate's clock stands at 2026-05 (`data.ts:42`).  The fee of a datacenter
  whose hardware draws no power is in no figure of the services; workloads that all weigh nothing
  pay nothing with "Show idle" off, where `src/frontend/README.md:74` says "bill 100% of host cost to
  tenants".

### Mutants

A property that no bug could break would say nothing about the code, so each one has a mutant:
an operator, defined next to the one it imitates and marked *Wrong on purpose*, that changes it
the way a plausible bug would.  With the body of the definition replaced by the mutant, TLC finds
the property violated.  `PROJECT.json` pairs them.  No specification uses them.

## The proofs

TLC checks one small instance; the theorems hold for all values of the constants that satisfy
the named assumptions of the modules (naturals as bounds, callers that are no requests, a
calendar in which each day's month starts on or before it and has consecutive days, as many as
its length, a date in UTC that is a day from the local one at most, rows that are filed in their
own list in the beginning, and that None is none of the values it stands beside).
In `CostEngine` no money, term, size or need is negative, which nothing in the code enforces: a
negative quotient is truncated upwards, and then services pay more than the hardware costs.  In
`Estimate` the sets of ids are finite and those of assets and datacenters apart, the rows have the
columns of the backend's types with no negative number, an asset has one row, and what is typed
fits its field.

| theorem | says |
|---|---|
| `PricingProofs!TypeCorrect` | `TypeOK` of `Pricing`, for every zone, calendar and set of requests |
| `PricingProofs!NoPriceAhead` | `NoDayAhead`, likewise |
| `PricingProofs!SchedulerInvariant` | `SchedulerInv`, without requests |
| `PricingProofs!SchedulersKeepBook` | `BookSpec`: without requests `Pricing` implements `PriceBook` |
| `PricingProofs!FulfilmentLeavesNoGap` | `FulfillCompletes`, for every zone, calendar and set of requests |
| `PricingProofs!FillLeavesNoGap` | `FillCompletes`, likewise |
| `PricingProofs!MonthsSettle` | `MonthlyPricesSettle`, without requests |
| `CostReportProofs!TypeCorrect` | `TypeOK` of `CostReport`, for any services, requests and zone |
| `CostReportProofs!BreakdownBehindReports` | `BreakdownHasReport`, likewise |
| `CostReportProofs!FulfilmentLeavesNoHole` | `FulfillReportsAll`, likewise |
| `CostReportProofs!DayIsReported` | `DayReportedByMidnight`, likewise, however long main takes to start |
| `CostReportProofs!DoneDayIsConsistent` | `DoneDayAgrees`: of the runs that no other has been beside |
| `CostReportProofs!FulfilmentKeepsReports` | `FulfillKeepsReports`, likewise |
| `CostEngineProofs!EngineInvariant` | `EngineInv`: each price is one of its datacenter's hardware |
| `CostEngineProofs!FittingCostWithinPrice` | `CostWithinPrice`, for any hardware, resources and workloads |
| `CostEngineProofs!WorkloadsPayTheTotal` | `TotalIsWhatWorkloadsPay`, likewise |
| `CostEngineProofs!EvenBlendIsFair` | `EvenBlendKeepsTotal`, likewise |
| `CostEngineProofs!MoreCostsMore` | `AddingCostsNoLess`, likewise |
| `ServiceEditProofs!TypeCorrect` | `TypeOK` of `ServiceEdit`: every workload has a datacenter |
| `ServiceEditProofs!SavesReplace` | `SaveReplacesWhatItRead`, for any number of administrators, services and failures |
| `ServiceEditProofs!OneReaderReplaces` | `OneOfTwoReaders`, likewise |
| `InventoryProofs!TypeCorrect` | `TypeOK` of `Inventory`: columns and unique keys |
| `InventoryProofs!NothingIsNowhere` | `PlacesExist` |
| `InventoryProofs!ReadCountsOnce` | `UntouchedCountedOnce` |
| `SessionProofs!TypeCorrect` | `TypeOK` of `Session` |
| `SessionProofs!TokenBelongs` | `TokenIsOfSavedMe`, for any number of tabs, users and calls, in any order of writes and reloads |
| `SessionProofs!TokensFollowPasswords` | `OldPasswordsAreOut`, likewise |
| `ConsoleProofs!TypeCorrect` | `TypeOK` of `Console` |
| `ConsoleProofs!NothingLeft` | `NothingIsLeftBehind`, for any number of functions under way |
| `ConsoleProofs!PageShowsServer` | `PageIsServer`, likewise |
| `EstimateProofs!EstimateInvariant` | `EstimateInv`, the inductive invariant of `Estimate` |
| `EstimateProofs!EstimateTypes` | `TypeOK` of `Estimate`, whatever rows say and whatever is typed |
| `EstimateProofs!OneColumnIsSaved` | `SaveChangesOneColumn`, for any rows and edits |
| `EstimateProofs!RefreshChangesNoFigure` | `RefreshKeepsTheFigures`, likewise |
| `EstimateProofs!NothingChangesElsewhere` | `ElsewhereNothingChanges`, likewise |
| `EstimateProofs!NoWeightAndNoHost` | what is said of weights and hosts is not so: allocation by manual weight is the even one, and no host is ever utilized |
| `EstimateProofs!EveryCostIsPaidOrIdle` | `CostIsPaidOrIdle`, for any lists that are `Dated` |
| `EstimateProofs!FiguresAgree` | `PagesAgree`, for any lists that are `Dated` |

*Types of `Pricing`.*  `TypeOK` is not inductive: the monthly timer prices the month before
today's, which exists only because the timer does not go off on day 0.  `TimerInv` adds that.

*No price ahead.*  A run writes days up to a limit it took from the clock earlier.  `AheadInv`
says that the limit has come, of a fill (`FillInside`) and of a fulfilment (`LimitCame`), and that
the clocks do not drift apart by more than the zone allows (`OneClock`); the clocks never go back.

*The price book.*  `SchedulerInv` says where a fill stands: its day is the one right after the
last priced day (`FillAtEnd`), it has come (`FillNotAhead`), and there is something to save
(`FillHasPrices`); and nothing else saves daily prices (`NoFulfilment`, which needs
`Requests = {}`).  `BookInv` joins it with `TimerInv`.  A step of `Midnight` is then the book's
`NewDay`, a save (also one whose answer was lost) is its `WritePage`, and every other step
stutters: the failed run's successor finds the page and does not write it again.

*No gap.*  Prices may be overwritten but are never removed.  `AllThrough` says how far a
fulfilment has come: every month before the one it is at, and every day of them that had come,
has prices.  That the next month is the one after `DaysInMonth` days, with none between, is what
the assumption about the calendar is for.  `CoverInv` does the same
for a fill (`FillCover`).  A fill starts behind the last priced day and ends at once when that is
today or later, so today must be priced when a later day is: a fulfilment west of UTC may price
tomorrow, but only in a month that has begun (`MonthCame`), and the days of a month are always
priced from its first one on (`NoGapInMonth`).

*Months settle.*  `SettleInv`: the month that main prices was the current one when it looked, and
a startup crosses one midnight at most (`MainSettles`); the monthly timer prices the month that
has just ended, and crosses none (`MonthlySettles`); a timer is due only while the process serves.

*Breakdown behind reports.*  A run that is about to save a breakdown has saved the reports of the
same services for the same day (`SavedReports`), and reports are never removed; `ReportInv`
joins this with `TypeOK`.

*No hole.*  Reports are only added, and a service that appears later is not older (`OnlyForward`),
so what `AllComplete` says of the days behind a fulfilment stays true.  `TimeInv` says of the
runs of main and of the scheduler that what they find is as complete (`OnTime`), and that as long
as nothing has failed the day they were for is reported when they are done (`ReportedDay`).  While
the process serves, today is that day, or its run is still due, or main was late.

*Without overlap.*  `LifeInv`: main is done before anything else starts, and while nothing has been
`overlapped` there is one run at a time.  `AgreeInv` then gives that the reports a run
has saved are still as it saved them when it saves the breakdown, and that a fulfilment's services
have no report yet when it saves theirs.

*Saves.*  The two properties are about saves past their deletions; the inductive invariant is
about all of them.  `Sound`: of what a save has read, only what it has still to delete can be in
the tables.  This needs that ids are not used again, so that a row that is gone stays gone
(`RowsNumbered`, and what is read has an id up to the last).  `Apart`: a row that two saves have
read is still to be deleted by one of them, as the other's deletion of it would have been
refused.

*Inventory.*  `Columns` and `Keys` are `TypeOK` in two parts; with `PlacesExist` they are
inductive.  `ReadInv` says how far a read is, and that what it has found of an asset nobody
touched is exactly its datacenter, once that has been asked for (`Asked`).

*Session.*  `TypeInv` adds to `TypeOK` what a call of each kind carries at each stage.
`TokenIsOfSavedMe` says nothing of a state in which a tab has still to save, so `TabsInv` adds what
holds there, as long as nothing is `torn`: the tab that has a person to save is the only one in the
middle of anything (`Alone`), its person is the one of the token (`InHand`), and a tab that is being
loaded is about to save what is saved already (`Loading`).  `OldPasswordsAreOut` is not inductive: a login holds
the password it has read until it stores the token.  `LoginsAreFresh` says that it is still the
present one, or the user is excused.

*Console: types.*  `Shaped` says what a function carries: a change that was sent has its one key and
its row, only an administrator's functions have keys, and a list has rows of its own kind.  `Like`
and `Moved` describe a step that moves one function and at most takes keys out of the others'
`clean`; with them, one lemma per action says what becomes of the functions (`SubmitTasks`,
`AnsweredTasks`, `HearAnswerTasks`, ...), and all the rest of the module uses these.

*Console: nothing left.*  `Strangers`: when nothing was under way at the sign-out, nothing is until
the next sign-in, and whatever a viewer has under way never asks for users.

*Console: the page is the server.*  Three invariants of the functions (`Watched`): a refresh is
sure only of keys no change of which is on its way (`CleanIsQuiet`), what it has read of them is
what the server has (`SeenIsServer`), and nothing that was sent before a reload is sure
(`UnheardIsDoubtful`).  Two of the page (`Showing`): it shows what a change on its way is about
(`Shown`), and each key that is not doubtful agrees with the server, or is settled later by the
answer or by a stage of the refresh (`Settled`, `Pending`).

*Sums.*  The figures of `CostEngine` and `Estimate` are folds over finite sets.  The library's
induction takes a predicate, which no installed prover can instantiate; `SetInduction` takes a set
instead, that of the subsets for which the claim holds, and follows from the library's theorem that
a set of naturals has a smallest element.  A fold takes the elements of a set in the order in which
CHOOSE chooses them: it is the value at the set of a function of the subsets that satisfies an
equation (`SumEquation`); such a function exists and there is only one (`FoldExists`, `FoldUnique`,
and `SumExists`, `SumUnique` for integers).  From the equation it follows that the order makes no
difference (`SumRemove`, `TotalRemove`), and from that what sums do when they are added, scaled,
grouped, swapped or without their zeros.  Both modules have this section, one for integers and one
for fractions.

*Price and cost arithmetic.*  `EngineInv` says that a stored price is one of those that truncation
allows for the hardware.  `CostWithinPrice`: a group pays for each resource its price times what the
group needs of it (`GroupPaysForNeed`, two sums swapped), and that is at most the resource's
share of the monthly price (`PriceWithinShare`).  `TotalIsWhatWorkloadsPay`: the workloads are
grouped by datacenter, and one that has no price adds nothing; the code averages over the first
workload of each datacenter, which is the average over datacenters because that choice is a bijection
(`FirstOfEach`, `BlendOverDatacenters`).  `EvenBlendKeepsTotal` is what truncation takes from an
average, times the quantity.  `AddingCostsNoLess`: in a datacenter that is there already, no price
changes.

*Estimate: the page.*  `EstimateInv` is that the page agrees with what the tables are mapped to,
but for rack units that a mapper defaults, short codes that were left empty, and hardware that was
deleted with its datacenter (`DcsAgree`, `AssetsAgree`).  It is what a form shows, saved
and mapped again, that has to come back (`ServerComesBack`, `HardwareComesBack`); for hardware
this needs that its role is that of its type, and that it has neither cores nor memory (`RoleFits`,
`NoCoresAreTyped`).  What is left out of the agreement is in no figure of a datacenter that is
still there (`SameCosts`, `SamePayments`).

*Estimate: fractions.*  `Gcd` is Euclid's recursive function; that it is defined (`GcdIsDefined`)
and the greatest common divisor, a combination of the two (`GcdIsGcd`), is proved by induction.  So
`Frac` is in lowest terms, two fractions are equal when their values are (`SameValue`),
addition and multiplication are commutative, associative and distributive, and `By` undoes
`Times`.

*Estimate: paid or idle.*  What is split by weight is split to the last unit, unless all weigh nothing
(`SplitByWeight`).  Services pay the allocated part (`PaidInAll`), the rest is idle, split by the
costs of the hosts (`IdleInAll`), and the two make the cost (`RestOfOne`).

*Estimate: the figures agree.*  The assets are grouped by datacenter and by type
(`TotalByDatacenter`, `TypesMakeTheTotal`), and the fee of a datacenter is split by power as costs
are by weight (`FeesAreSplit`).

These two theorems say `[](Dated(page) => ...)`.  A list is `Dated` unless an asset is written off
in 0 months and bought later than the estimate's clock; there the code divides by 0, and the
figures are Infinity or NaN in the browser.  Every state of the run is `Dated`.

Left to TLC: liveness under fairness (`DayEventuallyPriced`, `PasswordChangeSignsOut`,
`LoginEnds`, `PageSettles`), which this prover cannot do, and the two runs that expect a
violation.  Every other property that a run checks is a theorem.

## Not modelled

* **Migrations.**  The first thing `main` does (`main.go:49`): one call of a library in a goroutine,
  raced with a deadline, and the process ends when it fails.  What it does is in the library and in
  SQL; the schema it ends in is what the keys and references of `Inventory` come from.
* **Prometheus enrichment.**  Best-effort reads of another system whose errors are ignored.  Its
  configuration is one row; the browser saves it before it has loaded it (`App.tsx:79`).
* **Configuration.**  Environment variables, read once.
* **Users.**  Creation, renaming and deletion of users are rows of a list in `Console`; passwords
  are compared, not hashed; an e-mail address that changes under a token is left out.
* **The composition of `Pricing` and `CostReport`.**  Each has the other's writes as an environment.
  What only the composition shows is listed with the hazards: a datacenter that is created after
  the day's fill has no price that day, so its workloads cost nothing.  No comment or test says
  what they should cost.
* **`ServiceEdit` with a datacenter that is deleted between two calls of a save.**  Any addition
  may fail there, which is what this comes to.
* **The usage panel of a service** (`Services.tsx:227`), which merges numbers by index.
* **Views.**  Charts, tables, routing, toasts, icons and the tweaks panel are presentation.  The
  report page shows stored reports as they come, but for one sum per group.  Numbers that are
  negative or fractional, which the forms allow, are left out of `Estimate`, and so is an
  amortization over no months of something bought in the future, which divides by zero.
* Logging, the encoding of requests and answers, and reads that change nothing.
