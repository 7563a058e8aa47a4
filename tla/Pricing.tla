------------------------------ MODULE Pricing ------------------------------
(***************************************************************************)
(* The pricing service: the tables of monthly and daily unit prices        *)
(* (pricing, daily_pricing) and everything that writes them.               *)
(*                                                                         *)
(*   - main, at startup: CreateMonthlyPrice, then EnsureDailyPricesFilled, *)
(*     and only then the schedulers and the HTTP server;                   *)
(*   - the daily scheduler: EnsureDailyPricesFilled at 00:30 local time;   *)
(*   - the monthly scheduler: EnsureMonthlyPricesForMonth at 00:30 on the  *)
(*     first of the month, for the month that ended;                       *)
(*   - the requests POST /pricing/fulfill and POST /pricing/monthly, which *)
(*     overlap with each other and with the schedulers.                    *)
(*                                                                         *)
(* Every database call is a step of its own, and any of them may fail; a   *)
(* save may also fail after it has committed (the answer is lost or late). *)
(* The process may crash between two steps and is started again.           *)
(*                                                                         *)
(* The price of a datacenter is a function of its hardware and of the      *)
(* month, so a row is abstracted to the version of the hardware it was     *)
(* computed from, and 0 stands for a row that does not exist.              *)
(***************************************************************************)
EXTENDS Naturals, FiniteSets

CONSTANTS
    Datacenters,        \* the datacenters that may ever be created
    Requests,           \* slots for the pricing requests in progress
    Zone,               \* local time against UTC: "utc", "east" or "west" of it
    MonthStart(_),      \* the first day of a day's month
    DaysInMonth(_),     \* the length of the month that starts on a day
    MaxDay,             \* bound: the last calendar day
    MaxVersion,         \* bound: versions of one datacenter's hardware
    MaxFailures,        \* bound: database calls that fail
    LastFaultyDay,      \* bound: the last day on which one fails
    MaxCrashes          \* bound: crashes of the process

Days     == 0..MaxDay
Versions == 1..MaxVersion
Callers  == Requests \cup {"main", "monthly"}

ASSUME BoundsAssumption ==
    /\ MaxDay \in Nat
    /\ MaxVersion \in Nat \ {0}
    /\ MaxFailures \in Nat
    /\ LastFaultyDay \in Nat
    /\ MaxCrashes \in Nat

ASSUME ZoneAssumption == Zone \in {"utc", "east", "west"}

ASSUME RequestsAssumption == Requests \cap {"main", "monthly"} = {}

ASSUME CalendarAssumption ==
    \A d \in Days : /\ MonthStart(d) \in Nat
                    /\ MonthStart(d) <= d
                    /\ MonthStart(MonthStart(d)) = MonthStart(d)
                    /\ DaysInMonth(d) \in Nat \ {0}

\* The days of a month are consecutive, and as many as its length.
ASSUME MonthsAssumption ==
    \A m, d \in Days :
        MonthStart(m) = m =>
            (MonthStart(d) = m <=> m <= d /\ d < m + DaysInMonth(m))

VARIABLES
    localDay, utcDay,   \* today, in the server's time zone and in UTC
    inventory,          \* hardware version of each datacenter
    daily, monthly,     \* the tables: a page per day, a page per first of a month
    server,             \* how far main has come
    bootDay,            \* the day main started, until it serves
    due,                \* timers that have fired and wait for their scheduler
    fill,               \* the run of EnsureDailyPricesFilled
    call,               \* the runs of the other pricing operations
    failures, crashes   \* used up so far

vars == <<localDay, utcDay, inventory, daily, monthly, server, bootDay, due,
          fill, call, failures, crashes>>

clock   == <<localDay, utcDay>>
tables  == <<daily, monthly>>
process == <<server, bootDay, due>>

(***************************************************************************)
(* Pages and snapshots                                                     *)
(***************************************************************************)
Absent  == 0                    \* not created yet
Removed == MaxVersion + 1       \* deleted; its id is never used again

\* A page of a table, and also what a run knows of the inventory: 0 for a
\* datacenter that has no row, or that is not in the inventory.
Page  == [Datacenters -> 0..MaxVersion]
Blank == [dc \in Datacenters |-> 0]

\* GetDatacentersWithHardware, taken as one read.
Snapshot == [dc \in Datacenters |->
                IF inventory[dc] \in Versions THEN inventory[dc] ELSE 0]

\* createDailyPrice, createMonthlyPrice: one batch, in one transaction, that
\* inserts or overwrites the row of every datacenter of the snapshot.
Upsert(page, snap) ==
    [dc \in Datacenters |-> IF snap[dc] # 0 THEN snap[dc] ELSE page[dc]]

UpsertAt(table, keys, snap) ==
    [d \in Days |-> IF d \in keys THEN Upsert(table[d], snap) ELSE table[d]]

Priced(d)  == daily[d] # Blank
PricedDays == {d \in Days : Priced(d)}

(***************************************************************************)
(* Runs                                                                    *)
(***************************************************************************)
IdleFill == [pc |-> "idle", snap |-> Blank, from |-> 0, day |-> 0, last |-> 0]
IdleCall == [pc |-> "idle", snap |-> Blank, start |-> 0, month |-> 0,
             last |-> 0, limit |-> 0]

FillState ==
    [pc   : {"idle",
             "inventory",   \* about to read the inventory
             "latest",      \* about to read the latest priced day
             "check",       \* about to ask whether `day` is priced
             "save"},       \* about to save the prices of `day`
     snap : Page,           \* the inventory, read once for the whole run
     from : 0..(MaxDay + 1),\* the first day to fill
     day  : 0..(MaxDay + 1),
     last : Days]           \* the last day to fill

CallState ==
    [pc    : {"idle",
              "create",     \* CreateMonthlyPrice, about to read the inventory
              "ensure",     \* EnsureMonthlyPricesForMonth, about to read it
              "savePrice",  \* either, about to save the prices of `month`
              "fulfill",    \* FulfillPriceData, about to read the inventory
              "saveMonth",  \* about to save the monthly prices of `month`
              "saveDays"},  \* about to save the daily prices of `month`
     snap  : Page,
     start : Days,          \* the month a fulfilment starts with
     month : Days,
     last  : Days,          \* the current month when the run looked
     limit : Days]          \* today in UTC when the run looked

ServerState == {"down", "creating", "filling", "serving"}

TypeOK ==
    /\ localDay \in Days
    /\ utcDay \in Days
    /\ inventory \in [Datacenters -> 0..(MaxVersion + 1)]
    /\ daily \in [Days -> Page]
    /\ monthly \in [Days -> Page]
    /\ server \in ServerState
    /\ bootDay \in Days
    /\ due \subseteq {"daily", "monthly"}
    /\ fill \in FillState
    /\ call \in [Callers -> CallState]
    /\ failures \in 0..MaxFailures
    /\ crashes \in 0..MaxCrashes

Init ==
    /\ localDay = 0
    /\ utcDay = 0
    /\ inventory \in [Datacenters -> {Absent, 1}]
    /\ daily = [d \in Days |-> Blank]
    /\ monthly = [d \in Days |-> Blank]
    /\ server = "down"
    /\ bootDay = 0
    /\ due = {}
    /\ fill = IdleFill
    /\ call = [c \in Callers |-> IdleCall]
    /\ failures = 0
    /\ crashes = 0

(***************************************************************************)
(* The calendar.  The monthly timer goes off on the first of a month, the  *)
(* daily one every day.  A timer set for 00:30 is served, and the run it   *)
(* starts (ten minutes at most: runTimeout) is over, long before the next  *)
(* midnight; so is the startup of main, which crosses one midnight at      *)
(* most.                                                                   *)
(***************************************************************************)
\* Wrong on purpose (see "Mutants" in the README): the monthly timer every day.
TimersOfMonthlyEveryDay(d) == {"daily"} \cup IF d > 0 THEN {"monthly"} ELSE {}

TimersOf(d) ==
    {"daily"} \cup IF d > 0 /\ MonthStart(d) = d THEN {"monthly"} ELSE {}

PreviousMonth(d) == MonthStart(MonthStart(d) - 1)

SchedulersRest ==
    /\ due = {}
    /\ server = "serving" => fill.pc = "idle" /\ call["monthly"].pc = "idle"
    /\ server \in {"creating", "filling"} => localDay = bootDay

Midnight ==
    /\ localDay < MaxDay
    /\ SchedulersRest
    /\ Zone = "east" => localDay = utcDay
    /\ Zone = "west" => localDay < utcDay
    /\ localDay' = localDay + 1
    /\ utcDay' = IF Zone = "utc" THEN localDay + 1 ELSE utcDay
    /\ due' = IF server = "serving" THEN TimersOf(localDay + 1) ELSE {}
    /\ UNCHANGED <<inventory, tables, server, bootDay, fill, call, failures, crashes>>

MidnightUTC ==
    /\ utcDay < MaxDay
    /\ Zone # "utc"
    /\ Zone = "east" => utcDay < localDay
    /\ Zone = "west" => utcDay = localDay
    /\ utcDay' = utcDay + 1
    /\ UNCHANGED <<localDay, inventory, tables, process, fill, call, failures, crashes>>

(***************************************************************************)
(* The inventory, changed through the API: a datacenter is created, its    *)
(* hardware changes, it is deleted.                                        *)
(***************************************************************************)
EditInventory(dc) ==
    /\ server = "serving"
    /\ \/ /\ inventory[dc] < MaxVersion
          /\ inventory' = [inventory EXCEPT ![dc] = @ + 1]
       \/ /\ inventory[dc] \in Versions
          /\ inventory' = [inventory EXCEPT ![dc] = Removed]
    /\ UNCHANGED <<clock, tables, process, fill, call, failures, crashes>>

(***************************************************************************)
(* The life of the process: main runs CreateMonthlyPrice, then fills the   *)
(* daily prices through today (RunOnStartup), then starts the schedulers   *)
(* and the HTTP server.  Both calls' errors are only logged.  The first    *)
(* timers are set for today if 00:30 is still to come, which it is when    *)
(* the startup has crossed midnight.                                       *)
(***************************************************************************)
Boot ==
    /\ server = "down"
    /\ server' = "creating"
    /\ bootDay' = localDay
    /\ call' = [call EXCEPT !["main"] = [IdleCall EXCEPT !.pc = "create"]]
    /\ UNCHANGED <<clock, inventory, tables, due, fill, failures, crashes>>

StartupFill ==
    /\ server = "creating"
    /\ call["main"].pc = "idle"
    /\ server' = "filling"
    /\ fill' = [IdleFill EXCEPT !.pc = "inventory", !.last = localDay]
    /\ UNCHANGED <<clock, inventory, tables, bootDay, due, call, failures, crashes>>

Serve ==
    /\ server = "filling"
    /\ fill.pc = "idle"
    /\ server' = "serving"
    /\ bootDay' = 0
    /\ \/ due' = TimersOf(localDay)
       \/ localDay = bootDay /\ due' = {}
    /\ UNCHANGED <<clock, inventory, tables, fill, call, failures, crashes>>

Crash ==
    /\ server # "down"
    /\ crashes < MaxCrashes
    /\ crashes' = crashes + 1
    /\ server' = "down"
    /\ bootDay' = 0
    /\ due' = {}
    /\ fill' = IdleFill
    /\ call' = [c \in Callers |-> IdleCall]
    /\ UNCHANGED <<clock, inventory, tables, failures>>

(***************************************************************************)
(* EnsureDailyPricesFilled(through)                                        *)
(***************************************************************************)
DailyTimer ==
    /\ "daily" \in due
    /\ fill.pc = "idle"
    /\ due' = due \ {"daily"}
    /\ fill' = [IdleFill EXCEPT !.pc = "inventory", !.last = localDay]
    /\ UNCHANGED <<clock, inventory, tables, server, bootDay, call, failures, crashes>>

\* An empty inventory ends the run.
FillReadInventory ==
    /\ fill.pc = "inventory"
    /\ fill' = IF Snapshot = Blank THEN IdleFill
                                   ELSE [fill EXCEPT !.pc = "latest", !.snap = Snapshot]
    /\ UNCHANGED <<clock, inventory, tables, process, call, failures, crashes>>

\* Wrong on purpose: the latest priced day itself; today only.
IsLatestPricedDay(d) ==
    IF PricedDays = {} THEN d = MonthStart(fill.last)
    ELSE d \in PricedDays /\ \A e \in PricedDays : e <= d

IsToday(d) == d = fill.last

\* firstDailyPriceDay: the day after MAX(date), or the first of the month.
IsFirstDailyPriceDay(d) ==
    IF PricedDays = {} THEN d = MonthStart(fill.last)
    ELSE \E latest \in PricedDays : /\ \A e \in PricedDays : e <= latest
                                    /\ d = latest + 1

FillReadLatest ==
    /\ fill.pc = "latest"
    /\ \E start \in 0..(MaxDay + 1) :
         /\ IsFirstDailyPriceDay(start)
         /\ fill' = IF start > fill.last THEN IdleFill
                    ELSE [fill EXCEPT !.pc = "check", !.from = start, !.day = start]
    /\ UNCHANGED <<clock, inventory, tables, process, call, failures, crashes>>

\* Wrong on purpose: the loop stops one day short.
NextFillDayShort ==
    IF fill.day + 1 < fill.last THEN [fill EXCEPT !.pc = "check", !.day = @ + 1]
                                ELSE IdleFill

\* The next turn of the loop over the days, or the end of the run.
NextFillDay ==
    IF fill.day < fill.last THEN [fill EXCEPT !.pc = "check", !.day = @ + 1]
                            ELSE IdleFill

FillCheckDay ==
    /\ fill.pc = "check"
    /\ fill' = IF Priced(fill.day) THEN NextFillDay ELSE [fill EXCEPT !.pc = "save"]
    /\ UNCHANGED <<clock, inventory, tables, process, call, failures, crashes>>

FillSaveDay ==
    /\ fill.pc = "save"
    /\ daily' = UpsertAt(daily, {fill.day}, fill.snap)
    /\ fill' = NextFillDay
    /\ UNCHANGED <<clock, inventory, monthly, process, call, failures, crashes>>

MayFail == failures < MaxFailures /\ localDay <= LastFaultyDay

\* Wrong on purpose: a save that fails does not end the run.
FillFailGoesOn ==
    /\ fill.pc # "idle"
    /\ MayFail
    /\ failures' = failures + 1
    /\ fill' = IF fill.pc = "save" THEN NextFillDay ELSE IdleFill
    /\ UNCHANGED <<clock, inventory, tables, process, call, crashes>>

\* A database call fails and so does the run; a save may have committed.
FillFail ==
    /\ fill.pc # "idle"
    /\ MayFail
    /\ failures' = failures + 1
    /\ \/ UNCHANGED daily
       \/ fill.pc = "save" /\ daily' = UpsertAt(daily, {fill.day}, fill.snap)
    /\ fill' = IdleFill
    /\ UNCHANGED <<clock, inventory, monthly, process, call, crashes>>

FillStep == FillReadInventory \/ FillReadLatest \/ FillCheckDay \/ FillSaveDay

(***************************************************************************)
(* CreateMonthlyPrice and EnsureMonthlyPricesForMonth(month)               *)
(***************************************************************************)
MonthlyTimer ==
    /\ "monthly" \in due
    /\ call["monthly"].pc = "idle"
    /\ due' = due \ {"monthly"}
    /\ call' = [call EXCEPT !["monthly"] =
                  [IdleCall EXCEPT !.pc = "ensure", !.month = PreviousMonth(localDay)]]
    /\ UNCHANGED <<clock, inventory, tables, server, bootDay, fill, failures, crashes>>

RequestMonthly(r) ==
    /\ server = "serving"
    /\ call[r].pc = "idle"
    /\ call' = [call EXCEPT ![r] = [IdleCall EXCEPT !.pc = "create"]]
    /\ UNCHANGED <<clock, inventory, tables, process, fill, failures, crashes>>

\* CreateMonthlyPrice takes the month from the clock after the read; with no
\* datacenter there is nothing to save.
ReadForMonth(c) ==
    /\ call[c].pc \in {"create", "ensure"}
    /\ LET month == IF call[c].pc = "create" THEN MonthStart(localDay)
                                             ELSE call[c].month
       IN  call' = [call EXCEPT ![c] =
                      IF Snapshot = Blank THEN IdleCall
                      ELSE [@ EXCEPT !.pc = "savePrice", !.snap = Snapshot,
                                     !.month = month]]
    /\ UNCHANGED <<clock, inventory, tables, process, fill, failures, crashes>>

SavePrice(c) ==
    /\ call[c].pc = "savePrice"
    /\ monthly' = UpsertAt(monthly, {call[c].month}, call[c].snap)
    /\ call' = [call EXCEPT ![c] = IdleCall]
    /\ UNCHANGED <<clock, inventory, daily, process, fill, failures, crashes>>

(***************************************************************************)
(* FulfillPriceData(start): from the month of start through the current    *)
(* month, the month's prices and then, in one batch, those of its days     *)
(* that have come in UTC.                                                  *)
(***************************************************************************)
RequestFulfill(r, start) ==
    /\ server = "serving"
    /\ call[r].pc = "idle"
    /\ call' = [call EXCEPT ![r] =
                  [IdleCall EXCEPT !.pc = "fulfill", !.start = MonthStart(start)]]
    /\ UNCHANGED <<clock, inventory, tables, process, fill, failures, crashes>>

\* Wrong on purpose: the loop has no end.
EnterAnyMonth(run, month) == [run EXCEPT !.pc = "saveMonth", !.month = month]

\* The next turn of the loop over the months, or the end of the run.
EnterMonth(run, month) ==
    IF month <= run.last THEN [run EXCEPT !.pc = "saveMonth", !.month = month]
                         ELSE IdleCall

ReadForFulfill(c) ==
    /\ call[c].pc = "fulfill"
    /\ call' = [call EXCEPT ![c] =
                  IF Snapshot = Blank THEN IdleCall
                  ELSE EnterMonth([@ EXCEPT !.snap = Snapshot,
                                            !.last = MonthStart(localDay),
                                            !.limit = utcDay], @.start)]
    /\ UNCHANGED <<clock, inventory, tables, process, fill, failures, crashes>>

FulfillSaveMonth(c) ==
    /\ call[c].pc = "saveMonth"
    /\ monthly' = UpsertAt(monthly, {call[c].month}, call[c].snap)
    /\ call' = [call EXCEPT ![c].pc = "saveDays"]
    /\ UNCHANGED <<clock, inventory, daily, process, fill, failures, crashes>>

NextMonth(month) == month + DaysInMonth(month)

\* Wrong on purpose: today is left out; days to come are not.
FulfillDaysBeforeToday(run) ==
    {d \in run.month..(NextMonth(run.month) - 1) : d < run.limit}

FulfillWholeMonth(run) == run.month..(NextMonth(run.month) - 1)

\* The days of the month that processDailyPrices saves.
FulfillDays(run) ==
    {d \in run.month..(NextMonth(run.month) - 1) : d <= run.limit}

FulfillSaveDays(c) ==
    /\ call[c].pc = "saveDays"
    /\ daily' = UpsertAt(daily, FulfillDays(call[c]), call[c].snap)
    /\ call' = [call EXCEPT ![c] = EnterMonth(@, NextMonth(@.month))]
    /\ UNCHANGED <<clock, inventory, monthly, process, fill, failures, crashes>>

CallFail(c) ==
    /\ call[c].pc # "idle"
    /\ call[c].pc = "saveDays" => FulfillDays(call[c]) # {}
    /\ MayFail
    /\ failures' = failures + 1
    /\ \/ UNCHANGED tables
       \/ /\ call[c].pc \in {"savePrice", "saveMonth"}
          /\ monthly' = UpsertAt(monthly, {call[c].month}, call[c].snap)
          /\ UNCHANGED daily
       \/ /\ call[c].pc = "saveDays"
          /\ daily' = UpsertAt(daily, FulfillDays(call[c]), call[c].snap)
          /\ UNCHANGED monthly
    /\ call' = [call EXCEPT ![c] = IdleCall]
    /\ UNCHANGED <<clock, inventory, process, fill, crashes>>

CallStep(c) ==
    \/ ReadForMonth(c) \/ SavePrice(c)
    \/ ReadForFulfill(c) \/ FulfillSaveMonth(c) \/ FulfillSaveDays(c)

-----------------------------------------------------------------------------
Next ==
    \/ Midnight \/ MidnightUTC
    \/ \E dc \in Datacenters : EditInventory(dc)
    \/ Boot \/ StartupFill \/ Serve \/ Crash
    \/ DailyTimer \/ FillStep \/ FillFail
    \/ MonthlyTimer
    \/ \E r \in Requests : RequestMonthly(r)
    \/ \E r \in Requests, start \in Days : RequestFulfill(r, start)
    \/ \E c \in Callers : CallStep(c) \/ CallFail(c)

\* Time passes, main and the schedulers run on (the container is restarted
\* when it exits), and a run in progress goes on.  Nobody owes a request, an
\* edit, a failure or a crash.
Fairness ==
    /\ WF_vars(Midnight) /\ WF_vars(MidnightUTC)
    /\ WF_vars(Boot) /\ WF_vars(StartupFill) /\ WF_vars(Serve)
    /\ WF_vars(DailyTimer) /\ WF_vars(MonthlyTimer)
    /\ WF_vars(FillStep)
    /\ \A c \in Callers : WF_vars(CallStep(c))

Spec     == Init /\ [][Next]_vars
FairSpec == Spec /\ Fairness

(***************************************************************************)
(* Properties                                                              *)
(***************************************************************************)

\* As long as only main and the daily scheduler write daily prices, and
\* whatever fails or crashes, the table is a price book: one page per day,
\* in calendar order, with no day left out, none ahead of its day, and no
\* page ever rewritten - the retry of a save that had committed included.
Book == INSTANCE PriceBook WITH today <- localDay, book <- daily
BookSpec == Book!Spec

\* The inductive invariant behind it: a fill that has chosen its first day
\* stands right after the last page, and its days have come; it has prices
\* to save; and nothing else saves daily prices.
FillAtEnd ==
    fill.pc \in {"check", "save"} =>
        /\ fill.day <= fill.last
        /\ \A d \in PricedDays : d < fill.day
        /\ PricedDays # {} => fill.day - 1 \in PricedDays

FillNotAhead == fill.pc # "idle" => fill.last <= localDay

FillHasPrices == fill.pc \in {"latest", "check", "save"} => fill.snap # Blank

NoFulfilment ==
    \A c \in Callers : call[c].pc \notin {"fulfill", "saveMonth", "saveDays"}

SchedulerInv ==
    TypeOK /\ FillAtEnd /\ FillNotAhead /\ FillHasPrices /\ NoFulfilment

\* Without requests, the prices of a month change during the month and on
\* the first day of the next one, when EnsureMonthlyPricesForMonth finalizes
\* them, and never before or after: not at a restart, not by a late save.
MonthlyPricesSettle ==
    [][\A m \in Days : monthly'[m] # monthly[m] =>
            m <= localDay /\ localDay <= NextMonth(m)]_vars

\* Once the table has a page, a day that comes gets its prices, unless the
\* inventory is empty: what a failed fill, or a process that was down for
\* days, has left out is made up for by a later fill.  (LastFaultyDay leaves
\* room for that later fill before the bound.)
DayEventuallyPriced ==
    \A d \in 0..LastFaultyDay :
        (/\ localDay = d
         /\ \E e \in PricedDays : e <= d) ~> (Priced(d) \/ Snapshot = Blank)

\* A fill ends without an error and without the process crashing.
FillReturnsNil ==
    /\ fill.pc # "idle" /\ fill'.pc = "idle"
    /\ failures' = failures /\ crashes' = crashes

\* A fill that returns nil with datacenters to price leaves no day unpriced
\* from its first day through its last one, and has today's prices - also
\* when requests write the table while it runs.
FillCompletes ==
    [][FillReturnsNil /\ fill.pc # "inventory" =>
            /\ daily'[fill.last] # Blank
            /\ fill.pc # "latest" =>
                 \A d \in fill.from..fill.last : daily'[d] # Blank]_vars

\* A fulfilment that succeeds leaves every datacenter it has seen with a
\* price for every month from the first one asked for through the current
\* one, and for every day of them that had come.
FulfillCompletes ==
    [][\A r \in Requests :
         /\ call[r].pc = "saveDays" /\ call'[r].pc = "idle"
         /\ failures' = failures /\ crashes' = crashes
         => \A d \in call[r].start..call[r].limit, dc \in Datacenters :
              /\ MonthStart(d) <= call[r].last
              /\ call[r].snap[dc] # 0
              => daily'[d][dc] # 0 /\ monthly'[MonthStart(d)][dc] # 0]_vars

\* No daily price is stored for a day that has come neither in the server's
\* zone nor in UTC.  (West of UTC a fulfilment in the evening does store
\* tomorrow's prices: processDailyPrices compares UTC midnights with now.)
NoDayAhead == \A d \in PricedDays : d <= localDay \/ d <= utcDay
=============================================================================
