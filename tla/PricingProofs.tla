--------------------------- MODULE PricingProofs ---------------------------
(***************************************************************************)
(* Proofs about Pricing: its type invariant; that no price is stored ahead *)
(* of its day; that the schedulers alone keep a price book, in which the   *)
(* prices of a month settle; and that a fulfilment and a fill leave no gap *)
(* when they succeed.                                                      *)
(***************************************************************************)
EXTENDS Pricing, TLAPS

-----------------------------------------------------------------------------
(***************************************************************************)
(* Pages and tables                                                        *)
(***************************************************************************)

\* The empty page, and what a run reads from the inventory, are pages.
LEMMA BlankType == Blank \in Page
  BY BoundsAssumption DEF Blank, Page

LEMMA SnapshotType == Snapshot \in Page
  BY BoundsAssumption DEF Snapshot, Page, Versions

\* Saving a page of prices at some days leaves a table a table.
LEMMA UpsertType ==
  ASSUME NEW table \in [Days -> Page], NEW keys, NEW snap \in Page
  PROVE  UpsertAt(table, keys, snap) \in [Days -> Page]
<1>1. ASSUME NEW d \in Days
      PROVE  Upsert(table[d], snap) \in Page
  <2>1. table[d] \in Page
    OBVIOUS
  <2>2. QED
    BY <2>1 DEF Upsert, Page
<1>2. QED
  BY <1>1 DEF UpsertAt

\* A save leaves the other days alone.
LEMMA UpsertElsewhere ==
  ASSUME NEW table \in [Days -> Page], NEW keys, NEW snap \in Page, NEW d \in Days,
         d \notin keys
  PROVE  UpsertAt(table, keys, snap)[d] = table[d]
  BY DEF UpsertAt

\* A page that some datacenter's price is saved to is not blank any more.
LEMMA UpsertNotBlank ==
  ASSUME NEW page \in Page, NEW snap \in Page, snap # Blank
  PROVE  Upsert(page, snap) # Blank
<1>1. PICK dc \in Datacenters : snap[dc] # 0
  BY DEF Page, Blank
<1>2. Upsert(page, snap)[dc] # Blank[dc]
  BY <1>1 DEF Upsert, Blank
<1>3. QED
  BY <1>2

\* The calendar stays inside the modelled days.
LEMMA MonthStartType ==
  ASSUME NEW d \in Days
  PROVE  MonthStart(d) \in Days
  BY CalendarAssumption, BoundsAssumption DEF Days

-----------------------------------------------------------------------------
(***************************************************************************)
(* Type correctness.  On its own TypeOK is not inductive: the monthly      *)
(* scheduler subtracts from the first day of the current month, which is   *)
(* a day only because its timer never goes off in the first month.         *)
(***************************************************************************)
TimerInv ==
    "monthly" \in due => localDay > 0 /\ MonthStart(localDay) = localDay

TypeInv == TypeOK /\ TimerInv

LEMMA IdleTypes == IdleFill \in FillState /\ IdleCall \in CallState
  BY BlankType, BoundsAssumption DEF IdleFill, IdleCall, FillState, CallState, Days

\* The turns of the two loops keep the runs well typed.
LEMMA NextFillDayType ==
  ASSUME TypeOK
  PROVE  NextFillDay \in FillState
<1>1. fill \in FillState
  BY DEF TypeOK
<1>2. CASE fill.day < fill.last
  <2>1. fill.day + 1 \in 0..(MaxDay + 1)
    BY <1>1, <1>2, BoundsAssumption DEF FillState, Days
  <2>2. [fill EXCEPT !.pc = "check", !.day = @ + 1] \in FillState
    BY <1>1, <2>1 DEF FillState
  <2>3. QED
    BY <1>2, <2>2 DEF NextFillDay
<1>3. CASE ~(fill.day < fill.last)
  BY <1>3, IdleTypes DEF NextFillDay
<1>4. QED
  BY <1>2, <1>3

LEMMA EnterMonthType ==
  ASSUME NEW run \in CallState, NEW month \in Nat
  PROVE  EnterMonth(run, month) \in CallState
<1>1. CASE month <= run.last
  <2>1. run.last \in Days
    BY DEF CallState
  <2>2. month \in Days
    BY <1>1, <2>1, BoundsAssumption DEF Days
  <2>3. [run EXCEPT !.pc = "saveMonth", !.month = month] \in CallState
    BY <2>2 DEF CallState
  <2>4. QED
    BY <1>1, <2>3 DEF EnterMonth
<1>2. CASE ~(month <= run.last)
  BY <1>2, IdleTypes DEF EnterMonth
<1>3. QED
  BY <1>1, <1>2

LEMMA CallUpdateType ==
  ASSUME NEW f \in [Callers -> CallState], NEW c \in Callers, NEW run \in CallState
  PROVE  [f EXCEPT ![c] = run] \in [Callers -> CallState]
  OBVIOUS

LEMMA TimersType ==
  ASSUME NEW d
  PROVE  /\ TimersOf(d) \subseteq {"daily", "monthly"}
         /\ "monthly" \in TimersOf(d) => d > 0 /\ MonthStart(d) = d
  BY DEF TimersOf

LEMMA TypeInit == Init => TypeInv
  BY BlankType, IdleTypes, BoundsAssumption
  DEF Init, TypeInv, TypeOK, TimerInv, Days, ServerState, Absent, Versions

\* What a step of a fill or of a call leaves alone stays well typed.
LEMMA FillTypeStep ==
  ASSUME TypeInv, fill' \in FillState, daily' \in [Days -> Page],
         failures' \in 0..MaxFailures,
         UNCHANGED <<clock, inventory, monthly, process, call, crashes>>
  PROVE  TypeInv'
  BY DEF TypeInv, TypeOK, TimerInv, clock, process

LEMMA CallTypeStep ==
  ASSUME TypeInv, NEW c \in Callers, NEW run \in CallState,
         call' = [call EXCEPT ![c] = run],
         daily' \in [Days -> Page], monthly' \in [Days -> Page],
         failures' \in 0..MaxFailures,
         UNCHANGED <<clock, inventory, process, fill, crashes>>
  PROVE  TypeInv'
<1>1. call' \in [Callers -> CallState]
  BY CallUpdateType DEF TypeInv, TypeOK
<1>2. QED
  BY <1>1 DEF TypeInv, TypeOK, TimerInv, clock, process

LEMMA TypeStep == TypeInv /\ [Next]_vars => TypeInv'
<1> SUFFICES ASSUME TypeInv, [Next]_vars
             PROVE  TypeInv'
  OBVIOUS
<1>t. /\ TypeOK /\ TimerInv
      /\ fill \in FillState /\ call \in [Callers -> CallState]
      /\ daily \in [Days -> Page] /\ monthly \in [Days -> Page]
      /\ localDay \in Days /\ failures \in 0..MaxFailures
  BY DEF TypeInv, TypeOK
<1>c. "main" \in Callers /\ "monthly" \in Callers /\ Requests \subseteq Callers
  BY DEF Callers
<1>1. CASE Midnight
  <2>1. localDay' \in Days /\ utcDay' \in Days
    BY <1>1, BoundsAssumption DEF Midnight, TypeInv, TypeOK, Days
  <2>2. due' \subseteq {"daily", "monthly"} /\ TimerInv'
    BY <1>1, TimersType DEF Midnight, TimerInv
  <2>3. QED
    BY <1>1, <2>1, <2>2 DEF Midnight, TypeInv, TypeOK, tables
<1>2. CASE MidnightUTC
  <2>1. utcDay' \in Days
    BY <1>2, BoundsAssumption DEF MidnightUTC, TypeInv, TypeOK, Days
  <2>2. QED
    BY <1>2, <2>1 DEF MidnightUTC, TypeInv, TypeOK, TimerInv, tables, process
<1>3. ASSUME NEW dc \in Datacenters, EditInventory(dc)
      PROVE  TypeInv'
  <2>1. inventory' \in [Datacenters -> 0..(MaxVersion + 1)]
    BY <1>3, BoundsAssumption DEF EditInventory, TypeInv, TypeOK, Versions, Removed
  <2>2. QED
    BY <1>3, <2>1 DEF EditInventory, TypeInv, TypeOK, TimerInv, clock, tables, process
<1>4. CASE Boot
  <2>1. [IdleCall EXCEPT !.pc = "create"] \in CallState
    BY IdleTypes DEF CallState
  <2>2. call' \in [Callers -> CallState]
    BY <1>4, <1>c, <1>t, <2>1, CallUpdateType DEF Boot
  <2>3. QED
    BY <1>4, <2>2 DEF Boot, TypeInv, TypeOK, TimerInv, clock, tables, ServerState
<1>5. CASE StartupFill
  <2>1. fill' \in FillState
    BY <1>5, <1>t, IdleTypes DEF StartupFill, FillState
  <2>2. QED
    BY <1>5, <2>1 DEF StartupFill, TypeInv, TypeOK, TimerInv, clock, tables, ServerState
<1>6. CASE Serve
  <2>1. due' \subseteq {"daily", "monthly"} /\ TimerInv'
    BY <1>6, TimersType DEF Serve, TimerInv, clock
  <2>2. bootDay' \in Days
    BY <1>6, BoundsAssumption DEF Serve, Days
  <2>3. QED
    BY <1>6, <2>1, <2>2 DEF Serve, TypeInv, TypeOK, clock, tables, ServerState
<1>7. CASE Crash
  <2>1. call' \in [Callers -> CallState] /\ fill' \in FillState
    BY <1>7, IdleTypes DEF Crash
  <2>2. bootDay' \in Days /\ crashes' \in 0..MaxCrashes
    BY <1>7, BoundsAssumption DEF Crash, Days, TypeInv, TypeOK
  <2>3. QED
    BY <1>7, <2>1, <2>2 DEF Crash, TypeInv, TypeOK, TimerInv, clock, tables, ServerState
<1>8. CASE DailyTimer
  <2>1. fill' \in FillState
    BY <1>8, <1>t, IdleTypes DEF DailyTimer, FillState
  <2>2. QED
    BY <1>8, <2>1 DEF DailyTimer, TypeInv, TypeOK, TimerInv, clock, tables
<1>9. CASE FillReadInventory
  <2>1. [fill EXCEPT !.pc = "latest", !.snap = Snapshot] \in FillState
    BY <1>t, SnapshotType DEF FillState
  <2>2. fill' \in FillState
    BY <1>9, <2>1, IdleTypes DEF FillReadInventory
  <2>3. QED
    BY <1>9, <1>t, <2>2, FillTypeStep DEF FillReadInventory, tables
<1>10. CASE FillReadLatest
  <2>1. fill' \in FillState
    <3>1. PICK start \in 0..(MaxDay + 1) :
            fill' = IF start > fill.last THEN IdleFill
                    ELSE [fill EXCEPT !.pc = "check", !.from = start, !.day = start]
      BY <1>10 DEF FillReadLatest
    <3>2. [fill EXCEPT !.pc = "check", !.from = start, !.day = start] \in FillState
      BY <1>t DEF FillState
    <3>3. QED
      BY <3>1, <3>2, IdleTypes
  <2>2. QED
    BY <1>10, <1>t, <2>1, FillTypeStep DEF FillReadLatest, tables
<1>11. CASE FillCheckDay
  <2>1. [fill EXCEPT !.pc = "save"] \in FillState
    BY <1>t DEF FillState
  <2>2. fill' \in FillState
    BY <1>11, <1>t, <2>1, NextFillDayType DEF FillCheckDay
  <2>3. QED
    BY <1>11, <1>t, <2>2, FillTypeStep DEF FillCheckDay, tables
<1>12. CASE FillSaveDay
  <2>1. fill.snap \in Page
    BY <1>t DEF FillState
  <2>2. fill' \in FillState /\ daily' \in [Days -> Page]
    BY <1>12, <1>t, <2>1, NextFillDayType, UpsertType DEF FillSaveDay
  <2>3. QED
    BY <1>12, <1>t, <2>2, FillTypeStep DEF FillSaveDay
<1>13. CASE FillFail
  <2>1. fill.snap \in Page
    BY <1>t DEF FillState
  <2>2. fill' \in FillState /\ daily' \in [Days -> Page]
    BY <1>13, <1>t, <2>1, IdleTypes, UpsertType DEF FillFail
  <2>3. failures' \in 0..MaxFailures
    BY <1>13, <1>t, BoundsAssumption DEF FillFail, MayFail
  <2>4. QED
    BY <1>13, <2>2, <2>3, FillTypeStep DEF FillFail
<1>14. CASE MonthlyTimer
  <2>1. PreviousMonth(localDay) \in Days
    <3>1. localDay > 0 /\ MonthStart(localDay) = localDay
      BY <1>14, <1>t DEF MonthlyTimer, TimerInv
    <3>2. localDay - 1 \in Days
      BY <1>t, <3>1, BoundsAssumption DEF Days
    <3>3. QED
      BY <3>1, <3>2, MonthStartType DEF PreviousMonth
  <2>2. [IdleCall EXCEPT !.pc = "ensure", !.month = PreviousMonth(localDay)] \in CallState
    BY <2>1, IdleTypes DEF CallState
  <2>3. call' \in [Callers -> CallState]
    BY <1>14, <1>c, <1>t, <2>2, CallUpdateType DEF MonthlyTimer
  <2>4. QED
    BY <1>14, <2>3 DEF MonthlyTimer, TypeInv, TypeOK, TimerInv, clock, tables
<1>15. ASSUME NEW r \in Requests, RequestMonthly(r)
       PROVE  TypeInv'
  <2>1. [IdleCall EXCEPT !.pc = "create"] \in CallState
    BY IdleTypes DEF CallState
  <2>2. QED
    BY <1>15, <1>c, <1>t, <2>1, CallTypeStep DEF RequestMonthly, tables
<1>16. ASSUME NEW r \in Requests, NEW start \in Days, RequestFulfill(r, start)
       PROVE  TypeInv'
  <2>1. [IdleCall EXCEPT !.pc = "fulfill", !.start = MonthStart(start)] \in CallState
    BY IdleTypes, MonthStartType DEF CallState
  <2>2. QED
    BY <1>16, <1>c, <1>t, <2>1, CallTypeStep DEF RequestFulfill, tables
<1>17. ASSUME NEW c \in Callers, ReadForMonth(c)
       PROVE  TypeInv'
  <2> DEFINE month == IF call[c].pc = "create" THEN MonthStart(localDay)
                                               ELSE call[c].month
             run == [call[c] EXCEPT !.pc = "savePrice", !.snap = Snapshot, !.month = month]
  <2>1. call[c] \in CallState
    BY <1>t
  <2>2. month \in Days
    BY <1>t, <2>1, MonthStartType DEF CallState
  <2>3. run \in CallState
    BY <2>1, <2>2, SnapshotType DEF CallState
  <2>4. call' = [call EXCEPT ![c] = IF Snapshot = Blank THEN IdleCall ELSE run]
    BY <1>17, <1>t DEF ReadForMonth
  <2>5. (IF Snapshot = Blank THEN IdleCall ELSE run) \in CallState
    BY <2>3, IdleTypes
  <2> HIDE DEF run
  <2>6. QED
    BY <1>17, <1>t, <2>4, <2>5, CallTypeStep DEF ReadForMonth, tables
<1>18. ASSUME NEW c \in Callers, SavePrice(c)
       PROVE  TypeInv'
  <2>1. call[c].snap \in Page
    BY <1>t DEF CallState
  <2>2. monthly' \in [Days -> Page]
    BY <1>18, <1>t, <2>1, UpsertType DEF SavePrice
  <2>3. QED
    BY <1>18, <1>t, <2>2, IdleTypes, CallTypeStep DEF SavePrice
<1>19. ASSUME NEW c \in Callers, ReadForFulfill(c)
       PROVE  TypeInv'
  <2> DEFINE read == [call[c] EXCEPT !.snap = Snapshot, !.last = MonthStart(localDay),
                                     !.limit = utcDay]
  <2>1. call[c] \in CallState /\ call[c].start \in Nat
    BY <1>t, BoundsAssumption DEF CallState, Days
  <2>2. read \in CallState
    BY <1>t, <2>1, SnapshotType, MonthStartType DEF CallState, TypeOK
  <2>3. EnterMonth(read, call[c].start) \in CallState
    BY <2>1, <2>2, EnterMonthType
  <2>4. call' = [call EXCEPT ![c] = IF Snapshot = Blank THEN IdleCall
                                    ELSE EnterMonth(read, call[c].start)]
    BY <1>19, <1>t DEF ReadForFulfill
  <2>5. (IF Snapshot = Blank THEN IdleCall
                             ELSE EnterMonth(read, call[c].start)) \in CallState
    BY <2>3, IdleTypes
  <2> HIDE DEF read
  <2>6. QED
    BY <1>19, <1>t, <2>4, <2>5, CallTypeStep DEF ReadForFulfill, tables
<1>20. ASSUME NEW c \in Callers, FulfillSaveMonth(c)
       PROVE  TypeInv'
  <2>1. call[c] \in CallState /\ call[c].snap \in Page
    BY <1>t DEF CallState
  <2>2. monthly' \in [Days -> Page]
    BY <1>20, <1>t, <2>1, UpsertType DEF FulfillSaveMonth
  <2>3. [call[c] EXCEPT !.pc = "saveDays"] \in CallState
    BY <2>1 DEF CallState
  <2>4. call' = [call EXCEPT ![c] = [call[c] EXCEPT !.pc = "saveDays"]]
    BY <1>20, <1>t DEF FulfillSaveMonth
  <2>5. QED
    BY <1>20, <1>t, <2>2, <2>3, <2>4, CallTypeStep DEF FulfillSaveMonth
<1>21. ASSUME NEW c \in Callers, FulfillSaveDays(c)
       PROVE  TypeInv'
  <2>1. call[c] \in CallState /\ call[c].snap \in Page /\ call[c].month \in Days
    BY <1>t DEF CallState
  <2>2. daily' \in [Days -> Page]
    BY <1>21, <1>t, <2>1, UpsertType DEF FulfillSaveDays
  <2>3. NextMonth(call[c].month) \in Nat
    BY <2>1, CalendarAssumption, BoundsAssumption DEF NextMonth, Days
  <2>4. EnterMonth(call[c], NextMonth(call[c].month)) \in CallState
    BY <2>1, <2>3, EnterMonthType
  <2>5. call' = [call EXCEPT ![c] = EnterMonth(call[c], NextMonth(call[c].month))]
    BY <1>21, <1>t DEF FulfillSaveDays
  <2>6. QED
    BY <1>21, <1>t, <2>2, <2>4, <2>5, CallTypeStep DEF FulfillSaveDays
<1>22. ASSUME NEW c \in Callers, CallFail(c)
       PROVE  TypeInv'
  <2>1. call[c].snap \in Page
    BY <1>t DEF CallState
  <2>2. daily' \in [Days -> Page] /\ monthly' \in [Days -> Page]
    BY <1>22, <1>t, <2>1, UpsertType DEF CallFail, tables
  <2>3. failures' \in 0..MaxFailures
    BY <1>22, <1>t, BoundsAssumption DEF CallFail, MayFail
  <2>4. QED
    BY <1>22, <2>2, <2>3, IdleTypes, CallTypeStep DEF CallFail
<1>23. CASE UNCHANGED vars
  BY <1>23 DEF vars, TypeInv, TypeOK, TimerInv
<1>24. QED
  BY <1>1, <1>2, <1>3, <1>4, <1>5, <1>6, <1>7, <1>8, <1>9, <1>10, <1>11, <1>12,
     <1>13, <1>14, <1>15, <1>16, <1>17, <1>18, <1>19, <1>20, <1>21, <1>22, <1>23
     DEF Next, FillStep, CallStep

\* The state is well typed, whatever the schedulers, the requests, the
\* failures and the crashes do: a fill never leaves the calendar, and no
\* month is computed before the first one.
THEOREM TypeCorrect == Spec => []TypeOK
<1>1. TypeInv => TypeOK
  BY DEF TypeInv
<1>2. QED
  BY TypeInit, TypeStep, <1>1, PTL DEF Spec

-----------------------------------------------------------------------------
(***************************************************************************)
(* No price ahead of its day.  A fill writes a day up to `last`, which had *)
(* come in local time when it started, and a fulfilment up to `limit`,     *)
(* which had come in UTC; both clocks only advance.                        *)
(***************************************************************************)
FillInside == fill.pc \in {"check", "save"} => fill.day <= fill.last

LimitCame == \A c \in Callers : call[c].limit <= utcDay

OneClock == Zone = "utc" => localDay = utcDay

AheadInv == NoDayAhead /\ FillNotAhead /\ FillInside /\ LimitCame /\ OneClock

LEMMA AheadInit == Init => AheadInv
  BY DEF Init, AheadInv, NoDayAhead, FillNotAhead, FillInside, LimitCame,
         OneClock, PricedDays, Priced, IdleFill, IdleCall, Days

\* A save into days that have come puts nothing ahead.
LEMMA UpsertNotAhead ==
  ASSUME TypeOK, NoDayAhead, NEW keys, NEW snap \in Page,
         \A d \in keys : d <= localDay \/ d <= utcDay,
         daily' = UpsertAt(daily, keys, snap), UNCHANGED clock
  PROVE  NoDayAhead'
<1>1. ASSUME NEW d \in Days, Priced(d)', d \notin keys
      PROVE  d \in PricedDays
  <2>1. daily'[d] = daily[d]
    BY <1>1, UpsertElsewhere DEF TypeOK
  <2>2. QED
    BY <1>1, <2>1 DEF Priced, PricedDays
<1>2. QED
  BY <1>1 DEF NoDayAhead, PricedDays, clock

\* The loop of a fill stays within its days.
LEMMA NextFillDayInside ==
  ASSUME TypeOK
  PROVE  /\ NextFillDay.pc # "idle" => NextFillDay.last = fill.last /\ fill.day < fill.last
         /\ NextFillDay.pc \in {"check", "save"} => NextFillDay.day <= NextFillDay.last
<1>1. fill \in FillState /\ fill.day \in Nat /\ fill.last \in Nat
  BY BoundsAssumption DEF TypeOK, FillState, Days
<1>2. CASE fill.day < fill.last
  <2>1. NextFillDay = [fill EXCEPT !.pc = "check", !.day = @ + 1]
    BY <1>2 DEF NextFillDay
  <2>2. NextFillDay.last = fill.last /\ NextFillDay.day = fill.day + 1
    BY <1>1, <2>1 DEF FillState
  <2>3. QED
    BY <1>1, <1>2, <2>2
<1>3. CASE ~(fill.day < fill.last)
  BY <1>3 DEF NextFillDay, IdleFill
<1>4. QED
  BY <1>2, <1>3

LEMMA AheadStep == TypeOK /\ TypeOK' /\ AheadInv /\ [Next]_vars => AheadInv'
<1> SUFFICES ASSUME TypeOK, TypeOK', AheadInv, [Next]_vars
             PROVE  AheadInv'
  OBVIOUS
<1> USE DEF AheadInv
<1>t. /\ fill \in FillState /\ call \in [Callers -> CallState]
      /\ localDay \in Nat /\ utcDay \in Nat /\ localDay' \in Nat /\ utcDay' \in Nat
      /\ fill.last \in Nat /\ fill.day \in Nat /\ fill.snap \in Page
      /\ \A c \in Callers : call[c].limit \in Nat /\ call[c].snap \in Page
  BY BoundsAssumption DEF TypeOK, FillState, CallState, Days
<1>c. "main" \in Callers /\ "monthly" \in Callers /\ Requests \subseteq Callers
  BY DEF Callers
\* Most steps leave the table, the fill and the calls alone, or end some.
<1>quiet. ASSUME UNCHANGED daily, localDay <= localDay', utcDay <= utcDay'
          PROVE  NoDayAhead'
  BY <1>quiet, <1>t DEF NoDayAhead, PricedDays, Priced, Days
<1>rest. ASSUME fill' = fill \/ fill' = IdleFill, localDay <= localDay'
         PROVE  FillNotAhead' /\ FillInside'
  BY <1>rest, <1>t DEF FillNotAhead, FillInside, IdleFill
<1>zone. ASSUME UNCHANGED clock
         PROVE  OneClock'
  BY <1>zone DEF clock, OneClock
<1>start. ASSUME fill' = [IdleFill EXCEPT !.pc = "inventory", !.last = localDay],
                 localDay' = localDay
          PROVE  FillNotAhead' /\ FillInside'
  BY <1>start, <1>t DEF FillNotAhead, FillInside, IdleFill
<1>still. ASSUME call' = call, utcDay <= utcDay'
          PROVE  LimitCame'
  BY <1>still, <1>t DEF LimitCame
<1>1. CASE Midnight
  <2>1. utcDay <= utcDay' /\ OneClock'
    BY <1>1, <1>t DEF Midnight, OneClock
  <2>2. QED
    BY <1>1, <1>t, <1>quiet, <1>rest, <1>still, <2>1 DEF Midnight, tables
<1>2. CASE MidnightUTC
  BY <1>2, <1>t, <1>quiet, <1>rest, <1>still DEF MidnightUTC, tables, OneClock
<1>3. ASSUME NEW dc \in Datacenters, EditInventory(dc)
      PROVE  AheadInv'
  BY <1>3, <1>t, <1>zone, <1>quiet, <1>rest, <1>still DEF EditInventory, tables, clock
<1>4. CASE Boot
  <2>1. LimitCame'
    BY <1>4, <1>t DEF Boot, LimitCame, IdleCall, clock
  <2>2. QED
    BY <1>4, <1>t, <1>zone, <1>quiet, <1>rest, <2>1 DEF Boot, tables, clock
<1>5. CASE StartupFill
  BY <1>5, <1>t, <1>zone, <1>quiet, <1>start, <1>still DEF StartupFill, tables, clock
<1>6. CASE Serve
  BY <1>6, <1>t, <1>zone, <1>quiet, <1>rest, <1>still DEF Serve, tables, clock
<1>7. CASE Crash
  <2>1. LimitCame'
    BY <1>7, <1>t DEF Crash, clock, LimitCame, IdleCall
  <2>2. QED
    BY <1>7, <1>t, <1>zone, <1>quiet, <1>rest, <2>1 DEF Crash, tables, clock
<1>8. CASE DailyTimer
  BY <1>8, <1>t, <1>zone, <1>quiet, <1>start, <1>still DEF DailyTimer, tables, clock
<1>9. CASE FillReadInventory
  <2>1. CASE fill' = IdleFill
    BY <1>9, <1>t, <1>zone, <1>quiet, <1>rest, <1>still, <2>1 DEF FillReadInventory, tables, clock
  <2>2. CASE fill' = [fill EXCEPT !.pc = "latest", !.snap = Snapshot]
    <3>1. fill'.pc = "latest" /\ fill'.last = fill.last
      BY <2>2, <1>t DEF FillState
    <3>2. FillNotAhead' /\ FillInside'
      BY <1>9, <1>t, <3>1 DEF FillReadInventory, FillNotAhead, FillInside, clock
    <3>3. QED
      BY <1>9, <1>t, <1>zone, <1>quiet, <1>still, <3>2 DEF FillReadInventory, tables, clock
  <2>3. QED
    BY <1>9, <2>1, <2>2 DEF FillReadInventory
<1>10. CASE FillReadLatest
  <2>1. PICK first \in 0..(MaxDay + 1) :
          fill' = IF first > fill.last THEN IdleFill
                  ELSE [fill EXCEPT !.pc = "check", !.from = first, !.day = first]
    BY <1>10 DEF FillReadLatest
  <2>2. CASE first > fill.last
    BY <1>10, <1>t, <1>zone, <1>quiet, <1>rest, <1>still, <2>1, <2>2
       DEF FillReadLatest, tables, clock
  <2>3. CASE ~(first > fill.last)
    <3>1. fill'.pc = "check" /\ fill'.last = fill.last /\ fill'.day = first
      BY <2>1, <2>3, <1>t DEF FillState
    <3>2. FillNotAhead' /\ FillInside'
      BY <1>10, <1>t, <2>3, <3>1, BoundsAssumption
         DEF FillReadLatest, FillNotAhead, FillInside, clock
    <3>3. QED
      BY <1>10, <1>t, <1>zone, <1>quiet, <1>still, <3>2 DEF FillReadLatest, tables, clock
  <2>4. QED
    BY <2>2, <2>3
<1>next. ASSUME fill' = NextFillDay, fill.pc # "idle", localDay' = localDay
         PROVE  FillNotAhead' /\ FillInside'
  BY <1>next, <1>t, NextFillDayInside DEF FillNotAhead, FillInside
<1>11. CASE FillCheckDay
  <2>1. CASE fill' = NextFillDay
    BY <1>11, <1>t, <1>zone, <1>next, <1>quiet, <1>still, <2>1 DEF FillCheckDay, tables, clock
  <2>2. CASE fill' = [fill EXCEPT !.pc = "save"]
    <3>1. fill'.pc = "save" /\ fill'.last = fill.last /\ fill'.day = fill.day
      BY <2>2, <1>t DEF FillState
    <3>2. FillNotAhead' /\ FillInside'
      BY <1>11, <1>t, <3>1 DEF FillCheckDay, FillNotAhead, FillInside, clock
    <3>3. QED
      BY <1>11, <1>t, <1>zone, <1>quiet, <1>still, <3>2 DEF FillCheckDay, tables, clock
  <2>3. QED
    BY <1>11, <2>1, <2>2 DEF FillCheckDay
<1>saved. ASSUME fill.pc = "save", daily' = UpsertAt(daily, {fill.day}, fill.snap),
                 UNCHANGED clock
          PROVE  NoDayAhead'
  <2>1. fill.day <= localDay
    BY <1>saved, <1>t DEF FillInside, FillNotAhead
  <2>2. QED
    BY <1>saved, <1>t, <2>1, UpsertNotAhead
<1>12. CASE FillSaveDay
  BY <1>12, <1>t, <1>zone, <1>next, <1>saved, <1>still DEF FillSaveDay, clock
<1>13. CASE FillFail
  BY <1>13, <1>t, <1>zone, <1>quiet, <1>rest, <1>saved, <1>still DEF FillFail, clock
<1>14. CASE MonthlyTimer
  <2>1. LimitCame'
    BY <1>14, <1>t DEF MonthlyTimer, LimitCame, IdleCall, clock
  <2>2. QED
    BY <1>14, <1>t, <1>zone, <1>quiet, <1>rest, <2>1 DEF MonthlyTimer, tables, clock
<1>15. ASSUME NEW r \in Requests, RequestMonthly(r)
       PROVE  AheadInv'
  <2>1. LimitCame'
    BY <1>15, <1>t DEF RequestMonthly, LimitCame, IdleCall, clock
  <2>2. QED
    BY <1>15, <1>t, <1>zone, <1>quiet, <1>rest, <2>1 DEF RequestMonthly, tables, clock
<1>16. ASSUME NEW r \in Requests, NEW start \in Days, RequestFulfill(r, start)
       PROVE  AheadInv'
  <2>1. LimitCame'
    BY <1>16, <1>t DEF RequestFulfill, LimitCame, IdleCall, clock
  <2>2. QED
    BY <1>16, <1>t, <1>zone, <1>quiet, <1>rest, <2>1 DEF RequestFulfill, tables, clock
<1>17. ASSUME NEW c \in Callers, ReadForMonth(c)
       PROVE  AheadInv'
  <2>1. LimitCame'
    BY <1>17, <1>t DEF ReadForMonth, LimitCame, IdleCall, CallState, clock
  <2>2. QED
    BY <1>17, <1>t, <1>zone, <1>quiet, <1>rest, <2>1 DEF ReadForMonth, tables, clock
<1>18. ASSUME NEW c \in Callers, SavePrice(c)
       PROVE  AheadInv'
  <2>1. LimitCame'
    BY <1>18, <1>t DEF SavePrice, LimitCame, IdleCall, clock
  <2>2. QED
    BY <1>18, <1>t, <1>zone, <1>quiet, <1>rest, <2>1 DEF SavePrice, clock
<1>19. ASSUME NEW c \in Callers, ReadForFulfill(c)
       PROVE  AheadInv'
  <2>1. call'[c].limit = utcDay \/ call'[c].limit = 0
    BY <1>19, <1>t DEF ReadForFulfill, EnterMonth, IdleCall, CallState
  <2>2. LimitCame'
    BY <1>19, <1>t, <2>1 DEF ReadForFulfill, LimitCame, clock
  <2>3. QED
    BY <1>19, <1>t, <1>zone, <1>quiet, <1>rest, <2>2 DEF ReadForFulfill, tables, clock
<1>20. ASSUME NEW c \in Callers, FulfillSaveMonth(c)
       PROVE  AheadInv'
  <2>1. LimitCame'
    BY <1>20, <1>t DEF FulfillSaveMonth, LimitCame, CallState, clock
  <2>2. QED
    BY <1>20, <1>t, <1>zone, <1>quiet, <1>rest, <2>1 DEF FulfillSaveMonth, clock
<1>savedDays. ASSUME NEW c \in Callers, UNCHANGED clock,
                     daily' = UpsertAt(daily, FulfillDays(call[c]), call[c].snap)
              PROVE  NoDayAhead'
  <2>1. call[c].limit <= utcDay /\ call[c].month \in Nat
    BY <1>t DEF LimitCame, CallState, Days
  <2>2. NextMonth(call[c].month) \in Nat
    BY <1>t, CalendarAssumption, BoundsAssumption DEF NextMonth, CallState, Days
  <2>3. \A d \in FulfillDays(call[c]) : d <= utcDay
    BY <1>t, <2>1, <2>2 DEF FulfillDays
  <2>4. QED
    BY <1>savedDays, <1>t, <2>3, UpsertNotAhead
<1>21. ASSUME NEW c \in Callers, FulfillSaveDays(c)
       PROVE  AheadInv'
  <2>1. call'[c].limit = call[c].limit \/ call'[c].limit = 0
    BY <1>21, <1>t DEF FulfillSaveDays, EnterMonth, IdleCall, CallState
  <2>2. LimitCame'
    BY <1>21, <1>t, <2>1 DEF FulfillSaveDays, LimitCame, clock
  <2>3. QED
    BY <1>21, <1>t, <1>zone, <1>savedDays, <1>rest, <2>2 DEF FulfillSaveDays, clock
<1>22. ASSUME NEW c \in Callers, CallFail(c)
       PROVE  AheadInv'
  <2>1. LimitCame'
    BY <1>22, <1>t DEF CallFail, LimitCame, IdleCall, clock
  <2>2. NoDayAhead'
    BY <1>22, <1>t, <1>zone, <1>quiet, <1>savedDays DEF CallFail, tables, clock
  <2>3. QED
    BY <1>22, <1>t, <1>zone, <1>rest, <2>1, <2>2 DEF CallFail, clock
<1>23. CASE UNCHANGED vars
  BY <1>23, <1>t, <1>zone, <1>quiet, <1>rest, <1>still DEF vars, clock
<1>24. QED
  BY <1>1, <1>2, <1>3, <1>4, <1>5, <1>6, <1>7, <1>8, <1>9, <1>10, <1>11, <1>12,
     <1>13, <1>14, <1>15, <1>16, <1>17, <1>18, <1>19, <1>20, <1>21, <1>22, <1>23
     DEF Next, FillStep, CallStep

\* No daily price is ever stored for a day that has come neither in the
\* server's time zone nor in UTC: for any calendar, any zone, and any number
\* of overlapping requests, failures and crashes.
THEOREM NoPriceAhead == Spec => []NoDayAhead
<1>1. TypeInv => TypeOK
  BY DEF TypeInv
<1>2. TypeInv' => TypeOK'
  BY DEF TypeInv
<1>3. AheadInv => NoDayAhead
  BY DEF AheadInv
<1>4. QED
  BY TypeInit, TypeStep, AheadInit, AheadStep, <1>1, <1>2, <1>3, PTL DEF Spec

-----------------------------------------------------------------------------
(***************************************************************************)
(* The price book.  Without requests only a fill writes daily prices, and  *)
(* it stands right behind the last page: the first day it takes is the day *)
(* after MAX(date), and every save moves it on by one.  So the check of    *)
(* each day finds nothing, a save writes the next page, and the save that  *)
(* commits and fails does too, before the run gives up.                    *)
(***************************************************************************)
BookInv == FillAtEnd /\ FillNotAhead /\ FillHasPrices /\ NoFulfilment

LEMMA BookInit == Init => BookInv
  BY DEF Init, BookInv, FillAtEnd, FillNotAhead, FillHasPrices, NoFulfilment,
         IdleFill, IdleCall

\* The pages before and after a fill saves the day it stands at.
LEMMA SaveNextPage ==
  ASSUME TypeOK, BookInv, fill.pc = "save",
         daily' = UpsertAt(daily, {fill.day}, fill.snap)
  PROVE  /\ PricedDays' = PricedDays \cup {fill.day}
         /\ daily' = [daily EXCEPT ![fill.day] = Upsert(daily[fill.day], fill.snap)]
         /\ Upsert(daily[fill.day], fill.snap) \in Page \ {Blank}
         /\ fill.day \in Days
<1>1. /\ daily \in [Days -> Page] /\ fill.snap \in Page /\ fill.snap # Blank
      /\ fill.day \in Nat /\ fill.day <= fill.last /\ fill.last \in Days
  BY BoundsAssumption DEF TypeOK, FillState, Days, BookInv, FillHasPrices, FillAtEnd
<1>2. fill.day \in Days
  BY <1>1, BoundsAssumption DEF Days
<1>3. daily' = [daily EXCEPT ![fill.day] = Upsert(daily[fill.day], fill.snap)]
  BY <1>1, <1>2 DEF UpsertAt
<1>4. Upsert(daily[fill.day], fill.snap) # Blank
  BY <1>1, <1>2, UpsertNotBlank
<1>5. Upsert(daily[fill.day], fill.snap) \in Page
  <2>1. daily[fill.day] \in Page
    BY <1>1, <1>2
  <2>2. QED
    BY <1>1, <2>1 DEF Upsert, Page
<1>6. PricedDays' = PricedDays \cup {fill.day}
  BY <1>1, <1>2, <1>3, <1>4 DEF PricedDays, Priced
<1>7. QED
  BY <1>2, <1>3, <1>4, <1>5, <1>6

LEMMA BookStep ==
  (Requests = {}) /\ TypeOK /\ TypeOK' /\ BookInv /\ [Next]_vars => BookInv'
<1> SUFFICES ASSUME Requests = {}, TypeOK, TypeOK', BookInv, [Next]_vars
             PROVE  BookInv'
  OBVIOUS
<1> USE DEF BookInv
<1>t. /\ fill \in FillState /\ call \in [Callers -> CallState]
      /\ localDay \in Nat /\ localDay' \in Nat /\ fill.last \in Days /\ fill.day \in Nat
      /\ fill.last \in Nat
  BY BoundsAssumption DEF TypeOK, FillState, Days
<1>c. Callers = {"main", "monthly"}
  BY DEF Callers
<1>pages. ASSUME UNCHANGED daily
          PROVE  PricedDays' = PricedDays
  BY <1>pages DEF PricedDays, Priced
\* Steps that leave the table alone, and leave or end the fill; steps that start one.
<1>rest. ASSUME (fill' = fill /\ UNCHANGED daily) \/ fill' = IdleFill,
                localDay <= localDay'
         PROVE  FillAtEnd' /\ FillNotAhead' /\ FillHasPrices'
  BY <1>rest, <1>t, <1>pages DEF FillAtEnd, FillNotAhead, FillHasPrices, IdleFill
<1>start. ASSUME fill' = [IdleFill EXCEPT !.pc = "inventory", !.last = localDay],
                 localDay' = localDay
          PROVE  FillAtEnd' /\ FillNotAhead' /\ FillHasPrices'
  BY <1>start, <1>t DEF FillAtEnd, FillNotAhead, FillHasPrices, IdleFill
<1>still. ASSUME call' = call
          PROVE  NoFulfilment'
  BY <1>still DEF NoFulfilment
<1>1. CASE Midnight
  BY <1>1, <1>t, <1>rest, <1>still DEF Midnight, tables
<1>2. CASE MidnightUTC
  BY <1>2, <1>t, <1>rest, <1>still DEF MidnightUTC, tables
<1>3. ASSUME NEW dc \in Datacenters, EditInventory(dc)
      PROVE  BookInv'
  BY <1>3, <1>t, <1>rest, <1>still DEF EditInventory, tables, clock
<1>4. CASE Boot
  <2>1. NoFulfilment'
    BY <1>4, <1>t, <1>c DEF Boot, NoFulfilment, IdleCall
  <2>2. QED
    BY <1>4, <1>t, <1>rest, <2>1 DEF Boot, tables, clock
<1>5. CASE StartupFill
  BY <1>5, <1>t, <1>start, <1>still DEF StartupFill, clock
<1>6. CASE Serve
  BY <1>6, <1>t, <1>rest, <1>still DEF Serve, tables, clock
<1>7. CASE Crash
  <2>1. NoFulfilment'
    BY <1>7 DEF Crash, NoFulfilment, IdleCall
  <2>2. QED
    BY <1>7, <1>t, <1>rest, <2>1 DEF Crash, tables, clock
<1>8. CASE DailyTimer
  BY <1>8, <1>t, <1>start, <1>still DEF DailyTimer, clock
<1>9. CASE FillReadInventory
  <2>1. CASE fill' = IdleFill
    BY <1>9, <1>t, <1>rest, <1>still, <2>1 DEF FillReadInventory, tables, clock
  <2>2. CASE Snapshot # Blank /\ fill' = [fill EXCEPT !.pc = "latest", !.snap = Snapshot]
    <3>1. fill'.pc = "latest" /\ fill'.last = fill.last /\ fill'.snap = Snapshot
      BY <2>2, <1>t DEF FillState
    <3>2. fill'.snap # Blank'
      BY <2>2, <3>1 DEF Blank
    <3>3. FillAtEnd' /\ FillNotAhead' /\ FillHasPrices'
      BY <1>9, <1>t, <3>1, <3>2
         DEF FillReadInventory, FillAtEnd, FillNotAhead, FillHasPrices, clock
    <3>4. QED
      BY <1>9, <1>still, <3>3 DEF FillReadInventory
  <2>3. QED
    BY <1>9, <2>1, <2>2 DEF FillReadInventory
<1>10. CASE FillReadLatest
  <2>1. PICK first \in 0..(MaxDay + 1) :
          /\ IsFirstDailyPriceDay(first)
          /\ fill' = IF first > fill.last THEN IdleFill
                     ELSE [fill EXCEPT !.pc = "check", !.from = first, !.day = first]
    BY <1>10 DEF FillReadLatest
  <2>2. CASE first > fill.last
    BY <1>10, <1>t, <1>rest, <1>still, <2>1, <2>2 DEF FillReadLatest, tables, clock
  <2>3. CASE ~(first > fill.last)
    <3>1. /\ fill'.pc = "check" /\ fill'.last = fill.last /\ fill'.day = first
          /\ fill'.snap = fill.snap
      BY <2>1, <2>3, <1>t DEF FillState
    <3>2. /\ \A d \in PricedDays : d < first
          /\ PricedDays # {} => first - 1 \in PricedDays
      BY <2>1, BoundsAssumption DEF IsFirstDailyPriceDay, PricedDays, Days
    <3>3. FillAtEnd'
      BY <1>10, <1>t, <1>pages, <2>3, <3>1, <3>2, BoundsAssumption
         DEF FillReadLatest, FillAtEnd, tables
    <3>4. FillNotAhead' /\ FillHasPrices'
      BY <1>10, <1>t, <3>1 DEF FillReadLatest, FillNotAhead, FillHasPrices, clock
    <3>5. QED
      BY <1>10, <1>still, <3>3, <3>4 DEF FillReadLatest
  <2>4. QED
    BY <2>2, <2>3
<1>11. CASE FillCheckDay
  <2>1. ~Priced(fill.day)
    <3>1. fill.day \notin PricedDays /\ fill.day <= fill.last
      BY <1>11, <1>t DEF FillCheckDay, FillAtEnd
    <3>2. QED
      BY <1>t, <3>1, BoundsAssumption DEF PricedDays, Days
  <2>2. fill' = [fill EXCEPT !.pc = "save"]
    BY <1>11, <2>1 DEF FillCheckDay
  <2>3. /\ fill'.pc = "save" /\ fill'.last = fill.last /\ fill'.day = fill.day
        /\ fill'.snap = fill.snap
    BY <2>2, <1>t DEF FillState
  <2>4. FillAtEnd'
    BY <1>11, <1>pages, <2>3 DEF FillCheckDay, FillAtEnd, tables
  <2>5. FillNotAhead' /\ FillHasPrices'
    BY <1>11, <1>t, <2>3 DEF FillCheckDay, FillNotAhead, FillHasPrices, clock
  <2>6. QED
    BY <1>11, <1>still, <2>4, <2>5 DEF FillCheckDay
<1>12. CASE FillSaveDay
  <2>1. /\ PricedDays' = PricedDays \cup {fill.day}
        /\ \A d \in PricedDays : d < fill.day
        /\ PricedDays \subseteq Nat
    BY <1>12, SaveNextPage, BoundsAssumption DEF FillSaveDay, FillAtEnd, PricedDays, Days
  <2>2. CASE fill.day < fill.last
    <3>1. fill' = [fill EXCEPT !.pc = "check", !.day = @ + 1]
      BY <1>12, <2>2 DEF FillSaveDay, NextFillDay
    <3>2. /\ fill'.pc = "check" /\ fill'.last = fill.last /\ fill'.day = fill.day + 1
          /\ fill'.snap = fill.snap
      BY <3>1, <1>t DEF FillState
    <3>3. FillAtEnd'
      BY <1>t, <2>1, <2>2, <3>2 DEF FillAtEnd
    <3>4. FillNotAhead' /\ FillHasPrices'
      BY <1>12, <1>t, <3>2 DEF FillSaveDay, FillNotAhead, FillHasPrices, clock
    <3>5. QED
      BY <1>12, <1>still, <3>3, <3>4 DEF FillSaveDay
  <2>3. CASE ~(fill.day < fill.last)
    BY <1>12, <1>t, <1>rest, <1>still, <2>3 DEF FillSaveDay, NextFillDay, clock
  <2>4. QED
    BY <2>2, <2>3
<1>13. CASE FillFail
  BY <1>13, <1>t, <1>rest, <1>still DEF FillFail, clock
<1>14. CASE MonthlyTimer
  <2>1. NoFulfilment'
    BY <1>14, <1>t DEF MonthlyTimer, NoFulfilment, IdleCall
  <2>2. QED
    BY <1>14, <1>t, <1>rest, <2>1 DEF MonthlyTimer, tables, clock
<1>15. ASSUME NEW c \in Callers, ReadForMonth(c)
       PROVE  BookInv'
  <2>1. NoFulfilment'
    BY <1>15, <1>t DEF ReadForMonth, NoFulfilment, IdleCall, CallState
  <2>2. QED
    BY <1>15, <1>t, <1>rest, <2>1 DEF ReadForMonth, tables, clock
<1>16. ASSUME NEW c \in Callers, SavePrice(c)
       PROVE  BookInv'
  <2>1. NoFulfilment'
    BY <1>16, <1>t DEF SavePrice, NoFulfilment, IdleCall
  <2>2. QED
    BY <1>16, <1>t, <1>rest, <2>1 DEF SavePrice, clock
<1>17. ASSUME NEW c \in Callers, ReadForFulfill(c) \/ FulfillSaveMonth(c) \/ FulfillSaveDays(c)
       PROVE  BookInv'
  BY <1>17 DEF ReadForFulfill, FulfillSaveMonth, FulfillSaveDays, NoFulfilment
<1>18. ASSUME NEW c \in Callers, CallFail(c)
       PROVE  BookInv'
  <2>1. UNCHANGED daily
    BY <1>18 DEF CallFail, NoFulfilment, tables
  <2>2. NoFulfilment'
    BY <1>18, <1>t DEF CallFail, NoFulfilment, IdleCall
  <2>3. QED
    BY <1>18, <1>t, <1>rest, <2>1, <2>2 DEF CallFail, clock
<1>19. CASE UNCHANGED vars
  BY <1>19, <1>t, <1>rest, <1>still DEF vars
<1>20. QED
  BY <1>1, <1>2, <1>3, <1>4, <1>5, <1>6, <1>7, <1>8, <1>9, <1>10, <1>11, <1>12,
     <1>13, <1>14, <1>15, <1>16, <1>17, <1>18, <1>19 DEF Next, FillStep, CallStep

\* Each step of the schedulers is a step of the price book, or none of its.
LEMMA BookRefinementStep ==
  (Requests = {}) /\ TypeOK /\ BookInv /\ [Next]_vars => [Book!Next]_(Book!vars)
<1> SUFFICES ASSUME Requests = {}, TypeOK, BookInv, [Next]_vars
             PROVE  [Book!Next]_(Book!vars)
  OBVIOUS
<1> USE DEF Book!vars
<1>same. Book!Days = Days /\ Book!Page = Page /\ Book!Blank = Blank /\ Book!Written = PricedDays
  BY DEF Book!Days, Book!Page, Book!Blank, Book!Written, Days, Page, Blank, PricedDays, Priced
<1>page. ASSUME fill.pc = "save", UNCHANGED clock,
                daily' = UpsertAt(daily, {fill.day}, fill.snap)
         PROVE  Book!Next
  <2> DEFINE page == Upsert(daily[fill.day], fill.snap)
  <2>1. /\ daily' = [daily EXCEPT ![fill.day] = page] /\ page \in Page \ {Blank}
        /\ fill.day \in Days
    BY <1>page, SaveNextPage
  <2>2. fill.day <= localDay
    BY <1>page, BoundsAssumption
       DEF BookInv, FillAtEnd, FillNotAhead, TypeOK, FillState, Days
  <2>3. /\ \A d \in PricedDays : d < fill.day
        /\ PricedDays # {} => fill.day - 1 \in PricedDays
    BY <1>page DEF BookInv, FillAtEnd
  <2> HIDE DEF page
  <2>4. Book!WritePage(fill.day, page)
    BY <1>page, <1>same, <2>1, <2>2, <2>3 DEF Book!WritePage, clock
  <2>5. QED
    BY <1>same, <2>1, <2>4 DEF Book!Next
<1>1. CASE Midnight
  <2>1. Book!NewDay
    BY <1>1 DEF Midnight, Book!NewDay, tables
  <2>2. QED
    BY <2>1 DEF Book!Next
<1>2. CASE FillSaveDay
  BY <1>2, <1>page DEF FillSaveDay
<1>3. CASE FillFail
  BY <1>3, <1>page DEF FillFail, clock
<1>4. ASSUME NEW c \in Callers, CallFail(c)
      PROVE  UNCHANGED Book!vars
  BY <1>4 DEF CallFail, BookInv, NoFulfilment, tables, clock
<1>5. ASSUME NEW c \in Callers, CallStep(c)
      PROVE  UNCHANGED Book!vars
  BY <1>5 DEF CallStep, ReadForMonth, SavePrice, ReadForFulfill, FulfillSaveMonth,
              FulfillSaveDays, BookInv, NoFulfilment, tables, clock
<1>6. CASE MidnightUTC \/ (\E dc \in Datacenters : EditInventory(dc))
           \/ Boot \/ StartupFill \/ Serve \/ Crash \/ DailyTimer \/ MonthlyTimer
           \/ FillReadInventory \/ FillReadLatest \/ FillCheckDay
  BY <1>6 DEF MidnightUTC, EditInventory, Boot, StartupFill, Serve, Crash, DailyTimer,
              MonthlyTimer, FillReadInventory, FillReadLatest, FillCheckDay, tables, clock
<1>7. CASE UNCHANGED vars
  BY <1>7 DEF vars
<1>8. QED
  BY <1>1, <1>2, <1>3, <1>4, <1>5, <1>6, <1>7 DEF Next, FillStep

\* The invariant of the schedulers' fills: without requests a fill always
\* stands right behind the last priced day.
THEOREM SchedulerInvariant ==
  ASSUME Requests = {}
  PROVE  Spec => []SchedulerInv
<1>1. TypeInv /\ BookInv /\ [Next]_vars => (TypeInv /\ BookInv)'
  BY TypeStep, BookStep, Requests = {} DEF TypeInv
<1>2. TypeInv /\ BookInv => SchedulerInv
  BY DEF TypeInv, BookInv, SchedulerInv
<1>3. QED
  BY TypeInit, BookInit, <1>1, <1>2, PTL DEF Spec

\* The schedulers implement the price book: pages in calendar order, none
\* left out, none ahead of its day, none rewritten, whatever fails and
\* whenever the process crashes.
THEOREM SchedulersKeepBook ==
  ASSUME Requests = {}
  PROVE  Spec => BookSpec
<1>1. Init => Book!Init
  BY DEF Init, Book!Init, Book!Days, Book!Blank, Days, Blank
<1>2. SchedulerInv /\ [Next]_vars => [Book!Next]_(Book!vars)
  BY BookRefinementStep, Requests = {} DEF SchedulerInv, BookInv
<1>3. Spec => []SchedulerInv
  BY SchedulerInvariant, Requests = {}
<1>4. QED
  BY <1>1, <1>2, <1>3, PTL DEF Spec, BookSpec, Book!Spec

-----------------------------------------------------------------------------
(***************************************************************************)
(* The calendar: months follow each other without a gap.                   *)
(***************************************************************************)

\* The month after a month starts a month, unless it lies beyond the calendar.
LEMMA NextMonthStarts ==
  ASSUME NEW m \in Days, MonthStart(m) = m, NextMonth(m) \in Days
  PROVE  MonthStart(NextMonth(m)) = NextMonth(m)
<1> DEFINE n == NextMonth(m)
           s == MonthStart(n)
<1>1. /\ m \in Nat /\ n \in Nat /\ s \in Nat /\ s \in Days /\ s <= n /\ MonthStart(s) = s
      /\ n = m + DaysInMonth(m) /\ DaysInMonth(m) \in Nat /\ DaysInMonth(s) \in Nat /\ m < n
  BY MonthStartType, CalendarAssumption, BoundsAssumption DEF Days, NextMonth
<1>2. ~(m <= s /\ s < n)
  <2>1. ASSUME m <= s, s < n
        PROVE  FALSE
    <3>1. s = m
      BY <1>1, <2>1, MonthsAssumption
    <3>2. n < m + DaysInMonth(m)
      BY <1>1, <3>1, MonthsAssumption
    <3>3. QED
      BY <1>1, <3>2
  <2>2. QED
    BY <2>1
<1>3. ~(s < m)
  <2>1. ASSUME s < m
        PROVE  FALSE
    <3>1. n < s + DaysInMonth(s)
      BY <1>1, MonthsAssumption
    <3>2. MonthStart(m) = s
      BY <1>1, <2>1, <3>1, MonthsAssumption
    <3>3. QED
      BY <1>1, <2>1, <3>2
  <2>2. QED
    BY <2>1
<1>4. QED
  BY <1>1, <1>2, <1>3

\* A day from the start of a month on is in this month or in a later one.
LEMMA LaterDayLaterMonth ==
  ASSUME NEW m \in Days, MonthStart(m) = m, NEW d \in Days, m <= d
  PROVE  m <= MonthStart(d)
<1> DEFINE s == MonthStart(d)
<1>1. s \in Days /\ s \in Nat /\ m \in Nat /\ d \in Nat /\ MonthStart(s) = s
      /\ DaysInMonth(s) \in Nat
  BY MonthStartType, CalendarAssumption, BoundsAssumption DEF Days
<1>2. ASSUME s < m
      PROVE  FALSE
  <2>1. d < s + DaysInMonth(s)
    BY <1>1, MonthsAssumption
  <2>2. MonthStart(m) = s
    BY <1>1, <1>2, <2>1, MonthsAssumption
  <2>3. QED
    BY <1>1, <1>2, <2>2
<1>3. QED
  BY <1>1, <1>2

\* No month starts inside another one.
LEMMA NoMonthBetween ==
  ASSUME NEW m \in Days, MonthStart(m) = m, NEW d \in Days, MonthStart(d) < NextMonth(m)
  PROVE  MonthStart(d) <= m
<1> DEFINE s == MonthStart(d)
<1>1. s \in Days /\ s \in Nat /\ m \in Nat /\ MonthStart(s) = s
      /\ DaysInMonth(m) \in Nat /\ NextMonth(m) = m + DaysInMonth(m)
  BY MonthStartType, CalendarAssumption, BoundsAssumption DEF Days, NextMonth
<1>2. ASSUME m < s
      PROVE  FALSE
  <2>1. MonthStart(s) = m
    BY <1>1, <1>2, MonthsAssumption
  <2>2. QED
    BY <1>1, <1>2, <2>1
<1>3. QED
  BY <1>1, <1>2

-----------------------------------------------------------------------------
(***************************************************************************)
(* A fulfilment leaves no gap.  No save removes a price: so the months a   *)
(* fulfilment has been through stay priced, whatever other runs and edits  *)
(* of the inventory overlap it.                                            *)
(***************************************************************************)

\* A run has priced a day, and its month, for all the datacenters it has seen.
HasPriced(run, d) ==
    \A dc \in Datacenters : run.snap[dc] # 0 =>
        daily[d][dc] # 0 /\ monthly[MonthStart(d)][dc] # 0

\* How far a fulfilment has come.
Through(run) ==
    /\ run.pc = "fulfill" => MonthStart(run.start) = run.start
    /\ run.pc \in {"saveMonth", "saveDays"} =>
          /\ MonthStart(run.month) = run.month
          /\ \A d \in Days : run.start <= d /\ d <= run.limit /\ MonthStart(d) < run.month =>
                HasPriced(run, d)
    /\ run.pc = "saveDays" =>
          \A dc \in Datacenters : run.snap[dc] # 0 => monthly[run.month][dc] # 0

AllThrough == \A c \in Callers : Through(call[c])

\* No step removes a price.
LEMMA UpsertKeeps ==
  ASSUME NEW table \in [Days -> Page], NEW keys, NEW snap \in Page,
         NEW d \in Days, NEW dc \in Datacenters, table[d][dc] # 0
  PROVE  UpsertAt(table, keys, snap)[d][dc] # 0
  BY DEF UpsertAt, Upsert, Page

LEMMA PricesStay ==
  ASSUME TypeOK, [Next]_vars
  PROVE  \A d \in Days, dc \in Datacenters :
            /\ daily[d][dc] # 0 => daily'[d][dc] # 0
            /\ monthly[d][dc] # 0 => monthly'[d][dc] # 0
<1>t. /\ daily \in [Days -> Page] /\ monthly \in [Days -> Page]
      /\ fill.snap \in Page /\ \A c \in Callers : call[c].snap \in Page
  BY DEF TypeOK, FillState, CallState
<1> DEFINE kept(table, next) ==
             \/ next = table
             \/ \E keys \in SUBSET Days, snap \in Page : next = UpsertAt(table, keys, snap)
<1>keys. \A table, keys, snap : UpsertAt(table, keys, snap) = UpsertAt(table, keys \cap Days, snap)
  BY DEF UpsertAt
<1>save. \A table, keys : \A snap \in Page : kept(table, UpsertAt(table, keys, snap))
  <2>1. SUFFICES ASSUME NEW table, NEW keys, NEW snap \in Page
                 PROVE  kept(table, UpsertAt(table, keys, snap))
    OBVIOUS
  <2>2. keys \cap Days \in SUBSET Days
    OBVIOUS
  <2>3. QED
    BY <1>keys, <2>2
<1>keep. ASSUME NEW table \in [Days -> Page], NEW next, kept(table, next),
                NEW d \in Days, NEW dc \in Datacenters, table[d][dc] # 0
         PROVE  next[d][dc] # 0
  BY <1>keep, UpsertKeeps
<1> HIDE DEF kept
<1>same. \A table : kept(table, table)
  BY DEF kept
<1>1. kept(daily, daily') /\ kept(monthly, monthly')
  <2>1. CASE UNCHANGED tables
    BY <1>same, <2>1 DEF tables
  <2>2. CASE FillSaveDay \/ FillFail
    BY <1>t, <1>same, <1>save, <2>2 DEF FillSaveDay, FillFail
  <2>3. ASSUME NEW c \in Callers, CallStep(c)
        PROVE  kept(daily, daily') /\ kept(monthly, monthly')
    BY <1>t, <1>same, <1>save, <2>3
       DEF CallStep, ReadForMonth, SavePrice, ReadForFulfill, FulfillSaveMonth,
           FulfillSaveDays, tables
  <2>4. ASSUME NEW c \in Callers, CallFail(c)
        PROVE  kept(daily, daily') /\ kept(monthly, monthly')
    BY <1>t, <1>same, <1>save, <2>4 DEF CallFail, tables
  <2>5. CASE UNCHANGED vars
    BY <1>same, <2>5 DEF vars
  <2>6. QED
    BY <2>1, <2>2, <2>3, <2>4, <2>5
       DEF Next, Midnight, MidnightUTC, EditInventory, Boot, StartupFill, Serve, Crash,
           DailyTimer, FillStep, FillReadInventory, FillReadLatest, FillCheckDay,
           MonthlyTimer, RequestMonthly, RequestFulfill
<1>2. QED
  BY <1>t, <1>1, <1>keep

\* So a run that a step leaves alone is still through what it was.
LEMMA ThroughStays ==
  ASSUME TypeOK, [Next]_vars, NEW run \in CallState, Through(run)
  PROVE  Through(run)'
<1>1. \A d \in Days : HasPriced(run, d) => HasPriced(run, d)'
  BY PricesStay, MonthStartType DEF HasPriced
<1>2. run.month \in Days
  BY DEF CallState
<1>3. \A dc \in Datacenters : monthly[run.month][dc] # 0 => monthly'[run.month][dc] # 0
  BY <1>2, PricesStay
<1>4. QED
  BY <1>1, <1>3 DEF Through

LEMMA ThroughInit == Init => AllThrough
  BY DEF Init, AllThrough, Through, IdleCall

\* The next turn of the loop, after a step that has priced the month in hand.
LEMMA EnterMonthThrough ==
  ASSUME NEW run \in CallState, NEW month \in Nat, NEW next,
         next = EnterMonth(run, month),
         month <= run.last => MonthStart(month) = month,
         \A d \in Days : run.start <= d /\ d <= run.limit /\ MonthStart(d) < month =>
             HasPriced(run, d)'
  PROVE  Through(next)'
<1>1. CASE month <= run.last
  <2>1. next = [run EXCEPT !.pc = "saveMonth", !.month = month]
    BY <1>1 DEF EnterMonth
  <2>2. /\ next.pc = "saveMonth" /\ next.month = month
        /\ next.start = run.start /\ next.limit = run.limit /\ next.snap = run.snap
    BY <2>1 DEF CallState
  <2>3. QED
    BY <1>1, <2>2 DEF Through, HasPriced
<1>2. CASE ~(month <= run.last)
  BY <1>2 DEF EnterMonth, Through, IdleCall
<1>3. QED
  BY <1>1, <1>2

\* What a fulfilment has priced when it has saved the days of a month.
LEMMA DaysPriced ==
  ASSUME TypeOK, [Next]_vars, NEW c \in Callers, NEW run, run = call[c],
         Through(run), FulfillSaveDays(c),
         NEW d \in Days, run.start <= d, d <= run.limit,
         MonthStart(d) < NextMonth(run.month)
  PROVE  HasPriced(run, d)'
<1> DEFINE m == run.month
<1>1. /\ run \in CallState /\ m \in Days /\ m \in Nat /\ d \in Nat /\ run.snap \in Page
      /\ run.pc = "saveDays" /\ MonthStart(m) = m /\ MonthStart(d) \in Nat
      /\ MonthStart(d) \in Days /\ DaysInMonth(m) \in Nat
  BY MonthStartType, CalendarAssumption, BoundsAssumption
  DEF TypeOK, CallState, Days, FulfillSaveDays, Through
<1>2. MonthStart(d) <= m
  BY <1>1, NoMonthBetween
<1> SUFFICES ASSUME NEW dc \in Datacenters, run.snap[dc] # 0
             PROVE  daily'[d][dc] # 0 /\ monthly'[MonthStart(d)][dc] # 0
  BY DEF HasPriced
<1>3. CASE MonthStart(d) < m
  <2>1. daily[d][dc] # 0 /\ monthly[MonthStart(d)][dc] # 0
    BY <1>1, <1>3 DEF Through, HasPriced
  <2>2. QED
    BY <1>1, <2>1, PricesStay
<1>4. CASE MonthStart(d) = m
  <2>1. m <= d /\ d < m + DaysInMonth(m)
    BY <1>1, <1>4, MonthsAssumption
  <2>2. d \in FulfillDays(run)
    BY <1>1, <2>1 DEF FulfillDays, NextMonth
  <2>3. daily' = UpsertAt(daily, FulfillDays(run), run.snap)
    BY DEF FulfillSaveDays
  <2>4. daily'[d][dc] = run.snap[dc]
    BY <2>2, <2>3 DEF UpsertAt, Upsert
  <2>5. monthly[m][dc] # 0
    BY <1>1 DEF Through
  <2>6. QED
    BY <1>1, <1>4, <2>4, <2>5, PricesStay
<1>5. QED
  BY <1>1, <1>2, <1>3, <1>4

LEMMA ThroughStep == TypeOK /\ AllThrough /\ [Next]_vars => AllThrough'
<1> SUFFICES ASSUME TypeOK, AllThrough, [Next]_vars, NEW c \in Callers
             PROVE  Through(call[c])'
  BY DEF AllThrough
<1>t. call \in [Callers -> CallState] /\ call[c] \in CallState
  BY DEF TypeOK
<1>c. "main" \in Callers /\ "monthly" \in Callers /\ Requests \subseteq Callers
  BY DEF Callers
<1>r. Through(call[c])
  BY DEF AllThrough
<1>same. ASSUME call'[c] = call[c]
         PROVE  Through(call[c])'
  <2>1. \A run \in CallState : Through(run) => Through(run)'
    BY ThroughStays
  <2>2. QED
    BY <1>r, <1>t, <1>same, <2>1 DEF Through, HasPriced
<1>none. ASSUME call'[c].pc \notin {"fulfill", "saveMonth", "saveDays"}
         PROVE  Through(call[c])'
  BY <1>none DEF Through
\* The run of another caller is left alone.
<1>other. ASSUME NEW b \in Callers, NEW run, call' = [call EXCEPT ![b] = run],
                 b = c => run.pc \notin {"fulfill", "saveMonth", "saveDays"}
          PROVE  Through(call[c])'
  BY <1>other, <1>same, <1>none, <1>t
<1>1. CASE UNCHANGED call
  BY <1>1, <1>same
<1>2. CASE Boot \/ MonthlyTimer \/ \E r \in Requests : RequestMonthly(r)
  <2>1. \A p, m : [IdleCall EXCEPT !.pc = p].pc = p
                /\ [IdleCall EXCEPT !.pc = p, !.month = m].pc = p
    BY DEF IdleCall
  <2>2. CASE Boot
    BY <1>c, <1>other, <2>1, <2>2 DEF Boot
  <2>3. CASE MonthlyTimer
    <3>1. [IdleCall EXCEPT !.pc = "ensure", !.month = PreviousMonth(localDay)].pc = "ensure"
      BY DEF IdleCall
    <3>2. QED
      BY <1>c, <1>other, <2>3, <3>1 DEF MonthlyTimer
  <2>4. ASSUME NEW r \in Requests, RequestMonthly(r)
        PROVE  Through(call[c])'
    BY <1>c, <1>other, <2>1, <2>4 DEF RequestMonthly
  <2>5. QED
    BY <1>2, <2>2, <2>3, <2>4
<1>3. CASE Crash
  BY <1>3, <1>none DEF Crash, IdleCall
<1>4. ASSUME NEW r \in Requests, NEW start \in Days, RequestFulfill(r, start)
      PROVE  Through(call[c])'
  <2>1. call'[c] = call[c] \/ call'[c] = [IdleCall EXCEPT !.pc = "fulfill", !.start = MonthStart(start)]
    BY <1>4, <1>t, <1>c DEF RequestFulfill
  <2>2. CASE call'[c] = [IdleCall EXCEPT !.pc = "fulfill", !.start = MonthStart(start)]
    <3>1. call'[c].pc = "fulfill" /\ call'[c].start = MonthStart(start)
      BY <2>2 DEF IdleCall
    <3>2. QED
      BY <3>1, CalendarAssumption DEF Through
  <2>3. QED
    BY <1>same, <2>1, <2>2
<1>5. ASSUME NEW b \in Callers, ReadForMonth(b) \/ SavePrice(b) \/ CallFail(b)
      PROVE  Through(call[c])'
  <2>1. CASE b = c
    <3>1. call'[c].pc \in {"idle", "savePrice"}
      <4>1. CASE ReadForMonth(b)
        <5>1. CASE Snapshot = Blank
          BY <1>t, <2>1, <4>1, <5>1 DEF ReadForMonth, IdleCall
        <5>2. CASE Snapshot # Blank
          BY <1>t, <2>1, <4>1, <5>2 DEF ReadForMonth, CallState
        <5>3. QED
          BY <5>1, <5>2
      <4>2. CASE SavePrice(b)
        BY <1>t, <2>1, <4>2 DEF SavePrice, IdleCall
      <4>3. CASE CallFail(b)
        BY <1>t, <2>1, <4>3 DEF CallFail, IdleCall
      <4>4. QED
        BY <1>5, <4>1, <4>2, <4>3
    <3>2. QED
      BY <1>none, <3>1
  <2>2. CASE b # c
    BY <1>5, <1>t, <1>same, <2>2 DEF ReadForMonth, SavePrice, CallFail
  <2>3. QED
    BY <2>1, <2>2
<1>6. ASSUME NEW b \in Callers, b # c,
             ReadForFulfill(b) \/ FulfillSaveMonth(b) \/ FulfillSaveDays(b)
      PROVE  Through(call[c])'
  BY <1>6, <1>t, <1>same DEF ReadForFulfill, FulfillSaveMonth, FulfillSaveDays
<1>7. CASE ReadForFulfill(c)
  <2> DEFINE read == [call[c] EXCEPT !.snap = Snapshot, !.last = MonthStart(localDay),
                                     !.limit = utcDay]
             start == call[c].start
  <2>1. start \in Days /\ start \in Nat /\ MonthStart(start) = start
        /\ call[c].pc = "fulfill"
    BY <1>7, <1>r, <1>t, BoundsAssumption DEF ReadForFulfill, Through, CallState, Days
  <2>2. read \in CallState /\ read.start = start
    BY <1>t, SnapshotType, MonthStartType DEF TypeOK, CallState
  <2>3. call'[c] = IdleCall \/ call'[c] = EnterMonth(read, start)
    BY <1>7, <1>t DEF ReadForFulfill
  <2>4. \A d \in Days : start <= d => ~(MonthStart(d) < start)
    <3>1. \A d \in Days : MonthStart(d) \in Nat
      BY CalendarAssumption
    <3>2. QED
      BY <2>1, <3>1, LaterDayLaterMonth
  <2>5. \A run \in CallState, month \in Nat : \A next :
          /\ next = EnterMonth(run, month)
          /\ month <= run.last => MonthStart(month) = month
          /\ \A d \in Days : run.start <= d /\ d <= run.limit => ~(MonthStart(d) < month)
          => Through(next)'
    BY EnterMonthThrough
  <2> HIDE DEF read
  <2>6. CASE call'[c] = EnterMonth(read, start)
    BY <2>1, <2>2, <2>4, <2>5, <2>6 DEF Through, HasPriced
  <2>7. CASE call'[c] = IdleCall
    BY <1>none, <2>7 DEF IdleCall
  <2>8. QED
    BY <2>3, <2>6, <2>7
<1>8. CASE FulfillSaveMonth(c)
  <2> DEFINE m == call[c].month
  <2>1. /\ call'[c].pc = "saveDays" /\ call'[c].snap = call[c].snap
        /\ call'[c].month = m /\ call'[c].start = call[c].start
        /\ call'[c].limit = call[c].limit /\ call[c].pc = "saveMonth"
        /\ monthly' = UpsertAt(monthly, {m}, call[c].snap)
    BY <1>8, <1>t DEF FulfillSaveMonth, CallState
  <2>2. \A dc \in Datacenters : call[c].snap[dc] # 0 => monthly'[m][dc] # 0
    BY <1>t, <2>1 DEF UpsertAt, Upsert, CallState
  <2>3. \A run \in CallState : Through(run) => Through(run)'
    BY ThroughStays
  <2>4. QED
    BY <1>r, <1>t, <2>1, <2>2, <2>3 DEF Through, HasPriced
<1>9. CASE FulfillSaveDays(c)
  <2> DEFINE n == NextMonth(call[c].month)
  <2>1. /\ call[c].month \in Days /\ call[c].month \in Nat /\ n \in Nat
        /\ call[c].last \in Days /\ MonthStart(call[c].month) = call[c].month
    BY <1>9, <1>r, <1>t, CalendarAssumption, BoundsAssumption
    DEF FulfillSaveDays, Through, CallState, Days, NextMonth
  <2>2. call'[c] = EnterMonth(call[c], n)
    BY <1>9, <1>t DEF FulfillSaveDays
  <2>3. n <= call[c].last => MonthStart(n) = n
    <3>1. n <= call[c].last => n \in Days
      BY <2>1, BoundsAssumption DEF Days
    <3>2. QED
      BY <2>1, <3>1, NextMonthStarts
  <2>4. \A run : run = call[c] => \A d \in Days :
            run.start <= d /\ d <= run.limit /\ MonthStart(d) < NextMonth(run.month) =>
                HasPriced(run, d)'
    BY <1>9, <1>r, DaysPriced
  <2>5. \A run \in CallState, month \in Nat : \A next :
          /\ next = EnterMonth(run, month)
          /\ month <= run.last => MonthStart(month) = month
          /\ \A d \in Days : run.start <= d /\ d <= run.limit /\ MonthStart(d) < month =>
                HasPriced(run, d)'
          => Through(next)'
    BY EnterMonthThrough
  <2>6. \A run \in CallState : run = call[c] =>
            \A next : next = EnterMonth(run, NextMonth(run.month)) => Through(next)'
    BY <2>1, <2>3, <2>4, <2>5
  <2>7. QED
    BY <1>t, <2>2, <2>6 DEF Through, HasPriced
<1>10. QED
  BY <1>1, <1>2, <1>3, <1>4, <1>5, <1>6, <1>7, <1>8, <1>9
     DEF Next, Midnight, MidnightUTC, EditInventory, StartupFill, Serve, DailyTimer,
         FillStep, FillReadInventory, FillReadLatest, FillCheckDay, FillSaveDay, FillFail,
         CallStep, vars

LEMMA LastMonthPriced ==
  TypeOK /\ AllThrough /\ [Next]_vars =>
      [\A r \in Requests :
         /\ call[r].pc = "saveDays" /\ call'[r].pc = "idle"
         /\ failures' = failures /\ crashes' = crashes
         => \A d \in call[r].start..call[r].limit, dc \in Datacenters :
              /\ MonthStart(d) <= call[r].last
              /\ call[r].snap[dc] # 0
              => daily'[d][dc] # 0 /\ monthly'[MonthStart(d)][dc] # 0]_vars
<1> SUFFICES ASSUME TypeOK, AllThrough, [Next]_vars, NEW r \in Requests,
                    call[r].pc = "saveDays", call'[r].pc = "idle",
                    failures' = failures, crashes' = crashes,
                    NEW d \in call[r].start..call[r].limit, NEW dc \in Datacenters,
                    MonthStart(d) <= call[r].last, call[r].snap[dc] # 0
             PROVE  daily'[d][dc] # 0 /\ monthly'[MonthStart(d)][dc] # 0
  OBVIOUS
<1>t. /\ call \in [Callers -> CallState] /\ r \in Callers /\ call[r] \in CallState
      /\ Through(call[r]) /\ call'[r] # call[r] /\ "main" \in Callers /\ "monthly" \in Callers
  BY DEF TypeOK, AllThrough, Callers
<1>1. FulfillSaveDays(r)
  <2>1. ~Crash /\ \A c \in Callers : ~CallFail(c)
    BY DEF Crash, CallFail, TypeOK
  <2>2. ~Boot /\ ~MonthlyTimer /\ \A q \in Requests : ~RequestMonthly(q)
        /\ \A start \in Days : ~RequestFulfill(q, start)
    <3>1. /\ [IdleCall EXCEPT !.pc = "create"].pc = "create"
          /\ \A m : [IdleCall EXCEPT !.pc = "ensure", !.month = m].pc = "ensure"
          /\ \A s : [IdleCall EXCEPT !.pc = "fulfill", !.start = s].pc = "fulfill"
      BY DEF IdleCall
    <3>2. ~Boot
      BY <1>t, <3>1 DEF Boot
    <3>3. ~MonthlyTimer
      BY <1>t, <3>1 DEF MonthlyTimer
    <3>4. ASSUME NEW q \in Requests
          PROVE  ~RequestMonthly(q) /\ \A start \in Days : ~RequestFulfill(q, start)
      BY <1>t, <3>1 DEF RequestMonthly, RequestFulfill, Callers
    <3>5. QED
      BY <3>2, <3>3, <3>4
  <2>3. ASSUME NEW c \in Callers, CallStep(c)
        PROVE  FulfillSaveDays(r)
    <3>1. c = r
      BY <1>t, <2>3 DEF CallStep, ReadForMonth, SavePrice, ReadForFulfill,
                        FulfillSaveMonth, FulfillSaveDays
    <3>2. QED
      BY <2>3, <3>1 DEF CallStep, ReadForMonth, SavePrice, ReadForFulfill, FulfillSaveMonth
  <2>4. QED
    BY <1>t, <2>1, <2>2, <2>3
       DEF Next, Midnight, MidnightUTC, EditInventory, StartupFill, Serve, DailyTimer,
           FillStep, FillReadInventory, FillReadLatest, FillCheckDay, FillSaveDay, FillFail, vars
<1>2. /\ call[r].start \in Nat /\ call[r].limit \in Days /\ call[r].limit \in Nat
      /\ call[r].last \in Nat /\ call[r].month \in Days /\ call[r].limit <= MaxDay
  BY <1>t, BoundsAssumption DEF CallState, Days
<1>3. d \in Days /\ call[r].start <= d /\ d <= call[r].limit
  BY <1>2, BoundsAssumption DEF Days
<1>4. NextMonth(call[r].month) \in Nat
  BY <1>2, CalendarAssumption DEF NextMonth, Days
<1>5. ~(NextMonth(call[r].month) <= call[r].last)
  BY <1>1, <1>t DEF FulfillSaveDays, EnterMonth, CallState
<1>6. MonthStart(d) < NextMonth(call[r].month)
  BY <1>2, <1>3, <1>4, <1>5, CalendarAssumption
<1>7. \A run : run = call[r] => HasPriced(run, d)'
  BY <1>1, <1>3, <1>6, <1>t, DaysPriced
<1>8. QED
  BY <1>7 DEF HasPriced

\* A fulfilment that succeeds has left no gap: every datacenter it has seen
\* has a price for every month and every day asked for that had come, for any
\* calendar, and whatever other requests, fills and edits overlap it.
THEOREM FulfilmentLeavesNoGap == Spec => FulfillCompletes
<1>1. TypeInv => TypeOK
  BY DEF TypeInv
<1>2. QED
  BY TypeInit, TypeStep, ThroughInit, ThroughStep, LastMonthPriced, <1>1, PTL
     DEF Spec, FulfillCompletes

-----------------------------------------------------------------------------
(***************************************************************************)
(* A fill leaves no gap, with requests writing the table while it runs.    *)
(* It starts behind MAX(date), and returns at once when that is today or   *)
(* later: so what has to be carried along is that today is priced when a   *)
(* later day is.  A fulfilment may price tomorrow (west of UTC), but only  *)
(* in a month that has begun, and the days of a month are always priced    *)
(* from its first one on.                                                  *)
(***************************************************************************)

\* The days of d's month before d are priced.
MonthBegun(d) == \A e \in Days : MonthStart(d) <= e /\ e < d => Priced(e)

NoGapInMonth == \A d \in PricedDays : MonthBegun(d)

MonthCame == \A d \in PricedDays : MonthStart(d) <= localDay

FillCover ==
    /\ fill.pc \in {"inventory", "latest"} =>
          \A d \in PricedDays : MonthStart(d) <= fill.last
    /\ fill.pc \in {"check", "save"} =>
          /\ fill.from <= fill.day /\ fill.day <= fill.last
          /\ \A d \in Days : fill.from <= d /\ d < fill.day => Priced(d)
          /\ MonthBegun(fill.day)
    /\ fill.pc \in {"latest", "check", "save"} => fill.snap # Blank

CallMonthCame ==
    \A c \in Callers : call[c].pc \in {"saveMonth", "saveDays"} =>
        /\ call[c].month <= call[c].last /\ call[c].last <= localDay
        /\ call[c].snap # Blank

\* Requests run, and a scheduled fill is about today, while the process serves.
Phases ==
    /\ server = "serving" /\ fill.pc # "idle" => fill.last = localDay
    /\ server # "serving" =>
          \A c \in Callers : call[c].pc \notin {"fulfill", "saveMonth", "saveDays"}

CoverInv == NoGapInMonth /\ MonthCame /\ FillCover /\ CallMonthCame /\ Phases

LEMMA CoverInit == Init => CoverInv
  BY DEF Init, CoverInv, NoGapInMonth, MonthCame, FillCover, CallMonthCame, Phases,
         PricedDays, Priced, IdleFill, IdleCall

\* A day that starts no month is in the month of the day before.
LEMMA SameMonthNextDay ==
  ASSUME NEW d \in Days, d + 1 \in Days, MonthStart(d + 1) # d + 1
  PROVE  MonthStart(d + 1) = MonthStart(d)
<1> DEFINE s == MonthStart(d + 1)
<1>1. s \in Days /\ s \in Nat /\ d \in Nat /\ s <= d /\ MonthStart(s) = s /\ DaysInMonth(s) \in Nat
  BY MonthStartType, CalendarAssumption, BoundsAssumption DEF Days
<1>2. d + 1 < s + DaysInMonth(s)
  BY <1>1, MonthsAssumption
<1>3. QED
  BY <1>1, <1>2, MonthsAssumption

\* After a priced day whose month has no gap, the next day's has none either.
LEMMA MonthBegunNextDay ==
  ASSUME NEW d \in Days, d + 1 \in Days, Priced(d)', MonthBegun(d)'
  PROVE  MonthBegun(d + 1)'
<1>1. d \in Nat /\ \A e \in Days : e \in Nat /\ (e < d + 1 => e < d \/ e = d)
  BY DEF Days
<1>2. CASE MonthStart(d + 1) = d + 1
  BY <1>1, <1>2 DEF MonthBegun
<1>3. CASE MonthStart(d + 1) # d + 1
  BY <1>1, <1>3, SameMonthNextDay DEF MonthBegun
<1>4. QED
  BY <1>2, <1>3

\* No step removes the prices of a day.
LEMMA PricedStays ==
  ASSUME TypeOK, TypeOK', [Next]_vars, NEW d \in Days, Priced(d)
  PROVE  Priced(d)'
<1>1. daily[d] \in Page /\ daily'[d] \in Page
  BY DEF TypeOK
<1>2. PICK dc \in Datacenters : daily[d][dc] # 0
  BY <1>1 DEF Priced, Blank, Page
<1>3. daily'[d][dc] # 0
  BY <1>2, PricesStay
<1>4. QED
  BY <1>3 DEF Priced, Blank

\* Who prices a day that had no prices: a fill, or a fulfilment.
LEMMA NewlyPriced ==
  ASSUME TypeOK, TypeOK', AheadInv, AllThrough, CoverInv, [Next]_vars,
         NEW d \in Days, ~Priced(d), Priced(d)'
  PROVE  /\ \A e \in Days : MonthStart(d) <= e /\ e < d => Priced(e)'
         /\ UNCHANGED localDay
         /\ MonthStart(d) <= localDay
         /\ fill.pc \in {"inventory", "latest"} => MonthStart(d) <= fill.last /\ fill' = fill
<1>t. /\ daily \in [Days -> Page] /\ call \in [Callers -> CallState] /\ fill \in FillState
      /\ localDay \in Nat /\ fill.last \in Nat /\ fill.day \in Nat /\ d \in Nat
      /\ MonthStart(d) \in Nat /\ MonthStart(d) <= d
  <2>1. /\ daily \in [Days -> Page] /\ call \in [Callers -> CallState] /\ fill \in FillState
        /\ localDay \in Days
    BY DEF TypeOK
  <2>2. d \in Nat /\ MonthStart(d) \in Nat /\ MonthStart(d) <= d
    BY CalendarAssumption DEF Days
  <2>3. QED
    BY <2>1, <2>2, BoundsAssumption DEF FillState, Days
<1>p. \A e \in Days : Priced(e) => Priced(e)'
  BY PricedStays
<1>d. daily' # daily
  BY DEF Priced
<1>1. ASSUME fill.pc = "save", daily' = UpsertAt(daily, {fill.day}, fill.snap),
             UNCHANGED localDay
      PROVE  /\ \A e \in Days : MonthStart(d) <= e /\ e < d => Priced(e)'
             /\ UNCHANGED localDay
             /\ MonthStart(d) <= localDay
             /\ fill.pc \in {"inventory", "latest"} => MonthStart(d) <= fill.last /\ fill' = fill
  <2>1. d = fill.day
    BY <1>1, <1>t, UpsertElsewhere DEF Priced, FillState
  <2>2. fill.day <= localDay /\ MonthBegun(fill.day)
    BY <1>1, <1>t DEF AheadInv, FillInside, FillNotAhead, CoverInv, FillCover
  <2>3. QED
    BY <1>1, <1>p, <1>t, <2>1, <2>2 DEF MonthBegun
<1>2. ASSUME NEW c \in Callers, call[c].pc = "saveDays",
             daily' = UpsertAt(daily, FulfillDays(call[c]), call[c].snap),
             UNCHANGED <<localDay, fill>>
      PROVE  /\ \A e \in Days : MonthStart(d) <= e /\ e < d => Priced(e)'
             /\ UNCHANGED localDay
             /\ MonthStart(d) <= localDay
             /\ fill.pc \in {"inventory", "latest"} => MonthStart(d) <= fill.last /\ fill' = fill
  <2> DEFINE m == call[c].month
  <2>1. /\ call[c].snap \in Page /\ m \in Days /\ m \in Nat /\ MonthStart(m) = m
        /\ call[c].limit \in Nat /\ call[c].last \in Nat /\ DaysInMonth(m) \in Nat
        /\ m <= call[c].last /\ call[c].last <= localDay /\ call[c].snap # Blank
    <3>1. MonthStart(m) = m
      BY <1>2 DEF AllThrough, Through
    <3>2. m <= call[c].last /\ call[c].last <= localDay /\ call[c].snap # Blank
      BY <1>2 DEF CoverInv, CallMonthCame
    <3>3. /\ call[c].snap \in Page /\ m \in Days /\ m \in Nat
          /\ call[c].limit \in Nat /\ call[c].last \in Nat
      BY <1>t, BoundsAssumption DEF CallState, Days
    <3>4. QED
      BY <3>1, <3>2, <3>3, CalendarAssumption
  <2>2. d \in FulfillDays(call[c])
    BY <1>2, <1>t, <2>1, UpsertElsewhere DEF Priced
  <2>3. m <= d /\ d < m + DaysInMonth(m) /\ d <= call[c].limit
    BY <2>1, <2>2 DEF FulfillDays, NextMonth
  <2>4. MonthStart(d) = m
    BY <2>1, <2>3, MonthsAssumption
  <2>5. ASSUME NEW e \in Days, MonthStart(d) <= e, e < d
        PROVE  Priced(e)'
    <3>1. e \in FulfillDays(call[c])
      BY <1>t, <2>1, <2>3, <2>4, <2>5 DEF FulfillDays, NextMonth, Days
    <3>2. daily'[e] = Upsert(daily[e], call[c].snap)
      BY <1>2, <3>1 DEF UpsertAt
    <3>3. daily[e] \in Page
      BY <1>t
    <3>4. QED
      BY <2>1, <3>2, <3>3, UpsertNotBlank DEF Priced
  <2>6. fill.pc # "idle" => fill.last = localDay
    BY <1>2 DEF CoverInv, Phases
  <2>7. MonthStart(d) <= localDay
    BY <1>t, <2>1, <2>4
  <2>8. QED
    BY <1>2, <2>5, <2>6, <2>7
<1>3. CASE FillSaveDay
  BY <1>1, <1>3 DEF FillSaveDay, clock
<1>4. CASE FillFail
  BY <1>1, <1>4, <1>d DEF FillFail, clock
<1>5. ASSUME NEW c \in Callers, CallStep(c)
      PROVE  call[c].pc = "saveDays" /\ UNCHANGED <<localDay, fill>>
             /\ daily' = UpsertAt(daily, FulfillDays(call[c]), call[c].snap)
  BY <1>5, <1>d DEF CallStep, ReadForMonth, SavePrice, ReadForFulfill, FulfillSaveMonth,
                    FulfillSaveDays, tables, clock
<1>6. ASSUME NEW c \in Callers, CallFail(c)
      PROVE  call[c].pc = "saveDays" /\ UNCHANGED <<localDay, fill>>
             /\ daily' = UpsertAt(daily, FulfillDays(call[c]), call[c].snap)
  BY <1>6, <1>d DEF CallFail, tables, clock
<1>7. FillSaveDay \/ FillFail \/ \E c \in Callers : CallStep(c) \/ CallFail(c)
  BY <1>d DEF Next, Midnight, MidnightUTC, EditInventory, Boot, StartupFill, Serve, Crash,
              DailyTimer, FillStep, FillReadInventory, FillReadLatest, FillCheckDay,
              MonthlyTimer, RequestMonthly, RequestFulfill, tables, vars
<1>8. QED
  BY <1>2, <1>3, <1>4, <1>5, <1>6, <1>7

\* The clock does not run back.
LEMMA DayForward ==
  ASSUME TypeOK, TypeOK', [Next]_vars
  PROVE  localDay <= localDay' /\ localDay \in Nat /\ localDay' \in Nat
<1>1. localDay' = localDay \/ localDay' = localDay + 1
  BY DEF Next, Midnight, MidnightUTC, EditInventory, Boot, StartupFill, Serve, Crash,
         DailyTimer, FillStep, FillReadInventory, FillReadLatest, FillCheckDay,
         FillSaveDay, FillFail, MonthlyTimer, RequestMonthly, RequestFulfill, CallStep,
         ReadForMonth, SavePrice, ReadForFulfill, FulfillSaveMonth, FulfillSaveDays,
         CallFail, clock, vars
<1>2. localDay \in Nat /\ localDay' \in Nat
  BY DEF TypeOK, Days
<1>3. QED
  BY <1>1, <1>2

LEMMA NoGapStep ==
  ASSUME TypeOK, TypeOK', AheadInv, AllThrough, CoverInv, [Next]_vars
  PROVE  NoGapInMonth' /\ MonthCame'
<1>1. ASSUME NEW d \in Days, Priced(d)'
      PROVE  /\ \A e \in Days : MonthStart(d) <= e /\ e < d => Priced(e)'
             /\ MonthStart(d) <= localDay'
  <2>1. CASE Priced(d)
    <3>1. localDay <= localDay' /\ localDay \in Nat /\ localDay' \in Nat /\ MonthStart(d) \in Nat
      BY DayForward, CalendarAssumption
    <3>2. d \in PricedDays
      BY <2>1 DEF PricedDays
    <3>3. QED
      BY <3>1, <3>2, PricedStays DEF CoverInv, NoGapInMonth, MonthBegun, MonthCame
  <2>2. CASE ~Priced(d)
    BY <1>1, <2>2, NewlyPriced
  <2>3. QED
    BY <2>1, <2>2
<1>2. QED
  BY <1>1 DEF NoGapInMonth, MonthBegun, MonthCame, PricedDays

\* How a step changes a run that is, or gets, in the loop of a fulfilment.
LEMMA CallMonthStep ==
  ASSUME TypeOK, TypeOK', CoverInv, [Next]_vars
  PROVE  CallMonthCame'
<1> SUFFICES ASSUME NEW c \in Callers, call'[c].pc \in {"saveMonth", "saveDays"}
             PROVE  /\ call'[c].month <= call'[c].last /\ call'[c].last <= localDay'
                    /\ call'[c].snap # Blank
  BY DEF CallMonthCame
<1>t. call \in [Callers -> CallState] /\ call[c] \in CallState /\ call[c].last \in Nat
      /\ call[c].month \in Nat
  BY DEF TypeOK, CallState, Days
<1>c. "main" \in Callers /\ "monthly" \in Callers /\ Requests \subseteq Callers
  BY DEF Callers
<1>day. localDay <= localDay' /\ localDay \in Nat /\ localDay' \in Nat
  BY DayForward
<1>old. call[c].pc \in {"saveMonth", "saveDays"} =>
          /\ call[c].month <= call[c].last /\ call[c].last <= localDay
          /\ call[c].snap # Blank
  BY DEF CoverInv, CallMonthCame
<1>same. ASSUME call'[c] = call[c]
         PROVE  /\ call'[c].month <= call'[c].last /\ call'[c].last <= localDay'
                /\ call'[c].snap # Blank
  BY <1>same, <1>old, <1>day, <1>t
<1>1. CASE UNCHANGED call
  BY <1>1, <1>same
<1>2. CASE Crash
  BY <1>2 DEF Crash, IdleCall
<1>3. CASE Boot \/ MonthlyTimer
  <2>1. [IdleCall EXCEPT !.pc = "create"].pc = "create"
        /\ [IdleCall EXCEPT !.pc = "ensure", !.month = PreviousMonth(localDay)].pc = "ensure"
    BY DEF IdleCall
  <2>2. call'[c] = call[c]
    <3>1. CASE Boot
      BY <1>c, <1>t, <2>1, <3>1 DEF Boot
    <3>2. CASE MonthlyTimer
      BY <1>c, <1>t, <2>1, <3>2 DEF MonthlyTimer
    <3>3. QED
      BY <1>3, <3>1, <3>2
  <2>3. QED
    BY <1>same, <2>2
<1>4. ASSUME NEW r \in Requests, RequestMonthly(r) \/ \E start \in Days : RequestFulfill(r, start)
      PROVE  call'[c] = call[c]
  <2>1. \A p, start : [IdleCall EXCEPT !.pc = p].pc = p
                   /\ [IdleCall EXCEPT !.pc = p, !.start = MonthStart(start)].pc = p
    BY DEF IdleCall
  <2>2. CASE RequestMonthly(r)
    BY <1>c, <1>t, <2>1, <2>2 DEF RequestMonthly
  <2>3. ASSUME NEW start \in Days, RequestFulfill(r, start)
        PROVE  call'[c] = call[c]
    <3>1. [IdleCall EXCEPT !.pc = "fulfill", !.start = MonthStart(start)].pc = "fulfill"
      BY <2>1
    <3>2. QED
      BY <1>c, <1>t, <2>3, <3>1 DEF RequestFulfill
  <2>4. QED
    BY <1>4, <2>2, <2>3
<1>5. ASSUME NEW b \in Callers, b # c, CallStep(b) \/ CallFail(b)
      PROVE  call'[c] = call[c]
  BY <1>5, <1>t DEF CallStep, ReadForMonth, SavePrice, ReadForFulfill, FulfillSaveMonth,
                    FulfillSaveDays, CallFail
<1>6. ~ReadForMonth(c) /\ ~SavePrice(c) /\ ~CallFail(c)
  <2>1. ~ReadForMonth(c)
    <3>1. CASE Snapshot = Blank
      BY <1>t, <3>1 DEF ReadForMonth, IdleCall
    <3>2. CASE Snapshot # Blank
      BY <1>t, <3>2 DEF ReadForMonth, CallState
    <3>3. QED
      BY <3>1, <3>2
  <2>2. ~SavePrice(c) /\ ~CallFail(c)
    BY <1>t DEF SavePrice, CallFail, IdleCall
  <2>3. QED
    BY <2>1, <2>2
<1>7. CASE ReadForFulfill(c)
  <2> DEFINE read == [call[c] EXCEPT !.snap = Snapshot, !.last = MonthStart(localDay),
                                     !.limit = utcDay]
             start == call[c].start
             entered == [read EXCEPT !.pc = "saveMonth", !.month = start]
  <2>1. Snapshot # Blank /\ call'[c] = EnterMonth(read, start)
    BY <1>7, <1>t DEF ReadForFulfill, IdleCall
  <2>2. read.last = MonthStart(localDay) /\ read.snap = Snapshot
    BY <1>t DEF CallState
  <2>3. start <= read.last /\ call'[c] = entered
    BY <2>1 DEF EnterMonth, IdleCall
  <2>4. entered.month = start /\ entered.last = read.last /\ entered.snap = Snapshot
    BY <1>t DEF CallState
  <2>5. MonthStart(localDay) \in Nat /\ MonthStart(localDay) <= localDay
    BY CalendarAssumption DEF TypeOK
  <2> HIDE DEF read, entered
  <2>6. QED
    BY <1>day, <2>1, <2>2, <2>3, <2>4, <2>5
<1>8. CASE FulfillSaveMonth(c)
  <2>1. /\ call'[c].month = call[c].month /\ call'[c].last = call[c].last
        /\ call'[c].snap = call[c].snap /\ call[c].pc = "saveMonth"
    BY <1>8, <1>t DEF FulfillSaveMonth, CallState
  <2>2. QED
    BY <1>day, <1>old, <1>t, <2>1
<1>9. CASE FulfillSaveDays(c)
  <2> DEFINE n == NextMonth(call[c].month)
             entered == [call[c] EXCEPT !.pc = "saveMonth", !.month = n]
  <2>1. call'[c] = EnterMonth(call[c], n) /\ call[c].pc = "saveDays"
    BY <1>9, <1>t DEF FulfillSaveDays
  <2>2. n <= call[c].last /\ call'[c] = entered
    BY <2>1 DEF EnterMonth, IdleCall
  <2>3. entered.month = n /\ entered.last = call[c].last /\ entered.snap = call[c].snap
    BY <1>t DEF CallState
  <2> HIDE DEF entered
  <2>4. QED
    BY <1>day, <1>old, <1>t, <2>1, <2>2, <2>3
<1>10. QED
  BY <1>1, <1>2, <1>3, <1>4, <1>5, <1>6, <1>7, <1>8, <1>9, <1>same
     DEF Next, Midnight, MidnightUTC, EditInventory, StartupFill, Serve, DailyTimer,
         FillStep, FillReadInventory, FillReadLatest, FillCheckDay, FillSaveDay, FillFail,
         CallStep, vars

\* A step of a fill ends it or leaves the day it is about alone.
LEMMA FillKeepsLast ==
  ASSUME TypeOK, FillStep \/ FillFail
  PROVE  /\ fill.pc # "idle"
         /\ fill'.pc # "idle" => fill'.last = fill.last
         /\ UNCHANGED <<localDay, server, call>>
<1>t. fill \in FillState
  BY DEF TypeOK
<1>1. CASE FillReadInventory
  <2>1. CASE fill' = IdleFill
    BY <1>1, <2>1 DEF FillReadInventory, IdleFill, clock, process
  <2>2. CASE fill' = [fill EXCEPT !.pc = "latest", !.snap = Snapshot]
    BY <1>1, <1>t, <2>2 DEF FillReadInventory, clock, process, FillState
  <2>3. QED
    BY <1>1, <2>1, <2>2 DEF FillReadInventory
<1>2. CASE FillReadLatest
  <2>1. PICK first \in 0..(MaxDay + 1) :
          fill' = IF first > fill.last THEN IdleFill
                  ELSE [fill EXCEPT !.pc = "check", !.from = first, !.day = first]
    BY <1>2 DEF FillReadLatest
  <2>2. fill' = IdleFill \/ fill'.last = fill.last
    BY <1>t, <2>1 DEF FillState
  <2>3. QED
    BY <1>2, <2>2 DEF FillReadLatest, IdleFill, clock, process
<1>3. CASE FillCheckDay
  <2>1. fill'.pc # "idle" => fill'.last = fill.last
    <3>1. CASE Priced(fill.day)
      BY <1>3, <3>1, NextFillDayInside DEF FillCheckDay
    <3>2. CASE ~Priced(fill.day)
      BY <1>3, <1>t, <3>2 DEF FillCheckDay, FillState
    <3>3. QED
      BY <3>1, <3>2
  <2>2. QED
    BY <1>3, <2>1 DEF FillCheckDay, clock, process
<1>4. CASE FillSaveDay
  BY <1>4, NextFillDayInside DEF FillSaveDay, clock, process
<1>5. CASE FillFail
  BY <1>5 DEF FillFail, IdleFill, clock, process
<1>6. QED
  BY <1>1, <1>2, <1>3, <1>4, <1>5 DEF FillStep

LEMMA PhasesStep ==
  ASSUME TypeOK, CoverInv, [Next]_vars
  PROVE  Phases'
<1> DEFINE busy(pc) == pc \in {"fulfill", "saveMonth", "saveDays"}
<1>t. call \in [Callers -> CallState] /\ "main" \in Callers /\ "monthly" \in Callers
      /\ Requests \subseteq Callers
  BY DEF TypeOK, Callers
<1>i. Phases
  BY DEF CoverInv
<1>still. ASSUME UNCHANGED <<localDay, server, fill, call>>
          PROVE  Phases'
  BY <1>i, <1>still DEF Phases
<1>1. CASE Midnight
  BY <1>1, <1>i DEF Midnight, SchedulersRest, Phases
<1>2. CASE MidnightUTC \/ \E dc \in Datacenters : EditInventory(dc)
  BY <1>2, <1>still DEF MidnightUTC, EditInventory, clock, process
<1>3. CASE Boot
  BY <1>3, <1>i, <1>t DEF Boot, Phases, IdleCall
<1>4. CASE StartupFill
  BY <1>4, <1>i DEF StartupFill, Phases
<1>5. CASE Serve
  BY <1>5 DEF Serve, Phases
<1>6. CASE Crash
  BY <1>6 DEF Crash, Phases, IdleFill, IdleCall
<1>7. CASE DailyTimer
  BY <1>7, <1>i DEF DailyTimer, Phases, clock, IdleFill
<1>8. CASE FillStep \/ FillFail
  BY <1>8, <1>i, FillKeepsLast DEF Phases
<1>9. ASSUME NEW c \in Callers, UNCHANGED <<localDay, server, fill>>,
             \A b \in Callers : b # c => call'[b] = call[b],
             busy(call'[c].pc) => busy(call[c].pc) \/ server = "serving"
      PROVE  Phases'
  BY <1>9, <1>i DEF Phases
<1>10. CASE MonthlyTimer
  <2>1. [IdleCall EXCEPT !.pc = "ensure", !.month = PreviousMonth(localDay)].pc = "ensure"
    BY DEF IdleCall
  <2>2. QED
    BY <1>9, <1>10, <1>t, <2>1 DEF MonthlyTimer, clock
<1>11. ASSUME NEW r \in Requests, RequestMonthly(r) \/ \E start \in Days : RequestFulfill(r, start)
       PROVE  Phases'
  <2>1. /\ UNCHANGED <<localDay, server, fill>> /\ server = "serving" /\ r \in Callers
        /\ \A b \in Callers : b # r => call'[b] = call[b]
    BY <1>11, <1>t DEF RequestMonthly, RequestFulfill, clock, process
  <2>2. QED
    BY <1>9, <2>1
<1>12. ASSUME NEW c \in Callers, CallStep(c) \/ CallFail(c)
       PROVE  Phases'
  <2>1. /\ UNCHANGED <<localDay, server, fill>>
        /\ \A b \in Callers : b # c => call'[b] = call[b]
    BY <1>12, <1>t DEF CallStep, ReadForMonth, SavePrice, ReadForFulfill, FulfillSaveMonth,
                       FulfillSaveDays, CallFail, clock, process
  <2>2. busy(call'[c].pc) => busy(call[c].pc)
    <3>1. CASE ReadForMonth(c)
      <4>1. CASE Snapshot = Blank
        BY <1>t, <3>1, <4>1 DEF ReadForMonth, IdleCall
      <4>2. CASE Snapshot # Blank
        BY <1>t, <3>1, <4>2 DEF ReadForMonth, CallState
      <4>3. QED
        BY <4>1, <4>2
    <3>2. CASE SavePrice(c) \/ CallFail(c)
      BY <1>t, <3>2 DEF SavePrice, CallFail, IdleCall
    <3>3. CASE ReadForFulfill(c) \/ FulfillSaveMonth(c) \/ FulfillSaveDays(c)
      BY <3>3 DEF ReadForFulfill, FulfillSaveMonth, FulfillSaveDays
    <3>4. QED
      BY <1>12, <3>1, <3>2, <3>3 DEF CallStep
  <2>3. QED
    BY <1>9, <2>1, <2>2
<1>13. CASE UNCHANGED vars
  BY <1>13, <1>still DEF vars
<1>14. QED
  BY <1>1, <1>2, <1>3, <1>4, <1>5, <1>6, <1>7, <1>8, <1>10, <1>11, <1>12, <1>13 DEF Next

\* The next turn of the loop, after a step that leaves the day in hand priced.
LEMMA NextFillDayCovers ==
  ASSUME TypeOK, TypeOK', CoverInv, [Next]_vars, fill.pc \in {"check", "save"},
         fill' = NextFillDay, Priced(fill.day) \/ \A d \in Days : d = fill.day => Priced(d)'
  PROVE  FillCover'
<1>t. /\ fill \in FillState /\ fill.from \in Nat /\ fill.day \in Nat /\ fill.last \in Nat
      /\ fill.last \in Days /\ fill.last <= MaxDay
  BY BoundsAssumption DEF TypeOK, FillState, Days
<1>i. /\ fill.from <= fill.day /\ fill.day <= fill.last /\ fill.snap # Blank
      /\ \A d \in Days : fill.from <= d /\ d < fill.day => Priced(d)
      /\ \A e \in Days : MonthStart(fill.day) <= e /\ e < fill.day => Priced(e)
  BY DEF CoverInv, FillCover, MonthBegun
<1>d. fill.day \in Days
  BY <1>t, <1>i, BoundsAssumption DEF Days
<1>1. CASE fill.day < fill.last
  <2>1. fill' = [fill EXCEPT !.pc = "check", !.day = @ + 1]
    BY <1>1 DEF NextFillDay
  <2>2. /\ fill'.pc = "check" /\ fill'.from = fill.from /\ fill'.day = fill.day + 1
        /\ fill'.last = fill.last /\ fill'.snap = fill.snap
    BY <1>t, <2>1 DEF FillState
  <2>3. \A d \in Days : Priced(d) => Priced(d)'
    BY PricedStays
  <2>4. \A d \in Days : d = fill.day => Priced(d)'
    BY <1>d, <2>3
  <2>5. \A d \in Days : d < fill.day + 1 => d < fill.day \/ d = fill.day
    BY <1>t DEF Days
  <2>6. fill.day + 1 \in Days
    BY <1>1, <1>t, <1>d, BoundsAssumption DEF Days
  <2>7. \A d \in Days : d + 1 \in Days /\ Priced(d)' /\ MonthBegun(d)' => MonthBegun(d + 1)'
    BY MonthBegunNextDay
  <2>8. \A d \in Days : d = fill.day => MonthBegun(d)'
    BY <1>i, <2>3 DEF MonthBegun
  <2>9. \A d \in Days : d = fill.day => MonthBegun(d + 1)'
    BY <2>4, <2>6, <2>7, <2>8
  <2>10. \A e \in Days : MonthStart(fill.day + 1) <= e /\ e < fill.day + 1 => Priced(e)'
    BY <1>d, <2>9 DEF MonthBegun
  <2>11. \A d \in Days : fill.from <= d /\ d < fill.day + 1 => Priced(d)'
    BY <1>i, <2>3, <2>4, <2>5
  <2>12. fill.from <= fill.day + 1 /\ fill.day + 1 <= fill.last
    BY <1>1, <1>i, <1>t
  <2>13. QED
    BY <1>i, <2>2, <2>10, <2>11, <2>12 DEF FillCover, MonthBegun
<1>2. CASE ~(fill.day < fill.last)
  BY <1>2 DEF NextFillDay, FillCover, IdleFill
<1>3. QED
  BY <1>1, <1>2

\* The day after MAX(date), or the first of the month: its month has no gap.
LEMMA FirstDayCovers ==
  ASSUME TypeOK, TypeOK', CoverInv, [Next]_vars, FillReadLatest
  PROVE  FillCover'
<1>t. /\ fill \in FillState /\ fill.last \in Nat /\ fill.last \in Days /\ fill.last <= MaxDay
      /\ fill.snap # Blank /\ fill.pc = "latest"
  BY BoundsAssumption DEF TypeOK, FillState, Days, FillReadLatest, CoverInv, FillCover
<1>u. UNCHANGED daily
  BY DEF FillReadLatest, tables
<1>1. PICK first \in 0..(MaxDay + 1) :
        /\ IsFirstDailyPriceDay(first)
        /\ fill' = IF first > fill.last THEN IdleFill
                   ELSE [fill EXCEPT !.pc = "check", !.from = first, !.day = first]
  BY DEF FillReadLatest
<1>2. CASE first > fill.last
  BY <1>1, <1>2 DEF FillCover, IdleFill
<1>3. CASE ~(first > fill.last)
  <2>1. /\ fill'.pc = "check" /\ fill'.from = first /\ fill'.day = first
        /\ fill'.last = fill.last /\ fill'.snap = fill.snap /\ first \in Nat /\ first \in Days
        /\ first <= fill.last
    BY <1>1, <1>3, <1>t, BoundsAssumption DEF FillState, Days
  <2>2. MonthBegun(first)'
    <3>1. CASE PricedDays = {}
      <4>1. MonthStart(first) = first
        BY <1>1, <1>t, <3>1, CalendarAssumption DEF IsFirstDailyPriceDay
      <4>2. QED
        BY <2>1, <4>1 DEF MonthBegun, Days
    <3>2. CASE PricedDays # {}
      <4>1. PICK latest \in PricedDays : first = latest + 1
        BY <1>1, <3>2 DEF IsFirstDailyPriceDay
      <4>2. latest \in Days /\ Priced(latest)' /\ MonthBegun(latest)'
        BY <1>u DEF PricedDays, Priced, CoverInv, NoGapInMonth, MonthBegun
      <4>3. QED
        BY <2>1, <4>1, <4>2, MonthBegunNextDay
    <3>3. QED
      BY <3>1, <3>2
  <2>3. \A d \in Days : ~(first <= d /\ d < first)
    BY <2>1 DEF Days
  <2>4. \A e \in Days : MonthStart(first) <= e /\ e < first => Priced(e)'
    BY <2>2 DEF MonthBegun
  <2>5. QED
    BY <1>t, <2>1, <2>3, <2>4 DEF FillCover, MonthBegun
<1>4. QED
  BY <1>2, <1>3

LEMMA FillCoverStep ==
  ASSUME TypeOK, TypeOK', AheadInv, AllThrough, CoverInv, [Next]_vars
  PROVE  FillCover'
<1>t. fill \in FillState /\ fill.last \in Nat
  BY DEF TypeOK, FillState, Days
<1>p. \A d \in Days : Priced(d) => Priced(d)'
  BY PricedStays
<1>i. FillCover
  BY DEF CoverInv
<1>same. ASSUME fill' = fill
         PROVE  FillCover'
  <2>1. fill.pc \in {"inventory", "latest"} =>
            \A d \in PricedDays' : MonthStart(d) <= fill.last
    <3>1. SUFFICES ASSUME fill.pc \in {"inventory", "latest"}, NEW d \in Days, Priced(d)'
                   PROVE  MonthStart(d) <= fill.last
      BY DEF PricedDays
    <3>2. CASE Priced(d)
      BY <1>i, <3>1, <3>2 DEF FillCover, PricedDays
    <3>3. CASE ~Priced(d)
      BY <3>1, <3>3, NewlyPriced
    <3>4. QED
      BY <3>2, <3>3
  <2>2. fill.pc \in {"check", "save"} =>
            /\ \A d \in Days : fill.from <= d /\ d < fill.day => Priced(d)'
            /\ \A e \in Days : MonthStart(fill.day) <= e /\ e < fill.day => Priced(e)'
    BY <1>i, <1>p DEF FillCover, MonthBegun
  <2>3. QED
    BY <1>i, <1>same, <2>1, <2>2 DEF FillCover, MonthBegun
<1>idle. ASSUME fill' = IdleFill
         PROVE  FillCover'
  BY <1>idle DEF FillCover, IdleFill
<1>1. CASE StartupFill \/ DailyTimer
  <2>1. fill' = [IdleFill EXCEPT !.pc = "inventory", !.last = localDay]
        /\ UNCHANGED daily
    BY <1>1 DEF StartupFill, DailyTimer, tables
  <2>2. fill'.pc = "inventory" /\ fill'.last = localDay
    BY <2>1 DEF IdleFill
  <2>3. \A d \in PricedDays' : MonthStart(d) <= localDay
    BY <2>1 DEF CoverInv, MonthCame, PricedDays, Priced
  <2>4. QED
    BY <2>2, <2>3 DEF FillCover
<1>2. CASE FillReadInventory
  <2>1. CASE Snapshot = Blank
    BY <1>2, <1>idle, <2>1 DEF FillReadInventory
  <2>2. CASE Snapshot # Blank
    <3>1. fill'.pc = "latest" /\ fill'.last = fill.last /\ fill'.snap # Blank
      BY <1>2, <1>t, <2>2 DEF FillReadInventory, FillState
    <3>2. \A d \in PricedDays' : MonthStart(d) <= fill.last
      BY <1>2, <1>i DEF FillReadInventory, FillCover, PricedDays, Priced, tables
    <3>3. QED
      BY <3>1, <3>2 DEF FillCover
  <2>3. QED
    BY <2>1, <2>2
<1>3. CASE FillReadLatest
  BY <1>3, FirstDayCovers
<1>4. CASE FillCheckDay
  <2>1. CASE Priced(fill.day)
    BY <1>4, <2>1, NextFillDayCovers DEF FillCheckDay
  <2>2. CASE ~Priced(fill.day)
    <3>1. /\ fill'.pc = "save" /\ fill'.from = fill.from /\ fill'.day = fill.day
          /\ fill'.last = fill.last /\ fill'.snap = fill.snap /\ fill.pc = "check"
      BY <1>4, <1>t, <2>2 DEF FillCheckDay, FillState
    <3>2. /\ \A d \in Days : fill.from <= d /\ d < fill.day => Priced(d)'
          /\ \A e \in Days : MonthStart(fill.day) <= e /\ e < fill.day => Priced(e)'
      BY <1>i, <1>p, <3>1 DEF FillCover, MonthBegun
    <3>3. QED
      BY <1>i, <3>1, <3>2 DEF FillCover, MonthBegun
  <2>3. QED
    BY <2>1, <2>2
<1>5. CASE FillSaveDay
  <2>1. /\ daily \in [Days -> Page] /\ fill.snap \in Page /\ fill.snap # Blank
        /\ daily' = UpsertAt(daily, {fill.day}, fill.snap) /\ fill.pc = "save"
        /\ fill' = NextFillDay
    BY <1>5, <1>i, <1>t DEF FillSaveDay, TypeOK, FillState, FillCover
  <2>2. ASSUME NEW d \in Days, d = fill.day
        PROVE  Priced(d)'
    <3>1. daily'[d] = Upsert(daily[d], fill.snap)
      BY <2>1, <2>2 DEF UpsertAt
    <3>2. QED
      BY <2>1, <3>1, UpsertNotBlank DEF Priced
  <2>3. QED
    BY <2>1, <2>2, NextFillDayCovers
<1>6. QED
  BY <1>1, <1>2, <1>3, <1>4, <1>5, <1>same, <1>idle
     DEF Next, Midnight, MidnightUTC, EditInventory, Boot, Serve, Crash, FillStep, FillFail,
         MonthlyTimer, RequestMonthly, RequestFulfill, CallStep, ReadForMonth, SavePrice,
         ReadForFulfill, FulfillSaveMonth, FulfillSaveDays, CallFail, vars

LEMMA CoverStep ==
  TypeOK /\ TypeOK' /\ AheadInv /\ AllThrough /\ CoverInv /\ [Next]_vars => CoverInv'
  BY NoGapStep, CallMonthStep, PhasesStep, FillCoverStep DEF CoverInv

\* The step with which a fill returns nil.
LEMMA LastFillDayPriced ==
  TypeOK /\ TypeOK' /\ CoverInv /\ [Next]_vars =>
      [FillReturnsNil /\ fill.pc # "inventory" =>
            /\ daily'[fill.last] # Blank
            /\ fill.pc # "latest" =>
                 \A d \in fill.from..fill.last : daily'[d] # Blank]_vars
<1> SUFFICES ASSUME TypeOK, TypeOK', CoverInv, [Next]_vars,
                    FillReturnsNil, fill.pc # "inventory"
             PROVE  /\ daily'[fill.last] # Blank
                    /\ fill.pc # "latest" =>
                         \A d \in fill.from..fill.last : daily'[d] # Blank
  OBVIOUS
<1>t. /\ fill \in FillState /\ fill.from \in Nat /\ fill.day \in Nat /\ fill.last \in Nat
      /\ fill.last \in Days /\ fill.last <= MaxDay /\ daily \in [Days -> Page]
  BY BoundsAssumption DEF TypeOK, FillState, Days
<1>p. \A d \in Days : Priced(d) => Priced(d)'
  BY PricedStays
<1>1. FillReadLatest \/ FillCheckDay \/ FillSaveDay
  <2>1. ~Crash /\ ~FillFail
    BY DEF FillReturnsNil, Crash, FillFail, TypeOK
  <2>2. ~StartupFill /\ ~DailyTimer
    BY DEF FillReturnsNil, StartupFill, DailyTimer, IdleFill
  <2>3. ~FillReadInventory
    BY DEF FillReadInventory
  <2>4. fill' # fill
    BY DEF FillReturnsNil
  <2>5. QED
    BY <2>1, <2>2, <2>3, <2>4
       DEF Next, Midnight, MidnightUTC, EditInventory, Boot, Serve, FillStep, MonthlyTimer,
           RequestMonthly, RequestFulfill, CallStep, ReadForMonth, SavePrice,
           ReadForFulfill, FulfillSaveMonth, FulfillSaveDays, CallFail, vars
\* Today's prices were there: MAX(date) is today, or a later day of a month
\* that had begun.
<1>2. CASE FillReadLatest
  <2>1. PICK first \in 0..(MaxDay + 1) : IsFirstDailyPriceDay(first) /\ first > fill.last
    BY <1>2, <1>t DEF FillReadLatest, FillReturnsNil, FillState
  <2>2. PricedDays # {}
    BY <1>t, <2>1, CalendarAssumption DEF IsFirstDailyPriceDay
  <2>3. PICK latest \in PricedDays : first = latest + 1
    BY <2>1, <2>2 DEF IsFirstDailyPriceDay
  <2>4. latest \in Days /\ latest \in Nat /\ Priced(latest) /\ fill.last <= latest
    BY <1>t, <2>1, <2>3 DEF PricedDays, Days
  <2>5. MonthStart(latest) <= fill.last /\ fill.pc = "latest"
    BY <1>2 DEF CoverInv, FillCover, FillReadLatest
  <2>6. Priced(fill.last)
    BY <1>t, <2>4, <2>5 DEF CoverInv, NoGapInMonth, MonthBegun
  <2>7. QED
    BY <1>2, <2>5, <2>6 DEF FillReadLatest, Priced, tables
<1>3. CASE FillCheckDay \/ FillSaveDay
  <2>1. /\ fill.from <= fill.day /\ fill.day <= fill.last /\ fill.snap # Blank
        /\ \A d \in Days : fill.from <= d /\ d < fill.day => Priced(d)
        /\ fill.pc \in {"check", "save"}
    BY <1>3 DEF CoverInv, FillCover, FillCheckDay, FillSaveDay
  <2>2. fill' = NextFillDay
    BY <1>3, <1>t DEF FillCheckDay, FillSaveDay, FillReturnsNil, FillState
  <2>3. fill.day = fill.last
    <3>1. ~(fill.day < fill.last)
      BY <1>t, <2>2 DEF NextFillDay, FillReturnsNil, FillState
    <3>2. QED
      BY <1>t, <2>1, <3>1
  <2>4. daily'[fill.last] # Blank
    <3>1. CASE FillCheckDay
      <4>1. Priced(fill.day)
        BY <1>t, <3>1 DEF FillCheckDay, FillReturnsNil, FillState
      <4>2. QED
        BY <2>3, <3>1, <4>1 DEF FillCheckDay, Priced, tables
    <3>2. CASE FillSaveDay
      <4>1. daily'[fill.last] = Upsert(daily[fill.last], fill.snap)
        BY <1>t, <2>3, <3>2 DEF FillSaveDay, UpsertAt
      <4>2. fill.snap \in Page /\ daily[fill.last] \in Page
        BY <1>t DEF FillState
      <4>3. QED
        BY <2>1, <4>1, <4>2, UpsertNotBlank
    <3>3. QED
      BY <1>3, <3>1, <3>2
  <2>5. ASSUME NEW d \in fill.from..fill.last
        PROVE  daily'[d] # Blank
    <3>1. d \in Days /\ fill.from <= d /\ (d < fill.day \/ d = fill.last)
      BY <1>t, <2>3, BoundsAssumption DEF Days
    <3>2. QED
      BY <1>p, <2>1, <2>4, <3>1 DEF Priced
  <2>6. QED
    BY <2>4, <2>5
<1>4. QED
  BY <1>1, <1>2, <1>3

\* A fill that returns nil has left no day unpriced from its first day
\* through its last one, and has today's prices: for any calendar and any
\* zone, and whatever requests write the table while it runs.
THEOREM FillLeavesNoGap == Spec => FillCompletes
<1>1. TypeInv => TypeOK
  BY DEF TypeInv
<1>2. TypeInv' => TypeOK'
  BY DEF TypeInv
<1>3. QED
  BY TypeInit, TypeStep, AheadInit, AheadStep, ThroughInit, ThroughStep, CoverInit,
     CoverStep, LastFillDayPriced, <1>1, <1>2, PTL
     DEF Spec, FillCompletes

-----------------------------------------------------------------------------
(***************************************************************************)
(* The prices of a month settle.  Without requests they are written by     *)
(* main, for the month that was the current one when it looked, and by the *)
(* monthly scheduler, for the one that has just ended; a startup may cross *)
(* one midnight, and a scheduled run crosses none.                         *)
(***************************************************************************)
MainSettles ==
    call["main"].pc # "idle" =>
        /\ server = "creating"
        /\ call["main"].pc \in {"create", "savePrice"}
        /\ call["main"].pc = "savePrice" =>
              LET month == call["main"].month
              IN  /\ month <= localDay /\ localDay <= NextMonth(month)
                  /\ localDay = bootDay => localDay < NextMonth(month)

MonthlySettles ==
    call["monthly"].pc # "idle" =>
        /\ server = "serving"
        /\ call["monthly"].pc \in {"ensure", "savePrice"}
        /\ call["monthly"].month <= localDay
        /\ localDay <= NextMonth(call["monthly"].month)

TimersServe == due # {} => server = "serving"

SettleInv == MainSettles /\ MonthlySettles /\ TimersServe

LEMMA SettleInit == Init => SettleInv
  BY DEF Init, SettleInv, MainSettles, MonthlySettles, TimersServe, IdleCall, Callers

\* The month that has ended on the first day of the next one.
LEMMA PreviousMonthEnds ==
  ASSUME NEW d \in Days, d > 0, MonthStart(d) = d
  PROVE  /\ PreviousMonth(d) \in Days /\ PreviousMonth(d) <= d
         /\ d <= NextMonth(PreviousMonth(d))
<1> DEFINE p == MonthStart(d - 1)
<1>1. d - 1 \in Days /\ d \in Nat
  BY BoundsAssumption DEF Days
<1>2. /\ p \in Days /\ p \in Nat /\ p <= d - 1 /\ MonthStart(p) = p /\ DaysInMonth(p) \in Nat
  BY <1>1, MonthStartType, CalendarAssumption DEF Days
<1>3. d - 1 < p + DaysInMonth(p)
  BY <1>1, <1>2, MonthsAssumption
<1>4. QED
  BY <1>1, <1>2, <1>3 DEF PreviousMonth, NextMonth

LEMMA SettleStep ==
  ASSUME Requests = {}, TypeInv, SettleInv, [Next]_vars
  PROVE  SettleInv'
<1>t. /\ call \in [Callers -> CallState] /\ localDay \in Days /\ localDay \in Nat
      /\ Callers = {"main", "monthly"} /\ "main" # "monthly"
      /\ \A c \in Callers : call[c].month \in Days /\ call[c].month \in Nat
                            /\ NextMonth(call[c].month) \in Nat
  <2>1. call \in [Callers -> CallState] /\ localDay \in Days
    BY DEF TypeInv, TypeOK
  <2>2. \A d \in Days : d \in Nat /\ NextMonth(d) \in Nat
    BY CalendarAssumption DEF Days, NextMonth
  <2>3. \A c \in Callers : call[c].month \in Days
    BY <2>1 DEF CallState
  <2>4. Callers = {"main", "monthly"}
    BY Requests = {} DEF Callers
  <2>5. QED
    BY <2>1, <2>2, <2>3, <2>4
<1>i. MainSettles /\ MonthlySettles /\ TimersServe
  BY DEF SettleInv
<1>due. TimersServe'
  BY <1>i
  DEF TimersServe, Next, Midnight, MidnightUTC, EditInventory, Boot, StartupFill, Serve, Crash,
      DailyTimer, FillStep, FillReadInventory, FillReadLatest, FillCheckDay, FillSaveDay,
      FillFail, MonthlyTimer, RequestMonthly, RequestFulfill, CallStep, ReadForMonth,
      SavePrice, ReadForFulfill, FulfillSaveMonth, FulfillSaveDays, CallFail, process, vars
<1> USE <1>due
<1>still. ASSUME UNCHANGED <<localDay, server, bootDay, call>>
          PROVE  SettleInv'
  BY <1>i, <1>still DEF SettleInv, MainSettles, MonthlySettles
<1>1. CASE Midnight
  <2>1. localDay' = localDay + 1 /\ UNCHANGED <<server, bootDay, call>>
    BY <1>1 DEF Midnight
  <2>2. call["monthly"].pc = "idle"
    BY <1>1, <1>i DEF Midnight, SchedulersRest, MonthlySettles
  <2>3. call["main"].pc # "idle" => localDay = bootDay
    BY <1>1, <1>i DEF Midnight, SchedulersRest, MainSettles
  <2>4. MainSettles'
    BY <1>i, <1>t, <2>1, <2>3 DEF MainSettles
  <2>5. QED
    BY <2>1, <2>2, <2>4 DEF SettleInv, MonthlySettles
<1>2. CASE MidnightUTC \/ (\E dc \in Datacenters : EditInventory(dc)) \/ FillStep \/ FillFail
           \/ DailyTimer
  BY <1>2, <1>still
  DEF MidnightUTC, EditInventory, FillStep, FillReadInventory, FillReadLatest, FillCheckDay,
      FillSaveDay, FillFail, DailyTimer, clock, process
<1>3. CASE Boot
  <2>1. /\ call'["main"].pc = "create" /\ call'["monthly"] = call["monthly"]
        /\ server = "down" /\ server' = "creating"
    BY <1>3, <1>t DEF Boot, IdleCall
  <2>2. QED
    BY <1>i, <2>1 DEF SettleInv, MainSettles, MonthlySettles
<1>4. CASE StartupFill
  BY <1>4, <1>i DEF StartupFill, SettleInv, MainSettles, MonthlySettles
<1>5. CASE Serve
  BY <1>5, <1>i DEF Serve, SettleInv, MainSettles, MonthlySettles
<1>6. CASE Crash
  BY <1>6, <1>t DEF Crash, SettleInv, MainSettles, MonthlySettles, IdleCall
<1>7. CASE MonthlyTimer
  <2> DEFINE begun == [IdleCall EXCEPT !.pc = "ensure", !.month = PreviousMonth(localDay)]
  <2>1. call'["monthly"] = begun /\ call'["main"] = call["main"] /\ "monthly" \in due
        /\ UNCHANGED <<localDay, server, bootDay>>
    BY <1>7, <1>t DEF MonthlyTimer, clock
  <2>2. begun.pc = "ensure" /\ begun.month = PreviousMonth(localDay)
    BY DEF IdleCall
  <2>3. localDay > 0 /\ MonthStart(localDay) = localDay
    BY <2>1 DEF TypeInv, TimerInv
  <2>4. /\ PreviousMonth(localDay) <= localDay
        /\ localDay <= NextMonth(PreviousMonth(localDay))
    BY <1>t, <2>3, PreviousMonthEnds
  <2>5. server = "serving"
    BY <1>i, <2>1 DEF TimersServe
  <2> HIDE DEF begun
  <2>6. QED
    BY <1>i, <2>1, <2>2, <2>4, <2>5 DEF SettleInv, MainSettles, MonthlySettles
<1>8. ASSUME NEW c \in Callers, CallStep(c) \/ CallFail(c)
      PROVE  SettleInv'
  <2>1. /\ UNCHANGED <<localDay, server, bootDay>>
        /\ \A b \in Callers : b # c => call'[b] = call[b]
    BY <1>8, <1>t DEF CallStep, ReadForMonth, SavePrice, ReadForFulfill, FulfillSaveMonth,
                      FulfillSaveDays, CallFail, clock, process
  <2>2. ~ReadForFulfill(c) /\ ~FulfillSaveMonth(c) /\ ~FulfillSaveDays(c)
    BY <1>i, <1>t DEF ReadForFulfill, FulfillSaveMonth, FulfillSaveDays, MainSettles,
                      MonthlySettles
  <2>over. ASSUME call'[c] = IdleCall
           PROVE  SettleInv'
    BY <1>i, <1>t, <2>1, <2>over DEF SettleInv, MainSettles, MonthlySettles, IdleCall
  <2>3. CASE SavePrice(c) \/ CallFail(c)
    <3>1. call'[c] = IdleCall
      BY <1>t, <2>3 DEF SavePrice, CallFail
    <3>2. QED
      BY <2>over, <3>1
  <2>4. CASE ReadForMonth(c) /\ Snapshot = Blank
    <3>1. call'[c] = IdleCall
      BY <1>t, <2>4 DEF ReadForMonth
    <3>2. QED
      BY <2>over, <3>1
  <2>5. CASE ReadForMonth(c) /\ Snapshot # Blank
    <3> DEFINE month == IF call[c].pc = "create" THEN MonthStart(localDay) ELSE call[c].month
    <3>1. call'[c].pc = "savePrice" /\ call'[c].month = month
      BY <1>t, <2>5 DEF ReadForMonth, CallState
    <3>2. CASE c = "main"
      <4>1. call[c].pc = "create" /\ server = "creating"
        BY <1>i, <2>5, <3>2 DEF ReadForMonth, MainSettles
      <4>2. /\ MonthStart(localDay) \in Days /\ MonthStart(localDay) \in Nat
            /\ MonthStart(MonthStart(localDay)) = MonthStart(localDay)
            /\ MonthStart(localDay) <= localDay
        BY <1>t, CalendarAssumption, MonthStartType
      <4>3. localDay < NextMonth(MonthStart(localDay))
        BY <1>t, <4>2, MonthsAssumption DEF NextMonth
      <4>4. NextMonth(MonthStart(localDay)) \in Nat
        BY <4>2, CalendarAssumption DEF NextMonth
      <4>5. MainSettles'
        BY <1>t, <2>1, <3>1, <3>2, <4>1, <4>2, <4>3, <4>4 DEF MainSettles
      <4>6. MonthlySettles'
        BY <1>i, <1>t, <2>1, <3>2 DEF MonthlySettles
      <4>7. QED
        BY <4>5, <4>6 DEF SettleInv
    <3>3. CASE c = "monthly"
      <4>1. call[c].pc = "ensure" /\ server = "serving"
        BY <1>i, <2>5, <3>3 DEF ReadForMonth, MonthlySettles
      <4>2. call'[c].month = call[c].month
        BY <3>1, <4>1
      <4>3. QED
        BY <1>i, <1>t, <2>1, <3>1, <3>3, <4>1, <4>2 DEF SettleInv, MainSettles, MonthlySettles
    <3>4. QED
      BY <1>t, <3>2, <3>3
  <2>6. QED
    BY <1>8, <2>2, <2>3, <2>4, <2>5 DEF CallStep
<1>9. CASE UNCHANGED vars
  BY <1>9, <1>still DEF vars
<1>10. QED
  BY <1>1, <1>2, <1>3, <1>4, <1>5, <1>6, <1>7, <1>8, <1>9, Requests = {} DEF Next

\* Who writes monthly prices, and of which month.
LEMMA MonthlyWritten ==
  ASSUME Requests = {}, TypeInv, SettleInv, [Next]_vars,
         NEW m \in Days, monthly'[m] # monthly[m]
  PROVE  m <= localDay /\ localDay <= NextMonth(m)
<1>t. /\ call \in [Callers -> CallState] /\ monthly \in [Days -> Page]
      /\ Callers = {"main", "monthly"}
  BY Requests = {} DEF TypeInv, TypeOK, Callers
<1>1. ASSUME NEW c \in Callers, call[c].pc = "savePrice",
             monthly' = UpsertAt(monthly, {call[c].month}, call[c].snap)
      PROVE  m <= localDay /\ localDay <= NextMonth(m)
  <2>1. call[c].snap \in Page
    BY <1>t DEF CallState
  <2>2. m = call[c].month
    BY <1>1, <1>t, <2>1, UpsertElsewhere
  <2>3. QED
    BY <1>1, <1>t, <2>2 DEF SettleInv, MainSettles, MonthlySettles
<1>2. ASSUME NEW c \in Callers, CallStep(c) \/ CallFail(c)
      PROVE  /\ call[c].pc = "savePrice"
             /\ monthly' = UpsertAt(monthly, {call[c].month}, call[c].snap)
  <2>1. call[c].pc \notin {"fulfill", "saveMonth", "saveDays"}
    BY <1>t DEF SettleInv, MainSettles, MonthlySettles
  <2>2. QED
    BY <1>2, <2>1 DEF CallStep, ReadForMonth, SavePrice, ReadForFulfill, FulfillSaveMonth,
                      FulfillSaveDays, CallFail, tables
<1>3. \E c \in Callers : CallStep(c) \/ CallFail(c)
  BY Requests = {}
  DEF Next, Midnight, MidnightUTC, EditInventory, Boot, StartupFill, Serve, Crash, DailyTimer,
      FillStep, FillReadInventory, FillReadLatest, FillCheckDay, FillSaveDay, FillFail,
      MonthlyTimer, tables, vars
<1>4. QED
  BY <1>1, <1>2, <1>3

\* Without requests the prices of a month change during the month and on the
\* first day of the next one, and never before or after: for any calendar,
\* and wherever the startup or a run fails or crashes.
THEOREM MonthsSettle ==
  ASSUME Requests = {}
  PROVE  Spec => MonthlyPricesSettle
<1>1. TypeInv /\ SettleInv /\ [Next]_vars => (TypeInv /\ SettleInv)'
  BY TypeStep, SettleStep, Requests = {}
<1>2. TypeInv /\ SettleInv /\ [Next]_vars =>
        [\A m \in Days : monthly'[m] # monthly[m] =>
            m <= localDay /\ localDay <= NextMonth(m)]_vars
  BY MonthlyWritten, Requests = {}
<1>3. QED
  BY TypeInit, SettleInit, <1>1, <1>2, PTL DEF Spec, MonthlyPricesSettle
=============================================================================
