----------------------------- MODULE CostEngine -----------------------------
(***************************************************************************)
(* The arithmetic of unit prices and service costs, in integer cents:      *)
(*                                                                         *)
(*   - pricing: the daily unit prices of a datacenter, from its hardware   *)
(*     and its colocation fee;                                             *)
(*   - cost_report: the cost of a service for a day, from its workloads    *)
(*     and the unit prices of the datacenters they are in; a Kubernetes    *)
(*     service in two datacenters or more pays the average of their CPU    *)
(*     and RAM prices.                                                     *)
(*                                                                         *)
(* A behaviour prices datacenters and adds workloads to one service, in    *)
(* any order; each state stands for one calculation.  GPUs always cost 0.  *)
(***************************************************************************)
EXTENDS Integers, Sequences, FiniteSetsExt

CONSTANTS
    Datacenters,
    Resources,      \* those modelled, of "cpu", "ram", "ssd" and "hdd"
    Hardware,       \* what a datacenter may hold: servers, infrastructure, fee
    Needs,          \* what a workload may ask for of each resource
    DaysInMonth,
    MaxWorkloads    \* bound: workloads of the service

ASSUME ResourcesAssumption == Resources \subseteq {"cpu", "ram", "ssd", "hdd"}

\* No money, term, size or need is negative.  (Nothing refuses one that is.)
ASSUME HardwareAssumption ==
    \A hw \in Hardware :
        /\ hw.servers \in Seq([price: Nat, amort: Nat, units: [Resources -> Nat]])
        /\ hw.infrastructure \in Seq([price: Nat, amort: Nat])
        /\ hw.fee \in Nat

ASSUME NeedsAssumption == Needs \subseteq [Resources -> Nat]

ASSUME BoundsAssumption == DaysInMonth \in Nat \ {0} /\ MaxWorkloads \in Nat

VARIABLES
    hardware,       \* of each datacenter
    platform,       \* of the service
    workloads,      \* of the service, a sequence
    prices          \* the daily unit prices, for the datacenters that have them

vars == <<hardware, platform, workloads, prices>>

SumOver(S, f(_)) == SumFunction([i \in S |-> f(i)])

(***************************************************************************)
(* Unit prices                                                             *)
(***************************************************************************)
Percent == [cpu |-> 50, ram |-> 35, ssd |-> 10, hdd |-> 5]

\* The monthly share of a purchase; nothing once the term is 0.
Amortized(item) == IF item.amort > 0 THEN item.price \div item.amort ELSE 0

MonthlyPrice(hw) ==
    LET share(items) == SumOver(DOMAIN items, LAMBDA i : Amortized(items[i]))
    IN  share(hw.servers) + share(hw.infrastructure) + hw.fee

\* What the servers of a datacenter have of a resource.
Units(hw, r) == SumOver(DOMAIN hw.servers, LAMBDA i : hw.servers[i].units[r])

\* Wrong on purpose (see "Mutants" in the README): rounded up.
RoundedUpUnitPrices(hw, r) ==
    LET share == Units(hw, r) * DaysInMonth * 100
    IN  IF share = 0 THEN {0}
        ELSE {(MonthlyPrice(hw) * Percent[r] + share - 1) \div share}

\* The daily price of a unit: computed in floating point and truncated, so
\* that a quotient that is a whole number may come out as one less.
DailyUnitPrices(hw, r) ==
    LET portion == MonthlyPrice(hw) * Percent[r]
        share   == Units(hw, r) * DaysInMonth * 100
        exact   == portion \div share
    IN  IF share = 0 THEN {0}
        ELSE IF portion % share = 0 /\ exact > 0 THEN {exact - 1, exact}
        ELSE {exact}

(***************************************************************************)
(* Service costs                                                           *)
(***************************************************************************)
\* Wrong on purpose: a datacenter counts once for each workload.
WorkloadIndices(ws) == DOMAIN ws

\* uniqueWorkloadDatacenters, each by its first workload.
FirstIndices(ws) == {i \in DOMAIN ws : \A j \in 1..(i - 1) : ws[j].dc # ws[i].dc}

ShouldBlend(ws) == platform = "kubernetes" /\ Cardinality(FirstIndices(ws)) >= 2

\* averageCPURAMPrices: over the datacenters with a price, if there are two.
Priced(ws)  == {i \in FirstIndices(ws) : ws[i].dc \in DOMAIN prices}
Blends(ws)  == ShouldBlend(ws) /\ Cardinality(Priced(ws)) >= 2

\* Wrong on purpose: the average is rounded up.
AverageRoundedUp(ws, r) ==
    LET count == Cardinality(Priced(ws))
    IN  (SumOver(Priced(ws), LAMBDA i : prices[ws[i].dc][r]) + count - 1) \div count

Average(ws, r) ==
    SumOver(Priced(ws), LAMBDA i : prices[ws[i].dc][r]) \div Cardinality(Priced(ws))

\* Wrong on purpose: storage is blended as well.
BlendedEverywhere(ws, dc, r) == IF Blends(ws) THEN Average(ws, r) ELSE prices[dc][r]

\* The unit price a workload in a priced datacenter pays.
UnitPrice(ws, dc, r) ==
    IF Blends(ws) /\ r \in {"cpu", "ram"} THEN Average(ws, r) ELSE prices[dc][r]

WorkloadCost(ws, w) ==
    SumOver(Resources, LAMBDA r : w.need[r] * UnitPrice(ws, w.dc, r))

\* The cost of a datacenter's group of workloads: 0 without a price.
GroupCost(ws, dc) ==
    IF dc \notin DOMAIN prices THEN 0
    ELSE SumOver({i \in DOMAIN ws : ws[i].dc = dc}, LAMBDA i : WorkloadCost(ws, ws[i]))

TotalCost(ws) == SumOver({ws[i].dc : i \in DOMAIN ws}, LAMBDA dc : GroupCost(ws, dc))

-----------------------------------------------------------------------------
Init ==
    /\ hardware \in [Datacenters -> Hardware]
    /\ platform \in {"kubernetes", "vm"}
    /\ workloads = <<>>
    /\ prices = <<>>

PriceDatacenter(dc) ==
    /\ dc \notin DOMAIN prices
    /\ \E unit \in [Resources -> UNION {DailyUnitPrices(hardware[dc], r) : r \in Resources}] :
         /\ \A r \in Resources : unit[r] \in DailyUnitPrices(hardware[dc], r)
         /\ prices' = [d \in DOMAIN prices \cup {dc} |-> IF d = dc THEN unit ELSE prices[d]]
    /\ UNCHANGED <<hardware, platform, workloads>>

AddWorkload(dc, need) ==
    /\ Len(workloads) < MaxWorkloads
    /\ workloads' = Append(workloads, [dc |-> dc, need |-> need])
    /\ UNCHANGED <<hardware, platform, prices>>

Next == \/ \E dc \in Datacenters : PriceDatacenter(dc)
        \/ \E dc \in Datacenters, need \in Needs : AddWorkload(dc, need)

Spec == Init /\ [][Next]_vars

(***************************************************************************)
(* Properties                                                              *)
(***************************************************************************)
Need(ws, dc, r) == SumOver({i \in DOMAIN ws : ws[i].dc = dc}, LAMBDA i : ws[i].need[r])

Fits(ws, dc) == \A r \in Resources : Need(ws, dc, r) <= Units(hardware[dc], r)

\* Truncation favours the service: workloads that fit into a datacenter and
\* pay its own prices never cost more in a month than the datacenter's
\* hardware and fee, or rather the share of them that the resources carry.
CostWithinPrice ==
    \A dc \in Datacenters :
        ~Blends(workloads) /\ Fits(workloads, dc) =>
            GroupCost(workloads, dc) * DaysInMonth * 100
                <= MonthlyPrice(hardware[dc]) * SumOver(Resources, LAMBDA r : Percent[r])

\* The total of a service is the sum over its workloads of what each one pays
\* on its own: the average, if it is blended, for CPU and RAM; its
\* datacenter's price for storage; and nothing where there is no price.
OwnPrice(i, r)  == prices[workloads[i].dc][r]
PricedHere      == {d \in DOMAIN prices : \E i \in DOMAIN workloads : workloads[i].dc = d}
PaysAverage(r)  == /\ r \in {"cpu", "ram"}
                   /\ platform = "kubernetes"
                   /\ \E d, e \in PricedHere : d # e

TotalIsWhatWorkloadsPay ==
    TotalCost(workloads) =
        SumOver({i \in DOMAIN workloads : workloads[i].dc \in DOMAIN prices},
            LAMBDA i : SumOver(Resources, LAMBDA r : workloads[i].need[r] *
                IF PaysAverage(r)
                THEN SumOver(PricedHere, LAMBDA d : prices[d][r]) \div Cardinality(PricedHere)
                ELSE OwnPrice(i, r)))

\* A service that asks for as much in each of its datacenters pays, blended,
\* what it would pay at their own prices, up to the truncated cent per unit.
EvenBlendKeepsTotal ==
    \A r \in Resources \cap {"cpu", "ram"}, q \in 1..MaxWorkloads :
        Blends(workloads) /\ (\A d \in PricedHere : Need(workloads, d, r) = q) =>
            LET blended == SumOver(PricedHere, LAMBDA d : q * UnitPrice(workloads, d, r))
                own     == SumOver(PricedHere, LAMBDA d : q * prices[d][r])
            IN  blended <= own /\ own < blended + q * Cardinality(PricedHere)

\* A workload more in a datacenter the service is in already makes no other
\* workload cheaper: the average is over datacenters, not over workloads.
\* (In a new datacenter it may, by bringing the average down.)
AddingCostsNoLess ==
    [][\A w \in {workloads'[i] : i \in DOMAIN workloads'} :
         /\ workloads' = Append(workloads, w)
         /\ w.dc \in {workloads[i].dc : i \in DOMAIN workloads}
         => TotalCost(workloads)' >= TotalCost(workloads)]_vars
=============================================================================
