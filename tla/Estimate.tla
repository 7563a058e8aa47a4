------------------------------ MODULE Estimate ------------------------------
(***************************************************************************)
(* The monthly estimate of the browser: what every asset costs, what of it *)
(* each service pays and what is idle (the cost engine of data.ts), the    *)
(* figures the pages make of it, and the saves that change its inputs.     *)
(*                                                                         *)
(* One browser is used, and one thing is done after the other: what        *)
(* several at a time do to the lists is in Console, to the services in     *)
(* ServiceEdit, to the tables in Inventory.  Amounts are exact: fractions  *)
(* stand for the numbers of JavaScript.                                    *)
(***************************************************************************)
EXTENDS Forms, FiniteSetsExt

CONSTANTS
    AssetIds, DcIds, ServiceIds,
    None,               \* no row
    Texts,              \* what a column of a row may say
    FirstTables,        \* the rows in the beginning
    Catalogs,           \* the services' rows, which saves may change
    AssetEdits,         \* what is typed in a form: <<field, value>>
    DcEdits,
    NoEdit,             \* the form is saved as it was opened
    MaxSaves            \* bound: saves and deletions

Regions    == {"eu", "us"}
CpuWeights == {0, 50, 100}

\* The tweaks: they are not sent anywhere, and any of them may be chosen at
\* any time.  The weight of the cores counts with two of the methods.
Tweaks == [method : {"usage", "requests"}, cpuWeight : CpuWeights, includeIdle : BOOLEAN]
             \cup [method : {"even", "manual"}, cpuWeight : {50}, includeIdle : BOOLEAN]

Tables ==
    [datacenters : [DcIds -> DatacenterRow(Regions) \cup {None}],
     servers     : [AssetIds -> ServerRow(DcIds, Texts) \cup {None}],
     hardwares   : [AssetIds -> HardwareRow(DcIds, Texts) \cup {None}],
     services    : [ServiceIds -> ServiceRow(DcIds) \cup {None}]]

ASSUME IdsAssumption ==
    /\ IsFiniteSet(AssetIds) /\ IsFiniteSet(DcIds) /\ IsFiniteSet(ServiceIds)
    /\ AssetIds \cap DcIds = {}

ASSUME TextsAssumption ==
    Regions \cup AssetTypes \cup ComputeRoles
        \cup {"", "active", "network"} \subseteq Texts

ASSUME NoneAssumption ==
    /\ None \notin DatacenterRow(Regions) \cup ServerRow(DcIds, Texts)
                   \cup HardwareRow(DcIds, Texts) \cup ServiceRow(DcIds)
    /\ None \notin DataCenter(Regions) \cup Asset(DcIds) \cup Service(DcIds) \cup DcIds

\* An asset has one row.
ASSUME RowsAssumption ==
    /\ FirstTables \in Tables
    /\ \A a \in AssetIds : FirstTables.servers[a] = None \/ FirstTables.hardwares[a] = None
    /\ Catalogs \subseteq [ServiceIds -> ServiceRow(DcIds) \cup {None}]

ASSUME EditsAssumption ==
    /\ AssetEdits \subseteq
         {"cpuCores", "ramGB", "powerWatts", "purchaseAmount", "purchaseDate", "amortMonths",
             "rackUnits"} \X Nat
         \cup {"type"} \X AssetTypes
         \cup {"role"} \X (ComputeRoles \cup {"network", "storage"})
         \cup {"dcId"} \X DcIds
    /\ DcEdits \subseteq {"coloMonthly", "racks", "power_kw"} \X Nat
         \cup {"region"} \X Regions \cup {"short"} \X {"given", ""}
    /\ NoEdit \notin AssetEdits \cup DcEdits

ASSUME SavesAssumption == MaxSaves \in Nat

VARIABLES
    tables,     \* the rows at the server: datacenters, servers, hardwares, services
    page,       \* the lists of the browser: dcs, assets, services
    saves

vars == <<tables, page, saves>>

(***************************************************************************)
(* Fractions                                                               *)
(***************************************************************************)
Gcd[p \in Nat \X Nat] == IF p[2] = 0 THEN p[1] ELSE Gcd[<<p[2], p[1] % p[2]>>]

Frac(n, d) == LET g == Gcd[<<n, d>>] IN <<n \div g, d \div g>>
Zero       == <<0, 1>>
One        == <<1, 1>>

Plus(p, q) ==
    LET g == Gcd[<<p[2], q[2]>>]
    IN  Frac(p[1] * (q[2] \div g) + q[1] * (p[2] \div g), p[2] * (q[2] \div g))

Times(p, q) ==
    LET f == Frac(p[1], q[2])
        g == Frac(q[1], p[2])
    IN  <<f[1] * g[1], f[2] * g[2]>>

OneMinus(p)  == Frac(p[2] - p[1], p[2])
AtMostOne(p) == IF p[1] > p[2] THEN One ELSE p

\* JavaScript's  p / (q || 1).
By(p, q) == IF q = Zero THEN p ELSE Times(p, <<q[2], q[1]>>)

SumOf(S, f(_)) == FoldFunction(Plus, Zero, [x \in S |-> f(x)])
SumOver(S, f(_)) == SumFunction([x \in S |-> f(x)])

(***************************************************************************)
(* Assets: depreciation and colocation.  L has the lists.                  *)
(***************************************************************************)
\* The clock of the estimate stands still.
Now == Month(2026, 5)

Dcs(L)    == {d \in DcIds : L.dcs[d] # None}
Assets(L) == {a \in AssetIds : L.assets[a] # None}

MonthsSince(a)    == Now - a.purchaseDate
AmortRemaining(a) == IF a.amortMonths > MonthsSince(a) THEN a.amortMonths - MonthsSince(a) ELSE 0

Depreciation(a) ==
    IF MonthsSince(a) >= a.amortMonths THEN Zero ELSE Frac(a.purchaseAmount, a.amortMonths)

AssetsIn(L, d) == {a \in Assets(L) : L.assets[a].dcId = d}

PowerIn(L, d) == SumOver(AssetsIn(L, d), LAMBDA a : L.assets[a].powerWatts)

\* Wrong on purpose (see "Mutants" in the README): all power is in one place.
ColoByAllPower(L, a) ==
    LET d == L.assets[a].dcId
        W == SumOver(Assets(L), LAMBDA b : L.assets[b].powerWatts)
    IN  IF d \in Dcs(L)
        THEN Frac(L.dcs[d].coloMonthly * L.assets[a].powerWatts, Or(W, 1))
        ELSE Zero

\* The fee of a datacenter is split by power draw.
ColoAllocation(L, a) ==
    LET d == L.assets[a].dcId
    IN  IF d \in Dcs(L)
        THEN Frac(L.dcs[d].coloMonthly * L.assets[a].powerWatts, Or(PowerIn(L, d), 1))
        ELSE Zero

AssetCost(L, a) == Plus(Depreciation(L.assets[a]), ColoAllocation(L, a))

CostOf(L, S) == SumOf(S, LAMBDA a : AssetCost(L, a))

(***************************************************************************)
(* Services: the compute cost of a datacenter is split among the workloads *)
(* in it.  o has the tweaks, c is a service and the number of a workload.  *)
(***************************************************************************)
IsComputeHost(a) == a.role \in ComputeRoles

Hosts(L, d) == {a \in AssetsIn(L, d) : IsComputeHost(L.assets[a])}

WorkloadOf(L, c) == L.services[c[1]].workloads[c[2]]

Workloads(L) == UNION {{<<s, i>> : i \in DOMAIN L.services[s].workloads} :
                          s \in {t \in ServiceIds : L.services[t] # None}}

ResolveWorkloadDcId(L, host) ==
    CASE host \in Assets(L) -> L.assets[host].dcId
      [] host \in Dcs(L) -> host
      [] OTHER -> None

Consumers(L, d) == {c \in Workloads(L) : ResolveWorkloadDcId(L, WorkloadOf(L, c).hostId) = d}

\* The part of the datacenter's cores and memory, one weighed against the other.
Part(L, d, cpu, ram, o) ==
    LET cores  == SumOver(Hosts(L, d), LAMBDA a : L.assets[a].cpuCores)
        memory == SumOver(Hosts(L, d), LAMBDA a : L.assets[a].ramGB)
        Of(x, y) == IF y = 0 THEN Zero ELSE Frac(x, y)
    IN  Plus(Times(Frac(o.cpuWeight, 100), Of(cpu, cores)),
             Times(Frac(100 - o.cpuWeight, 100), Of(ram, memory)))

Weight(L, d, c, o) ==
    LET w == WorkloadOf(L, c)
    IN  CASE o.method = "even"     -> One
          [] o.method = "manual"   -> Frac(L.services[c[1]].manualWeight, 1)
          [] o.method = "requests" -> Part(L, d, w.cpuRequest, w.ramRequestGB, o)
          [] o.method = "usage"    -> Part(L, d, w.cpuUsage, w.ramUsageGB, o)

TotalWeight(L, d, o) == SumOf(Consumers(L, d), LAMBDA c : Weight(L, d, c, o))

\* With "Show idle" no more is allocated than is used, or requested.
AllocFrac(L, d, o) ==
    IF o.includeIdle /\ o.method \in {"usage", "requests"}
    THEN AtMostOne(TotalWeight(L, d, o))
    ELSE One

DcCost(L, d) == CostOf(L, Hosts(L, d))

\* What service s pays in datacenter d, and in all.
Pays(L, d, s, o) ==
    LET cost == Times(DcCost(L, d), AllocFrac(L, d, o))
        own  == {c \in Consumers(L, d) : c[1] = s}
    IN  By(Times(cost, SumOf(own, LAMBDA c : Weight(L, d, c, o))), TotalWeight(L, d, o))

Monthly(L, s, o) == SumOf(Dcs(L), LAMBDA d : Pays(L, d, s, o))

\* Wrong on purpose: only a datacenter nobody uses is idle.
IdleWhenUnused(L, d, a, o) == IF Consumers(L, d) = {} THEN AssetCost(L, a) ELSE Zero

\* What of its cost is idle, by host.
IdleByHost(L, d, a, o) ==
    IF Consumers(L, d) = {} THEN AssetCost(L, a)
    ELSE By(Times(Times(DcCost(L, d), OneMinus(AllocFrac(L, d, o))), AssetCost(L, a)), DcCost(L, d))

\* The utilization of a host counts the workloads pinned to it.
CpuUsed(L, a) ==
    SumOver({c \in Workloads(L) : WorkloadOf(L, c).hostId = a},
            LAMBDA c : WorkloadOf(L, c).cpuUsage)

(***************************************************************************)
(* The pages                                                               *)
(***************************************************************************)
Totals(L) ==
    LET depreciation == SumOf(Assets(L), LAMBDA a : Depreciation(L.assets[a]))
        colo         == SumOf(Assets(L), LAMBDA a : ColoAllocation(L, a))
    IN  [monthlyDepreciation |-> depreciation, monthlyColo |-> colo,
         monthlyTotal |-> Plus(depreciation, colo),
         activeAmort |-> Cardinality({a \in Assets(L) : Depreciation(L.assets[a]) # Zero})]

\* Overview: "Cost by data center", "Assets fully paid off".
ByDc(L, d) == CostOf(L, AssetsIn(L, d))
PaidOff(L) == Cardinality({a \in Assets(L) : Depreciation(L.assets[a]) = Zero})

\* Hardware: the sums over the assets that the two selections leave.
HardwareSum(L, types, dcs) ==
    CostOf(L, {a \in Assets(L) : L.assets[a].type \in types /\ L.assets[a].dcId \in dcs})

\* Data centers: the fees, and the split of one.
TotalColo(L) == SumOver(Dcs(L), LAMBDA d : L.dcs[d].coloMonthly)

(***************************************************************************)
(* The lists                                                               *)
(***************************************************************************)
Mapped(T) ==
    [dcs      |-> [d \in DcIds |-> IF T.datacenters[d] = None THEN None
                                   ELSE MapBackendDataCenter(T.datacenters[d])],
     assets   |-> [a \in AssetIds |->
                     CASE T.servers[a] # None   -> MapBackendServer(T.servers[a])
                       [] T.hardwares[a] # None -> MapBackendInfraHardware(T.hardwares[a])
                       [] OTHER -> None],
     services |-> [s \in ServiceIds |-> IF T.services[s] = None THEN None
                                        ELSE MapBackendService(T.services[s])]]

Init ==
    /\ \E rows \in Catalogs : tables = [FirstTables EXCEPT !.services = rows]
    /\ page = Mapped(tables)
    /\ saves = 0

Saving ==
    /\ saves < MaxSaves
    /\ saves' = saves + 1

\* "Refresh", and the end of what is created or refused.
Show(T) == page' = Mapped(T)

RefreshData ==
    /\ page # Mapped(tables)
    /\ Show(tables)
    /\ UNCHANGED <<tables, saves>>

\* A change that the server carries out if ok shows as it was typed.
ShowUnlessRefused(ok, T, shown) ==
    IF ok THEN tables' = T /\ page' = shown
          ELSE UNCHANGED tables /\ Show(tables)

\* What is created shows when everything is loaded again.
Create(T) == tables' = T /\ Show(T)

DcRegion(d) == IF page.dcs[d] = None THEN "" ELSE page.dcs[d].region

\* All the datacenters of the page exist: nobody else deletes one.
Exists(d) == tables.datacenters[d] # None

\* The form that e, another value, is typed into, if it can be; a datacenter is one of those shown.
Typed(f, e) ==
    IF e = NoEdit THEN {f}
    ELSE CASE e[1] = "dcId" -> {[f EXCEPT !.dcId = d] : d \in {e[2]} \cap Dcs(page)}
           [] OTHER -> IF Shown(f, e[1]) /\ e[2] # f[e[1]] THEN {SetField(f, e[1], e[2])} ELSE {}

SaveAsset(a, e) ==
    /\ a \in Assets(page)
    /\ Saving
    /\ \E f \in Typed(OpenAssetForm(page.assets[a]), e) :
          LET region == DcRegion(f.dcId)
              shown  == [page EXCEPT !.assets[a] = f]
          IN  IF f.type = "server"
              THEN ShowUnlessRefused(tables.servers[a] # None /\ Exists(f.dcId),
                      [tables EXCEPT !.servers[a] = MapAssetToServer(f, region)], shown)
              ELSE ShowUnlessRefused(tables.hardwares[a] # None /\ Exists(f.dcId),
                      [tables EXCEPT !.hardwares[a] = MapAssetToInfra(f, region)], shown)

AddAsset(a, e) ==
    /\ tables.servers[a] = None /\ tables.hardwares[a] = None /\ page.assets[a] = None
    /\ Saving
    /\ \E d \in Dcs(page) : \E f \in Typed(NewAsset(d), e) :
          LET region == DcRegion(f.dcId)
          IN  IF f.type = "server"
              THEN Create([tables EXCEPT !.servers[a] = MapAssetToServer(f, region)])
              ELSE Create([tables EXCEPT !.hardwares[a] = MapAssetToInfra(f, region)])

DeleteAsset(a) ==
    LET table == IF page.assets[a].type = "server" THEN "servers" ELSE "hardwares"
    IN  /\ a \in Assets(page)
        /\ Saving
        /\ ShowUnlessRefused(tables[table][a] # None, [tables EXCEPT ![table][a] = None],
                             [page EXCEPT !.assets[a] = None])

SaveDc(d, e) ==
    /\ d \in Dcs(page)
    /\ Saving
    /\ LET opened == OpenDCForm(page.dcs[d])
           f      == IF e = NoEdit THEN opened ELSE [opened EXCEPT ![e[1]] = e[2]]
       IN  /\ tables' = [tables EXCEPT !.datacenters[d] = MapDataCenterToBackend(f)]
           /\ page' = [page EXCEPT !.dcs[d] = f]

\* Servers and workloads keep a datacenter; its hardware goes with it, and
\* stays on the page.
DeleteDc(d) ==
    LET In(row) == row # None /\ row.datacenter_id = d
        free == /\ \A a \in AssetIds : ~In(tables.servers[a])
                /\ \A s \in ServiceIds : tables.services[s] # None =>
                      \A i \in DOMAIN tables.services[s].rows : ~In(tables.services[s].rows[i])
        without == [tables EXCEPT !.datacenters[d] = None,
                       !.hardwares = [a \in AssetIds |-> IF In(@[a]) THEN None ELSE @[a]]]
    IN  /\ d \in Dcs(page)
        /\ Saving
        /\ ShowUnlessRefused(free, without, [page EXCEPT !.dcs[d] = None])

\* A save of a service ends in a refresh.
SaveServices(rows) ==
    /\ rows # tables.services
    /\ \A s \in ServiceIds : rows[s] # None =>
          \A i \in DOMAIN rows[s].rows : Exists(rows[s].rows[i].datacenter_id)
    /\ Saving
    /\ Create([tables EXCEPT !.services = rows])

Next ==
    \/ RefreshData
    \/ \E a \in AssetIds : \/ \E e \in AssetEdits \cup {NoEdit} : SaveAsset(a, e) \/ AddAsset(a, e)
                           \/ DeleteAsset(a)
    \/ \E d \in DcIds : (\E e \in DcEdits \cup {NoEdit} : SaveDc(d, e)) \/ DeleteDc(d)
    \/ \E rows \in Catalogs : SaveServices(rows)

Spec == Init /\ [][Next]_vars

(***************************************************************************)
(* Properties                                                              *)
(***************************************************************************)
\* The page has rows of the page's types, whatever the rows were; what is not
\* a server is no host, and is not split among services.
TypeOK ==
    /\ page.dcs \in [DcIds -> DataCenter(Regions) \cup {None}]
    /\ page.assets \in [AssetIds -> Asset(DcIds) \cup {None}]
    /\ \A a \in Assets(page) : page.assets[a].type # "server" => ~IsComputeHost(page.assets[a])
    /\ \A s \in ServiceIds : page.services[s] = None \/ page.services[s] \in Service(DcIds)
    /\ saves \in 0..MaxSaves

\* Nothing is paid twice and nothing is lost: in every datacenter, what the
\* services pay and what is idle is what its hosts cost, whatever the tweaks
\* are - except where workloads run that all weigh nothing and "Show idle" is
\* off: then nobody pays, although the tenants are to be billed all of it
\* (frontend/README.md:74).
CostIsPaidOrIdle ==
    \A o \in Tweaks : \A d \in Dcs(page) :
        LET paid == SumOf(ServiceIds, LAMBDA s : Pays(page, d, s, o))
            idle == SumOf(Hosts(page, d), LAMBDA a : IdleByHost(page, d, a, o))
        IN  \/ Plus(paid, idle) = DcCost(page, d)
            \/ /\ TotalWeight(page, d, o) = Zero
               /\ Consumers(page, d) # {} /\ ~o.includeIdle
               /\ paid = Zero

\* The figures of the pages agree: the datacenters of the overview and assets
\* whose datacenter is gone make the monthly total, so do the types of the
\* hardware page, and what is paid off there has no months left here, or has
\* cost nothing; the fee of a datacenter is split to the last unit, unless
\* nothing in it draws power.
PagesAgree ==
    LET total   == Totals(page)
        astray  == {a \in Assets(page) : page.assets[a].dcId \notin Dcs(page)}
        unsplit == {d \in Dcs(page) : PowerIn(page, d) = 0}
    IN  /\ Plus(SumOf(Dcs(page), LAMBDA d : ByDc(page, d)), CostOf(page, astray)) = total.monthlyTotal
        /\ SumOf(AssetTypes, LAMBDA type : HardwareSum(page, {type}, DcIds)) = total.monthlyTotal
        /\ \A d \in Dcs(page) : HardwareSum(page, AssetTypes, {d}) = ByDc(page, d)
        /\ PaidOff(page) + total.activeAmort = Cardinality(Assets(page))
        /\ PaidOff(page) = Cardinality({a \in Assets(page) : \/ AmortRemaining(page.assets[a]) = 0
                                                            \/ page.assets[a].purchaseAmount = 0})
        /\ Plus(total.monthlyColo, SumOf(unsplit, LAMBDA d : <<page.dcs[d].coloMonthly, 1>>))
              = <<TotalColo(page), 1>>

\* What a save has shown is what the next refresh shows: no figure of a
\* datacenter that is still there, and nothing that a service pays, is another
\* one afterwards.
RefreshKeepsTheFigures ==
    LET after == Mapped(tables)
    IN  /\ \A d \in Dcs(page) : ByDc(page, d) = ByDc(after, d)
        /\ \A s \in ServiceIds, o \in Tweaks : Monthly(page, s, o) = Monthly(after, s, o)

\* The columns that a save of a form changes though nobody has typed into them:
\* those the page does not have, and what a form takes for missing.
Columns == [role |-> "role", cpuCores |-> "vcpus", ramGB |-> "memory_gb", dcId |-> "datacenter_id",
            powerWatts |-> "power_watts", purchaseAmount |-> "purchase_price",
            purchaseDate |-> "purchase_date", amortMonths |-> "amort_months",
            rackUnits |-> "rack_units", type |-> "hardware_type"]

Overwritten(row) ==
    {"region", "gpus", "status", "hardware_type", "specs"}
        \cup {c \in DOMAIN row \cap {"power_watts", "amort_months", "rack_units"} : row[c] = 0}
        \cup {c \in DOMAIN row \cap {"role"} : ToAssetRole(row[c]) # row[c]}

\* A save of an asset changes the column of the field that was typed into and
\* no other, except those; and no other row.
SaveChangesOneColumn ==
    [][\A a \in AssetIds : \A e \in AssetEdits \cup {NoEdit} : \A table \in {"servers", "hardwares"} :
          LET old == tables[table][a]
              new == tables'[table][a]
              typed == IF e = NoEdit THEN {} ELSE {Columns[e[1]]}
          IN  SaveAsset(a, e) =>
                 /\ (old = None) = (new = None)
                 /\ old # None => \A c \in DOMAIN old \ (Overwritten(old) \cup typed) : new[c] = old[c]
                 /\ tables' = [tables EXCEPT ![table][a] = new, !.servers[a] = tables'.servers[a],
                                             !.hardwares[a] = tables'.hardwares[a]]]_vars

\* A save of an asset changes nobody's payments but for workloads in the
\* datacenter it was in or is in.
Places(L, a) == {d \in DcIds : a \in AssetsIn(L, d)}

ElsewhereNothingChanges ==
    [][\A a \in AssetIds : \A e \in AssetEdits \cup {NoEdit} :
          SaveAsset(a, e) =>
              \A d \in Dcs(page) \cap Dcs(page') :
                 \/ d \in Places(page, a) \cup Places(page', a)
                 \/ \A s \in ServiceIds, o \in Tweaks : Pays(page', d, s, o) = Pays(page, d, s, o)]_vars
=============================================================================
