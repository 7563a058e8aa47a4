----------------------------- MODULE MCEstimate -----------------------------
(***************************************************************************)
(* Estimate with two datacenters, four assets (servers s1 and s2, a router *)
(* h1 with specs that are not filled in, a1 to be added) and two services. *)
(***************************************************************************)
EXTENDS Estimate

CONSTANTS s1, s2, h1, a1, d1, d2, x1, x2

SomeTexts ==
    Regions \cup AssetTypes \cup ComputeRoles
        \cup {"", "active", "maintenance", "network", "bare_metal", "router"}

Pod(d, n) == [datacenter_id |-> d, kind |-> "pod", vcpu |-> n, memory_gb |-> 2,
              cpu_usage |-> n - 1, memory_usage_gb |-> 0]

Server(d, role, months, watts) ==
    [datacenter_id |-> d, region |-> "eu", role |-> role, vcpus |-> 4, memory_gb |-> 8, gpus |-> 1,
     status |-> "maintenance", power_watts |-> watts, rack_units |-> 0,
     purchase_price |-> 96, purchase_date |-> Month(2025, 1), amort_months |-> months]

Router(d) ==
    [datacenter_id |-> d, region |-> "us", hardware_type |-> "router", specs |-> <<>>,
     purchase_price |-> 24, purchase_date |-> Month(2020, 1), amort_months |-> 60]

Site(fee, short) ==
    [short |-> short, region |-> "eu", monthly_colo_fee |-> fee, racks |-> 0, power_kw |-> 0]

Catalog(first, second) == [s \in ServiceIds |->
    IF s = x1 THEN [platform |-> "kubernetes", rows |-> first]
    ELSE IF second = <<>> THEN None ELSE [platform |-> "vm", rows |-> second]]

Spread   == Catalog(<<Pod(d1, 1), Pod(d2, 2)>>, <<Pod(d1, 3)>>)
Few      == Catalog(<<Pod(d1, 1)>>, <<>>)

SomeCatalogs == {Spread, Few}

SomeTables ==
    [datacenters |-> [d \in DcIds |-> IF d = d1 THEN Site(60, "") ELSE Site(30, "given")],
     servers     |-> [a \in AssetIds |-> CASE a = s1 -> Server(d1, "k8s-node", 48, 300)
                                           [] a = s2 -> Server(d1, "bare_metal", 0, 100)
                                           [] OTHER -> None],
     hardwares   |-> [a \in AssetIds |-> IF a = h1 THEN Router(d2) ELSE None],
     services    |-> Few]

SomeAssetEdits ==
    {<<"powerWatts", 0>>, <<"powerWatts", 100>>, <<"amortMonths", 0>>, <<"purchaseAmount", 48>>,
     <<"purchaseDate", Month(2026, 4)>>, <<"cpuCores", 0>>, <<"ramGB", 2>>, <<"role", "vm-host">>,
     <<"dcId", d2>>, <<"type", "switch">>, <<"type", "storage">>, <<"type", "server">>, <<"rackUnits", 0>>}

SomeDcEdits == {<<"coloMonthly", 0>>, <<"coloMonthly", 90>>, <<"region", "us">>, <<"short", "">>}
=============================================================================
