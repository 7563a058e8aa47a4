------------------------------- MODULE Forms -------------------------------
(***************************************************************************)
(* What becomes of a row on its way through the browser: the lists have    *)
(* the backend's rows mapped to the page's types (mappers.ts), a form      *)
(* takes one of them with defaults of its own, and what is saved is mapped *)
(* back to a whole row.                                                    *)
(*                                                                         *)
(* Texts that only travel (names, vendors, models, providers, tiers) and   *)
(* the disks, which travel as the memory does, are left out.  A date is    *)
(* its month.                                                              *)
(***************************************************************************)
EXTENDS Integers, Sequences

Month(year, month) == 12 * year + month - 1

\* JavaScript's  x || default  for a number.
Or(x, default) == IF x = 0 THEN default ELSE x

(***************************************************************************)
(* The types of the page                                                   *)
(***************************************************************************)
ComputeRoles == {"k8s-node", "vm-host", "bare-metal"}
AssetTypes   == {"server", "switch", "storage"}

Asset(DcIds) ==
    [type : AssetTypes, role : ComputeRoles \cup {"network", "storage"},
     dcId : DcIds, cpuCores : Nat, ramGB : Nat, powerWatts : Nat,
     purchaseAmount : Nat, purchaseDate : Nat, amortMonths : Nat, rackUnits : Nat]

DataCenter(Regions) ==
    [short : {"given", "derived", ""}, region : Regions,
     coloMonthly : Nat, racks : Nat, power_kw : Nat]

Workload(Hosts) ==
    [hostId : Hosts, kind : {"pod", "vm"},
     cpuRequest : Nat, ramRequestGB : Nat, cpuUsage : Nat, ramUsageGB : Nat]

Service(Hosts) ==
    [platform : {"kubernetes", "vm"}, env : {"prod"}, crit : {"med"},
     manualWeight : Nat, workloads : Seq(Workload(Hosts))]

(***************************************************************************)
(* The backend's rows.  No number is negative; Texts may be in a column    *)
(* whose values nothing restricts.                                         *)
(***************************************************************************)
DatacenterRow(Regions) ==
    [short : {"given", "derived", ""}, region : Regions,
     monthly_colo_fee : Nat, racks : Nat, power_kw : Nat]

ServerRow(DcIds, Texts) ==
    [datacenter_id : DcIds, region : Texts, role : Texts, vcpus : Nat, memory_gb : Nat,
     gpus : Nat, status : Texts, power_watts : Nat, rack_units : Nat,
     purchase_price : Nat, purchase_date : Nat, amort_months : Nat]

\* A column of the specs may be missing.
Specs == {<<>>} \cup [power_watts : Nat] \cup [rack_units : Nat]
             \cup [power_watts : Nat, rack_units : Nat]

HardwareRow(DcIds, Texts) ==
    [datacenter_id : DcIds, region : Texts, hardware_type : Texts, specs : Specs,
     purchase_price : Nat, purchase_date : Nat, amort_months : Nat]

WorkloadRow(DcIds) ==
    [datacenter_id : DcIds, kind : {"pod", "vm"}, vcpu : Nat, memory_gb : Nat,
     cpu_usage : Nat, memory_usage_gb : Nat]

ServiceRow(DcIds) == [platform : {"kubernetes", "vm"}, rows : Seq(WorkloadRow(DcIds))]

(***************************************************************************)
(* Datacenters                                                             *)
(***************************************************************************)
\* Without a short code, the first letters of the name.
MapBackendDataCenter(dc) ==
    [short |-> IF dc.short = "" THEN "derived" ELSE dc.short, region |-> dc.region,
     coloMonthly |-> dc.monthly_colo_fee, racks |-> dc.racks, power_kw |-> dc.power_kw]

MapDataCenterToBackend(d) ==
    [short |-> d.short, region |-> d.region,
     monthly_colo_fee |-> d.coloMonthly, racks |-> d.racks, power_kw |-> d.power_kw]

OpenDCForm(d) == [d EXCEPT !.racks = Or(@, 1), !.power_kw = Or(@, 10)]

(***************************************************************************)
(* Servers                                                                 *)
(***************************************************************************)
\* Wrong on purpose (see "Mutants" in the README): the role is taken as it is.
KeepRole(role) == role

ToAssetRole(role) ==
    IF role \in ComputeRoles \cup {"storage", "network"} THEN role ELSE "bare-metal"

MapBackendServer(s) ==
    [type |-> "server", role |-> ToAssetRole(s.role), dcId |-> s.datacenter_id,
     cpuCores |-> s.vcpus, ramGB |-> s.memory_gb, powerWatts |-> s.power_watts,
     purchaseAmount |-> s.purchase_price, purchaseDate |-> s.purchase_date,
     amortMonths |-> s.amort_months, rackUnits |-> Or(s.rack_units, 1)]

\* Wrong on purpose: the role is forgotten.
MapAssetToBareMetal(a, region) ==
    [datacenter_id |-> a.dcId, region |-> region, role |-> "bare_metal",
     vcpus |-> a.cpuCores, memory_gb |-> a.ramGB, gpus |-> 0, status |-> "active",
     power_watts |-> a.powerWatts, rack_units |-> a.rackUnits,
     purchase_price |-> a.purchaseAmount, purchase_date |-> a.purchaseDate,
     amort_months |-> a.amortMonths]

\* A new server, and every server that is saved, is active and has no GPUs.
MapAssetToServer(a, region) ==
    [datacenter_id |-> a.dcId, region |-> region, role |-> a.role,
     vcpus |-> a.cpuCores, memory_gb |-> a.ramGB, gpus |-> 0, status |-> "active",
     power_watts |-> a.powerWatts, rack_units |-> a.rackUnits,
     purchase_price |-> a.purchaseAmount, purchase_date |-> a.purchaseDate,
     amort_months |-> a.amortMonths]

(***************************************************************************)
(* Infrastructure hardware                                                 *)
(***************************************************************************)
\* Whatever is not storage is shown as a switch, and saved as one.
ToInfraAssetType(hardware_type) == IF hardware_type = "storage" THEN "storage" ELSE "switch"

RoleOf(type) == CASE type = "switch" -> "network"
                  [] type = "storage" -> "storage"
                  [] type = "server" -> "k8s-node"

SpecOf(h, field, default) == IF field \in DOMAIN h.specs THEN h.specs[field] ELSE default

MapBackendInfraHardware(h) ==
    [type |-> ToInfraAssetType(h.hardware_type),
     role |-> RoleOf(ToInfraAssetType(h.hardware_type)), dcId |-> h.datacenter_id,
     cpuCores |-> 0, ramGB |-> 0, powerWatts |-> SpecOf(h, "power_watts", 0),
     purchaseAmount |-> h.purchase_price, purchaseDate |-> h.purchase_date,
     amortMonths |-> h.amort_months, rackUnits |-> SpecOf(h, "rack_units", 1)]

\* Wrong on purpose: the power is forgotten.
MapAssetToInfraWithoutSpecs(a, region) ==
    [datacenter_id |-> a.dcId, region |-> region, hardware_type |-> ToInfraAssetType(a.type),
     specs |-> <<>>, purchase_price |-> a.purchaseAmount, purchase_date |-> a.purchaseDate,
     amort_months |-> a.amortMonths]

MapAssetToInfra(a, region) ==
    [datacenter_id |-> a.dcId, region |-> region, hardware_type |-> ToInfraAssetType(a.type),
     specs |-> [power_watts |-> a.powerWatts, rack_units |-> a.rackUnits],
     purchase_price |-> a.purchaseAmount, purchase_date |-> a.purchaseDate,
     amort_months |-> a.amortMonths]

(***************************************************************************)
(* The form of an asset                                                    *)
(***************************************************************************)
NewAsset(dcId) ==
    [type |-> "server", role |-> "k8s-node", dcId |-> dcId, cpuCores |-> 0, ramGB |-> 0,
     powerWatts |-> 300, purchaseAmount |-> 0, purchaseDate |-> Month(2025, 1),
     amortMonths |-> 48, rackUnits |-> 1]

OpenAssetForm(a) ==
    [a EXCEPT !.powerWatts = Or(@, 300), !.amortMonths = Or(@, 48), !.rackUnits = Or(@, 1)]

\* A type brings its role along; only a server has the fields of a server.
SetField(f, field, v) ==
    IF field = "type" THEN [f EXCEPT !.type = v, !.role = RoleOf(v)]
                      ELSE [f EXCEPT ![field] = v]

Shown(f, field) == field \in {"role", "cpuCores", "ramGB"} => f.type = "server"

(***************************************************************************)
(* Services                                                                *)
(***************************************************************************)
\* Pods come first; where a workload runs is known down to its datacenter.
MapBackendWorkload(w) ==
    [hostId |-> w.datacenter_id, kind |-> w.kind, cpuRequest |-> w.vcpu,
     ramRequestGB |-> w.memory_gb, cpuUsage |-> w.cpu_usage, ramUsageGB |-> w.memory_usage_gb]

\* Environment, criticality and weight are not stored.
MapBackendService(s) ==
    [platform |-> s.platform, env |-> "prod", crit |-> "med", manualWeight |-> 1,
     workloads |-> [i \in DOMAIN s.rows |-> MapBackendWorkload(s.rows[i])]]
=============================================================================
