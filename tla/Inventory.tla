----------------------------- MODULE Inventory -----------------------------
(***************************************************************************)
(* The inventory: datacenters, the servers and the infrastructure hardware *)
(* in them, and the pods and VMs that are placed in them, with the keys    *)
(* and foreign keys of the schema; and GetDatacentersWithHardware, which   *)
(* the prices are computed from.  It lists the datacenters and then asks,  *)
(* datacenter by datacenter, for its servers and for its hardware, each a  *)
(* query of its own, while administrators edit.                            *)
(*                                                                         *)
(* An edit is one statement; one that breaks a key is refused and changes  *)
(* nothing.  Prices, capacities and the other attributes are left out.     *)
(***************************************************************************)
EXTENDS FiniteSets

CONSTANTS
    Datacenters, Servers, Hardware, \* ids, each given to one row at most
    Workloads,                      \* rows of service_pods and service_vms
    Names, Regions, Hostnames,
    NoFilter,                       \* in place of a name or a region
    Absent                          \* what an id stands for without a row

Assets == Servers \cup Hardware

ASSUME IdsAssumption ==
    /\ Servers \cap Hardware = {}
    /\ NoFilter \notin Names \cup Regions

Datacenter == [name : Names, region : Regions]
Asset      == [dc : Datacenters, hostname : Hostnames, region : Regions]

ASSUME AbsentAssumption == Absent \notin Datacenter \cup Asset \cup Datacenters

VARIABLES
    datacenters, assets,    \* the rows by id
    placed,                 \* the datacenter of each workload
    used,                   \* the ids ever given to a row
    read,                   \* the read in progress
    changed                 \* history: the assets changed since it began

vars == <<datacenters, assets, placed, used, read, changed>>

tables == <<datacenters, assets, placed, used>>

Present(d) == datacenters[d] # Absent

AssetsIn(ids, d) == {x \in ids : assets[x] # Absent /\ assets[x].dc = d}

(***************************************************************************)
(* A read: the datacenters it has listed, those whose servers and whose    *)
(* hardware it has asked for, and the assets it has got, each with its     *)
(* datacenter.                                                             *)
(***************************************************************************)
NoRead == [pc |-> "idle", listed |-> {}, servers |-> {}, hardware |-> {}, found |-> {}]

\* The assets of ids are edited.
Edit(ids) ==
    /\ changed' = IF read.pc = "idle" THEN {} ELSE changed \cup ids
    /\ UNCHANGED read

----------------------------------------------------------------------------
Init ==
    /\ datacenters = [d \in Datacenters |-> Absent]
    /\ assets = [x \in Assets |-> Absent]
    /\ placed = [w \in Workloads |-> Absent]
    /\ used = {}
    /\ read = NoRead
    /\ changed = {}

(***************************************************************************)
(* Datacenters.                                                            *)
(***************************************************************************)
NameFree(d, n) == \A e \in Datacenters \ {d} : Present(e) => datacenters[e].name # n

CreateDatacenter(d, n, r) ==
    /\ d \notin used
    /\ NameFree(d, n)
    /\ datacenters' = [datacenters EXCEPT ![d] = [name |-> n, region |-> r]]
    /\ used' = used \cup {d}
    /\ Edit({})
    /\ UNCHANGED <<assets, placed>>

UpdateDatacenter(d, n, r) ==
    /\ Present(d)
    /\ NameFree(d, n)
    /\ datacenters' = [datacenters EXCEPT ![d] = [name |-> n, region |-> r]]
    /\ Edit({})
    /\ UNCHANGED <<assets, placed, used>>

\* Wrong on purpose (see "Mutants" in the README): the hardware stays behind.
DeleteDatacenterOnly(d) ==
    /\ Present(d)
    /\ AssetsIn(Servers, d) = {}
    /\ \A w \in Workloads : placed[w] # d
    /\ datacenters' = [datacenters EXCEPT ![d] = Absent]
    /\ Edit({})
    /\ UNCHANGED <<assets, placed, used>>

\* Servers and workloads keep their datacenter; hardware is deleted with it.
DeleteDatacenter(d) ==
    /\ Present(d)
    /\ AssetsIn(Servers, d) = {}
    /\ \A w \in Workloads : placed[w] # d
    /\ datacenters' = [datacenters EXCEPT ![d] = Absent]
    /\ assets' = [x \in Assets |->
                     IF x \in AssetsIn(Hardware, d) THEN Absent ELSE assets[x]]
    /\ Edit(AssetsIn(Hardware, d))
    /\ UNCHANGED <<placed, used>>

(***************************************************************************)
(* Servers and infrastructure hardware, each in a table of its own.        *)
(***************************************************************************)
Table(x) == IF x \in Servers THEN Servers ELSE Hardware

KeyFree(x, a) == \A y \in Table(x) \ {x} : assets[y] # a

CreateAsset(x, a) ==
    /\ x \notin used
    /\ Present(a.dc)
    /\ KeyFree(x, a)
    /\ assets' = [assets EXCEPT ![x] = a]
    /\ used' = used \cup {x}
    /\ Edit({x})
    /\ UNCHANGED <<datacenters, placed>>

\* Wrong on purpose: duplicates are looked for on insertion only.
UpdateAssetUnchecked(x, a) ==
    /\ assets[x] # Absent
    /\ Present(a.dc)
    /\ assets' = [assets EXCEPT ![x] = a]
    /\ Edit({x})
    /\ UNCHANGED <<datacenters, placed, used>>

UpdateAsset(x, a) ==
    /\ assets[x] # Absent
    /\ Present(a.dc)
    /\ KeyFree(x, a)
    /\ assets' = [assets EXCEPT ![x] = a]
    /\ Edit({x})
    /\ UNCHANGED <<datacenters, placed, used>>

DeleteAsset(x) ==
    /\ assets[x] # Absent
    /\ assets' = [assets EXCEPT ![x] = Absent]
    /\ Edit({x})
    /\ UNCHANGED <<datacenters, placed, used>>

(***************************************************************************)
(* Pods and VMs.                                                           *)
(***************************************************************************)
\* Added to a service, or updated.
PlaceWorkload(w, d) ==
    /\ Present(d)
    /\ placed[w] # Absent \/ w \notin used
    /\ placed' = [placed EXCEPT ![w] = d]
    /\ used' = used \cup {w}
    /\ Edit({})
    /\ UNCHANGED <<datacenters, assets>>

DeleteWorkload(w) ==
    /\ placed[w] # Absent
    /\ placed' = [placed EXCEPT ![w] = Absent]
    /\ Edit({})
    /\ UNCHANGED <<datacenters, assets, used>>

(***************************************************************************)
(* GetDatacentersWithHardware.                                             *)
(***************************************************************************)
Matches(d, n, r) ==
    /\ Present(d)
    /\ n \in {NoFilter, datacenters[d].name}
    /\ r \in {NoFilter, datacenters[d].region}

ListDatacenters(n, r) ==
    /\ read.pc = "idle"
    /\ read' = [NoRead EXCEPT !.pc = "reading",
                              !.listed = {d \in Datacenters : Matches(d, n, r)}]
    /\ changed' = {}
    /\ UNCHANGED tables

Found(ids, d) == AssetsIn(ids, d) \X {d}

ReadServers(d) ==
    /\ read.pc = "reading"
    /\ d \in read.listed \ read.servers
    /\ read.servers = read.hardware
    /\ read' = [read EXCEPT !.servers = @ \cup {d},
                            !.found = @ \cup Found(Servers, d)]
    /\ UNCHANGED <<tables, changed>>

\* Wrong on purpose: the query for the hardware has no WHERE clause.
ReadAllHardware(d) ==
    /\ read.pc = "reading"
    /\ d \in read.servers \ read.hardware
    /\ read' = [read EXCEPT !.hardware = @ \cup {d},
                            !.found = @ \cup ({x \in Hardware : assets[x] # Absent} \X {d})]
    /\ UNCHANGED <<tables, changed>>

ReadHardware(d) ==
    /\ read.pc = "reading"
    /\ d \in read.servers \ read.hardware
    /\ read' = [read EXCEPT !.hardware = @ \cup {d},
                            !.found = @ \cup Found(Hardware, d)]
    /\ UNCHANGED <<tables, changed>>

\* The loop is over.
EndRead ==
    /\ read.pc = "reading"
    /\ read.hardware = read.listed
    /\ read' = [read EXCEPT !.pc = "done"]
    /\ UNCHANGED <<tables, changed>>

\* The caller has the result, or a query has failed and it gets none.
CloseRead ==
    /\ read.pc # "idle"
    /\ read' = NoRead
    /\ changed' = {}
    /\ UNCHANGED tables

----------------------------------------------------------------------------
Next ==
    \/ \E d \in Datacenters :
          \/ \E n \in Names, r \in Regions :
                CreateDatacenter(d, n, r) \/ UpdateDatacenter(d, n, r)
          \/ DeleteDatacenter(d)
          \/ \E w \in Workloads : PlaceWorkload(w, d)
          \/ ReadServers(d)
          \/ ReadHardware(d)
    \/ \E x \in Assets :
          \/ \E a \in Asset : CreateAsset(x, a) \/ UpdateAsset(x, a)
          \/ DeleteAsset(x)
    \/ \E w \in Workloads : DeleteWorkload(w)
    \/ \E n \in Names \cup {NoFilter}, r \in Regions \cup {NoFilter} :
          ListDatacenters(n, r)
    \/ EndRead
    \/ CloseRead

Spec == Init /\ [][Next]_vars

----------------------------------------------------------------------------
(***************************************************************************)
(* The rows have the columns of the schema, and its keys: a datacenter's   *)
(* name is its own, and so is a hostname among the servers, and among the  *)
(* hardware, of a datacenter and region.                                   *)
(***************************************************************************)
TypeOK ==
    /\ datacenters \in [Datacenters -> Datacenter \cup {Absent}]
    /\ assets \in [Assets -> Asset \cup {Absent}]
    /\ placed \in [Workloads -> Datacenters \cup {Absent}]
    /\ used \subseteq Datacenters \cup Assets \cup Workloads
    /\ read \in [pc : {"idle", "reading", "done"}, listed : SUBSET Datacenters,
                 servers : SUBSET Datacenters, hardware : SUBSET Datacenters,
                 found : SUBSET (Assets \X Datacenters)]
    /\ changed \subseteq Assets
    /\ \A d \in Datacenters : Present(d) => NameFree(d, datacenters[d].name)
    /\ \A x \in Assets : assets[x] # Absent => KeyFree(x, assets[x])

(***************************************************************************)
(* Whatever is deleted in whatever order, every server, every piece of     *)
(* hardware and every workload is in a datacenter that exists: the prices  *)
(* and the costs never lack the datacenter of something they are asked     *)
(* for.                                                                    *)
(***************************************************************************)
PlacesExist ==
    /\ \A x \in Assets : assets[x] # Absent => Present(assets[x].dc)
    /\ \A w \in Workloads : placed[w] # Absent => Present(placed[w])

(***************************************************************************)
(* The edits made while GetDatacentersWithHardware runs can falsify its    *)
(* result only for what they edit: an asset that nobody touched since the  *)
(* read began is in the result once, under its own datacenter, if that was *)
(* listed, and otherwise not at all.  It is only a server that is moved    *)
(* during the read that two datacenters, or none, may charge for.          *)
(***************************************************************************)
UntouchedCountedOnce ==
    read.pc = "done" =>
       \A x \in Assets \ changed :
          {d \in Datacenters : <<x, d>> \in read.found}
             = {d \in read.listed : assets[x] # Absent /\ assets[x].dc = d}
=============================================================================
