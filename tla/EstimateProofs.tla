--------------------------- MODULE EstimateProofs ---------------------------
(***************************************************************************)
(* Proofs about Estimate, for any datacenters, assets and services, any    *)
(* rows, edits and number of saves.                                        *)
(***************************************************************************)
EXTENDS Estimate, FiniteSetTheorems, WellFoundedInduction, TLAPS

-----------------------------------------------------------------------------
(***************************************************************************)
(* The types.  The page has what the mappers make of the rows, or what a   *)
(* form makes of that.                                                     *)
(***************************************************************************)
Lists ==
    [dcs      : [DcIds -> DataCenter(Regions) \cup {None}],
     assets   : [AssetIds -> Asset(DcIds) \cup {None}],
     services : [ServiceIds -> Service(DcIds) \cup {None}]]

\* What is not a server has the role of its type.
RoleFits(a) == a.type # "server" => a.role = RoleOf(a.type)

RolesFit(assets) == \A a \in AssetIds : assets[a] # None => RoleFits(assets[a])

OneRow(T) == \A a \in AssetIds : T.servers[a] = None \/ T.hardwares[a] = None

\* The mappers of the rows.
LEMMA DatacenterIsMapped ==
  ASSUME NEW row \in DatacenterRow(Regions)
  PROVE  MapBackendDataCenter(row) \in DataCenter(Regions)
  BY DEF DatacenterRow, DataCenter, MapBackendDataCenter

\* A server's row is mapped to an asset.
LEMMA ServerIsMapped ==
  ASSUME NEW row \in ServerRow(DcIds, Texts)
  PROVE  MapBackendServer(row) \in Asset(DcIds) /\ RoleFits(MapBackendServer(row))
  BY DEF ServerRow, Asset, AssetTypes, ComputeRoles, MapBackendServer, ToAssetRole, Or, RoleFits

\* Specs that are missing have a default.
LEMMA SpecIsNat ==
  ASSUME NEW row \in HardwareRow(DcIds, Texts), NEW field \in {"power_watts", "rack_units"}, NEW default \in Nat
  PROVE  SpecOf(row, field, default) \in Nat
<1>1. row.specs \in Specs
  BY DEF HardwareRow
<1>2. \A s \in Specs : field \in DOMAIN s => s[field] \in Nat
  BY DEF Specs
<1>3. QED
  BY <1>1, <1>2 DEF SpecOf

\* The row of a switch or a storage is mapped to an asset, with its type's role.
LEMMA HardwareIsMapped ==
  ASSUME NEW row \in HardwareRow(DcIds, Texts)
  PROVE  MapBackendInfraHardware(row) \in Asset(DcIds) /\ RoleFits(MapBackendInfraHardware(row))
<1>1. SpecOf(row, "power_watts", 0) \in Nat /\ SpecOf(row, "rack_units", 1) \in Nat
  BY SpecIsNat
<1>2. RoleOf("switch") = "network" /\ RoleOf("storage") = "storage"
  BY DEF RoleOf
<1>3. QED
  BY <1>1, <1>2 DEF HardwareRow, Asset, AssetTypes, MapBackendInfraHardware, ToInfraAssetType, RoleFits

\* A service's row is mapped to a service.
LEMMA ServiceIsMapped ==
  ASSUME NEW row \in ServiceRow(DcIds)
  PROVE  MapBackendService(row) \in Service(DcIds)
<1>1. \A w \in WorkloadRow(DcIds) : MapBackendWorkload(w) \in Workload(DcIds)
  BY DEF WorkloadRow, Workload, MapBackendWorkload
<1>2. row.rows \in Seq(WorkloadRow(DcIds)) /\ row.platform \in {"kubernetes", "vm"}
  BY DEF ServiceRow
<1>3. [i \in DOMAIN row.rows |-> MapBackendWorkload(row.rows[i])] \in Seq(Workload(DcIds))
  <2>1. ASSUME NEW i \in DOMAIN row.rows
        PROVE  row.rows[i] \in WorkloadRow(DcIds)
    BY <1>2
  <2>2. QED
    BY <1>1, <1>2, <2>1
<1>4. QED
  BY <1>2, <1>3 DEF Service, MapBackendService

\* The lists that are made of the tables have the page's types.
LEMMA TablesAreMapped ==
  ASSUME NEW T \in Tables, OneRow(T)
  PROVE  Mapped(T) \in Lists /\ RolesFit(Mapped(T).assets)
<1> DEFINE M == Mapped(T)
<1>1. \A d \in DcIds : T.datacenters[d] \in DatacenterRow(Regions) \cup {None}
  BY DEF Tables
<1>2. \A a \in AssetIds : /\ T.servers[a] \in ServerRow(DcIds, Texts) \cup {None}
                          /\ T.hardwares[a] \in HardwareRow(DcIds, Texts) \cup {None}
  BY DEF Tables
<1>3. \A s \in ServiceIds : T.services[s] \in ServiceRow(DcIds) \cup {None}
  BY DEF Tables
<1>4. M.dcs \in [DcIds -> DataCenter(Regions) \cup {None}]
  BY <1>1, DatacenterIsMapped DEF Mapped
<1>5. ASSUME NEW a \in AssetIds
      PROVE  M.assets[a] \in Asset(DcIds) \cup {None} /\ (M.assets[a] # None => RoleFits(M.assets[a]))
  <2>1. M.assets[a] = CASE T.servers[a] # None   -> MapBackendServer(T.servers[a])
                        [] T.hardwares[a] # None -> MapBackendInfraHardware(T.hardwares[a])
                        [] OTHER -> None
    BY DEF Mapped
  <2>2. CASE T.servers[a] # None
    <3>1. M.assets[a] = MapBackendServer(T.servers[a])
      BY <2>1, <2>2 DEF OneRow
    <3> HIDE DEF M
    <3>2. QED
      BY <1>2, <2>2, <3>1, ServerIsMapped
  <2>3. CASE T.servers[a] = None /\ T.hardwares[a] # None
    BY <1>2, <2>1, <2>3, HardwareIsMapped
  <2>4. CASE T.servers[a] = None /\ T.hardwares[a] = None
    BY <2>1, <2>4
  <2>5. QED
    BY <2>2, <2>3, <2>4
<1>6. M.assets \in [AssetIds -> Asset(DcIds) \cup {None}]
  BY <1>5 DEF Mapped
<1>7. M.services \in [ServiceIds -> Service(DcIds) \cup {None}]
  BY <1>3, ServiceIsMapped DEF Mapped
<1>8. M = [dcs |-> M.dcs, assets |-> M.assets, services |-> M.services]
  BY DEF Mapped
<1>9. RolesFit(M.assets)
  BY <1>5 DEF RolesFit
<1> HIDE DEF M
<1>10. M \in Lists
  BY <1>4, <1>6, <1>7, <1>8 DEF Lists
<1>11. QED
  BY <1>9, <1>10 DEF M

\* The edits of a form, by their field.
NatFields == {"cpuCores", "ramGB", "powerWatts", "purchaseAmount", "purchaseDate",
              "amortMonths", "rackUnits"}

\* What may be typed into which field.
LEMMA AssetEditKinds ==
  ASSUME NEW e \in AssetEdits
  PROVE  /\ e # NoEdit
         /\ \/ e[1] \in NatFields /\ e[2] \in Nat
            \/ e[1] = "type" /\ e[2] \in AssetTypes
            \/ e[1] = "role" /\ e[2] \in ComputeRoles \cup {"network", "storage"}
            \/ e[1] = "dcId" /\ e[2] \in DcIds
  BY EditsAssumption DEF NatFields

\* A form with another value in one field is one.
LEMMA FieldIsSet ==
  ASSUME NEW f \in Asset(DcIds), NEW e \in AssetEdits, e[1] # "dcId", RoleFits(f), Shown(f, e[1])
  PROVE  SetField(f, e[1], e[2]) \in Asset(DcIds) /\ RoleFits(SetField(f, e[1], e[2]))
<1>1. ASSUME NEW v \in Nat
      PROVE  /\ [f EXCEPT !["cpuCores"] = v] \in Asset(DcIds)
             /\ [f EXCEPT !["ramGB"] = v] \in Asset(DcIds)
             /\ [f EXCEPT !["powerWatts"] = v] \in Asset(DcIds)
             /\ [f EXCEPT !["purchaseAmount"] = v] \in Asset(DcIds)
             /\ [f EXCEPT !["purchaseDate"] = v] \in Asset(DcIds)
             /\ [f EXCEPT !["amortMonths"] = v] \in Asset(DcIds)
             /\ [f EXCEPT !["rackUnits"] = v] \in Asset(DcIds)
  BY DEF Asset
<1>2. ASSUME NEW field \in NatFields, NEW v
      PROVE  /\ [f EXCEPT ![field] = v].type = f.type
             /\ [f EXCEPT ![field] = v].role = f.role
  BY DEF Asset, NatFields
<1>3. CASE e[1] \in NatFields /\ e[2] \in Nat
  <2>1. SetField(f, e[1], e[2]) = [f EXCEPT ![e[1]] = e[2]]
    BY <1>3 DEF SetField, NatFields
  <2>2. [f EXCEPT ![e[1]] = e[2]] \in Asset(DcIds)
    BY <1>1, <1>3 DEF NatFields
  <2>3. QED
    BY <1>2, <1>3, <2>1, <2>2 DEF RoleFits
<1>4. CASE e[1] = "type" /\ e[2] \in AssetTypes
  <2>1. SetField(f, e[1], e[2]) = [f EXCEPT !.type = e[2], !.role = RoleOf(e[2])]
    BY <1>4 DEF SetField
  <2>2. RoleOf(e[2]) \in ComputeRoles \cup {"network", "storage"}
    BY <1>4 DEF RoleOf, AssetTypes, ComputeRoles
  <2>3. QED
    BY <1>4, <2>1, <2>2 DEF Asset, RoleFits
<1>5. CASE e[1] = "role" /\ e[2] \in ComputeRoles \cup {"network", "storage"}
  <2>1. f.type = "server" /\ SetField(f, e[1], e[2]) = [f EXCEPT !["role"] = e[2]]
    BY <1>5 DEF SetField, Shown
  <2>2. QED
    BY <1>5, <2>1 DEF Asset, RoleFits
<1>6. QED
  BY <1>3, <1>4, <1>5, AssetEditKinds

\* What is typed into the form of an asset is an asset.
LEMMA FormIsTyped ==
  ASSUME page \in Lists, NEW f \in Asset(DcIds), RoleFits(f),
         NEW e \in AssetEdits \cup {NoEdit}, NEW g \in Typed(f, e)
  PROVE  g \in Asset(DcIds) /\ RoleFits(g)
<1>1. CASE e = NoEdit
  <2>1. Typed(f, e) = {f}
    BY <1>1 DEF Typed
  <2>2. QED
    BY <2>1
<1>2. CASE e # NoEdit /\ e[1] = "dcId"
  <2>1. PICK d \in DcIds : g = [f EXCEPT !.dcId = d]
    BY <1>2 DEF Typed, Dcs
  <2>2. QED
    BY <2>1 DEF Asset, RoleFits
<1>3. CASE e # NoEdit /\ e[1] # "dcId"
  <2>1. Shown(f, e[1]) /\ g = SetField(f, e[1], e[2])
    BY <1>3 DEF Typed
  <2>2. QED
    BY <1>3, <2>1, FieldIsSet
<1>4. QED
  BY <1>1, <1>2, <1>3

\* The form that an asset is opened in is an asset.
LEMMA FormsOpen ==
  ASSUME NEW a \in Asset(DcIds), RoleFits(a)
  PROVE  OpenAssetForm(a) \in Asset(DcIds) /\ RoleFits(OpenAssetForm(a))
<1> DEFINE o == OpenAssetForm(a)
<1>1. /\ a.powerWatts \in Nat /\ a.amortMonths \in Nat /\ a.rackUnits \in Nat
      /\ \A n, k \in Nat : Or(n, k) \in Nat
  BY DEF Asset, Or
<1>2. Or(a.powerWatts, 300) \in Nat /\ Or(a.amortMonths, 48) \in Nat /\ Or(a.rackUnits, 1) \in Nat
  BY <1>1
<1>3. o \in Asset(DcIds) /\ o.type = a.type /\ o.role = a.role
  <2> DEFINE p == Or(a.powerWatts, 300)
             m == Or(a.amortMonths, 48)
             u == Or(a.rackUnits, 1)
  <2>1. o = [a EXCEPT !.powerWatts = p, !.amortMonths = m, !.rackUnits = u]
    BY DEF OpenAssetForm
  <2>2. p \in Nat /\ m \in Nat /\ u \in Nat
    BY <1>2
  <2> HIDE DEF o, p, m, u
  <2>3. QED
    BY <2>1, <2>2 DEF Asset
<1>4. QED
  BY <1>3 DEF RoleFits

\* So is the form of a new asset.
LEMMA NewAssetIsTyped ==
  ASSUME NEW d \in DcIds
  PROVE  NewAsset(d) \in Asset(DcIds) /\ RoleFits(NewAsset(d))
<1>1. Month(2025, 1) \in Nat
  BY DEF Month
<1>2. QED
  BY <1>1 DEF NewAsset, Asset, AssetTypes, ComputeRoles, RoleFits

\* The rows that a form is saved as.
LEMMA FormIsServerRow ==
  ASSUME NEW f \in Asset(DcIds), NEW region \in Texts
  PROVE  MapAssetToServer(f, region) \in ServerRow(DcIds, Texts)
<1>1. f.role \in Texts
  BY TextsAssumption DEF Asset, AssetTypes
<1>2. QED
  BY <1>1, TextsAssumption DEF Asset, ServerRow, MapAssetToServer

\* The same of what is not a server.
LEMMA FormIsHardwareRow ==
  ASSUME NEW f \in Asset(DcIds), NEW region \in Texts
  PROVE  MapAssetToInfra(f, region) \in HardwareRow(DcIds, Texts)
<1>1. [power_watts |-> f.powerWatts, rack_units |-> f.rackUnits] \in Specs
  BY DEF Asset, Specs
<1>2. ToInfraAssetType(f.type) \in Texts
  BY TextsAssumption DEF ToInfraAssetType, AssetTypes
<1>3. QED
  BY <1>1, <1>2 DEF Asset, HardwareRow, MapAssetToInfra

\* The region of a datacenter that is shown, or nothing, is a text.
LEMMA RegionIsText ==
  ASSUME page \in Lists, NEW d \in DcIds
  PROVE  DcRegion(d) \in Texts
<1>1. page.dcs[d] \in DataCenter(Regions) \cup {None}
  BY DEF Lists
<1>2. QED
  BY <1>1, TextsAssumption DEF DcRegion, DataCenter

\* The form of a datacenter, and the row it is saved as.
LEMMA DcFormIsTyped ==
  ASSUME NEW p \in DataCenter(Regions), NEW e \in DcEdits \cup {NoEdit}
  PROVE  LET opened == OpenDCForm(p)
             f      == IF e = NoEdit THEN opened ELSE [opened EXCEPT ![e[1]] = e[2]]
         IN  f \in DataCenter(Regions) /\ MapDataCenterToBackend(f) \in DatacenterRow(Regions)
<1> DEFINE o == OpenDCForm(p)
<1>1. o \in DataCenter(Regions)
  BY DEF OpenDCForm, DataCenter, Or
<1>2. \A f \in DataCenter(Regions) : MapDataCenterToBackend(f) \in DatacenterRow(Regions)
  BY DEF DataCenter, DatacenterRow, MapDataCenterToBackend
<1>3. ASSUME NEW v \in Nat
      PROVE  /\ [o EXCEPT !["coloMonthly"] = v] \in DataCenter(Regions)
             /\ [o EXCEPT !["racks"] = v] \in DataCenter(Regions)
             /\ [o EXCEPT !["power_kw"] = v] \in DataCenter(Regions)
  <2> HIDE DEF o
  <2> QED
    BY <1>1 DEF DataCenter
<1>4. /\ \A v \in Regions : [o EXCEPT !["region"] = v] \in DataCenter(Regions)
      /\ \A v \in {"given", ""} : [o EXCEPT !["short"] = v] \in DataCenter(Regions)
  <2> HIDE DEF o
  <2> QED
    BY <1>1 DEF DataCenter
<1>5. CASE e = NoEdit
  BY <1>1, <1>2, <1>5
<1>6. CASE e # NoEdit
  <2>1. \/ e[1] \in {"coloMonthly", "racks", "power_kw"} /\ e[2] \in Nat
        \/ e[1] = "region" /\ e[2] \in Regions
        \/ e[1] = "short" /\ e[2] \in {"given", ""}
    BY <1>6, EditsAssumption
  <2> HIDE DEF o
  <2>2. [o EXCEPT ![e[1]] = e[2]] \in DataCenter(Regions)
    BY <1>3, <1>4, <2>1
  <2>3. QED
    BY <1>2, <1>6, <2>2 DEF o
<1>7. QED
  BY <1>5, <1>6

-----------------------------------------------------------------------------
(***************************************************************************)
(* The invariant: the page, L, shows what the tables, T, are mapped to,    *)
(* but for the rack units of an asset and the short code of a datacenter,  *)
(* which the mappers fill in, and but for hardware that was deleted with   *)
(* its datacenter.                                                         *)
(***************************************************************************)
DcsAgree(L, M) ==
    \A d \in DcIds : /\ L.dcs[d] = None <=> M.dcs[d] = None
                     /\ L.dcs[d] # None => L.dcs[d].coloMonthly = M.dcs[d].coloMonthly

SameAsset(p, q) ==
    /\ p # None /\ q # None
    /\ p.type = q.type /\ p.role = q.role /\ p.dcId = q.dcId
    /\ p.cpuCores = q.cpuCores /\ p.ramGB = q.ramGB /\ p.powerWatts = q.powerWatts
    /\ p.purchaseAmount = q.purchaseAmount /\ p.purchaseDate = q.purchaseDate
    /\ p.amortMonths = q.amortMonths
    /\ Or(p.rackUnits, 1) = Or(q.rackUnits, 1)

Astray(L, a) ==
    /\ L.assets[a] # None
    /\ L.assets[a].dcId \notin Dcs(L)

AssetsAgree(L, M) ==
    \A a \in AssetIds : \/ L.assets[a] = None /\ M.assets[a] = None
                        \/ SameAsset(L.assets[a], M.assets[a])
                        \/ M.assets[a] = None /\ Astray(L, a)

Agrees(L, M) == DcsAgree(L, M) /\ AssetsAgree(L, M) /\ L.services = M.services

Good(T, L) ==
    /\ T \in Tables /\ OneRow(T)
    /\ L \in Lists /\ RolesFit(L.assets)
    /\ Agrees(L, Mapped(T))

EstimateInv == Good(tables, page) /\ saves \in 0..MaxSaves

\* After a refresh the page is what the tables are mapped to.
LEMMA RefreshIsGood ==
  ASSUME NEW T \in Tables, OneRow(T)
  PROVE  Good(T, Mapped(T))
<1> DEFINE M == Mapped(T)
<1>1. M \in Lists /\ RolesFit(M.assets)
  BY TablesAreMapped
<1>2. \A a \in AssetIds : M.assets[a] # None => SameAsset(M.assets[a], M.assets[a])
  BY DEF SameAsset
<1>3. Agrees(M, M)
  BY <1>2 DEF Agrees, DcsAgree, AssetsAgree
<1>4. QED
  BY <1>1, <1>3 DEF Good

\* The rows of an asset decide what the mapped list has of it.
LEMMA MappedAsset ==
  ASSUME NEW T, OneRow(T), NEW a \in AssetIds
  PROVE  /\ T.servers[a] # None => Mapped(T).assets[a] = MapBackendServer(T.servers[a])
         /\ T.hardwares[a] # None => Mapped(T).assets[a] = MapBackendInfraHardware(T.hardwares[a])
         /\ T.servers[a] = None /\ T.hardwares[a] = None => Mapped(T).assets[a] = None
<1>1. Mapped(T).assets[a] = CASE T.servers[a] # None   -> MapBackendServer(T.servers[a])
                              [] T.hardwares[a] # None -> MapBackendInfraHardware(T.hardwares[a])
                              [] OTHER -> None
  BY DEF Mapped
<1>2. T.servers[a] = None \/ T.hardwares[a] = None
  BY DEF OneRow
<1> HIDE DEF Mapped
<1>3. QED
  BY <1>1, <1>2

\* A row that is mapped is no None, and the type tells which table it is of.
LEMMA MappedType ==
  ASSUME NEW T \in Tables, OneRow(T), NEW a \in AssetIds
  PROVE  /\ T.servers[a] # None =>
               Mapped(T).assets[a] # None /\ Mapped(T).assets[a].type = "server"
         /\ T.hardwares[a] # None =>
               /\ Mapped(T).assets[a] # None /\ Mapped(T).assets[a].type # "server"
               /\ Mapped(T).assets[a].cpuCores = 0 /\ Mapped(T).assets[a].ramGB = 0
<1>1. T.servers[a] \in ServerRow(DcIds, Texts) \cup {None} /\ T.hardwares[a] \in HardwareRow(DcIds, Texts) \cup {None}
  BY DEF Tables
<1>2. ASSUME T.servers[a] # None
      PROVE  Mapped(T).assets[a] # None /\ Mapped(T).assets[a].type = "server"
  <2>1. MapBackendServer(T.servers[a]) \in Asset(DcIds)
    BY <1>1, <1>2, ServerIsMapped
  <2>2. Mapped(T).assets[a] = MapBackendServer(T.servers[a])
    BY <1>2, MappedAsset
  <2>3. QED
    BY <2>1, <2>2, NoneAssumption DEF MapBackendServer
<1>3. ASSUME T.hardwares[a] # None
      PROVE  /\ Mapped(T).assets[a] # None /\ Mapped(T).assets[a].type # "server"
             /\ Mapped(T).assets[a].cpuCores = 0 /\ Mapped(T).assets[a].ramGB = 0
  <2>1. MapBackendInfraHardware(T.hardwares[a]) \in Asset(DcIds)
    BY <1>1, <1>3, HardwareIsMapped
  <2>2. Mapped(T).assets[a] = MapBackendInfraHardware(T.hardwares[a])
    BY <1>3, MappedAsset
  <2>3. QED
    BY <2>1, <2>2, NoneAssumption DEF MapBackendInfraHardware, ToInfraAssetType
<1>4. QED
  BY <1>2, <1>3

\* A form shows, saved and mapped again, what it was.
LEMMA ServerComesBack ==
  ASSUME NEW f \in Asset(DcIds), f.type = "server", NEW region \in Texts
  PROVE  SameAsset(f, MapBackendServer(MapAssetToServer(f, region)))
<1> DEFINE row == MapAssetToServer(f, region)
           b == MapBackendServer(row)
<1>1. row \in ServerRow(DcIds, Texts)
  BY FormIsServerRow
<1>2. b \in Asset(DcIds)
  BY <1>1, ServerIsMapped
<1>3. b # None /\ f # None
  BY <1>2, NoneAssumption
<1>4. ToAssetRole(f.role) = f.role
  BY DEF Asset, ToAssetRole
<1>5. Or(f.rackUnits, 1) = Or(Or(f.rackUnits, 1), 1)
  BY DEF Or
<1>6. QED
  BY <1>3, <1>4, <1>5 DEF SameAsset, MapBackendServer, MapAssetToServer

\* The same of what is not a server: it has no cores and no memory.
LEMMA HardwareComesBack ==
  ASSUME NEW f \in Asset(DcIds), RoleFits(f), f.type # "server", f.cpuCores = 0, f.ramGB = 0,
         NEW region \in Texts
  PROVE  SameAsset(f, MapBackendInfraHardware(MapAssetToInfra(f, region)))
<1> DEFINE row == MapAssetToInfra(f, region)
           b == MapBackendInfraHardware(row)
<1>1. row \in HardwareRow(DcIds, Texts)
  BY FormIsHardwareRow
<1>2. b \in Asset(DcIds)
  BY <1>1, HardwareIsMapped
<1>3. b # None /\ f # None
  BY <1>2, NoneAssumption
<1>4. ToInfraAssetType(ToInfraAssetType(f.type)) = f.type
  BY DEF Asset, AssetTypes, ToInfraAssetType
<1>5. SpecOf(row, "power_watts", 0) = f.powerWatts /\ SpecOf(row, "rack_units", 1) = f.rackUnits
  BY DEF SpecOf, MapAssetToInfra
<1>6. f.role = RoleOf(f.type)
  BY DEF RoleFits
<1>7. /\ b.type = ToInfraAssetType(row.hardware_type) /\ b.role = RoleOf(ToInfraAssetType(row.hardware_type))
      /\ b.dcId = row.datacenter_id /\ b.cpuCores = 0 /\ b.ramGB = 0
      /\ b.powerWatts = SpecOf(row, "power_watts", 0) /\ b.rackUnits = SpecOf(row, "rack_units", 1)
      /\ b.purchaseAmount = row.purchase_price /\ b.purchaseDate = row.purchase_date
      /\ b.amortMonths = row.amort_months
  BY DEF MapBackendInfraHardware
<1>8. /\ row.hardware_type = ToInfraAssetType(f.type) /\ row.datacenter_id = f.dcId
      /\ row.purchase_price = f.purchaseAmount /\ row.purchase_date = f.purchaseDate
      /\ row.amort_months = f.amortMonths
  BY DEF MapAssetToInfra
<1> HIDE DEF row, b
<1>9. SameAsset(f, b)
  BY <1>3, <1>4, <1>5, <1>6, <1>7, <1>8 DEF SameAsset
<1>10. QED
  BY <1>9 DEF b, row

-----------------------------------------------------------------------------
(***************************************************************************)
(* What a save or a deletion does to tables and lists that agree.          *)
(***************************************************************************)
\* A list with another row of one asset is one.
LEMMA TablesWithAsset ==
  ASSUME NEW T \in Tables, OneRow(T), NEW a \in AssetIds
  PROVE  /\ \A row \in ServerRow(DcIds, Texts) \cup {None} :
               /\ [T EXCEPT !.servers[a] = row] \in Tables
               /\ row = None \/ T.hardwares[a] = None => OneRow([T EXCEPT !.servers[a] = row])
         /\ \A row \in HardwareRow(DcIds, Texts) \cup {None} :
               /\ [T EXCEPT !.hardwares[a] = row] \in Tables
               /\ row = None \/ T.servers[a] = None => OneRow([T EXCEPT !.hardwares[a] = row])
<1> DEFINE Servers   == ServerRow(DcIds, Texts) \cup {None}
           Hardwares == HardwareRow(DcIds, Texts) \cup {None}
           Sites     == [DcIds -> DatacenterRow(Regions) \cup {None}]
           Rows      == [ServiceIds -> ServiceRow(DcIds) \cup {None}]
<1>1. Tables = [datacenters : Sites, servers : [AssetIds -> Servers],
                hardwares : [AssetIds -> Hardwares], services : Rows]
  BY DEF Tables
<1>2. T.servers \in [AssetIds -> Servers] /\ T.hardwares \in [AssetIds -> Hardwares]
  BY DEF Tables
<1> HIDE DEF Servers, Hardwares, Sites, Rows
<1>3. ASSUME NEW row \in Servers
      PROVE  /\ [T EXCEPT !.servers[a] = row] \in Tables
             /\ row = None \/ T.hardwares[a] = None => OneRow([T EXCEPT !.servers[a] = row])
  <2>1. [T.servers EXCEPT ![a] = row] \in [AssetIds -> Servers]
    BY <1>2
  <2>2. [T EXCEPT !.servers[a] = row] \in Tables
    BY <1>1, <2>1
  <2>3. /\ [T EXCEPT !.servers[a] = row].servers = [T.servers EXCEPT ![a] = row]
        /\ [T EXCEPT !.servers[a] = row].hardwares = T.hardwares
    BY <1>1
  <2>4. QED
    BY <1>2, <2>2, <2>3 DEF OneRow
<1>4. ASSUME NEW row \in Hardwares
      PROVE  /\ [T EXCEPT !.hardwares[a] = row] \in Tables
             /\ row = None \/ T.servers[a] = None => OneRow([T EXCEPT !.hardwares[a] = row])
  <2>1. [T.hardwares EXCEPT ![a] = row] \in [AssetIds -> Hardwares]
    BY <1>2
  <2>2. [T EXCEPT !.hardwares[a] = row] \in Tables
    BY <1>1, <2>1
  <2>3. /\ [T EXCEPT !.hardwares[a] = row].hardwares = [T.hardwares EXCEPT ![a] = row]
        /\ [T EXCEPT !.hardwares[a] = row].servers = T.servers
    BY <1>1
  <2>4. QED
    BY <1>2, <2>2, <2>3 DEF OneRow
<1>5. QED
  BY <1>3, <1>4 DEF Servers, Hardwares

\* What another row of one asset leaves alone.
LEMMA TheOtherRows ==
  ASSUME NEW T \in Tables, NEW a \in AssetIds, NEW row
  PROVE  /\ \A b \in AssetIds \ {a} :
               /\ [T EXCEPT !.servers[a] = row].servers[b] = T.servers[b]
               /\ [T EXCEPT !.hardwares[a] = row].hardwares[b] = T.hardwares[b]
         /\ [T EXCEPT !.servers[a] = row].servers[a] = row
         /\ [T EXCEPT !.servers[a] = row].hardwares = T.hardwares
         /\ [T EXCEPT !.servers[a] = row].datacenters = T.datacenters
         /\ [T EXCEPT !.servers[a] = row].services = T.services
         /\ [T EXCEPT !.hardwares[a] = row].hardwares[a] = row
         /\ [T EXCEPT !.hardwares[a] = row].servers = T.servers
         /\ [T EXCEPT !.hardwares[a] = row].datacenters = T.datacenters
         /\ [T EXCEPT !.hardwares[a] = row].services = T.services
  BY DEF Tables

\* The page may show something else of one asset, if that is what its rows
\* are mapped to.
LEMMA OneAssetIsSaved ==
  ASSUME NEW T, NEW L, Good(T, L), NEW U \in Tables, OneRow(U),
         NEW a \in AssetIds, NEW p \in Asset(DcIds) \cup {None}, p # None => RoleFits(p),
         U.datacenters = T.datacenters, U.services = T.services,
         \A b \in AssetIds \ {a} : U.servers[b] = T.servers[b] /\ U.hardwares[b] = T.hardwares[b],
         \/ p = None /\ Mapped(U).assets[a] = None
         \/ SameAsset(p, Mapped(U).assets[a])
  PROVE  Good(U, [L EXCEPT !.assets[a] = p])
<1> DEFINE K == [L EXCEPT !.assets[a] = p]
           Sites    == [DcIds -> DataCenter(Regions) \cup {None}]
           Shown1   == Asset(DcIds) \cup {None}
           Served   == [ServiceIds -> Service(DcIds) \cup {None}]
<1>1. Lists = [dcs : Sites, assets : [AssetIds -> Shown1], services : Served]
  BY DEF Lists
<1>2. L \in Lists /\ L.assets \in [AssetIds -> Shown1] /\ p \in Shown1
  BY DEF Good, Lists
<1> HIDE DEF Sites, Shown1, Served
<1>3. [L.assets EXCEPT ![a] = p] \in [AssetIds -> Shown1]
  BY <1>2
<1>4. K \in Lists
  BY <1>1, <1>2, <1>3
<1>5. K.dcs = L.dcs /\ K.services = L.services /\ K.assets = [L.assets EXCEPT ![a] = p]
  BY <1>1, <1>2
<1>6. K.assets[a] = p /\ \A b \in AssetIds \ {a} : K.assets[b] = L.assets[b]
  BY <1>2, <1>5
<1> HIDE DEF K
<1>7. RolesFit(K.assets)
  BY <1>6 DEF Good, RolesFit
<1>8. /\ Mapped(U).dcs = Mapped(T).dcs /\ Mapped(U).services = Mapped(T).services
      /\ \A b \in AssetIds \ {a} : Mapped(U).assets[b] = Mapped(T).assets[b]
  BY DEF Mapped
<1>9. AssetsAgree(K, Mapped(U))
  <2>1. AssetsAgree(L, Mapped(T))
    BY DEF Good, Agrees
  <2>2. Dcs(K) = Dcs(L)
    BY <1>5 DEF Dcs
  <2>3. QED
    BY <1>6, <1>8, <2>1, <2>2 DEF AssetsAgree, Astray
<1>10. DcsAgree(K, Mapped(U))
  BY <1>5, <1>8 DEF Good, Agrees, DcsAgree
<1>11. K.services = Mapped(U).services
  BY <1>5, <1>8 DEF Good, Agrees
<1>12. Good(U, K)
  BY <1>4, <1>7, <1>9, <1>10, <1>11 DEF Good, Agrees
<1>13. QED
  BY <1>12 DEF K

\* A datacenter that is saved.
LEMMA DatacenterIsSaved ==
  ASSUME NEW T, NEW L, Good(T, L), NEW d \in DcIds, NEW f \in DataCenter(Regions),
         MapDataCenterToBackend(f) \in DatacenterRow(Regions), L.dcs[d] # None
  PROVE  Good([T EXCEPT !.datacenters[d] = MapDataCenterToBackend(f)], [L EXCEPT !.dcs[d] = f])
<1> DEFINE row == MapDataCenterToBackend(f)
           U   == [T EXCEPT !.datacenters[d] = row]
           K   == [L EXCEPT !.dcs[d] = f]
           Sites == DatacenterRow(Regions) \cup {None}
           Shown1 == DataCenter(Regions) \cup {None}
           Servers == [AssetIds -> ServerRow(DcIds, Texts) \cup {None}]
           Hardwares == [AssetIds -> HardwareRow(DcIds, Texts) \cup {None}]
           Rows == [ServiceIds -> ServiceRow(DcIds) \cup {None}]
           Assets1 == [AssetIds -> Asset(DcIds) \cup {None}]
           Served == [ServiceIds -> Service(DcIds) \cup {None}]
<1>1. Tables = [datacenters : [DcIds -> Sites], servers : Servers, hardwares : Hardwares, services : Rows]
  BY DEF Tables
<1>2. Lists = [dcs : [DcIds -> Shown1], assets : Assets1, services : Served]
  BY DEF Lists
<1>3. row \in Sites /\ f \in Shown1 /\ row # None /\ f # None
  BY NoneAssumption
<1>4. MapBackendDataCenter(row).coloMonthly = f.coloMonthly
  BY DEF MapBackendDataCenter, MapDataCenterToBackend
<1>5. T \in Tables /\ OneRow(T) /\ L \in Lists
  BY DEF Good
<1>20. MapBackendDataCenter(row) # None
  BY DatacenterIsMapped, NoneAssumption
<1> HIDE DEF Sites, Shown1, Servers, Hardwares, Rows, Assets1, Served, row
<1>6. T.datacenters \in [DcIds -> Sites] /\ L.dcs \in [DcIds -> Shown1]
  BY <1>1, <1>2, <1>5
<1>7. [T.datacenters EXCEPT ![d] = row] \in [DcIds -> Sites] /\ [L.dcs EXCEPT ![d] = f] \in [DcIds -> Shown1]
  BY <1>3, <1>6
<1>8. U \in Tables /\ K \in Lists
  BY <1>1, <1>2, <1>5, <1>7
<1>9. /\ U.datacenters = [T.datacenters EXCEPT ![d] = row] /\ U.servers = T.servers
      /\ U.hardwares = T.hardwares /\ U.services = T.services
      /\ K.dcs = [L.dcs EXCEPT ![d] = f] /\ K.assets = L.assets /\ K.services = L.services
  BY <1>1, <1>2, <1>5
<1>10. /\ U.datacenters[d] = row /\ \A c \in DcIds \ {d} : U.datacenters[c] = T.datacenters[c]
       /\ K.dcs[d] = f /\ \A c \in DcIds \ {d} : K.dcs[c] = L.dcs[c]
  BY <1>6, <1>9
<1> HIDE DEF U, K
<1>11. OneRow(U) /\ RolesFit(K.assets)
  BY <1>5, <1>9 DEF Good, OneRow
<1>12. /\ Mapped(U).assets = Mapped(T).assets /\ Mapped(U).services = Mapped(T).services
       /\ Mapped(U).dcs[d] = MapBackendDataCenter(row)
       /\ \A c \in DcIds \ {d} : Mapped(U).dcs[c] = Mapped(T).dcs[c]
  BY <1>3, <1>9, <1>10 DEF Mapped
<1>13. DcsAgree(K, Mapped(U))
  <2>1. DcsAgree(L, Mapped(T))
    BY DEF Good, Agrees
  <2>2. QED
    BY <1>3, <1>4, <1>10, <1>12, <1>20, <2>1 DEF DcsAgree
<1>14. Dcs(K) = Dcs(L)
  BY <1>3, <1>10 DEF Dcs
<1>15. AssetsAgree(K, Mapped(U))
  BY <1>9, <1>12, <1>14 DEF Good, Agrees, AssetsAgree, Astray
<1>16. K.services = Mapped(U).services
  BY <1>9, <1>12 DEF Good, Agrees
<1>17. Good(U, K)
  BY <1>8, <1>11, <1>13, <1>15, <1>16 DEF Good, Agrees
<1>18. QED
  BY <1>17 DEF U, K, row

\* A datacenter that is deleted: its hardware stays on the page, and is astray.
LEMMA DatacenterIsDeleted ==
  ASSUME NEW T, NEW L, Good(T, L), NEW d \in DcIds, NEW U \in Tables,
         \A a \in AssetIds : T.servers[a] # None => T.servers[a].datacenter_id # d,
         U.datacenters = [T.datacenters EXCEPT ![d] = None], U.servers = T.servers,
         U.services = T.services,
         \A a \in AssetIds : \/ U.hardwares[a] = T.hardwares[a]
                             \/ /\ U.hardwares[a] = None /\ T.hardwares[a] # None
                                /\ T.hardwares[a].datacenter_id = d
  PROVE  Good(U, [L EXCEPT !.dcs[d] = None])
<1> DEFINE K == [L EXCEPT !.dcs[d] = None]
           Shown1 == DataCenter(Regions) \cup {None}
           Assets1 == [AssetIds -> Asset(DcIds) \cup {None}]
           Served == [ServiceIds -> Service(DcIds) \cup {None}]
<1>1. Lists = [dcs : [DcIds -> Shown1], assets : Assets1, services : Served]
  BY DEF Lists
<1>2. None \in Shown1
  OBVIOUS
<1>3. T \in Tables /\ OneRow(T) /\ L \in Lists
  BY DEF Good
<1>4. T.datacenters \in [DcIds -> DatacenterRow(Regions) \cup {None}]
  BY <1>3 DEF Tables
<1> HIDE DEF Shown1, Assets1, Served
<1>5. L.dcs \in [DcIds -> Shown1]
  BY <1>1, <1>3
<1>6. [L.dcs EXCEPT ![d] = None] \in [DcIds -> Shown1]
  BY <1>2, <1>5
<1>7. K \in Lists
  BY <1>1, <1>3, <1>6
<1>8. K.dcs = [L.dcs EXCEPT ![d] = None] /\ K.assets = L.assets /\ K.services = L.services
  BY <1>1, <1>3
<1>9. /\ U.datacenters[d] = None /\ \A c \in DcIds \ {d} : U.datacenters[c] = T.datacenters[c]
      /\ K.dcs[d] = None /\ \A c \in DcIds \ {d} : K.dcs[c] = L.dcs[c]
  BY <1>4, <1>5, <1>8
<1> HIDE DEF K
<1>10. OneRow(U)
  BY <1>3 DEF OneRow
<1>11. RolesFit(K.assets)
  BY <1>8 DEF Good
<1>12. /\ Mapped(U).services = Mapped(T).services
       /\ Mapped(U).dcs[d] = None
       /\ \A c \in DcIds \ {d} : Mapped(U).dcs[c] = Mapped(T).dcs[c]
  BY <1>9 DEF Mapped
<1>13. DcsAgree(K, Mapped(U))
  <2>1. DcsAgree(L, Mapped(T))
    BY DEF Good, Agrees
  <2>2. QED
    BY <1>9, <1>12, <2>1 DEF DcsAgree
<1>14. Dcs(K) = Dcs(L) \ {d}
  BY <1>9 DEF Dcs
<1>15. ASSUME NEW a \in AssetIds
       PROVE  \/ K.assets[a] = None /\ Mapped(U).assets[a] = None
              \/ SameAsset(K.assets[a], Mapped(U).assets[a])
              \/ Mapped(U).assets[a] = None /\ Astray(K, a)
  <2>1. \/ L.assets[a] = None /\ Mapped(T).assets[a] = None
        \/ SameAsset(L.assets[a], Mapped(T).assets[a])
        \/ Mapped(T).assets[a] = None /\ Astray(L, a)
    BY DEF Good, Agrees, AssetsAgree
  <2>2. CASE U.hardwares[a] = T.hardwares[a]
    <3>1. Mapped(U).assets[a] = Mapped(T).assets[a]
      BY <2>2 DEF Mapped
    <3>2. QED
      BY <1>8, <1>14, <2>1, <3>1 DEF Astray
  <2>3. CASE U.hardwares[a] = None /\ T.hardwares[a] # None /\ T.hardwares[a].datacenter_id = d
    <3>1. T.servers[a] = None
      BY <1>3, <2>3 DEF OneRow
    <3>2. Mapped(U).assets[a] = None
      BY <1>10, <2>3, <3>1, MappedAsset
    <3>3. Mapped(T).assets[a] = MapBackendInfraHardware(T.hardwares[a]) /\ Mapped(T).assets[a] # None
      BY <1>3, <2>3, MappedAsset, MappedType
    <3>4. Mapped(T).assets[a].dcId = d
      BY <2>3, <3>3 DEF MapBackendInfraHardware
    <3>5. SameAsset(L.assets[a], Mapped(T).assets[a])
      BY <2>1, <3>3
    <3>6. L.assets[a] # None /\ L.assets[a].dcId = d
      BY <3>4, <3>5 DEF SameAsset
    <3>7. QED
      BY <1>8, <1>14, <3>2, <3>6 DEF Astray
  <2>4. QED
    BY <2>2, <2>3
<1>16. AssetsAgree(K, Mapped(U))
  BY <1>15 DEF AssetsAgree
<1>17. K.services = Mapped(U).services
  BY <1>8, <1>12 DEF Good, Agrees
<1>18. Good(U, K)
  BY <1>7, <1>10, <1>11, <1>13, <1>16, <1>17 DEF Good, Agrees
<1>19. QED
  BY <1>18 DEF K

-----------------------------------------------------------------------------
(***************************************************************************)
(* The invariant is kept.                                                  *)
(***************************************************************************)
\* An asset of the page that has a row is shown as its row is mapped, but for
\* the rack units.
LEMMA RowsAreShown ==
  ASSUME EstimateInv, NEW a \in AssetIds
  PROVE  /\ tables.servers[a] # None => page.assets[a] # None /\ page.assets[a].type = "server"
         /\ tables.hardwares[a] # None =>
               /\ page.assets[a] # None /\ page.assets[a].type # "server"
               /\ page.assets[a].cpuCores = 0 /\ page.assets[a].ramGB = 0
         /\ tables.servers[a] # None \/ tables.hardwares[a] # None =>
               SameAsset(page.assets[a], Mapped(tables).assets[a])
<1> DEFINE m == Mapped(tables).assets[a]
<1>1. tables \in Tables /\ OneRow(tables)
  BY DEF EstimateInv, Good
<1>2. /\ tables.servers[a] # None => m # None /\ m.type = "server"
      /\ tables.hardwares[a] # None => m # None /\ m.type # "server" /\ m.cpuCores = 0 /\ m.ramGB = 0
  BY <1>1, MappedType
<1>3. m # None => SameAsset(page.assets[a], m)
  BY DEF EstimateInv, Good, Agrees, AssetsAgree
<1> HIDE DEF m
<1>4. QED
  BY <1>2, <1>3 DEF SameAsset, m

\* What an opened form has of its asset.
LEMMA OpenedFields ==
  ASSUME NEW p \in Asset(DcIds)
  PROVE  /\ OpenAssetForm(p).type = p.type /\ OpenAssetForm(p).role = p.role
         /\ OpenAssetForm(p).dcId = p.dcId /\ OpenAssetForm(p).cpuCores = p.cpuCores
         /\ OpenAssetForm(p).ramGB = p.ramGB /\ OpenAssetForm(p).purchaseAmount = p.purchaseAmount
         /\ OpenAssetForm(p).purchaseDate = p.purchaseDate
         /\ OpenAssetForm(p).powerWatts = Or(p.powerWatts, 300)
         /\ OpenAssetForm(p).amortMonths = Or(p.amortMonths, 48)
         /\ OpenAssetForm(p).rackUnits = Or(p.rackUnits, 1)
<1> DEFINE w == Or(p.powerWatts, 300)
           m == Or(p.amortMonths, 48)
           u == Or(p.rackUnits, 1)
           o == OpenAssetForm(p)
<1>1. o = [p EXCEPT !.powerWatts = w, !.amortMonths = m, !.rackUnits = u]
  BY DEF OpenAssetForm
<1> HIDE DEF o, w, m, u
<1>2. /\ o.type = p.type /\ o.role = p.role /\ o.dcId = p.dcId /\ o.cpuCores = p.cpuCores
      /\ o.ramGB = p.ramGB /\ o.purchaseAmount = p.purchaseAmount
      /\ o.purchaseDate = p.purchaseDate /\ o.powerWatts = w /\ o.amortMonths = m /\ o.rackUnits = u
  BY <1>1 DEF Asset
<1>3. QED
  BY <1>2 DEF o, w, m, u

\* g is f but for the field of the edit, and for the role if that is the type.
OnlyTyped(f, e, g) ==
    \A c \in DOMAIN f : \/ g[c] = f[c]
                        \/ e # NoEdit /\ c = e[1]
                        \/ e # NoEdit /\ e[1] = "type" /\ c = "role"

\* One edit leaves the other fields alone.
LEMMA OneFieldIsTyped ==
  ASSUME NEW f \in Asset(DcIds), NEW e \in AssetEdits \cup {NoEdit}, NEW g \in Typed(f, e)
  PROVE  OnlyTyped(f, e, g)
<1> USE DEF OnlyTyped
<1>1. CASE e = NoEdit
  <2>1. Typed(f, e) = {f}
    BY <1>1 DEF Typed
  <2>2. QED
    BY <2>1
<1>2. CASE e # NoEdit /\ e[1] = "dcId"
  <2>1. PICK d \in DcIds : g = [f EXCEPT !.dcId = d]
    BY <1>2 DEF Typed, Dcs
  <2>2. QED
    BY <1>2, <2>1
<1>3. CASE e # NoEdit /\ e[1] # "dcId"
  <2>1. g = SetField(f, e[1], e[2])
    BY <1>3 DEF Typed
  <2>2. CASE e[1] = "type"
    <3>1. g = [f EXCEPT !.type = e[2], !.role = RoleOf(e[2])]
      BY <2>1, <2>2 DEF SetField
    <3>2. QED
      BY <1>3, <2>2, <3>1
  <2>3. CASE e[1] # "type"
    <3>1. g = [f EXCEPT ![e[1]] = e[2]]
      BY <2>1, <2>3 DEF SetField
    <3>2. QED
      BY <1>3, <3>1
  <2>4. QED
    BY <2>2, <2>3
<1>4. QED
  BY <1>1, <1>2, <1>3

\* A form that is no server's got no cores and no memory from anybody.
LEMMA NoCoresAreTyped ==
  ASSUME NEW f \in Asset(DcIds), f.cpuCores = 0, f.ramGB = 0, f.type # "server",
         NEW e \in AssetEdits \cup {NoEdit}, NEW g \in Typed(f, e)
  PROVE  g.cpuCores = 0 /\ g.ramGB = 0
<1>1. /\ g.cpuCores = f.cpuCores \/ (e # NoEdit /\ e[1] = "cpuCores")
      /\ g.ramGB = f.ramGB \/ (e # NoEdit /\ e[1] = "ramGB")
  <2>1. "cpuCores" \in DOMAIN f /\ "ramGB" \in DOMAIN f
    BY DEF Asset
  <2>2. OnlyTyped(f, e, g)
    BY OneFieldIsTyped
  <2>3. g["cpuCores"] = f["cpuCores"] \/ (e # NoEdit /\ e[1] = "cpuCores")
    BY <2>1, <2>2 DEF OnlyTyped
  <2>4. g["ramGB"] = f["ramGB"] \/ (e # NoEdit /\ e[1] = "ramGB")
    BY <2>1, <2>2 DEF OnlyTyped
  <2>5. QED
    BY <2>3, <2>4
<1>2. ASSUME e # NoEdit, e[1] \in {"cpuCores", "ramGB"}
      PROVE  FALSE
  <2>1. Shown(f, e[1])
    BY <1>2 DEF Typed
  <2>2. QED
    BY <1>2, <2>1 DEF Shown
<1>3. QED
  BY <1>1, <1>2

\* The form that a save of an asset saves, and the three ways in which it ends.
SavedServer(a, f, region) ==
    /\ f.type = "server" /\ tables.servers[a] # None /\ Exists(f.dcId)
    /\ tables' = [tables EXCEPT !.servers[a] = MapAssetToServer(f, region)]
    /\ page' = [page EXCEPT !.assets[a] = f]

SavedHardware(a, f, region) ==
    /\ f.type # "server" /\ f.cpuCores = 0 /\ f.ramGB = 0
    /\ tables.hardwares[a] # None /\ Exists(f.dcId)
    /\ tables' = [tables EXCEPT !.hardwares[a] = MapAssetToInfra(f, region)]
    /\ page' = [page EXCEPT !.assets[a] = f]

Refused == tables' = tables /\ page' = Mapped(tables)

\* A save of an asset is one of the three.
LEMMA SaveAssetEnds ==
  ASSUME EstimateInv, NEW a \in AssetIds, NEW e \in AssetEdits \cup {NoEdit}, SaveAsset(a, e)
  PROVE  /\ page.assets[a] \in Asset(DcIds)
         /\ \E f \in Asset(DcIds), region \in Texts :
               /\ f \in Typed(OpenAssetForm(page.assets[a]), e)
               /\ RoleFits(f)
               /\ SavedServer(a, f, region) \/ SavedHardware(a, f, region) \/ Refused
<1> DEFINE p == page.assets[a]
           o == OpenAssetForm(p)
<1>1. page \in Lists /\ RolesFit(page.assets) /\ p # None
  BY DEF EstimateInv, Good, SaveAsset, Assets
<1>2. p \in Asset(DcIds) /\ RoleFits(p)
  BY <1>1 DEF Lists, RolesFit
<1>3. o \in Asset(DcIds) /\ RoleFits(o)
  <2> HIDE DEF p
  <2> QED BY <1>2, FormsOpen
<1>4. PICK f \in Typed(o, e) :
        LET region == DcRegion(f.dcId)
            shown  == [page EXCEPT !.assets[a] = f]
        IN  IF f.type = "server"
            THEN ShowUnlessRefused(tables.servers[a] # None /\ Exists(f.dcId),
                    [tables EXCEPT !.servers[a] = MapAssetToServer(f, region)], shown)
            ELSE ShowUnlessRefused(tables.hardwares[a] # None /\ Exists(f.dcId),
                    [tables EXCEPT !.hardwares[a] = MapAssetToInfra(f, region)], shown)
  BY DEF SaveAsset
<1>5. f \in Asset(DcIds) /\ RoleFits(f)
  <2> HIDE DEF o
  <2> QED BY <1>1, <1>3, FormIsTyped
<1>6. DcRegion(f.dcId) \in Texts
  <2>1. f.dcId \in DcIds
    BY <1>5 DEF Asset
  <2>2. QED
    BY <1>1, <2>1, RegionIsText
<1>7. CASE f.type = "server"
  <2>1. SavedServer(a, f, DcRegion(f.dcId)) \/ Refused
    BY <1>4, <1>7 DEF ShowUnlessRefused, Show, SavedServer, Refused
  <2>2. QED
    BY <1>2, <1>5, <1>6, <2>1
<1>8. CASE f.type # "server"
  <2>1. tables.hardwares[a] # None => f.cpuCores = 0 /\ f.ramGB = 0
    <3>1. SUFFICES ASSUME tables.hardwares[a] # None
                   PROVE  f.cpuCores = 0 /\ f.ramGB = 0
      OBVIOUS
    <3>2. p.type # "server" /\ p.cpuCores = 0 /\ p.ramGB = 0
      BY <3>1, RowsAreShown
    <3>3. o.type # "server" /\ o.cpuCores = 0 /\ o.ramGB = 0
      <4> HIDE DEF p
      <4> QED BY <1>2, <3>2, OpenedFields
    <3> HIDE DEF o
    <3>4. QED
      BY <1>3, <3>3, NoCoresAreTyped
  <2>2. SavedHardware(a, f, DcRegion(f.dcId)) \/ Refused
    BY <1>4, <1>8, <2>1 DEF ShowUnlessRefused, Show, SavedHardware, Refused
  <2>3. QED
    BY <1>2, <1>5, <1>6, <2>2
<1>9. QED
  BY <1>7, <1>8

\* The page after a refresh.
LEMMA RefusedIsGood ==
  ASSUME Good(tables, page), Refused
  PROVE  Good(tables', page')
<1>1. tables \in Tables /\ OneRow(tables)
  BY DEF Good
<1>2. Good(tables, Mapped(tables))
  BY <1>1, RefreshIsGood
<1>3. QED
  BY <1>2 DEF Refused

\* The page after something was created.
LEMMA CreatedIsGood ==
  ASSUME NEW T \in Tables, OneRow(T), Create(T)
  PROVE  Good(tables', page')
<1>1. Good(T, Mapped(T))
  BY RefreshIsGood
<1>2. QED
  BY <1>1 DEF Create, Show

\* A save of an asset.
LEMMA SaveAssetIsGood ==
  ASSUME EstimateInv, NEW a \in AssetIds, NEW e \in AssetEdits \cup {NoEdit}, SaveAsset(a, e)
  PROVE  Good(tables', page')
<1>1. PICK f \in Asset(DcIds), region \in Texts :
         /\ f \in Typed(OpenAssetForm(page.assets[a]), e)
         /\ RoleFits(f)
         /\ SavedServer(a, f, region) \/ SavedHardware(a, f, region) \/ Refused
  BY SaveAssetEnds
<1>2. Good(tables, page) /\ tables \in Tables /\ OneRow(tables)
  BY DEF EstimateInv, Good
<1>3. CASE SavedServer(a, f, region)
  <2> DEFINE row == MapAssetToServer(f, region)
             U == [tables EXCEPT !.servers[a] = row]
  <2>1. row \in ServerRow(DcIds, Texts) /\ row # None
    BY FormIsServerRow, NoneAssumption
  <2>2. tables.hardwares[a] = None
    BY <1>2, <1>3 DEF SavedServer, OneRow
  <2>3. SameAsset(f, MapBackendServer(row))
    BY <1>3, ServerComesBack DEF SavedServer
  <2>4. tables' = U /\ page' = [page EXCEPT !.assets[a] = f]
    BY <1>3 DEF SavedServer
  <2> HIDE DEF row
  <2>5. U \in Tables /\ OneRow(U)
    BY <1>2, <2>1, <2>2, TablesWithAsset
  <2>6. /\ U.datacenters = tables.datacenters /\ U.services = tables.services /\ U.servers[a] = row
        /\ \A b \in AssetIds \ {a} : U.servers[b] = tables.servers[b] /\ U.hardwares[b] = tables.hardwares[b]
    BY <1>2, TheOtherRows
  <2> HIDE DEF U
  <2>7. Mapped(U).assets[a] = MapBackendServer(row)
    BY <2>1, <2>5, <2>6, MappedAsset
  <2>8. Good(U, [page EXCEPT !.assets[a] = f])
    BY <1>1, <1>2, <2>3, <2>5, <2>6, <2>7, OneAssetIsSaved
  <2>9. QED
    BY <2>4, <2>8
<1>4. CASE SavedHardware(a, f, region)
  <2> DEFINE row == MapAssetToInfra(f, region)
             U == [tables EXCEPT !.hardwares[a] = row]
  <2>1. row \in HardwareRow(DcIds, Texts) /\ row # None
    BY FormIsHardwareRow, NoneAssumption
  <2>2. tables.servers[a] = None
    BY <1>2, <1>4 DEF SavedHardware, OneRow
  <2>3. SameAsset(f, MapBackendInfraHardware(row))
    BY <1>1, <1>4, HardwareComesBack DEF SavedHardware
  <2>4. tables' = U /\ page' = [page EXCEPT !.assets[a] = f]
    BY <1>4 DEF SavedHardware
  <2> HIDE DEF row
  <2>5. U \in Tables /\ OneRow(U)
    BY <1>2, <2>1, <2>2, TablesWithAsset
  <2>6. /\ U.datacenters = tables.datacenters /\ U.services = tables.services /\ U.hardwares[a] = row
        /\ \A b \in AssetIds \ {a} : U.servers[b] = tables.servers[b] /\ U.hardwares[b] = tables.hardwares[b]
    BY <1>2, TheOtherRows
  <2> HIDE DEF U
  <2>7. Mapped(U).assets[a] = MapBackendInfraHardware(row)
    BY <2>1, <2>5, <2>6, MappedAsset
  <2>8. Good(U, [page EXCEPT !.assets[a] = f])
    BY <1>1, <1>2, <2>3, <2>5, <2>6, <2>7, OneAssetIsSaved
  <2>9. QED
    BY <2>4, <2>8
<1>5. CASE Refused
  BY <1>2, <1>5, RefusedIsGood
<1>6. QED
  BY <1>1, <1>3, <1>4, <1>5

\* A new asset.
LEMMA AddAssetIsGood ==
  ASSUME EstimateInv, NEW a \in AssetIds, NEW e \in AssetEdits \cup {NoEdit}, AddAsset(a, e)
  PROVE  Good(tables', page')
<1>1. page \in Lists /\ tables \in Tables /\ OneRow(tables)
  BY DEF EstimateInv, Good
<1>2. tables.servers[a] = None /\ tables.hardwares[a] = None
  BY DEF AddAsset
<1>3. PICK d \in DcIds : \E f \in Typed(NewAsset(d), e) :
         IF f.type = "server"
         THEN Create([tables EXCEPT !.servers[a] = MapAssetToServer(f, DcRegion(f.dcId))])
         ELSE Create([tables EXCEPT !.hardwares[a] = MapAssetToInfra(f, DcRegion(f.dcId))])
  BY DEF AddAsset, Dcs
<1>4. PICK f \in Typed(NewAsset(d), e) :
         IF f.type = "server"
         THEN Create([tables EXCEPT !.servers[a] = MapAssetToServer(f, DcRegion(f.dcId))])
         ELSE Create([tables EXCEPT !.hardwares[a] = MapAssetToInfra(f, DcRegion(f.dcId))])
  BY <1>3
<1>5. f \in Asset(DcIds) /\ RoleFits(f)
  <2>1. NewAsset(d) \in Asset(DcIds) /\ RoleFits(NewAsset(d))
    BY NewAssetIsTyped
  <2>2. QED
    BY <1>1, <2>1, FormIsTyped
<1>6. DcRegion(f.dcId) \in Texts
  <2>1. f.dcId \in DcIds
    BY <1>5 DEF Asset
  <2>2. QED
    BY <1>1, <2>1, RegionIsText
<1>7. CASE f.type = "server"
  <2> DEFINE row == MapAssetToServer(f, DcRegion(f.dcId))
  <2>1. row \in ServerRow(DcIds, Texts)
    BY <1>5, <1>6, FormIsServerRow
  <2>2. Create([tables EXCEPT !.servers[a] = row])
    BY <1>4, <1>7
  <2> HIDE DEF row
  <2>3. [tables EXCEPT !.servers[a] = row] \in Tables /\ OneRow([tables EXCEPT !.servers[a] = row])
    BY <1>1, <1>2, <2>1, TablesWithAsset
  <2>4. QED
    BY <2>2, <2>3, CreatedIsGood
<1>8. CASE f.type # "server"
  <2> DEFINE row == MapAssetToInfra(f, DcRegion(f.dcId))
  <2>1. row \in HardwareRow(DcIds, Texts)
    BY <1>5, <1>6, FormIsHardwareRow
  <2>2. Create([tables EXCEPT !.hardwares[a] = row])
    BY <1>4, <1>8
  <2> HIDE DEF row
  <2>3. [tables EXCEPT !.hardwares[a] = row] \in Tables /\ OneRow([tables EXCEPT !.hardwares[a] = row])
    BY <1>1, <1>2, <2>1, TablesWithAsset
  <2>4. QED
    BY <2>2, <2>3, CreatedIsGood
<1>9. QED
  BY <1>7, <1>8

\* A deletion of an asset.
LEMMA DeleteAssetIsGood ==
  ASSUME EstimateInv, NEW a \in AssetIds, DeleteAsset(a)
  PROVE  Good(tables', page')
<1> DEFINE type == page.assets[a].type
           shown == [page EXCEPT !.assets[a] = None]
<1>1. Good(tables, page) /\ tables \in Tables /\ OneRow(tables)
  BY DEF EstimateInv, Good
<1>2. CASE Refused
  BY <1>1, <1>2, RefusedIsGood
<1>3. CASE type = "server" /\ ~Refused
  <2> DEFINE U == [tables EXCEPT !.servers[a] = None]
  <2>1. tables.servers[a] # None /\ tables' = U /\ page' = shown
    BY <1>3 DEF DeleteAsset, ShowUnlessRefused, Refused, Show
  <2>2. tables.hardwares[a] = None
    BY <1>1, <2>1 DEF OneRow
  <2>3. U \in Tables /\ OneRow(U)
    BY <1>1, TablesWithAsset
  <2>4. /\ U.datacenters = tables.datacenters /\ U.services = tables.services
        /\ U.servers[a] = None /\ U.hardwares = tables.hardwares
        /\ \A b \in AssetIds \ {a} : U.servers[b] = tables.servers[b] /\ U.hardwares[b] = tables.hardwares[b]
    BY <1>1, TheOtherRows
  <2> HIDE DEF U
  <2>5. Mapped(U).assets[a] = None
    BY <2>2, <2>3, <2>4, MappedAsset
  <2>6. Good(U, shown)
    BY <1>1, <2>3, <2>4, <2>5, OneAssetIsSaved
  <2>7. QED
    BY <2>1, <2>6
<1>4. CASE type # "server" /\ ~Refused
  <2> DEFINE U == [tables EXCEPT !.hardwares[a] = None]
  <2>1. tables.hardwares[a] # None /\ tables' = U /\ page' = shown
    BY <1>4 DEF DeleteAsset, ShowUnlessRefused, Refused, Show
  <2>2. tables.servers[a] = None
    BY <1>1, <2>1 DEF OneRow
  <2>3. U \in Tables /\ OneRow(U)
    BY <1>1, TablesWithAsset
  <2>4. /\ U.datacenters = tables.datacenters /\ U.services = tables.services
        /\ U.hardwares[a] = None /\ U.servers = tables.servers
        /\ \A b \in AssetIds \ {a} : U.servers[b] = tables.servers[b] /\ U.hardwares[b] = tables.hardwares[b]
    BY <1>1, TheOtherRows
  <2> HIDE DEF U
  <2>5. Mapped(U).assets[a] = None
    BY <2>2, <2>3, <2>4, MappedAsset
  <2>6. Good(U, shown)
    BY <1>1, <2>3, <2>4, <2>5, OneAssetIsSaved
  <2>7. QED
    BY <2>1, <2>6
<1>5. QED
  BY <1>2, <1>3, <1>4

\* A save of a datacenter.
LEMMA SaveDcIsGood ==
  ASSUME EstimateInv, NEW d \in DcIds, NEW e \in DcEdits \cup {NoEdit}, SaveDc(d, e)
  PROVE  Good(tables', page')
<1> DEFINE o == OpenDCForm(page.dcs[d])
           f == IF e = NoEdit THEN o ELSE [o EXCEPT ![e[1]] = e[2]]
<1>1. Good(tables, page) /\ page.dcs[d] # None
  BY DEF EstimateInv, SaveDc, Dcs
<1>2. page.dcs[d] \in DataCenter(Regions)
  BY <1>1 DEF Good, Lists
<1>3. f \in DataCenter(Regions) /\ MapDataCenterToBackend(f) \in DatacenterRow(Regions)
  BY <1>2, DcFormIsTyped
<1>4. /\ tables' = [tables EXCEPT !.datacenters[d] = MapDataCenterToBackend(f)]
      /\ page' = [page EXCEPT !.dcs[d] = f]
  BY DEF SaveDc
<1> HIDE DEF f
<1>5. Good([tables EXCEPT !.datacenters[d] = MapDataCenterToBackend(f)], [page EXCEPT !.dcs[d] = f])
  BY <1>1, <1>3, DatacenterIsSaved
<1>6. QED
  BY <1>4, <1>5

\* A deletion of a datacenter.
LEMMA DeleteDcIsGood ==
  ASSUME EstimateInv, NEW d \in DcIds, DeleteDc(d)
  PROVE  Good(tables', page')
<1> DEFINE In(row) == row # None /\ row.datacenter_id = d
           gone == [a \in AssetIds |-> IF In(tables.hardwares[a]) THEN None ELSE tables.hardwares[a]]
           U == [tables EXCEPT !.datacenters[d] = None,
                               !.hardwares = [a \in AssetIds |-> IF In(@[a]) THEN None ELSE @[a]]]
<1>1. Good(tables, page) /\ tables \in Tables /\ OneRow(tables)
  BY DEF EstimateInv, Good
<1>2. CASE Refused
  BY <1>1, <1>2, RefusedIsGood
<1>3. CASE ~Refused
  <2>1. /\ \A a \in AssetIds : ~In(tables.servers[a])
        /\ tables' = U /\ page' = [page EXCEPT !.dcs[d] = None]
    BY <1>3 DEF DeleteDc, ShowUnlessRefused, Refused, Show
  <2> DEFINE V == [tables EXCEPT !.datacenters[d] = None, !.hardwares = gone]
             Sites == DatacenterRow(Regions) \cup {None}
             Hardwares == HardwareRow(DcIds, Texts) \cup {None}
             Servers == [AssetIds -> ServerRow(DcIds, Texts) \cup {None}]
             Rows == [ServiceIds -> ServiceRow(DcIds) \cup {None}]
  <2>2. U = V
    OBVIOUS
  <2>3. Tables = [datacenters : [DcIds -> Sites], servers : Servers,
                  hardwares : [AssetIds -> Hardwares], services : Rows]
    BY DEF Tables
  <2>4. None \in Sites /\ None \in Hardwares
    OBVIOUS
  <2>12. /\ \A a \in AssetIds : tables.servers[a] # None => tables.servers[a].datacenter_id # d
         /\ \A a \in AssetIds : gone[a] = IF In(tables.hardwares[a]) THEN None ELSE tables.hardwares[a]
    BY <2>1
  <2> HIDE DEF Sites, Hardwares, Servers, Rows
  <2>5. tables.datacenters \in [DcIds -> Sites] /\ tables.hardwares \in [AssetIds -> Hardwares]
    BY <1>1, <2>3
  <2>6. [tables.datacenters EXCEPT ![d] = None] \in [DcIds -> Sites] /\ gone \in [AssetIds -> Hardwares]
    BY <2>4, <2>5
  <2> HIDE DEF gone
  <2>7. V \in Tables
    BY <1>1, <2>3, <2>6
  <2>8. /\ V.datacenters = [tables.datacenters EXCEPT ![d] = None] /\ V.servers = tables.servers
        /\ V.services = tables.services /\ V.hardwares = gone
    BY <1>1, <2>3
  <2> HIDE DEF V
  <2>9. \A a \in AssetIds : \/ V.hardwares[a] = tables.hardwares[a]
                            \/ /\ V.hardwares[a] = None /\ tables.hardwares[a] # None
                               /\ tables.hardwares[a].datacenter_id = d
    BY <2>8, <2>12
  <2>10. Good(V, [page EXCEPT !.dcs[d] = None])
    BY <1>1, <2>7, <2>8, <2>9, <2>12, DatacenterIsDeleted
  <2>11. QED
    BY <2>1, <2>2, <2>10
<1>4. QED
  BY <1>2, <1>3

\* A save of the services.
LEMMA SaveServicesIsGood ==
  ASSUME EstimateInv, NEW rows \in Catalogs, SaveServices(rows)
  PROVE  Good(tables', page')
<1>1. tables \in Tables /\ OneRow(tables)
  BY DEF EstimateInv, Good
<1>2. rows \in [ServiceIds -> ServiceRow(DcIds) \cup {None}]
  BY RowsAssumption
<1>3. [tables EXCEPT !.services = rows] \in Tables
  BY <1>1, <1>2 DEF Tables
<1>4. OneRow([tables EXCEPT !.services = rows])
  BY <1>1 DEF OneRow, Tables
<1>5. QED
  BY <1>3, <1>4, CreatedIsGood DEF SaveServices

\* The saves are counted up to their bound.
LEMMA SavesAreCounted ==
  ASSUME EstimateInv, [Next]_vars
  PROVE  saves' \in 0..MaxSaves
<1>1. saves' = saves \/ Saving
  BY DEF Next, vars, RefreshData, SaveAsset, AddAsset, DeleteAsset, SaveDc, DeleteDc, SaveServices
<1>2. QED
  BY <1>1, SavesAssumption DEF EstimateInv, Saving

\* What the page shows is what a refresh would show, but for what a form fills
\* in and for the hardware of a datacenter that was deleted; the tables and
\* the lists have rows of their types (mappers.ts, useAppState.ts).
THEOREM EstimateInvariant == Spec => []EstimateInv
<1>1. Init => EstimateInv
  <2>1. SUFFICES ASSUME Init
                 PROVE  EstimateInv
    OBVIOUS
  <2>2. PICK rows \in Catalogs : tables = [FirstTables EXCEPT !.services = rows]
    BY <2>1 DEF Init
  <2>3. rows \in [ServiceIds -> ServiceRow(DcIds) \cup {None}]
    BY RowsAssumption
  <2>4. tables \in Tables
    BY <2>2, <2>3, RowsAssumption DEF Tables
  <2>5. OneRow(tables)
    BY <2>2, RowsAssumption DEF OneRow, Tables
  <2>6. Good(tables, Mapped(tables))
    BY <2>4, <2>5, RefreshIsGood
  <2>7. QED
    BY <2>1, <2>6, SavesAssumption DEF Init, EstimateInv
<1>2. EstimateInv /\ [Next]_vars => EstimateInv'
  <2>1. SUFFICES ASSUME EstimateInv, [Next]_vars
                 PROVE  Good(tables', page') /\ saves' \in 0..MaxSaves
    BY DEF EstimateInv
  <2>2. Good(tables, page)
    BY <2>1 DEF EstimateInv
  <2>3. CASE RefreshData
    BY <2>1, <2>2, <2>3, SavesAreCounted, RefusedIsGood DEF RefreshData, Refused, Show
  <2>4. CASE \E a \in AssetIds : \/ \E e \in AssetEdits \cup {NoEdit} : SaveAsset(a, e) \/ AddAsset(a, e)
                                 \/ DeleteAsset(a)
    BY <2>1, <2>4, SaveAssetIsGood, AddAssetIsGood, DeleteAssetIsGood, SavesAreCounted
  <2>5. CASE \E d \in DcIds : (\E e \in DcEdits \cup {NoEdit} : SaveDc(d, e)) \/ DeleteDc(d)
    BY <2>1, <2>5, SaveDcIsGood, DeleteDcIsGood, SavesAreCounted
  <2>6. CASE \E rows \in Catalogs : SaveServices(rows)
    BY <2>1, <2>6, SaveServicesIsGood, SavesAreCounted
  <2>7. CASE UNCHANGED vars
    BY <2>1, <2>2, <2>7, SavesAreCounted DEF vars
  <2>8. QED
    BY <2>1, <2>3, <2>4, <2>5, <2>6, <2>7 DEF Next
<1>3. QED
  BY <1>1, <1>2, PTL DEF Spec

\* The page has rows of its own types whatever is stored; what is not a server
\* is no host, so that nothing of it is split among the services.
THEOREM EstimateTypes == Spec => []TypeOK
<1>1. EstimateInv => TypeOK
  <2>1. SUFFICES ASSUME EstimateInv
                 PROVE  TypeOK
    OBVIOUS
  <2>2. page \in Lists /\ RolesFit(page.assets) /\ saves \in 0..MaxSaves
    BY <2>1 DEF EstimateInv, Good
  <2>3. ASSUME NEW a \in Assets(page), page.assets[a].type # "server"
        PROVE  ~IsComputeHost(page.assets[a])
    <3>1. page.assets[a].type \in AssetTypes
      BY <2>2 DEF Lists, Assets, Asset
    <3>2. page.assets[a].role = RoleOf(page.assets[a].type)
      BY <2>2, <2>3 DEF RolesFit, RoleFits, Assets
    <3>3. QED
      BY <2>3, <3>1, <3>2 DEF AssetTypes, RoleOf, IsComputeHost, ComputeRoles
  <2>4. QED
    BY <2>2, <2>3 DEF TypeOK, Lists
<1>2. QED
  BY <1>1, EstimateInvariant, PTL

-----------------------------------------------------------------------------
(***************************************************************************)
(* What a save of an asset changes.                                        *)
(***************************************************************************)
RestIsKept(T, U, a) ==
    /\ U.datacenters = T.datacenters /\ U.services = T.services
    /\ \A b \in AssetIds \ {a} : U.servers[b] = T.servers[b] /\ U.hardwares[b] = T.hardwares[b]

OnlyRowsOf(T, U, a, table) ==
    U = [T EXCEPT ![table][a] = U[table][a], !.servers[a] = U.servers[a],
                  !.hardwares[a] = U.hardwares[a]]

\* Tables that differ in the rows of one asset only.
LEMMA OneRowDiffers ==
  ASSUME NEW T \in Tables, NEW U \in Tables, NEW a \in AssetIds, RestIsKept(T, U, a),
         NEW table \in {"servers", "hardwares"}
  PROVE  OnlyRowsOf(T, U, a, table)
<1> USE DEF OnlyRowsOf
<1> DEFINE Servers   == ServerRow(DcIds, Texts) \cup {None}
           Hardwares == HardwareRow(DcIds, Texts) \cup {None}
           Sites     == [DcIds -> DatacenterRow(Regions) \cup {None}]
           Rows      == [ServiceIds -> ServiceRow(DcIds) \cup {None}]
           x == U.servers[a]
           y == U.hardwares[a]
<1>1. Tables = [datacenters : Sites, servers : [AssetIds -> Servers],
                hardwares : [AssetIds -> Hardwares], services : Rows]
  BY DEF Tables
<1> HIDE DEF Servers, Hardwares, Sites, Rows
<1>2. /\ T.servers \in [AssetIds -> Servers] /\ T.hardwares \in [AssetIds -> Hardwares]
      /\ U.servers \in [AssetIds -> Servers] /\ U.hardwares \in [AssetIds -> Hardwares]
  BY <1>1
<1>3. U.servers = [T.servers EXCEPT ![a] = x] /\ U.hardwares = [T.hardwares EXCEPT ![a] = y]
  BY <1>2 DEF RestIsKept
<1> HIDE DEF x, y
<1>4. U = [T EXCEPT !.servers = [T.servers EXCEPT ![a] = x], !.hardwares = [T.hardwares EXCEPT ![a] = y]]
  BY <1>1, <1>3 DEF RestIsKept
<1>5. /\ [[T.servers EXCEPT ![a] = x] EXCEPT ![a] = x] = [T.servers EXCEPT ![a] = x]
      /\ [[T.hardwares EXCEPT ![a] = y] EXCEPT ![a] = y] = [T.hardwares EXCEPT ![a] = y]
  BY <1>2
<1>6. /\ [T EXCEPT !.servers[a] = x] = [T EXCEPT !.servers = [T.servers EXCEPT ![a] = x]]
      /\ [T EXCEPT !.hardwares[a] = y] = [T EXCEPT !.hardwares = [T.hardwares EXCEPT ![a] = y]]
  OBVIOUS
<1>7. CASE table = "servers"
  <2>1. [T EXCEPT !.servers[a] = x, !.servers[a] = x, !.hardwares[a] = y]
          = [T EXCEPT !.servers = [[T.servers EXCEPT ![a] = x] EXCEPT ![a] = x],
                      !.hardwares = [T.hardwares EXCEPT ![a] = y]]
    BY <1>1
  <2>2. QED
    BY <1>4, <1>5, <1>7, <2>1 DEF x, y
<1>8. CASE table = "hardwares"
  <2>1. [T EXCEPT !.hardwares[a] = y, !.servers[a] = x, !.hardwares[a] = y]
          = [T EXCEPT !.servers = [T.servers EXCEPT ![a] = x],
                      !.hardwares = [[T.hardwares EXCEPT ![a] = y] EXCEPT ![a] = y]]
    BY <1>1
  <2>2. QED
    BY <1>4, <1>5, <1>8, <2>1 DEF x, y
<1>9. QED
  BY <1>7, <1>8

\* The row of a server that is saved.
LEMMA ServerColumns ==
  ASSUME EstimateInv, NEW a \in AssetIds, NEW e \in AssetEdits \cup {NoEdit},
         tables.servers[a] # None,
         NEW f \in Typed(OpenAssetForm(page.assets[a]), e), f.type = "server", NEW region,
         NEW c \in DOMAIN tables.servers[a],
         c \notin Overwritten(tables.servers[a]),
         c \notin IF e = NoEdit THEN {} ELSE {Columns[e[1]]}
  PROVE  MapAssetToServer(f, region)[c] = tables.servers[a][c]
<1> DEFINE s == tables.servers[a]
           p == page.assets[a]
           o == OpenAssetForm(p)
           m == MapBackendServer(s)
           n == MapAssetToServer(f, region)
<1>1. s \in ServerRow(DcIds, Texts)
  BY DEF EstimateInv, Good, Tables
<1>2. Mapped(tables).assets[a] = m /\ SameAsset(p, m)
  BY RowsAreShown, MappedAsset DEF EstimateInv, Good
<1>3. p \in Asset(DcIds)
  BY <1>2 DEF SameAsset, EstimateInv, Good, Lists
<1> HIDE DEF s, p, n
<1>4. /\ o.type = p.type /\ o.role = p.role /\ o.dcId = p.dcId /\ o.cpuCores = p.cpuCores
      /\ o.ramGB = p.ramGB /\ o.purchaseAmount = p.purchaseAmount /\ o.purchaseDate = p.purchaseDate
      /\ o.powerWatts = Or(p.powerWatts, 300) /\ o.amortMonths = Or(p.amortMonths, 48)
      /\ o.rackUnits = Or(p.rackUnits, 1)
  BY <1>3, OpenedFields
<1>5. o \in Asset(DcIds) /\ OnlyTyped(o, e, f)
  <2>1. RoleFits(p)
    BY <1>2 DEF SameAsset, EstimateInv, Good, RolesFit, p
  <2>2. o \in Asset(DcIds)
    BY <1>3, <2>1, FormsOpen
  <2> HIDE DEF o
  <2>3. QED
    BY <2>2, OneFieldIsTyped DEF o, p
<1>6. e = NoEdit \/ e[1] # "type"
  <2>1. SUFFICES ASSUME e # NoEdit, e[1] = "type"
                 PROVE  FALSE
    OBVIOUS
  <2>2. e[2] # o.type /\ f = SetField(o, e[1], e[2])
    BY <2>1 DEF Typed, o, p
  <2>3. f.type = e[2]
    BY <1>5, <2>1, <2>2 DEF SetField, Asset
  <2>4. p.type = "server"
    BY <1>2 DEF SameAsset, MapBackendServer
  <2>5. QED
    BY <1>4, <2>2, <2>3, <2>4
<1> HIDE DEF o, m
<1>7. ASSUME NEW k, k \in DOMAIN o, c = Columns[k]
      PROVE  f[k] = o[k]
  <2>1. e = NoEdit \/ k # e[1]
    BY <1>7
  <2>2. QED
    BY <1>5, <1>6, <1>7, <2>1 DEF OnlyTyped
<1>8. DOMAIN o = {"type", "role", "dcId", "cpuCores", "ramGB", "powerWatts", "purchaseAmount",
                  "purchaseDate", "amortMonths", "rackUnits"}
  BY <1>5 DEF Asset
<1>9. /\ n.datacenter_id = f.dcId /\ n.role = f.role /\ n.vcpus = f.cpuCores /\ n.memory_gb = f.ramGB
      /\ n.power_watts = f.powerWatts /\ n.rack_units = f.rackUnits
      /\ n.purchase_price = f.purchaseAmount /\ n.purchase_date = f.purchaseDate
      /\ n.amort_months = f.amortMonths
  BY DEF n, MapAssetToServer
<1>10. /\ m.role = ToAssetRole(s.role) /\ m.dcId = s.datacenter_id /\ m.cpuCores = s.vcpus
       /\ m.ramGB = s.memory_gb /\ m.powerWatts = s.power_watts /\ m.purchaseAmount = s.purchase_price
       /\ m.purchaseDate = s.purchase_date /\ m.amortMonths = s.amort_months
       /\ m.rackUnits = Or(s.rack_units, 1)
  BY DEF m, MapBackendServer
<1>11. /\ p.role = m.role /\ p.dcId = m.dcId /\ p.cpuCores = m.cpuCores /\ p.ramGB = m.ramGB
       /\ p.powerWatts = m.powerWatts /\ p.purchaseAmount = m.purchaseAmount
       /\ p.purchaseDate = m.purchaseDate /\ p.amortMonths = m.amortMonths
       /\ Or(p.rackUnits, 1) = Or(m.rackUnits, 1)
  BY <1>2 DEF SameAsset
<1>12. DOMAIN s = {"datacenter_id", "region", "role", "vcpus", "memory_gb", "gpus", "status", "power_watts",
                   "rack_units", "purchase_price", "purchase_date", "amort_months"}
  BY <1>1 DEF ServerRow
<1>13. c \in DOMAIN s /\ c \notin Overwritten(s)
  BY DEF s
<1>14. c \in {"datacenter_id", "role", "vcpus", "memory_gb", "power_watts", "rack_units",
              "purchase_price", "purchase_date", "amort_months"}
  BY <1>12, <1>13 DEF Overwritten
<1>15. /\ c = "role" => ToAssetRole(s.role) = s.role
       /\ c = "power_watts" => s.power_watts # 0
       /\ c = "amort_months" => s.amort_months # 0
       /\ c = "rack_units" => s.rack_units # 0
  BY <1>12, <1>13 DEF Overwritten
<1>16. CASE c = "role"
  <2>1. f["role"] = o["role"]
    BY <1>7, <1>8, <1>16 DEF Columns
  <2>2. QED
    BY <1>4, <1>9, <1>10, <1>11, <1>15, <1>16, <2>1 DEF n, s
<1>17. CASE c = "datacenter_id"
  <2>1. f["dcId"] = o["dcId"]
    BY <1>7, <1>8, <1>17 DEF Columns
  <2>2. QED
    BY <1>4, <1>9, <1>10, <1>11, <1>17, <2>1 DEF n, s
<1>18. CASE c = "vcpus"
  <2>1. f["cpuCores"] = o["cpuCores"]
    BY <1>7, <1>8, <1>18 DEF Columns
  <2>2. QED
    BY <1>4, <1>9, <1>10, <1>11, <1>18, <2>1 DEF n, s
<1>19. CASE c = "memory_gb"
  <2>1. f["ramGB"] = o["ramGB"]
    BY <1>7, <1>8, <1>19 DEF Columns
  <2>2. QED
    BY <1>4, <1>9, <1>10, <1>11, <1>19, <2>1 DEF n, s
<1>20. CASE c = "power_watts"
  <2>1. f["powerWatts"] = o["powerWatts"]
    BY <1>7, <1>8, <1>20 DEF Columns
  <2>2. QED
    BY <1>4, <1>9, <1>10, <1>11, <1>15, <1>20, <2>1 DEF n, s, Or
<1>21. CASE c = "rack_units"
  <2>1. f["rackUnits"] = o["rackUnits"]
    BY <1>7, <1>8, <1>21 DEF Columns
  <2>2. QED
    BY <1>4, <1>9, <1>10, <1>11, <1>15, <1>21, <2>1 DEF n, s, Or
<1>22. CASE c = "purchase_price"
  <2>1. f["purchaseAmount"] = o["purchaseAmount"]
    BY <1>7, <1>8, <1>22 DEF Columns
  <2>2. QED
    BY <1>4, <1>9, <1>10, <1>11, <1>22, <2>1 DEF n, s
<1>23. CASE c = "purchase_date"
  <2>1. f["purchaseDate"] = o["purchaseDate"]
    BY <1>7, <1>8, <1>23 DEF Columns
  <2>2. QED
    BY <1>4, <1>9, <1>10, <1>11, <1>23, <2>1 DEF n, s
<1>24. CASE c = "amort_months"
  <2>1. f["amortMonths"] = o["amortMonths"]
    BY <1>7, <1>8, <1>24 DEF Columns
  <2>2. QED
    BY <1>4, <1>9, <1>10, <1>11, <1>15, <1>24, <2>1 DEF n, s, Or
<1>25. QED
  BY <1>14, <1>16, <1>17, <1>18, <1>19, <1>20, <1>21, <1>22, <1>23, <1>24

\* The row of what is not a server, the same.
LEMMA HardwareColumns ==
  ASSUME EstimateInv, NEW a \in AssetIds, NEW e \in AssetEdits \cup {NoEdit},
         tables.hardwares[a] # None,
         NEW f \in Typed(OpenAssetForm(page.assets[a]), e), NEW region,
         NEW c \in DOMAIN tables.hardwares[a],
         c \notin Overwritten(tables.hardwares[a]),
         c \notin IF e = NoEdit THEN {} ELSE {Columns[e[1]]}
  PROVE  MapAssetToInfra(f, region)[c] = tables.hardwares[a][c]
<1> DEFINE h == tables.hardwares[a]
           p == page.assets[a]
           o == OpenAssetForm(p)
           m == MapBackendInfraHardware(h)
           n == MapAssetToInfra(f, region)
<1>1. h \in HardwareRow(DcIds, Texts)
  BY DEF EstimateInv, Good, Tables
<1>2. Mapped(tables).assets[a] = m /\ SameAsset(p, m)
  BY RowsAreShown, MappedAsset DEF EstimateInv, Good
<1>3. p \in Asset(DcIds)
  BY <1>2 DEF SameAsset, EstimateInv, Good, Lists
<1> HIDE DEF h, p, n
<1>4. /\ o.dcId = p.dcId /\ o.purchaseAmount = p.purchaseAmount /\ o.purchaseDate = p.purchaseDate
      /\ o.amortMonths = Or(p.amortMonths, 48)
  BY <1>3, OpenedFields
<1>5. o \in Asset(DcIds) /\ OnlyTyped(o, e, f)
  <2>1. RoleFits(p)
    BY <1>2 DEF SameAsset, EstimateInv, Good, RolesFit, p
  <2>2. o \in Asset(DcIds)
    BY <1>3, <2>1, FormsOpen
  <2> HIDE DEF o
  <2>3. QED
    BY <2>2, OneFieldIsTyped DEF o, p
<1> HIDE DEF o, m
<1>6. ASSUME NEW k, k \in DOMAIN o, k # "role", c = Columns[k]
      PROVE  f[k] = o[k]
  <2>1. e = NoEdit \/ k # e[1]
    BY <1>6
  <2>2. QED
    BY <1>5, <1>6, <2>1 DEF OnlyTyped
<1>7. {"dcId", "purchaseAmount", "purchaseDate", "amortMonths"} \subseteq DOMAIN o
  BY <1>5 DEF Asset
<1>8. /\ n.datacenter_id = f.dcId /\ n.purchase_price = f.purchaseAmount
      /\ n.purchase_date = f.purchaseDate /\ n.amort_months = f.amortMonths
  BY DEF n, MapAssetToInfra
<1>9. /\ p.dcId = h.datacenter_id /\ p.purchaseAmount = h.purchase_price
      /\ p.purchaseDate = h.purchase_date /\ p.amortMonths = h.amort_months
  BY <1>2 DEF m, MapBackendInfraHardware, SameAsset
<1>10. DOMAIN h = {"datacenter_id", "region", "hardware_type", "specs", "purchase_price",
                   "purchase_date", "amort_months"}
  BY <1>1 DEF HardwareRow
<1>11. c \in DOMAIN h /\ c \notin Overwritten(h)
  BY DEF h
<1>12. /\ c \in {"datacenter_id", "purchase_price", "purchase_date", "amort_months"}
       /\ c = "amort_months" => h.amort_months # 0
  BY <1>10, <1>11 DEF Overwritten
<1>13. CASE c = "datacenter_id"
  <2>1. f["dcId"] = o["dcId"]
    BY <1>6, <1>7, <1>13 DEF Columns
  <2>2. QED
    BY <1>4, <1>8, <1>9, <1>13, <2>1 DEF n, h
<1>14. CASE c = "purchase_price"
  <2>1. f["purchaseAmount"] = o["purchaseAmount"]
    BY <1>6, <1>7, <1>14 DEF Columns
  <2>2. QED
    BY <1>4, <1>8, <1>9, <1>14, <2>1 DEF n, h
<1>15. CASE c = "purchase_date"
  <2>1. f["purchaseDate"] = o["purchaseDate"]
    BY <1>6, <1>7, <1>15 DEF Columns
  <2>2. QED
    BY <1>4, <1>8, <1>9, <1>15, <2>1 DEF n, h
<1>16. CASE c = "amort_months"
  <2>1. f["amortMonths"] = o["amortMonths"]
    BY <1>6, <1>7, <1>16 DEF Columns
  <2>2. QED
    BY <1>4, <1>8, <1>9, <1>12, <1>16, <2>1 DEF n, h, Or
<1>17. QED
  BY <1>12, <1>13, <1>14, <1>15, <1>16

\* The step of SaveChangesOneColumn.
LEMMA SaveChangesItsColumn ==
  ASSUME EstimateInv, EstimateInv', NEW a \in AssetIds, NEW e \in AssetEdits \cup {NoEdit},
         NEW table \in {"servers", "hardwares"}, SaveAsset(a, e)
  PROVE  LET old == tables[table][a]
             new == tables'[table][a]
             typed == IF e = NoEdit THEN {} ELSE {Columns[e[1]]}
         IN  /\ (old = None) = (new = None)
             /\ old # None => \A c \in DOMAIN old \ (Overwritten(old) \cup typed) : new[c] = old[c]
             /\ tables' = [tables EXCEPT ![table][a] = new, !.servers[a] = tables'.servers[a],
                                         !.hardwares[a] = tables'.hardwares[a]]
<1> DEFINE old == tables[table][a]
           new == tables'[table][a]
           typed == IF e = NoEdit THEN {} ELSE {Columns[e[1]]}
           OneColumn == /\ (old = None) = (new = None)
                        /\ old # None => \A c \in DOMAIN old \ (Overwritten(old) \cup typed) : new[c] = old[c]
<1>1. PICK f \in Asset(DcIds), region \in Texts :
         /\ f \in Typed(OpenAssetForm(page.assets[a]), e)
         /\ RoleFits(f)
         /\ SavedServer(a, f, region) \/ SavedHardware(a, f, region) \/ Refused
  BY SaveAssetEnds
<1>2. tables \in Tables /\ tables' \in Tables /\ OneRow(tables)
  BY DEF EstimateInv, Good
<1>3. CASE SavedServer(a, f, region)
  <2> DEFINE row == MapAssetToServer(f, region)
  <2>1. row \in ServerRow(DcIds, Texts) /\ row # None
    BY FormIsServerRow, NoneAssumption
  <2>2. tables' = [tables EXCEPT !.servers[a] = row] /\ tables.servers[a] # None /\ f.type = "server"
    BY <1>3 DEF SavedServer
  <2>3. \A c \in DOMAIN tables.servers[a] \ (Overwritten(tables.servers[a]) \cup typed) :
           row[c] = tables.servers[a][c]
    BY <1>1, <2>2, ServerColumns
  <2> HIDE DEF row
  <2>4. RestIsKept(tables, tables', a) /\ tables'.servers[a] = row /\ tables'.hardwares[a] = tables.hardwares[a]
    BY <1>2, <2>2, TheOtherRows DEF RestIsKept
  <2>5. tables.hardwares[a] = None
    BY <1>2, <2>2 DEF OneRow
  <2>6. OneColumn
    <3> HIDE DEF typed
    <3>1. CASE table = "servers"
      BY <2>1, <2>2, <2>3, <2>4, <3>1
    <3>2. CASE table = "hardwares"
      BY <2>4, <2>5, <3>2
    <3>3. QED
      BY <3>1, <3>2
  <2>7. OnlyRowsOf(tables, tables', a, table)
    BY <1>2, <2>4, OneRowDiffers
  <2>8. QED
    BY <2>6, <2>7 DEF OnlyRowsOf
<1>4. CASE SavedHardware(a, f, region)
  <2> DEFINE row == MapAssetToInfra(f, region)
  <2>1. row \in HardwareRow(DcIds, Texts) /\ row # None
    BY FormIsHardwareRow, NoneAssumption
  <2>2. tables' = [tables EXCEPT !.hardwares[a] = row] /\ tables.hardwares[a] # None
    BY <1>4 DEF SavedHardware
  <2>3. \A c \in DOMAIN tables.hardwares[a] \ (Overwritten(tables.hardwares[a]) \cup typed) :
           row[c] = tables.hardwares[a][c]
    BY <1>1, <2>2, HardwareColumns
  <2> HIDE DEF row
  <2>4. RestIsKept(tables, tables', a) /\ tables'.hardwares[a] = row /\ tables'.servers[a] = tables.servers[a]
    BY <1>2, <2>2, TheOtherRows DEF RestIsKept
  <2>5. tables.servers[a] = None
    BY <1>2, <2>2 DEF OneRow
  <2>6. OneColumn
    <3> HIDE DEF typed
    <3>1. CASE table = "hardwares"
      BY <2>1, <2>2, <2>3, <2>4, <3>1
    <3>2. CASE table = "servers"
      BY <2>4, <2>5, <3>2
    <3>3. QED
      BY <3>1, <3>2
  <2>7. OnlyRowsOf(tables, tables', a, table)
    BY <1>2, <2>4, OneRowDiffers
  <2>8. QED
    BY <2>6, <2>7 DEF OnlyRowsOf
<1>5. CASE Refused
  <2>1. RestIsKept(tables, tables', a) /\ OneColumn
    BY <1>5 DEF Refused, RestIsKept
  <2>2. OnlyRowsOf(tables, tables', a, table)
    BY <1>2, <2>1, OneRowDiffers
  <2>3. QED
    BY <2>1, <2>2 DEF OnlyRowsOf
<1>6. QED
  BY <1>1, <1>3, <1>4, <1>5

\* A save of an asset writes the whole row (useAppState.ts, mappers.ts), but
\* changes only the column of the field that was typed into, those that the
\* page does not have, and those that a form takes for missing; and no other row.
THEOREM OneColumnIsSaved == Spec => SaveChangesOneColumn
<1>1. EstimateInv /\ EstimateInv' /\ [Next]_vars =>
        [\A a \in AssetIds : \A e \in AssetEdits \cup {NoEdit} : \A table \in {"servers", "hardwares"} :
          LET old == tables[table][a]
              new == tables'[table][a]
              typed == IF e = NoEdit THEN {} ELSE {Columns[e[1]]}
          IN  SaveAsset(a, e) =>
                 /\ (old = None) = (new = None)
                 /\ old # None => \A c \in DOMAIN old \ (Overwritten(old) \cup typed) : new[c] = old[c]
                 /\ tables' = [tables EXCEPT ![table][a] = new, !.servers[a] = tables'.servers[a],
                                             !.hardwares[a] = tables'.hardwares[a]]]_vars
  BY SaveChangesItsColumn
<1>2. QED
  BY <1>1, EstimateInvariant, PTL DEF Spec, SaveChangesOneColumn

-----------------------------------------------------------------------------
(***************************************************************************)
(* The figures of a datacenter depend on its fee, on its assets but not on *)
(* their rack units, and on the services: lists that have the same of it   *)
(* have the same figures.                                                  *)
(***************************************************************************)
\* A sum of fractions, of the values of a function.
FoldOf(F) == FoldFunction(Plus, Zero, F)

SameThere(L, M, d) ==
    /\ d \in Dcs(L) /\ d \in Dcs(M) /\ L.dcs[d].coloMonthly = M.dcs[d].coloMonthly
    /\ AssetsIn(L, d) = AssetsIn(M, d)
    /\ \A a \in AssetsIn(L, d) :
          /\ L.assets[a].role = M.assets[a].role
          /\ L.assets[a].cpuCores = M.assets[a].cpuCores
          /\ L.assets[a].ramGB = M.assets[a].ramGB
          /\ L.assets[a].powerWatts = M.assets[a].powerWatts
          /\ L.assets[a].purchaseAmount = M.assets[a].purchaseAmount
          /\ L.assets[a].purchaseDate = M.assets[a].purchaseDate
          /\ L.assets[a].amortMonths = M.assets[a].amortMonths
    /\ L.services = M.services

\* The costs of assets.
LEMMA SameCosts ==
  ASSUME NEW L, NEW M, NEW d \in DcIds, SameThere(L, M, d), NEW S \in SUBSET AssetsIn(L, d)
  PROVE  CostOf(L, S) = CostOf(M, S)
<1>1. [a \in AssetsIn(L, d) |-> L.assets[a].powerWatts] = [a \in AssetsIn(M, d) |-> M.assets[a].powerWatts]
  BY DEF SameThere
<1>2. PowerIn(L, d) = PowerIn(M, d)
  BY <1>1 DEF PowerIn, SumOver
<1>3. ASSUME NEW a \in S
      PROVE  AssetCost(L, a) = AssetCost(M, a)
  <2>1. a \in AssetsIn(L, d) /\ a \in AssetsIn(M, d)
    BY DEF SameThere
  <2>2. L.assets[a].dcId = d /\ M.assets[a].dcId = d
    BY <2>1 DEF AssetsIn
  <2>3. Depreciation(L.assets[a]) = Depreciation(M.assets[a])
    BY <2>1 DEF Depreciation, MonthsSince, SameThere
  <2>4. /\ d \in Dcs(L) /\ d \in Dcs(M) /\ L.dcs[d].coloMonthly = M.dcs[d].coloMonthly
        /\ L.assets[a].powerWatts = M.assets[a].powerWatts
    BY <2>1 DEF SameThere
  <2>5. ColoAllocation(L, a) = ColoAllocation(M, a)
    BY <1>2, <2>2, <2>4 DEF ColoAllocation
  <2>6. QED
    BY <2>3, <2>5 DEF AssetCost
<1>4. [a \in S |-> AssetCost(L, a)] = [a \in S |-> AssetCost(M, a)]
  BY <1>3
<1>5. CostOf(L, S) = FoldOf([a \in S |-> AssetCost(L, a)]) /\ CostOf(M, S) = FoldOf([a \in S |-> AssetCost(M, a)])
  BY DEF CostOf, SumOf, FoldOf
<1>6. QED
  BY <1>4, <1>5

\* A workload that is known down to its datacenter runs there.
LEMMA WhereItRuns ==
  ASSUME NEW L, NEW host \in DcIds, NEW d \in Dcs(L)
  PROVE  ResolveWorkloadDcId(L, host) = d <=> host = d
<1>1. host \notin Assets(L) /\ d \in DcIds /\ d # None
  BY IdsAssumption, NoneAssumption DEF Assets, Dcs
<1>2. CASE host \in Dcs(L)
  BY <1>1, <1>2 DEF ResolveWorkloadDcId
<1>3. CASE host \notin Dcs(L)
  BY <1>1, <1>3 DEF ResolveWorkloadDcId
<1>4. QED
  BY <1>2, <1>3

\* The workloads of lists that have the page's types.
LEMMA WorkloadsAreTyped ==
  ASSUME NEW L \in Lists, NEW c \in Workloads(L)
  PROVE  /\ c[1] \in ServiceIds /\ L.services[c[1]] \in Service(DcIds)
         /\ WorkloadOf(L, c) \in Workload(DcIds)
<1>1. PICK s \in ServiceIds : L.services[s] # None /\ \E i \in DOMAIN L.services[s].workloads : c = <<s, i>>
  BY DEF Workloads
<1>2. PICK i \in DOMAIN L.services[s].workloads : c = <<s, i>>
  BY <1>1
<1>3. L.services[s] \in Service(DcIds)
  BY <1>1 DEF Lists
<1>4. L.services[s].workloads \in Seq(Workload(DcIds))
  BY <1>3 DEF Service
<1>5. L.services[s].workloads[i] \in Workload(DcIds)
  <2> DEFINE W == Workload(DcIds)
  <2>1. L.services[s].workloads \in Seq(W)
    BY <1>4
  <2> HIDE DEF W
  <2>2. L.services[s].workloads[i] \in W
    BY <2>1
  <2>3. QED
    BY <2>2 DEF W
<1>6. QED
  BY <1>2, <1>3, <1>5 DEF WorkloadOf

\* What runs in a datacenter.
LEMMA ConsumersRunThere ==
  ASSUME NEW L \in Lists, NEW d \in Dcs(L)
  PROVE  Consumers(L, d) = {c \in Workloads(L) : WorkloadOf(L, c).hostId = d}
<1>1. ASSUME NEW c \in Workloads(L)
      PROVE  ResolveWorkloadDcId(L, WorkloadOf(L, c).hostId) = d <=> WorkloadOf(L, c).hostId = d
  <2>1. WorkloadOf(L, c).hostId \in DcIds
    BY WorkloadsAreTyped DEF Workload
  <2>2. QED
    BY <2>1, WhereItRuns
<1>2. QED
  BY <1>1 DEF Consumers

\* What is paid in a datacenter.
LEMMA SamePayments ==
  ASSUME NEW L \in Lists, NEW M \in Lists, NEW d \in DcIds, SameThere(L, M, d), NEW s, NEW o
  PROVE  Pays(L, d, s, o) = Pays(M, d, s, o)
<1>1. /\ AssetsIn(L, d) = AssetsIn(M, d) /\ d \in Dcs(L) /\ d \in Dcs(M) /\ L.services = M.services
      /\ \A a \in AssetsIn(L, d) : /\ L.assets[a].role = M.assets[a].role
                                   /\ L.assets[a].cpuCores = M.assets[a].cpuCores
                                   /\ L.assets[a].ramGB = M.assets[a].ramGB
  BY DEF SameThere
<1>2. Hosts(L, d) = Hosts(M, d) /\ Hosts(L, d) \in SUBSET AssetsIn(L, d)
  BY <1>1 DEF Hosts, IsComputeHost
<1>3. DcCost(L, d) = DcCost(M, d)
  BY <1>2, SameCosts DEF DcCost
<1>4. Workloads(L) = Workloads(M) /\ \A c : WorkloadOf(L, c) = WorkloadOf(M, c)
  BY <1>1 DEF Workloads, WorkloadOf
<1>5. Consumers(L, d) = Consumers(M, d)
  <2>1. /\ Consumers(L, d) = {c \in Workloads(L) : WorkloadOf(L, c).hostId = d}
        /\ Consumers(M, d) = {c \in Workloads(M) : WorkloadOf(M, c).hostId = d}
    BY <1>1, ConsumersRunThere
  <2>2. {c \in Workloads(L) : WorkloadOf(L, c).hostId = d} = {c \in Workloads(M) : WorkloadOf(M, c).hostId = d}
    BY <1>4
  <2>3. QED
    BY <2>1, <2>2
<1>6. ASSUME NEW cpu, NEW ram
      PROVE  Part(L, d, cpu, ram, o) = Part(M, d, cpu, ram, o)
  <2>1. /\ [a \in Hosts(L, d) |-> L.assets[a].cpuCores] = [a \in Hosts(M, d) |-> M.assets[a].cpuCores]
        /\ [a \in Hosts(L, d) |-> L.assets[a].ramGB] = [a \in Hosts(M, d) |-> M.assets[a].ramGB]
    BY <1>1, <1>2
  <2>2. /\ SumOver(Hosts(L, d), LAMBDA a : L.assets[a].cpuCores)
             = SumOver(Hosts(M, d), LAMBDA a : M.assets[a].cpuCores)
        /\ SumOver(Hosts(L, d), LAMBDA a : L.assets[a].ramGB)
             = SumOver(Hosts(M, d), LAMBDA a : M.assets[a].ramGB)
    BY <2>1 DEF SumOver
  <2>3. QED
    BY <2>2 DEF Part
<1>7. ASSUME NEW c
      PROVE  Weight(L, d, c, o) = Weight(M, d, c, o)
  BY <1>1, <1>4, <1>6 DEF Weight
<1>8. ASSUME NEW S
      PROVE  SumOf(S, LAMBDA c : Weight(L, d, c, o)) = SumOf(S, LAMBDA c : Weight(M, d, c, o))
  <2>1. [c \in S |-> Weight(L, d, c, o)] = [c \in S |-> Weight(M, d, c, o)]
    BY <1>7
  <2>2. /\ SumOf(S, LAMBDA c : Weight(L, d, c, o)) = FoldOf([c \in S |-> Weight(L, d, c, o)])
        /\ SumOf(S, LAMBDA c : Weight(M, d, c, o)) = FoldOf([c \in S |-> Weight(M, d, c, o)])
    BY DEF SumOf, FoldOf
  <2>3. QED
    BY <2>1, <2>2
<1>9. TotalWeight(L, d, o) = TotalWeight(M, d, o)
  BY <1>5, <1>8 DEF TotalWeight
<1>10. AllocFrac(L, d, o) = AllocFrac(M, d, o)
  BY <1>9 DEF AllocFrac
<1>11. QED
  BY <1>3, <1>5, <1>8, <1>9, <1>10 DEF Pays

\* The page has of every datacenter what the tables are mapped to.
LEMMA PageIsCurrent ==
  ASSUME EstimateInv, NEW d \in Dcs(page)
  PROVE  SameThere(page, Mapped(tables), d)
<1> DEFINE M == Mapped(tables)
<1>1. Agrees(page, M)
  BY DEF EstimateInv, Good
<1>2. d \in DcIds /\ d \in Dcs(M) /\ page.dcs[d].coloMonthly = M.dcs[d].coloMonthly
  BY <1>1 DEF Agrees, DcsAgree, Dcs
<1>3. page.services = M.services
  BY <1>1 DEF Agrees
<1> HIDE DEF M
<1>4. ASSUME NEW a \in AssetsIn(page, d)
      PROVE  SameAsset(page.assets[a], M.assets[a])
  <2>1. a \in AssetIds /\ page.assets[a] # None /\ ~Astray(page, a)
    BY DEF AssetsIn, Assets, Astray
  <2>2. QED
    BY <1>1, <2>1 DEF Agrees, AssetsAgree
<1>5. AssetsIn(page, d) \subseteq AssetsIn(M, d)
  BY <1>4 DEF AssetsIn, Assets, SameAsset
<1>6. AssetsIn(M, d) \subseteq AssetsIn(page, d)
  <2>1. ASSUME NEW a \in AssetsIn(M, d)
        PROVE  SameAsset(page.assets[a], M.assets[a])
    BY <1>1 DEF AssetsIn, Assets, Agrees, AssetsAgree
  <2>2. QED
    BY <2>1 DEF AssetsIn, Assets, SameAsset
<1>7. QED
  BY <1>2, <1>3, <1>4, <1>5, <1>6 DEF SameThere, SameAsset, M

\* The figures that the page shows are those that the next refresh shows:
\* a change is shown as it was typed before anything is loaded again
\* (useAppState.ts), and the mappers give it back as it was.
THEOREM RefreshChangesNoFigure == Spec => []RefreshKeepsTheFigures
<1>1. EstimateInv => RefreshKeepsTheFigures
  <2>1. SUFFICES ASSUME EstimateInv
                 PROVE  RefreshKeepsTheFigures
    OBVIOUS
  <2> DEFINE M == Mapped(tables)
  <2>2. page \in Lists /\ M \in Lists
    BY <2>1, TablesAreMapped DEF EstimateInv, Good
  <2>3. \A d \in Dcs(page) : SameThere(page, M, d)
    BY <2>1, PageIsCurrent
  <2> HIDE DEF M
  <2>4. Dcs(M) = Dcs(page)
    <3>1. DcsAgree(page, M)
      BY <2>1 DEF EstimateInv, Good, Agrees, M
    <3>2. QED
      BY <3>1 DEF DcsAgree, Dcs
  <2>5. ASSUME NEW d \in Dcs(page)
        PROVE  ByDc(page, d) = ByDc(M, d)
    <3>1. d \in DcIds /\ SameThere(page, M, d) /\ AssetsIn(page, d) = AssetsIn(M, d)
      BY <2>3 DEF Dcs, SameThere
    <3>2. CostOf(page, AssetsIn(page, d)) = CostOf(M, AssetsIn(page, d))
      BY <3>1, SameCosts
    <3>3. QED
      BY <3>1, <3>2 DEF ByDc
  <2>6. ASSUME NEW s \in ServiceIds, NEW o \in Tweaks
        PROVE  Monthly(page, s, o) = Monthly(M, s, o)
    <3>1. ASSUME NEW d \in Dcs(page)
          PROVE  Pays(page, d, s, o) = Pays(M, d, s, o)
      <4>1. d \in DcIds
        BY DEF Dcs
      <4>2. QED
        BY <2>2, <2>3, <4>1, SamePayments
    <3>2. [d \in Dcs(page) |-> Pays(page, d, s, o)] = [d \in Dcs(M) |-> Pays(M, d, s, o)]
      BY <2>4, <3>1
    <3>3. /\ Monthly(page, s, o) = FoldOf([d \in Dcs(page) |-> Pays(page, d, s, o)])
          /\ Monthly(M, s, o) = FoldOf([d \in Dcs(M) |-> Pays(M, d, s, o)])
      BY DEF Monthly, SumOf, FoldOf
    <3>4. QED
      BY <3>2, <3>3
  <2>7. QED
    BY <2>5, <2>6 DEF RefreshKeepsTheFigures, M
<1>2. QED
  BY <1>1, EstimateInvariant, PTL

\* A datacenter in which an asset neither was nor is.
LEMMA ElsewhereIsTheSame ==
  ASSUME EstimateInv, NEW a \in AssetIds, NEW e \in AssetEdits \cup {NoEdit}, SaveAsset(a, e),
         NEW d \in Dcs(page) \cap Dcs(page'), d \notin Places(page, a) \cup Places(page', a)
  PROVE  SameThere(page, page', d)
<1>1. PICK f \in Asset(DcIds), region \in Texts :
         /\ f \in Typed(OpenAssetForm(page.assets[a]), e)
         /\ RoleFits(f)
         /\ SavedServer(a, f, region) \/ SavedHardware(a, f, region) \/ Refused
  BY SaveAssetEnds
<1>2. CASE page' = [page EXCEPT !.assets[a] = f]
  <2>1. page \in Lists
    BY DEF EstimateInv, Good
  <2>2. /\ page'.dcs = page.dcs /\ page'.services = page.services
        /\ page'.assets = [page.assets EXCEPT ![a] = f]
    BY <1>2, <2>1 DEF Lists
  <2>3. \A b \in AssetIds \ {a} : page'.assets[b] = page.assets[b]
    BY <2>1, <2>2 DEF Lists
  <2>4. d \in DcIds /\ a \notin AssetsIn(page, d) /\ a \notin AssetsIn(page', d)
    BY DEF Places, Dcs
  <2>5. AssetsIn(page, d) = AssetsIn(page', d) /\ \A b \in AssetsIn(page, d) : page'.assets[b] = page.assets[b]
    BY <2>3, <2>4 DEF AssetsIn, Assets
  <2>6. QED
    BY <2>2, <2>5 DEF SameThere
<1>3. CASE Refused
  BY <1>3, PageIsCurrent DEF Refused
<1>4. QED
  BY <1>1, <1>2, <1>3 DEF SavedServer, SavedHardware

\* A save of an asset changes what is paid in the datacenter that it was in and
\* in the one it is in, and nowhere else.
THEOREM NothingChangesElsewhere == Spec => ElsewhereNothingChanges
<1>1. EstimateInv /\ EstimateInv' /\ [Next]_vars =>
        [\A a \in AssetIds : \A e \in AssetEdits \cup {NoEdit} :
          SaveAsset(a, e) =>
              \A d \in Dcs(page) \cap Dcs(page') :
                 \/ d \in Places(page, a) \cup Places(page', a)
                 \/ \A s \in ServiceIds, o \in Tweaks : Pays(page', d, s, o) = Pays(page, d, s, o)]_vars
  <2>1. SUFFICES ASSUME EstimateInv, EstimateInv',
                        NEW a \in AssetIds, NEW e \in AssetEdits \cup {NoEdit}, SaveAsset(a, e),
                        NEW d \in Dcs(page) \cap Dcs(page'),
                        d \notin Places(page, a) \cup Places(page', a),
                        NEW s \in ServiceIds, NEW o \in Tweaks
                 PROVE  Pays(page', d, s, o) = Pays(page, d, s, o)
    OBVIOUS
  <2>2. SameThere(page, page', d)
    BY <2>1, ElsewhereIsTheSame
  <2>3. page \in Lists /\ page' \in Lists /\ d \in DcIds
    BY <2>1 DEF EstimateInv, Good, Dcs
  <2>4. QED
    BY <2>2, <2>3, SamePayments
<1>2. QED
  BY <1>1, EstimateInvariant, PTL DEF Spec, ElsewhereNothingChanges

-----------------------------------------------------------------------------
(***************************************************************************)
(* Common divisors.  The induction that they and the sums need takes the   *)
(* set of what is good: that is what a prover can be given.                *)
(***************************************************************************)
\* What is good for 0, and for n if for all below n, is good for every number.
LEMMA NatStrongInduction ==
  ASSUME NEW Kept, \A n \in Nat : (\A k \in Nat : k < n => k \in Kept) => n \in Kept
  PROVE  \A n \in Nat : n \in Kept
<1> DEFINE Bad == {n \in Nat : n \notin Kept}
<1>1. SUFFICES ASSUME Bad # {}
               PROVE  FALSE
  OBVIOUS
<1>2. Bad \in SUBSET Nat
  OBVIOUS
<1>3. PICK n \in Bad : \A k \in Bad : ~ (<<k, n>> \in OpToRel(<, Nat))
  <2> HIDE DEF Bad
  <2> QED BY <1>1, <1>2, NatLessThanWellFounded, WFMin
<1>4. \A k \in Nat : k < n => k \in Kept
  BY <1>3 DEF OpToRel
<1>5. QED
  BY <1>3, <1>4

\* n divides a and b, and is a combination of them: their greatest common divisor.
Divides(n, a) == \E k \in Nat : a = n * k

IsGcd(a, b, n) ==
    /\ n \in Nat /\ Divides(n, a) /\ Divides(n, b)
    /\ \E x, y \in Int : n = x * a + y * b

\* What divides both ways is the same.
LEMMA DividesBothWays ==
  ASSUME NEW m \in Nat, NEW n \in Nat, Divides(m, n), Divides(n, m)
  PROVE  m = n
<1>1. PICK j \in Nat : n = m * j
  BY DEF Divides
<1>2. PICK k \in Nat : m = n * k
  BY DEF Divides
<1>3. m = m * (j * k)
  BY <1>1, <1>2
<1>4. CASE m = 0
  BY <1>1, <1>4
<1>5. CASE m # 0
  <2>1. j * k = 1
    BY <1>3, <1>5
  <2>2. j = 1
    BY <2>1
  <2>3. QED
    BY <1>1, <2>2
<1>6. QED
  BY <1>4, <1>5

\* A divisor of two numbers divides what they combine to.
LEMMA DividesCombination ==
  ASSUME NEW m \in Nat, NEW n \in Nat, NEW a \in Nat, NEW b \in Nat,
         Divides(m, a), Divides(m, b), NEW x \in Int, NEW y \in Int, n = x * a + y * b
  PROVE  Divides(m, n)
<1>1. PICK j \in Nat : a = m * j
  BY DEF Divides
<1>2. PICK k \in Nat : b = m * k
  BY DEF Divides
<1>3. n = m * (x * j + y * k)
  BY <1>1, <1>2
<1>4. CASE m = 0
  <2>1. n = m * 0
    BY <1>3, <1>4
  <2>2. QED
    BY <2>1 DEF Divides
<1>5. CASE m # 0
  <2> DEFINE z == x * j + y * k
  <2>1. z \in Int
    OBVIOUS
  <2>2. n = m * z
    BY <1>3
  <2> HIDE DEF z
  <2>3. z \in Nat
    BY <1>5, <2>1, <2>2
  <2>4. QED
    BY <2>2, <2>3 DEF Divides
<1>6. QED
  BY <1>4, <1>5

\* There is at most one.
LEMMA GcdIsOne ==
  ASSUME NEW a \in Nat, NEW b \in Nat, NEW m, NEW n, IsGcd(a, b, m), IsGcd(a, b, n)
  PROVE  m = n
<1>1. Divides(m, n) /\ Divides(n, m)
  BY DividesCombination DEF IsGcd
<1>2. QED
  BY <1>1, DividesBothWays DEF IsGcd

\* Euclid's step.
LEMMA EuclidsStep ==
  ASSUME NEW a \in Nat, NEW b \in Nat \ {0}, NEW n, IsGcd(b, a % b, n)
  PROVE  IsGcd(a, b, n)
<1> DEFINE q == a \div b
           r == a % b
<1>1. q \in Nat /\ r \in Nat /\ a = b * q + r
  OBVIOUS
<1> HIDE DEF q, r
<1>2. n \in Nat /\ Divides(n, b) /\ Divides(n, r)
  BY DEF IsGcd, r
<1>3. PICK x, y \in Int : n = x * b + y * r
  BY DEF IsGcd, r
<1>4. Divides(n, a)
  <2>1. a = q * b + 1 * r /\ q \in Int /\ 1 \in Int
    BY <1>1
  <2>2. QED
    BY <1>1, <1>2, <2>1, DividesCombination
<1>5. n = y * a + (x - y * q) * b
  <2>1. y * a = y * (b * q + r)
    BY <1>1
  <2>2. y * (b * q + r) + (x - y * q) * b = x * b + y * r
    BY <1>1
  <2>3. QED
    BY <1>3, <2>1, <2>2
<1>6. y \in Int /\ x - y * q \in Int
  BY <1>1
<1>7. QED
  BY <1>2, <1>4, <1>5, <1>6 DEF IsGcd

\* Two numbers have one.
LEMMA GcdExists == \A b \in Nat : \A a \in Nat : \E n : IsGcd(a, b, n)
<1> DEFINE Kept == {b \in Nat : \A a \in Nat : \E n : IsGcd(a, b, n)}
<1>1. ASSUME NEW b \in Nat, \A k \in Nat : k < b => k \in Kept
      PROVE  b \in Kept
  <2>1. CASE b = 0
    <3>1. ASSUME NEW a \in Nat
          PROVE  IsGcd(a, b, a)
      <4>1. a = a * 1 /\ b = a * 0 /\ a = 1 * a + 0 * b
        BY <2>1
      <4>2. QED
        BY <4>1 DEF IsGcd, Divides
    <3>2. QED
      BY <3>1
  <2>2. CASE b # 0
    <3>1. ASSUME NEW a \in Nat
          PROVE  \E n : IsGcd(a, b, n)
      <4>1. a % b \in Nat /\ a % b < b
        BY <2>2
      <4>2. PICK n : IsGcd(b, a % b, n)
        BY <1>1, <4>1
      <4>3. QED
        BY <2>2, <4>2, EuclidsStep
    <3>2. QED
      BY <3>1
  <2>3. QED
    BY <2>1, <2>2
<1>2. \A b \in Nat : b \in Kept
  <2> HIDE DEF Kept
  <2> QED BY <1>1, NatStrongInduction
<1>3. QED
  BY <1>2

IsGcdFunction(g) ==
    g = [p \in Nat \X Nat |-> IF p[2] = 0 THEN p[1] ELSE g[<<p[2], p[1] % p[2]>>]]

\* So the recursion of Gcd defines a function.
LEMMA GcdIsDefined == IsGcdFunction(Gcd)
<1> DEFINE g == [p \in Nat \X Nat |-> CHOOSE n : IsGcd(p[1], p[2], n)]
<1>1. ASSUME NEW a \in Nat, NEW b \in Nat
      PROVE  IsGcd(a, b, g[<<a, b>>])
  BY GcdExists
<1>2. ASSUME NEW a \in Nat, NEW b \in Nat
      PROVE  g[<<a, b>>] = IF b = 0 THEN a ELSE g[<<b, a % b>>]
  <2>1. CASE b = 0
    <3>1. a = a * 1 /\ b = a * 0 /\ a = 1 * a + 0 * b
      BY <2>1
    <3>2. IsGcd(a, b, a)
      BY <3>1 DEF IsGcd, Divides
    <3> HIDE DEF g
    <3>3. QED
      BY <1>1, <2>1, <3>2, GcdIsOne
  <2>2. CASE b # 0
    <3> HIDE DEF g
    <3>1. a % b \in Nat
      BY <2>2
    <3>2. IsGcd(b, a % b, g[<<b, a % b>>])
      BY <1>1, <3>1
    <3>3. IsGcd(a, b, g[<<b, a % b>>])
      BY <2>2, <3>2, EuclidsStep
    <3>4. QED
      BY <1>1, <2>2, <3>3, GcdIsOne
  <2>3. QED
    BY <2>1, <2>2
<1>3. IsGcdFunction(g)
  <2>1. ASSUME NEW p \in Nat \X Nat
        PROVE  g[p] = IF p[2] = 0 THEN p[1] ELSE g[<<p[2], p[1] % p[2]>>]
    <3>1. p[1] \in Nat /\ p[2] \in Nat /\ p = <<p[1], p[2]>>
      OBVIOUS
    <3> HIDE DEF g
    <3>2. QED
      BY <1>2, <3>1
  <2>2. g = [p \in Nat \X Nat |-> g[p]]
    OBVIOUS
  <2> HIDE DEF g
  <2>3. QED
    BY <2>1, <2>2 DEF IsGcdFunction
<1>4. Gcd = CHOOSE h : IsGcdFunction(h)
  BY DEF Gcd, IsGcdFunction
<1>5. QED
  BY <1>3, <1>4

\* Gcd is the greatest common divisor.
LEMMA GcdIsGcd ==
  ASSUME NEW a \in Nat, NEW b \in Nat
  PROVE  IsGcd(a, b, Gcd[<<a, b>>])
<1> DEFINE Kept == {n \in Nat : \A m \in Nat : IsGcd(m, n, Gcd[<<m, n>>])}
<1>1. ASSUME NEW n \in Nat, NEW m \in Nat
      PROVE  Gcd[<<m, n>>] = IF n = 0 THEN m ELSE Gcd[<<n, m % n>>]
  <2> DEFINE g == Gcd
  <2>1. IsGcdFunction(g)
    BY GcdIsDefined
  <2> HIDE DEF g
  <2>2. g[<<m, n>>] = IF n = 0 THEN m ELSE g[<<n, m % n>>]
    BY <2>1 DEF IsGcdFunction
  <2>3. QED
    BY <2>2 DEF g
<1>2. ASSUME NEW n \in Nat, \A k \in Nat : k < n => k \in Kept
      PROVE  n \in Kept
  <2>1. ASSUME NEW m \in Nat
        PROVE  IsGcd(m, n, Gcd[<<m, n>>])
    <3>1. CASE n = 0
      <4>1. m = m * 1 /\ n = m * 0 /\ m = 1 * m + 0 * n
        BY <3>1
      <4>2. IsGcd(m, n, m)
        BY <4>1 DEF IsGcd, Divides
      <4>3. QED
        BY <1>1, <3>1, <4>2
    <3>2. CASE n # 0
      <4>1. m % n \in Nat /\ m % n < n
        BY <3>2
      <4>2. IsGcd(n, m % n, Gcd[<<n, m % n>>])
        BY <1>2, <4>1
      <4>3. QED
        BY <1>1, <3>2, <4>2, EuclidsStep
    <3>3. QED
      BY <3>1, <3>2
  <2>2. QED
    BY <2>1
<1>3. \A n \in Nat : n \in Kept
  <2> HIDE DEF Kept
  <2> QED BY <1>2, NatStrongInduction
<1>4. QED
  BY <1>3

-----------------------------------------------------------------------------
(***************************************************************************)
(* Fractions in their lowest terms, and the laws of their arithmetic.      *)
(***************************************************************************)
Positive == Nat \ {0}

Coprime(n, d) == \E x, y \in Int : x * n + y * d = 1

Fractions == {q \in Nat \X Positive : Coprime(q[1], q[2])}

\* p is n/d.
Is(p, n, d) == p[1] * d = n * p[2]

\* The parts of a fraction.
LEMMA FractionParts ==
  ASSUME NEW p \in Fractions
  PROVE  /\ p[1] \in Nat /\ p[2] \in Positive /\ p[2] \in Nat /\ p[2] # 0
         /\ Coprime(p[1], p[2]) /\ p = <<p[1], p[2]>> /\ Is(p, p[1], p[2])
  BY DEF Fractions, Positive, Is

\* A common factor can be left out.
LEMMA Cancel ==
  ASSUME NEW k \in Int, k # 0, NEW a \in Int, NEW b \in Int, k * a = k * b
  PROVE  a = b
  OBVIOUS

\* Fractions of the same value are the same.
LEMMA SameFraction ==
  ASSUME NEW p \in Fractions, NEW q \in Fractions, p[1] * q[2] = q[1] * p[2]
  PROVE  p = q
<1>1. ASSUME NEW n \in Nat, NEW d \in Positive, NEW m \in Nat, NEW e \in Positive,
             Coprime(n, d), n * e = m * d
      PROVE  Divides(d, e)
  <2>1. PICK x, y \in Int : x * n + y * d = 1
    BY <1>1 DEF Coprime
  <2>2. e = x * (n * e) + (y * e) * d
    <3>1. e = e * (x * n + y * d)
      BY <2>1 DEF Positive
    <3>2. e * (x * n + y * d) = x * (n * e) + (y * e) * d
      BY DEF Positive
    <3>3. QED
      BY <3>1, <3>2
  <2>3. e = (x * m) * d + (y * e) * d
    BY <1>1, <2>2 DEF Positive
  <2>4. Divides(d, d) /\ x * m \in Int /\ y * e \in Int /\ d \in Nat /\ e \in Nat
    <3>1. d = d * 1
      BY DEF Positive
    <3>2. QED
      BY <3>1 DEF Divides, Positive
  <2>5. QED
    BY <2>3, <2>4, DividesCombination
<1> DEFINE a == p[1]
           b == p[2]
           c == q[1]
           d == q[2]
<1>2. /\ a \in Nat /\ b \in Positive /\ c \in Nat /\ d \in Positive /\ Coprime(a, b) /\ Coprime(c, d)
      /\ p = <<a, b>> /\ q = <<c, d>> /\ a * d = c * b
  BY FractionParts
<1> HIDE DEF a, b, c, d
<1>3. Divides(b, d) /\ Divides(d, b)
  BY <1>1, <1>2
<1>4. b = d /\ b \in Nat /\ d \in Nat
  BY <1>2, <1>3, DividesBothWays DEF Positive
<1>5. a = c
  BY <1>2, <1>4 DEF Positive
<1>6. QED
  BY <1>2, <1>4, <1>5

\* The same, of two values that are given as they come.
LEMMA SameValue ==
  ASSUME NEW p \in Fractions, NEW q \in Fractions, NEW n \in Nat, NEW d \in Positive,
         NEW m \in Nat, NEW e \in Positive, Is(p, n, d), Is(q, m, e), n * e = m * d
  PROVE  p = q
<1> DEFINE a == p[1]
           b == p[2]
           c == q[1]
           f == q[2]
<1>1. /\ a \in Nat /\ b \in Positive /\ c \in Nat /\ f \in Positive
      /\ a * d = n * b /\ c * e = m * f
  BY FractionParts DEF Is
<1> HIDE DEF a, b, c, f
<1>2. (d * e) * (a * f) = (d * e) * (c * b)
  <2>1. (d * e) * (a * f) = (a * d) * (e * f)
    BY <1>1 DEF Positive
  <2>2. (a * d) * (e * f) = (n * e) * (b * f)
    BY <1>1 DEF Positive
  <2>3. (n * e) * (b * f) = (m * f) * (d * b)
    BY <1>1 DEF Positive
  <2>4. (m * f) * (d * b) = (c * e) * (d * b)
    BY <1>1
  <2>5. (c * e) * (d * b) = (d * e) * (c * b)
    BY <1>1 DEF Positive
  <2>6. QED
    BY <2>1, <2>2, <2>3, <2>4, <2>5
<1>3. d * e # 0 /\ d * e \in Int /\ a * f \in Int /\ c * b \in Int
  BY <1>1 DEF Positive
<1>4. a * f = c * b
  BY <1>2, <1>3, Cancel
<1>5. QED
  BY <1>4, SameFraction DEF a, b, c, f

\* Lowest terms.
LEMMA FracIsFraction ==
  ASSUME NEW n \in Nat, NEW d \in Positive
  PROVE  /\ Frac(n, d) \in Fractions /\ Is(Frac(n, d), n, d)
         /\ \E k \in Nat : n = Frac(n, d)[1] * k /\ d = Frac(n, d)[2] * k
<1> DEFINE g == Gcd[<<n, d>>]
<1>1. d \in Nat /\ d # 0
  BY DEF Positive
<1>2. IsGcd(n, d, g)
  BY <1>1, GcdIsGcd
<1>3. Frac(n, d) = <<n \div g, d \div g>>
  BY DEF Frac
<1> HIDE DEF g
<1>4. g \in Nat
  BY <1>2 DEF IsGcd
<1>5. PICK j \in Nat : n = g * j
  BY <1>2 DEF IsGcd, Divides
<1>6. PICK k \in Nat : d = g * k
  BY <1>2 DEF IsGcd, Divides
<1>7. g # 0 /\ k # 0
  BY <1>1, <1>4, <1>6
<1>8. n \div g = j /\ d \div g = k
  <2>1. \A a \in Nat : (g * a) \div g = a
    BY <1>4, <1>7
  <2>2. QED
    BY <1>5, <1>6, <2>1
<1>9. PICK x, y \in Int : g = x * n + y * d
  BY <1>2 DEF IsGcd
<1>10. x * j + y * k = 1
  <2>1. g * (x * j + y * k) = x * (g * j) + y * (g * k)
    BY <1>4
  <2>2. g * (x * j + y * k) = g * 1
    BY <1>4, <1>5, <1>6, <1>9, <2>1
  <2>3. x * j + y * k \in Int
    OBVIOUS
  <2>4. QED
    BY <1>4, <1>7, <2>2, <2>3, Cancel
<1>11. j * d = n * k
  BY <1>4, <1>5, <1>6
<1>12. Coprime(j, k)
  BY <1>10 DEF Coprime
<1>13. Frac(n, d) = <<j, k>> /\ n = j * g /\ d = k * g
  BY <1>3, <1>4, <1>5, <1>6, <1>8
<1>14. QED
  BY <1>4, <1>7, <1>11, <1>12, <1>13 DEF Fractions, Positive, Is

\* The sum of two fractions.
LEMMA PlusIsFraction ==
  ASSUME NEW p \in Fractions, NEW q \in Fractions
  PROVE  Plus(p, q) \in Fractions /\ Is(Plus(p, q), p[1] * q[2] + q[1] * p[2], p[2] * q[2])
<1> DEFINE a == p[1]
           b == p[2]
           c == q[1]
           d == q[2]
           g == Gcd[<<b, d>>]
           r == Plus(p, q)
<1>1. a \in Nat /\ b \in Positive /\ c \in Nat /\ d \in Positive
  BY FractionParts
<1>2. r = Frac(a * (d \div g) + c * (b \div g), b * (d \div g))
  BY DEF Plus
<1>3. IsGcd(b, d, g)
  BY <1>1, GcdIsGcd DEF Positive
<1> HIDE DEF a, b, c, d, g, r
<1>4. g \in Nat
  BY <1>3 DEF IsGcd
<1>5. PICK j \in Nat : b = g * j
  BY <1>3 DEF IsGcd, Divides
<1>6. PICK k \in Nat : d = g * k
  BY <1>3 DEF IsGcd, Divides
<1>7. g # 0 /\ k # 0 /\ j # 0
  BY <1>1, <1>4, <1>5, <1>6 DEF Positive
<1>8. b \div g = j /\ d \div g = k
  <2>1. \A m \in Nat : (g * m) \div g = m
    BY <1>4, <1>7
  <2>2. QED
    BY <1>5, <1>6, <2>1
<1>9. a * k + c * j \in Nat /\ b * k \in Positive
  BY <1>1, <1>7 DEF Positive
<1>10. r \in Fractions /\ Is(r, a * k + c * j, b * k)
  BY <1>2, <1>8, <1>9, FracIsFraction
<1>11. r[1] * (b * d) = (a * d + c * b) * r[2]
  <2> DEFINE x == r[1]
             y == r[2]
  <2>1. x \in Nat /\ y \in Nat /\ x * (b * k) = (a * k + c * j) * y
    BY <1>10, FractionParts DEF Is
  <2> HIDE DEF x, y
  <2>2. x * (b * d) = g * (x * (b * k))
    <3>1. x * (b * (g * k)) = g * (x * (b * k))
      BY <1>1, <1>4, <2>1 DEF Positive
    <3>2. QED
      BY <1>6, <3>1
  <2>3. (a * d + c * b) * y = g * ((a * k + c * j) * y)
    <3>1. (a * (g * k) + c * (g * j)) * y = g * ((a * k + c * j) * y)
      BY <1>1, <1>4, <2>1
    <3>2. QED
      BY <1>5, <1>6, <3>1
  <2>4. QED
    BY <2>1, <2>2, <2>3 DEF x, y
<1>12. QED
  BY <1>10, <1>11 DEF Is, a, b, c, d, r

\* Factors of numbers that have no common divisor have none.
LEMMA CoprimeProduct ==
  ASSUME NEW a \in Nat, NEW b \in Nat, NEW c \in Nat, Coprime(a, c), Coprime(b, c)
  PROVE  Coprime(a * b, c)
<1>1. PICK x, y \in Int : x * a + y * c = 1
  BY DEF Coprime
<1>2. PICK z, w \in Int : z * b + w * c = 1
  BY DEF Coprime
<1>3. (x * a + y * c) * (z * b + w * c)
        = (x * z) * (a * b) + (x * a * w + y * z * b + y * w * c) * c
  OBVIOUS
<1>4. (x * z) * (a * b) + (x * a * w + y * z * b + y * w * c) * c = 1
  BY <1>1, <1>2, <1>3
<1>5. x * z \in Int /\ x * a * w + y * z * b + y * w * c \in Int
  OBVIOUS
<1>6. QED
  BY <1>4, <1>5 DEF Coprime

\* Neither of two comes first.
LEMMA CoprimeEither ==
  ASSUME NEW a \in Nat, NEW b \in Nat, Coprime(a, b)
  PROVE  Coprime(b, a)
<1>1. PICK x, y \in Int : x * a + y * b = 1
  BY DEF Coprime
<1>2. y * b + x * a = 1
  BY <1>1
<1>3. QED
  BY <1>2 DEF Coprime

\* So have divisors of them.
LEMMA CoprimeFactor ==
  ASSUME NEW a \in Nat, NEW b \in Nat, NEW k \in Nat, NEW j \in Nat, Coprime(a * k, b * j)
  PROVE  Coprime(a, b)
<1>1. PICK x, y \in Int : x * (a * k) + y * (b * j) = 1
  BY DEF Coprime
<1>2. (x * k) * a + (y * j) * b = 1 /\ x * k \in Int /\ y * j \in Int
  BY <1>1
<1>3. QED
  BY <1>2 DEF Coprime

\* The product of two fractions.
LEMMA TimesIsFraction ==
  ASSUME NEW p \in Fractions, NEW q \in Fractions
  PROVE  Times(p, q) \in Fractions /\ Is(Times(p, q), p[1] * q[1], p[2] * q[2])
<1> DEFINE a == p[1]
           b == p[2]
           c == q[1]
           d == q[2]
           F == Frac(a, d)
           G == Frac(c, b)
<1>1. a \in Nat /\ b \in Positive /\ c \in Nat /\ d \in Positive /\ Coprime(a, b) /\ Coprime(c, d)
  BY FractionParts
<1>2. Times(p, q) = <<F[1] * G[1], F[2] * G[2]>>
  BY DEF Times
<1> HIDE DEF a, b, c, d
<1>3. F \in Fractions /\ G \in Fractions
  BY <1>1, FracIsFraction
<1>4. PICK k \in Nat : a = F[1] * k /\ d = F[2] * k
  BY <1>1, FracIsFraction
<1>5. PICK j \in Nat : c = G[1] * j /\ b = G[2] * j
  BY <1>1, FracIsFraction
<1>6. /\ F[1] \in Nat /\ F[2] \in Positive /\ Coprime(F[1], F[2]) /\ F[2] \in Nat
      /\ G[1] \in Nat /\ G[2] \in Positive /\ Coprime(G[1], G[2]) /\ G[2] \in Nat
  BY <1>3, FractionParts
<1> DEFINE u == F[1]
           v == F[2]
           w == G[1]
           z == G[2]
<1>7. u \in Nat /\ v \in Nat /\ w \in Nat /\ z \in Nat /\ v # 0 /\ z # 0
  BY <1>6 DEF Positive
<1>8. a = u * k /\ d = v * k /\ c = w * j /\ b = z * j
  BY <1>4, <1>5
<1>9. Coprime(u, v) /\ Coprime(w, z)
  BY <1>6
<1> HIDE DEF F, G, u, v, w, z
<1>10. Coprime(u, z) /\ Coprime(w, v)
  BY <1>1, <1>7, <1>8, CoprimeFactor
<1>11. Coprime(u * w, v) /\ Coprime(u * w, z)
  BY <1>7, <1>9, <1>10, CoprimeProduct
<1>12. u * w \in Nat /\ v * z \in Nat
  BY <1>7
<1>13. Coprime(v, u * w) /\ Coprime(z, u * w)
  BY <1>7, <1>11, <1>12, CoprimeEither
<1>14. Coprime(v * z, u * w)
  BY <1>7, <1>12, <1>13, CoprimeProduct
<1>15. Coprime(u * w, v * z)
  BY <1>12, <1>14, CoprimeEither
<1>16. v * z \in Positive
  BY <1>7 DEF Positive
<1>17. Times(p, q) = <<u * w, v * z>>
  BY <1>2 DEF u, v, w, z
<1>18. (u * w) * (b * d) = (a * c) * (v * z)
  <2>1. (u * w) * ((z * j) * (v * k)) = ((u * k) * (w * j)) * (v * z)
    BY <1>7
  <2>2. QED
    BY <1>8, <2>1
<1>19. QED
  BY <1>12, <1>15, <1>16, <1>17, <1>18 DEF Fractions, Is, a, b, c, d

\* The sum and the product of n/d and m/e.
LEMMA ValueOfPlus ==
  ASSUME NEW p \in Fractions, NEW q \in Fractions, NEW n \in Nat, NEW d \in Positive,
         NEW m \in Nat, NEW e \in Positive, Is(p, n, d), Is(q, m, e)
  PROVE  Is(Plus(p, q), n * e + m * d, d * e)
<1> DEFINE a == p[1]
           b == p[2]
           c == q[1]
           f == q[2]
           x == Plus(p, q)[1]
           y == Plus(p, q)[2]
<1>1. /\ a \in Nat /\ b \in Nat /\ b # 0 /\ c \in Nat /\ f \in Nat /\ f # 0
      /\ x \in Nat /\ y \in Nat /\ d \in Nat /\ e \in Nat
      /\ a * d = n * b /\ c * e = m * f
      /\ x * (b * f) = (a * f + c * b) * y
  BY PlusIsFraction, FractionParts DEF Is, Positive
<1> HIDE DEF a, b, c, f, x, y
<1>2. (b * f) * (x * (d * e)) = (b * f) * ((n * e + m * d) * y)
  <2>1. (b * f) * (x * (d * e)) = (x * (b * f)) * (d * e)
    BY <1>1
  <2>2. (x * (b * f)) * (d * e) = ((a * f + c * b) * y) * (d * e)
    BY <1>1
  <2>3. ((a * f + c * b) * y) * (d * e) = ((a * d) * (f * e) + (c * e) * (b * d)) * y
    BY <1>1
  <2>4. ((a * d) * (f * e) + (c * e) * (b * d)) * y = ((n * b) * (f * e) + (m * f) * (b * d)) * y
    BY <1>1
  <2>5. ((n * b) * (f * e) + (m * f) * (b * d)) * y = (b * f) * ((n * e + m * d) * y)
    BY <1>1
  <2>6. QED
    BY <2>1, <2>2, <2>3, <2>4, <2>5
<1>3. b * f # 0 /\ b * f \in Int /\ x * (d * e) \in Int /\ (n * e + m * d) * y \in Int
  BY <1>1
<1>4. x * (d * e) = (n * e + m * d) * y
  BY <1>2, <1>3, Cancel
<1>5. QED
  BY <1>4 DEF Is, x, y

\* The value of a product, whatever numbers stand for the factors.
LEMMA ValueOfTimes ==
  ASSUME NEW p \in Fractions, NEW q \in Fractions, NEW n \in Nat, NEW d \in Positive,
         NEW m \in Nat, NEW e \in Positive, Is(p, n, d), Is(q, m, e)
  PROVE  Is(Times(p, q), n * m, d * e)
<1> DEFINE a == p[1]
           b == p[2]
           c == q[1]
           f == q[2]
           x == Times(p, q)[1]
           y == Times(p, q)[2]
<1>1. /\ a \in Nat /\ b \in Nat /\ b # 0 /\ c \in Nat /\ f \in Nat /\ f # 0
      /\ x \in Nat /\ y \in Nat /\ d \in Nat /\ e \in Nat
      /\ a * d = n * b /\ c * e = m * f
      /\ x * (b * f) = (a * c) * y
  BY TimesIsFraction, FractionParts DEF Is, Positive
<1> HIDE DEF a, b, c, f, x, y
<1>2. (b * f) * (x * (d * e)) = (b * f) * ((n * m) * y)
  <2>1. (b * f) * (x * (d * e)) = (x * (b * f)) * (d * e)
    BY <1>1
  <2>2. (x * (b * f)) * (d * e) = ((a * c) * y) * (d * e)
    BY <1>1
  <2>3. ((a * c) * y) * (d * e) = ((a * d) * (c * e)) * y
    BY <1>1
  <2>4. ((a * d) * (c * e)) * y = ((n * b) * (m * f)) * y
    BY <1>1
  <2>5. ((n * b) * (m * f)) * y = (b * f) * ((n * m) * y)
    BY <1>1
  <2>6. QED
    BY <2>1, <2>2, <2>3, <2>4, <2>5
<1>3. b * f # 0 /\ b * f \in Int /\ x * (d * e) \in Int /\ (n * m) * y \in Int
  BY <1>1
<1>4. x * (d * e) = (n * m) * y
  BY <1>2, <1>3, Cancel
<1>5. QED
  BY <1>4 DEF Is, x, y

\* Zero, one and the other whole numbers.
LEMMA WholeNumbers ==
  /\ \A n \in Nat : <<n, 1>> \in Fractions /\ Is(<<n, 1>>, n, 1)
  /\ Zero \in Fractions /\ One \in Fractions /\ 1 \in Positive
  /\ Is(Zero, 0, 1) /\ Is(One, 1, 1) /\ Zero # One
<1>1. ASSUME NEW n \in Nat
      PROVE  <<n, 1>> \in Fractions /\ Is(<<n, 1>>, n, 1)
  <2>1. 0 * n + 1 * 1 = 1
    OBVIOUS
  <2>2. Coprime(n, 1)
    BY <2>1 DEF Coprime
  <2>3. QED
    BY <2>2 DEF Fractions, Positive, Is
<1>2. QED
  BY <1>1 DEF Zero, One, Positive, Is

\* A fraction is Zero if its numerator is 0.
LEMMA ZeroIsZero ==
  ASSUME NEW p \in Fractions, NEW n \in Nat, NEW d \in Positive, Is(p, n, d)
  PROVE  (p = Zero <=> n = 0) /\ (p = Zero <=> p[1] = 0)
<1>1. p[1] \in Nat /\ p[2] \in Nat /\ p[2] # 0 /\ d \in Nat /\ d # 0 /\ p[1] * d = n * p[2]
  BY FractionParts DEF Is, Positive
<1>2. p[1] = 0 <=> n = 0
  BY <1>1
<1>3. ASSUME p[1] = 0
      PROVE  p = Zero
  <2>1. p[1] * 1 = 0 * p[2]
    BY <1>1, <1>3
  <2>2. Zero \in Fractions /\ Zero[1] = 0 /\ Zero[2] = 1
    BY WholeNumbers DEF Zero
  <2>3. QED
    BY <2>1, <2>2, SameFraction
<1>4. QED
  BY <1>2, <1>3 DEF Zero

\* The terms of a sum may change places.
LEMMA PlusCommutes ==
  ASSUME NEW p \in Fractions, NEW q \in Fractions
  PROVE  Plus(p, q) = Plus(q, p)
<1> DEFINE a == p[1]
           b == p[2]
           c == q[1]
           d == q[2]
           r == Plus(p, q)
           s == Plus(q, p)
<1>1. /\ r \in Fractions /\ Is(r, a * d + c * b, b * d)
      /\ s \in Fractions /\ Is(s, c * b + a * d, d * b)
  BY PlusIsFraction
<1>2. a \in Nat /\ b \in Nat /\ b # 0 /\ c \in Nat /\ d \in Nat /\ d # 0
  BY FractionParts
<1> HIDE DEF a, b, c, d, r, s
<1>3. a * d + c * b \in Nat /\ b * d \in Positive /\ c * b + a * d = a * d + c * b /\ d * b = b * d
  BY <1>2 DEF Positive
<1>4. r = s
  BY <1>1, <1>3, SameValue
<1>5. QED
  BY <1>4 DEF r, s

\* Three terms may be added from either end.
LEMMA PlusAssociates ==
  ASSUME NEW p \in Fractions, NEW q \in Fractions, NEW r \in Fractions
  PROVE  Plus(Plus(p, q), r) = Plus(p, Plus(q, r))
<1> DEFINE a == p[1]
           b == p[2]
           c == q[1]
           d == q[2]
           e == r[1]
           f == r[2]
<1>1. /\ a \in Nat /\ b \in Nat /\ b # 0 /\ c \in Nat /\ d \in Nat /\ d # 0 /\ e \in Nat /\ f \in Nat /\ f # 0
      /\ Is(p, a, b) /\ Is(r, e, f)
  BY FractionParts
<1>2. /\ Plus(p, q) \in Fractions /\ Is(Plus(p, q), a * d + c * b, b * d)
      /\ Plus(q, r) \in Fractions /\ Is(Plus(q, r), c * f + e * d, d * f)
  BY PlusIsFraction
<1> HIDE DEF a, b, c, d, e, f
<1>3. /\ a * d + c * b \in Nat /\ b * d \in Positive /\ c * f + e * d \in Nat /\ d * f \in Positive
      /\ b \in Positive /\ f \in Positive
  BY <1>1 DEF Positive
<1>4. /\ Is(Plus(Plus(p, q), r), (a * d + c * b) * f + e * (b * d), (b * d) * f)
      /\ Is(Plus(p, Plus(q, r)), a * (d * f) + (c * f + e * d) * b, b * (d * f))
  BY <1>1, <1>2, <1>3, ValueOfPlus
<1>5. Plus(Plus(p, q), r) \in Fractions /\ Plus(p, Plus(q, r)) \in Fractions
  BY <1>2, PlusIsFraction
<1>6. /\ (a * d + c * b) * f + e * (b * d) = a * (d * f) + (c * f + e * d) * b
      /\ (b * d) * f = b * (d * f)
  BY <1>1
<1>7. a * (d * f) + (c * f + e * d) * b \in Nat /\ b * (d * f) \in Positive
  BY <1>1 DEF Positive
<1>8. QED
  <2> DEFINE n == a * (d * f) + (c * f + e * d) * b
             m == b * (d * f)
  <2>1. Is(Plus(Plus(p, q), r), n, m) /\ Is(Plus(p, Plus(q, r)), n, m) /\ n \in Nat /\ m \in Positive
    BY <1>4, <1>6, <1>7
  <2> HIDE DEF n, m
  <2>2. n * m = n * m
    OBVIOUS
  <2>3. QED
    BY <1>5, <2>1, <2>2, SameValue

\* Zero adds nothing.
LEMMA PlusZero ==
  ASSUME NEW p \in Fractions
  PROVE  Plus(p, Zero) = p /\ Plus(Zero, p) = p
<1> DEFINE a == p[1]
           b == p[2]
<1>1. a \in Nat /\ b \in Nat /\ b # 0 /\ b \in Positive /\ Is(p, a, b)
  BY FractionParts
<1> HIDE DEF a, b
<1>2. Is(Plus(p, Zero), a * 1 + 0 * b, b * 1)
  BY <1>1, WholeNumbers, ValueOfPlus
<1>3. a * 1 + 0 * b = a /\ b * 1 = b
  BY <1>1
<1>4. Plus(p, Zero) \in Fractions
  BY WholeNumbers, PlusIsFraction
<1>5. Plus(p, Zero) = p
  BY <1>1, <1>2, <1>3, <1>4, SameValue
<1>6. QED
  BY <1>5, WholeNumbers, PlusCommutes

\* The factors of a product may change places.
LEMMA TimesCommutes ==
  ASSUME NEW p \in Fractions, NEW q \in Fractions
  PROVE  Times(p, q) = Times(q, p)
<1> DEFINE a == p[1]
           b == p[2]
           c == q[1]
           d == q[2]
           r == Times(p, q)
           s == Times(q, p)
<1>1. /\ r \in Fractions /\ Is(r, a * c, b * d)
      /\ s \in Fractions /\ Is(s, c * a, d * b)
  BY TimesIsFraction
<1>2. a \in Nat /\ b \in Nat /\ b # 0 /\ c \in Nat /\ d \in Nat /\ d # 0
  BY FractionParts
<1> HIDE DEF a, b, c, d, r, s
<1>3. a * c \in Nat /\ b * d \in Positive /\ c * a = a * c /\ d * b = b * d
  BY <1>2 DEF Positive
<1>4. r = s
  BY <1>1, <1>3, SameValue
<1>5. QED
  BY <1>4 DEF r, s

\* Three factors may be multiplied from either end.
LEMMA TimesAssociates ==
  ASSUME NEW p \in Fractions, NEW q \in Fractions, NEW r \in Fractions
  PROVE  Times(Times(p, q), r) = Times(p, Times(q, r))
<1> DEFINE a == p[1]
           b == p[2]
           c == q[1]
           d == q[2]
           e == r[1]
           f == r[2]
<1>1. /\ a \in Nat /\ b \in Nat /\ b # 0 /\ c \in Nat /\ d \in Nat /\ d # 0 /\ e \in Nat /\ f \in Nat /\ f # 0
      /\ Is(p, a, b) /\ Is(r, e, f)
  BY FractionParts
<1>2. /\ Times(p, q) \in Fractions /\ Is(Times(p, q), a * c, b * d)
      /\ Times(q, r) \in Fractions /\ Is(Times(q, r), c * e, d * f)
  BY TimesIsFraction
<1> HIDE DEF a, b, c, d, e, f
<1>3. /\ a * c \in Nat /\ b * d \in Positive /\ c * e \in Nat /\ d * f \in Positive
      /\ b \in Positive /\ f \in Positive
  BY <1>1 DEF Positive
<1>4. /\ Is(Times(Times(p, q), r), (a * c) * e, (b * d) * f)
      /\ Is(Times(p, Times(q, r)), a * (c * e), b * (d * f))
  BY <1>1, <1>2, <1>3, ValueOfTimes
<1>5. Times(Times(p, q), r) \in Fractions /\ Times(p, Times(q, r)) \in Fractions
  BY <1>2, TimesIsFraction
<1>6. (a * c) * e = a * (c * e) /\ (b * d) * f = b * (d * f)
  BY <1>1
<1>7. a * (c * e) \in Nat /\ b * (d * f) \in Positive
  BY <1>1 DEF Positive
<1>8. QED
  <2> DEFINE n == a * (c * e)
             m == b * (d * f)
  <2>1. Is(Times(Times(p, q), r), n, m) /\ Is(Times(p, Times(q, r)), n, m) /\ n \in Nat /\ m \in Positive
    BY <1>4, <1>6, <1>7
  <2> HIDE DEF n, m
  <2>2. n * m = n * m
    OBVIOUS
  <2>3. QED
    BY <1>5, <2>1, <2>2, SameValue

\* Zero times anything is Zero, and One changes nothing.
LEMMA TimesZeroOne ==
  ASSUME NEW p \in Fractions
  PROVE  Times(p, Zero) = Zero /\ Times(Zero, p) = Zero /\ Times(p, One) = p
<1> DEFINE a == p[1]
           b == p[2]
<1>1. a \in Nat /\ b \in Nat /\ b # 0 /\ b \in Positive /\ Is(p, a, b)
  BY FractionParts
<1> HIDE DEF a, b
<1>2. Is(Times(p, Zero), a * 0, b * 1) /\ Is(Times(p, One), a * 1, b * 1)
  BY <1>1, WholeNumbers, ValueOfTimes
<1>3. a * 1 = a /\ b * 1 = b /\ a * 0 = 0
  BY <1>1
<1>4. Times(p, Zero) \in Fractions /\ Times(p, One) \in Fractions
  BY WholeNumbers, TimesIsFraction
<1>5. Times(p, One) = p
  BY <1>1, <1>2, <1>3, <1>4, SameValue
<1>6. Times(p, Zero) = Zero
  BY <1>1, <1>2, <1>3, <1>4, ZeroIsZero
<1>7. QED
  BY <1>5, <1>6, WholeNumbers, TimesCommutes

\* A factor of a sum is one of its terms.
LEMMA TimesDistributes ==
  ASSUME NEW p \in Fractions, NEW q \in Fractions, NEW r \in Fractions
  PROVE  Times(p, Plus(q, r)) = Plus(Times(p, q), Times(p, r))
<1> DEFINE a == p[1]
           b == p[2]
           c == q[1]
           d == q[2]
           e == r[1]
           f == r[2]
<1>1. /\ a \in Nat /\ b \in Nat /\ b # 0 /\ c \in Nat /\ d \in Nat /\ d # 0 /\ e \in Nat /\ f \in Nat /\ f # 0
      /\ Is(p, a, b)
  BY FractionParts
<1>2. /\ Plus(q, r) \in Fractions /\ Is(Plus(q, r), c * f + e * d, d * f)
      /\ Times(p, q) \in Fractions /\ Is(Times(p, q), a * c, b * d)
      /\ Times(p, r) \in Fractions /\ Is(Times(p, r), a * e, b * f)
  BY TimesIsFraction, PlusIsFraction
<1> HIDE DEF a, b, c, d, e, f
<1>3. /\ c * f + e * d \in Nat /\ d * f \in Positive /\ a * c \in Nat /\ b * d \in Positive
      /\ a * e \in Nat /\ b * f \in Positive /\ b \in Positive
  BY <1>1 DEF Positive
<1>4. /\ Is(Times(p, Plus(q, r)), a * (c * f + e * d), b * (d * f))
      /\ Is(Plus(Times(p, q), Times(p, r)), (a * c) * (b * f) + (a * e) * (b * d), (b * d) * (b * f))
  BY <1>1, <1>2, <1>3, ValueOfPlus, ValueOfTimes
<1>5. Times(p, Plus(q, r)) \in Fractions /\ Plus(Times(p, q), Times(p, r)) \in Fractions
  BY <1>2, TimesIsFraction, PlusIsFraction
<1> DEFINE n == a * (c * f + e * d)
           m == b * (d * f)
           k == (a * c) * (b * f) + (a * e) * (b * d)
           j == (b * d) * (b * f)
<1>6. n * j = k * m
  BY <1>1
<1>7. n \in Nat /\ m \in Positive /\ k \in Nat /\ j \in Positive
  BY <1>1 DEF Positive
<1> HIDE DEF n, m, k, j
<1>8. QED
  BY <1>4, <1>5, <1>6, <1>7, SameValue DEF n, m, k, j

\* What was multiplied can be divided again.
LEMMA ByUndoesTimes ==
  ASSUME NEW p \in Fractions, NEW q \in Fractions, q # Zero
  PROVE  By(Times(p, q), q) = p /\ \A r \in Fractions : By(r, q) = Times(r, By(One, q)) /\ By(One, q) \in Fractions
<1> DEFINE c == q[1]
           d == q[2]
           i == <<d, c>>
<1>1. c \in Nat /\ d \in Nat /\ d # 0 /\ Coprime(c, d) /\ Is(q, c, d) /\ d \in Positive
  BY FractionParts
<1>2. c # 0
  BY <1>1, ZeroIsZero
<1>3. i \in Fractions /\ Is(i, d, c) /\ c \in Positive
  BY <1>1, <1>2, CoprimeEither DEF Fractions, Positive, Is
<1>4. \A r \in Fractions : By(r, q) = Times(r, i)
  BY DEF By
<1> HIDE DEF c, d, i
<1>5. Times(q, i) = One
  <2>1. Is(Times(q, i), c * d, d * c) /\ Times(q, i) \in Fractions
    BY <1>1, <1>3, ValueOfTimes, TimesIsFraction
  <2>2. c * d \in Nat /\ d * c \in Positive /\ (c * d) * 1 = 1 * (d * c)
    BY <1>1, <1>2 DEF Positive
  <2>3. QED
    BY <2>1, <2>2, WholeNumbers, SameValue
<1>6. By(Times(p, q), q) = Times(Times(p, q), i)
  BY <1>4, TimesIsFraction
<1>7. Times(Times(p, q), i) = Times(p, Times(q, i))
  BY <1>3, TimesAssociates
<1>8. Times(p, One) = p
  BY TimesZeroOne
<1>9. One \in Fractions /\ Times(One, i) = i
  BY <1>3, WholeNumbers, TimesZeroOne, TimesCommutes
<1>10. QED
  BY <1>3, <1>4, <1>5, <1>6, <1>7, <1>8, <1>9

-----------------------------------------------------------------------------
(***************************************************************************)
(* Sums.  A fold takes the elements of a set one after the other, always   *)
(* the one that CHOOSE would choose; it is the value, at the whole set, of *)
(* a function of its subsets that satisfies an equation.  The sums of the  *)
(* model are of fractions or of naturals: k tells which.                   *)
(***************************************************************************)
\* Induction over the naturals.
LEMMA NatSteps ==
  ASSUME NEW Kept, 0 \in Kept, \A n \in Nat : n \in Kept => n + 1 \in Kept
  PROVE  \A n \in Nat : n \in Kept
<1>1. ASSUME NEW n \in Nat, \A k \in Nat : k < n => k \in Kept
      PROVE  n \in Kept
  <2>1. CASE n = 0
    BY <2>1
  <2>2. CASE n # 0
    <3>1. n - 1 \in Nat /\ n - 1 < n /\ (n - 1) + 1 = n
      BY <2>2
    <3>2. QED
      BY <1>1, <3>1
  <2>3. QED
    BY <2>1, <2>2
<1>2. QED
  BY <1>1, NatStrongInduction

\* Induction over a finite set: what is kept, be it the empty set, is kept
\* when an element is added.
LEMMA SetInduction ==
  ASSUME NEW S, IsFiniteSet(S), NEW Kept, {} \in Kept,
         \A T \in SUBSET S, x \in S : T \in Kept /\ x \notin T => T \cup {x} \in Kept
  PROVE  S \in Kept
<1> DEFINE Sizes == {n \in Nat : \A T \in SUBSET S : Cardinality(T) = n => T \in Kept}
<1>1. \A T \in SUBSET S : /\ IsFiniteSet(T) /\ Cardinality(T) \in Nat
                          /\ Cardinality(T) = 0 <=> T = {}
                          /\ \A x \in T : Cardinality(T \ {x}) = Cardinality(T) - 1
  BY FS_Subset, FS_CardinalityType, FS_EmptySet, FS_RemoveElement
<1>2. 0 \in Sizes
  BY <1>1
<1>3. ASSUME NEW n \in Nat, n \in Sizes
      PROVE  n + 1 \in Sizes
  <2>1. ASSUME NEW T \in SUBSET S, Cardinality(T) = n + 1
        PROVE  T \in Kept
    <3>1. T # {}
      BY <1>1, <2>1
    <3>2. PICK x \in T : TRUE
      BY <3>1
    <3>3. T \ {x} \in SUBSET S /\ Cardinality(T \ {x}) = n /\ x \in S /\ x \notin T \ {x}
      BY <1>1, <2>1, <3>2
    <3>4. (T \ {x}) \cup {x} = T
      BY <3>2
    <3>5. T \ {x} \in Kept
      BY <1>3, <3>3
    <3> HIDE DEF Sizes
    <3>6. QED
      BY <3>3, <3>4, <3>5
  <2>2. QED
    BY <2>1
<1>4. Cardinality(S) \in Sizes
  <2>1. Cardinality(S) \in Nat
    BY <1>1
  <2> HIDE DEF Sizes
  <2>2. QED
    BY <1>2, <1>3, <2>1, NatSteps
<1>5. QED
  BY <1>4

Nil(k)        == IF k = "fractions" THEN Zero ELSE 0
Join(k, x, y) == IF k = "fractions" THEN Plus(x, y) ELSE x + y

Chosen(s) == CHOOSE x \in s : TRUE

IsFold(k, F, S, g) ==
    g = [s \in SUBSET S |-> IF s = {} THEN Nil(k) ELSE Join(k, F[Chosen(s)], g[s \ {Chosen(s)}])]

\* What is chosen from a set is in it; the rest is smaller.
LEMMA ChosenIn ==
  ASSUME NEW S, IsFiniteSet(S)
  PROVE  /\ \A s \in SUBSET S : Cardinality(s) \in Nat /\ (Cardinality(s) = 0 <=> s = {})
         /\ \A s \in SUBSET S : s # {} =>
               /\ Chosen(s) \in s
               /\ s \ {Chosen(s)} \in SUBSET S
               /\ Cardinality(s \ {Chosen(s)}) = Cardinality(s) - 1
<1>1. \A s \in SUBSET S : IsFiniteSet(s)
  BY FS_Subset
<1>2. \A s \in SUBSET S : s # {} => Chosen(s) \in s
  BY DEF Chosen
<1>3. QED
  BY <1>1, <1>2, FS_CardinalityType, FS_EmptySet, FS_RemoveElement

\* There is such a function on every finite set.
LEMMA FoldExists ==
  ASSUME NEW k, NEW F, NEW S, IsFiniteSet(S)
  PROVE  \E g : IsFold(k, F, S, g)
<1> DEFINE Step(g, s) == IF s = {} THEN Nil(k) ELSE Join(k, F[Chosen(s)], g[s \ {Chosen(s)}])
           Sizes == {n \in Nat : \E g : \A s \in SUBSET S :
                                    Cardinality(s) <= n => g[s] = Step(g, s)}
<1>1. /\ \A s \in SUBSET S : Cardinality(s) \in Nat /\ (Cardinality(s) = 0 <=> s = {})
      /\ \A s \in SUBSET S : s # {} =>
            /\ s \ {Chosen(s)} \in SUBSET S
            /\ Cardinality(s \ {Chosen(s)}) = Cardinality(s) - 1
  BY ChosenIn
<1>2. 0 \in Sizes
  <2>1. \A s \in SUBSET S : Cardinality(s) <= 0 => s = {}
    BY <1>1
  <2>2. \A s \in SUBSET S : Cardinality(s) <= 0 =>
           [t \in SUBSET S |-> Nil(k)][s] = Step([t \in SUBSET S |-> Nil(k)], s)
    BY <2>1
  <2>3. QED
    BY <2>2
<1>3. ASSUME NEW n \in Nat, n \in Sizes
      PROVE  n + 1 \in Sizes
  <2>1. PICK g : \A s \in SUBSET S : Cardinality(s) <= n => g[s] = Step(g, s)
    BY <1>3
  <2> DEFINE h == [s \in SUBSET S |-> Step(g, s)]
  <2>2. ASSUME NEW s \in SUBSET S, Cardinality(s) <= n + 1
        PROVE  h[s] = Step(h, s)
    <3>1. CASE s = {}
      BY <3>1
    <3>2. CASE s # {}
      <4>1. g[s \ {Chosen(s)}] = h[s \ {Chosen(s)}]
        <5>1. s \ {Chosen(s)} \in SUBSET S /\ Cardinality(s \ {Chosen(s)}) <= n
          BY <1>1, <2>2, <3>2
        <5>2. QED
          BY <2>1, <5>1
      <4>2. QED
        BY <3>2, <4>1
    <3>3. QED
      BY <3>1, <3>2
  <2>3. \E f : \A s \in SUBSET S : Cardinality(s) <= n + 1 => f[s] = Step(f, s)
    <3>1. \A s \in SUBSET S : Cardinality(s) <= n + 1 => h[s] = Step(h, s)
      BY <2>2
    <3> HIDE DEF h
    <3>2. QED
      BY <3>1, Zenon
  <2>4. n + 1 \in Nat
    OBVIOUS
  <2>5. QED
    BY <2>3, <2>4, Zenon
<1>4. Cardinality(S) \in Sizes
  <2>1. Cardinality(S) \in Nat
    BY FS_CardinalityType
  <2> HIDE DEF Sizes
  <2>2. QED
    BY <1>2, <1>3, <2>1, NatSteps
<1>5. PICK g : \A s \in SUBSET S : Cardinality(s) <= Cardinality(S) => g[s] = Step(g, s)
  BY <1>4
<1>6. \A s \in SUBSET S : Cardinality(s) <= Cardinality(S)
  BY FS_Subset
<1>7. \A s \in SUBSET S : g[s] = Step(g, s)
  BY <1>5, <1>6
<1>8. IsFold(k, F, S, [s \in SUBSET S |-> g[s]])
  <2> DEFINE h == [s \in SUBSET S |-> g[s]]
  <2>1. ASSUME NEW s \in SUBSET S
        PROVE  g[s] = Step(h, s)
    <3>1. CASE s # {}
      <4>1. s \ {Chosen(s)} \in SUBSET S
        BY <1>1, <3>1
      <4>2. h[s \ {Chosen(s)}] = g[s \ {Chosen(s)}]
        BY <4>1
      <4>3. QED
        BY <1>7, <4>2
    <3>2. QED
      BY <1>7, <3>1
  <2>2. h = [s \in SUBSET S |-> Step(h, s)]
    BY <2>1
  <2>3. QED
    BY <2>2 DEF IsFold
<1>9. QED
  BY <1>8

\* There is only one, and on a subset it is that of the subset.
LEMMA FoldUnique ==
  ASSUME NEW k, NEW F, NEW S, IsFiniteSet(S), NEW g, IsFold(k, F, S, g),
         NEW T \in SUBSET S, NEW h, IsFold(k, F, T, h)
  PROVE  h[T] = g[T]
<1> DEFINE Sizes == {n \in Nat : \A s \in SUBSET T : Cardinality(s) = n => g[s] = h[s]}
<1>1. \A s \in SUBSET T :
        /\ g[s] = IF s = {} THEN Nil(k) ELSE Join(k, F[Chosen(s)], g[s \ {Chosen(s)}])
        /\ h[s] = IF s = {} THEN Nil(k) ELSE Join(k, F[Chosen(s)], h[s \ {Chosen(s)}])
  BY DEF IsFold
<1>2. \A s \in SUBSET T : Cardinality(s) \in Nat /\ (Cardinality(s) = 0 <=> s = {})
  BY ChosenIn
<1>3. \A s \in SUBSET T : s # {} =>
         s \ {Chosen(s)} \in SUBSET T /\ Cardinality(s \ {Chosen(s)}) = Cardinality(s) - 1
  BY ChosenIn
<1>4. 0 \in Sizes
  BY <1>1, <1>2
<1>5. ASSUME NEW n \in Nat, n \in Sizes
      PROVE  n + 1 \in Sizes
  <2>1. ASSUME NEW s \in SUBSET T, Cardinality(s) = n + 1
        PROVE  g[s] = h[s]
    <3>1. s # {}
      BY <1>2, <2>1
    <3>2. g[s \ {Chosen(s)}] = h[s \ {Chosen(s)}]
      BY <1>3, <1>5, <2>1, <3>1
    <3>3. QED
      BY <1>1, <3>1, <3>2
  <2>2. QED
    BY <2>1
<1>6. Cardinality(T) \in Sizes
  <2>1. Cardinality(T) \in Nat
    BY <1>2
  <2> HIDE DEF Sizes
  <2>2. QED
    BY <1>4, <1>5, <2>1, NatSteps
<1>7. QED
  BY <1>6

\* A sum of fractions, and one of naturals.
Total(F, S) == FoldFunctionOnSet(Plus, Zero, F, S)
Count(F, S) == SumFunctionOnSet(F, S)

IsTotal(F, S, g) ==
    g = [s \in SUBSET S |-> IF s = {} THEN Zero ELSE Plus(F[Chosen(s)], g[s \ {Chosen(s)}])]
IsCount(F, S, g) ==
    g = [s \in SUBSET S |-> IF s = {} THEN 0 ELSE F[Chosen(s)] + g[s \ {Chosen(s)}]]

\* A sum, unfolded: the function that satisfies the equation, at the set.
LEMMA SumIsChoice ==
  ASSUME NEW F, NEW S
  PROVE  /\ Total(F, S) = (CHOOSE g : IsTotal(F, S, g))[S]
         /\ Count(F, S) = (CHOOSE g : IsCount(F, S, g))[S]
  BY DEF Total, Count, SumFunctionOnSet, FoldFunctionOnSet, MapThenFoldSet, IsTotal, IsCount, Chosen

\* It is a fold.
LEMMA SumIsFold ==
  ASSUME NEW F, NEW S, IsFiniteSet(S)
  PROVE  /\ \E g : IsFold("fractions", F, S, g) /\ Total(F, S) = g[S]
         /\ \E g : IsFold("naturals", F, S, g) /\ Count(F, S) = g[S]
<1>1. ASSUME NEW g
      PROVE  /\ IsTotal(F, S, g) <=> IsFold("fractions", F, S, g)
             /\ IsCount(F, S, g) <=> IsFold("naturals", F, S, g)
  <2>1. [s \in SUBSET S |-> IF s = {} THEN Zero ELSE Plus(F[Chosen(s)], g[s \ {Chosen(s)}])]
          = [s \in SUBSET S |-> IF s = {} THEN Nil("fractions")
                                ELSE Join("fractions", F[Chosen(s)], g[s \ {Chosen(s)}])]
    BY DEF Nil, Join
  <2>2. [s \in SUBSET S |-> IF s = {} THEN 0 ELSE F[Chosen(s)] + g[s \ {Chosen(s)}]]
          = [s \in SUBSET S |-> IF s = {} THEN Nil("naturals")
                                ELSE Join("naturals", F[Chosen(s)], g[s \ {Chosen(s)}])]
    BY DEF Nil, Join
  <2>3. QED
    BY <2>1, <2>2 DEF IsTotal, IsCount, IsFold
<1>2. (\E g : IsFold("fractions", F, S, g)) /\ (\E g : IsFold("naturals", F, S, g))
  BY FoldExists
<1>3. IsTotal(F, S, CHOOSE g : IsTotal(F, S, g)) /\ IsCount(F, S, CHOOSE g : IsCount(F, S, g))
  <2>1. (\E g : IsTotal(F, S, g)) /\ (\E g : IsCount(F, S, g))
    BY <1>1, <1>2
  <2>2. QED
    BY <2>1
<1>4. QED
  BY <1>1, <1>3, SumIsChoice

\* The equation of a sum, with the element that is chosen.
LEMMA SumEquation ==
  ASSUME NEW F, NEW S, IsFiniteSet(S)
  PROVE  /\ S = {} => Total(F, S) = Zero /\ Count(F, S) = 0
         /\ S # {} => /\ Total(F, S) = Plus(F[Chosen(S)], Total(F, S \ {Chosen(S)}))
                      /\ Count(F, S) = F[Chosen(S)] + Count(F, S \ {Chosen(S)})
<1> DEFINE T == S \ {Chosen(S)}
<1>1. IsFiniteSet(T) /\ T \in SUBSET S
  BY FS_Subset
<1>2. PICK g : IsFold("fractions", F, S, g) /\ Total(F, S) = g[S]
  BY SumIsFold
<1>3. PICK h : IsFold("naturals", F, S, h) /\ Count(F, S) = h[S]
  BY SumIsFold
<1>4. PICK g1 : IsFold("fractions", F, T, g1) /\ Total(F, T) = g1[T]
  BY <1>1, SumIsFold
<1>5. PICK h1 : IsFold("naturals", F, T, h1) /\ Count(F, T) = h1[T]
  BY <1>1, SumIsFold
<1>6. g1[T] = g[T] /\ h1[T] = h[T]
  BY <1>1, <1>2, <1>3, <1>4, <1>5, FoldUnique
<1>7. /\ g[S] = IF S = {} THEN Nil("fractions") ELSE Join("fractions", F[Chosen(S)], g[T])
      /\ h[S] = IF S = {} THEN Nil("naturals") ELSE Join("naturals", F[Chosen(S)], h[T])
  BY <1>2, <1>3 DEF IsFold
<1>8. QED
  BY <1>2, <1>3, <1>4, <1>5, <1>6, <1>7 DEF Nil, Join

\* The terms are fractions.
Terms(F, S) == \A i \in S : F[i] \in Fractions

\* What is so of all terms is so of some.
LEMMA TermsOfSubset ==
  ASSUME NEW F, NEW S, Terms(F, S), NEW T \in SUBSET S
  PROVE  Terms(F, T)
  BY DEF Terms

\* A sum of fractions is one.
LEMMA TotalIsFraction ==
  ASSUME NEW S, IsFiniteSet(S), NEW F, Terms(F, S)
  PROVE  Total(F, S) \in Fractions
<1> DEFINE Sizes == {n \in Nat : \A s \in SUBSET S : Cardinality(s) = n => Total(F, s) \in Fractions}
<1>1. /\ \A s \in SUBSET S : Cardinality(s) \in Nat /\ (Cardinality(s) = 0 <=> s = {})
      /\ \A s \in SUBSET S : s # {} =>
            /\ Chosen(s) \in s
            /\ s \ {Chosen(s)} \in SUBSET S
            /\ Cardinality(s \ {Chosen(s)}) = Cardinality(s) - 1
  BY ChosenIn
<1>2. \A s \in SUBSET S : /\ s = {} => Total(F, s) = Zero
                          /\ s # {} => Total(F, s) = Plus(F[Chosen(s)], Total(F, s \ {Chosen(s)}))
  <2>1. \A s \in SUBSET S : IsFiniteSet(s)
    BY FS_Subset
  <2>2. QED
    BY <2>1, SumEquation
<1>3. 0 \in Sizes
  BY <1>1, <1>2, WholeNumbers
<1>4. ASSUME NEW n \in Nat, n \in Sizes
      PROVE  n + 1 \in Sizes
  <2>1. ASSUME NEW s \in SUBSET S, Cardinality(s) = n + 1
        PROVE  Total(F, s) \in Fractions
    <3>1. s # {}
      BY <1>1, <2>1
    <3>2. Total(F, s \ {Chosen(s)}) \in Fractions
      BY <1>1, <1>4, <2>1, <3>1
    <3>3. F[Chosen(s)] \in Fractions
      BY <1>1, <3>1 DEF Terms
    <3>4. QED
      BY <1>2, <3>1, <3>2, <3>3, PlusIsFraction
  <2>2. QED
    BY <2>1
<1>5. Cardinality(S) \in Sizes
  <2>1. Cardinality(S) \in Nat
    BY <1>1
  <2> HIDE DEF Sizes
  <2>2. QED
    BY <1>3, <1>4, <2>1, NatSteps
<1>6. QED
  BY <1>5

\* Of three fractions the first two may change places.
LEMMA PlusSwaps ==
  ASSUME NEW p \in Fractions, NEW q \in Fractions, NEW r \in Fractions
  PROVE  Plus(p, Plus(q, r)) = Plus(q, Plus(p, r))
<1>1. Plus(p, Plus(q, r)) = Plus(Plus(p, q), r)
  BY PlusAssociates
<1>2. Plus(q, Plus(p, r)) = Plus(Plus(q, p), r)
  BY PlusAssociates
<1>3. QED
  BY <1>1, <1>2, PlusCommutes

\* Any element may be the one that is added last.
LEMMA TotalRemove ==
  ASSUME NEW S, IsFiniteSet(S), NEW F, Terms(F, S), NEW x \in S
  PROVE  Total(F, S) = Plus(F[x], Total(F, S \ {x}))
<1> DEFINE Fine(s) == \A y \in s : Total(F, s) = Plus(F[y], Total(F, s \ {y}))
           Sizes == {n \in Nat : \A s \in SUBSET S : Cardinality(s) = n => Fine(s)}
<1>1. \A s \in SUBSET S : IsFiniteSet(s)
  BY FS_Subset
<1>2. \A s \in SUBSET S : /\ Cardinality(s) \in Nat
                          /\ Cardinality(s) = 0 <=> s = {}
                          /\ \A y \in s : Cardinality(s \ {y}) = Cardinality(s) - 1
  BY <1>1, FS_CardinalityType, FS_EmptySet, FS_RemoveElement
<1>3. \A s \in SUBSET S : s # {} => /\ Chosen(s) \in s
                                    /\ Total(F, s) = Plus(F[Chosen(s)], Total(F, s \ {Chosen(s)}))
  BY <1>1, SumEquation, ChosenIn
<1>4. \A s \in SUBSET S : Total(F, s) \in Fractions
  BY <1>1, TermsOfSubset, TotalIsFraction
<1>5. 0 \in Sizes
  <2>1. \A s \in SUBSET S : Cardinality(s) = 0 => s = {}
    BY <1>2
  <2>2. QED
    BY <2>1
<1>6. ASSUME NEW n \in Nat, n \in Sizes
      PROVE  n + 1 \in Sizes
  <2>1. ASSUME NEW s \in SUBSET S, Cardinality(s) = n + 1, NEW y \in s
        PROVE  Total(F, s) = Plus(F[y], Total(F, s \ {y}))
    <3> DEFINE c == Chosen(s)
               rest == (s \ {c}) \ {y}
    <3>1. c \in s /\ Total(F, s) = Plus(F[c], Total(F, s \ {c}))
      BY <1>3
    <3> HIDE DEF c
    <3>2. \A z \in s : s \ {z} \in SUBSET S /\ Cardinality(s \ {z}) = n
      BY <1>2, <2>1
    <3>3. \A z \in s : Fine(s \ {z})
      BY <1>6, <3>2
    <3>4. CASE y = c
      BY <3>1, <3>4
    <3>5. CASE y # c
      <4>1. rest = (s \ {y}) \ {c} /\ y \in s \ {c} /\ c \in s \ {y} /\ rest \in SUBSET S
        BY <3>1, <3>5
      <4>2. Total(F, s \ {c}) = Plus(F[y], Total(F, rest))
        BY <3>1, <3>3, <4>1
      <4>3. Total(F, s \ {y}) = Plus(F[c], Total(F, rest))
        BY <3>3, <4>1
      <4>4. Total(F, rest) \in Fractions /\ F[y] \in Fractions /\ F[c] \in Fractions
        BY <1>4, <3>1, <4>1 DEF Terms
      <4> HIDE DEF rest
      <4>5. Plus(F[c], Plus(F[y], Total(F, rest))) = Plus(F[y], Plus(F[c], Total(F, rest)))
        BY <4>4, PlusSwaps
      <4>6. QED
        BY <3>1, <4>2, <4>3, <4>5
    <3>6. QED
      BY <3>4, <3>5
  <2>2. QED
    BY <2>1
<1>7. Cardinality(S) \in Sizes
  <2>1. Cardinality(S) \in Nat
    BY <1>2
  <2> HIDE DEF Sizes
  <2>2. QED
    BY <1>5, <1>6, <2>1, NatSteps
<1>8. QED
  BY <1>7

\* A sum of nothing.
LEMMA TotalOfNothing == ASSUME NEW F PROVE Total(F, {}) = Zero
  BY FS_EmptySet, SumEquation

\* One element more adds its term.
LEMMA TotalAdd ==
  ASSUME NEW S, IsFiniteSet(S), NEW F, Terms(F, S), NEW T \in SUBSET S, NEW x \in S, x \notin T
  PROVE  /\ Total(F, T \cup {x}) = Plus(F[x], Total(F, T))
         /\ Total(F, T) \in Fractions /\ F[x] \in Fractions
<1>1. IsFiniteSet(T) /\ IsFiniteSet(T \cup {x})
  BY FS_Subset
<1>2. Terms(F, T) /\ Terms(F, T \cup {x}) /\ F[x] \in Fractions
  BY DEF Terms
<1>3. (T \cup {x}) \ {x} = T
  OBVIOUS
<1>4. Total(F, T \cup {x}) = Plus(F[x], Total(F, (T \cup {x}) \ {x}))
  BY <1>1, <1>2, TotalRemove
<1>5. QED
  BY <1>1, <1>2, <1>3, <1>4, TotalIsFraction

\* The sum of one term is the term.
LEMMA TotalOfOne ==
  ASSUME NEW F, NEW x, F[x] \in Fractions
  PROVE  Total(F, {x}) = F[x]
<1>1. IsFiniteSet({x}) /\ Terms(F, {x}) /\ x \in {x} /\ {x} \ {x} = {}
  BY FS_Singleton DEF Terms
<1>2. Total(F, {x}) = Plus(F[x], Total(F, {x} \ {x}))
  BY <1>1, TotalRemove
<1>3. QED
  BY <1>1, <1>2, TotalOfNothing, PlusZero

Scaled(G, p, F, S) == \A i \in S : G[i] = Times(p, F[i])
Added(H, F, G, S)  == \A i \in S : H[i] = Plus(F[i], G[i])

\* Sums whose terms are equal are.
LEMMA TotalOfSame ==
  ASSUME NEW S, IsFiniteSet(S), NEW F, NEW G, Terms(F, S), \A i \in S : G[i] = F[i]
  PROVE  Total(G, S) = Total(F, S)
<1> DEFINE Kept == {T \in SUBSET S : Total(G, T) = Total(F, T)}
<1>1. {} \in Kept
  BY TotalOfNothing
<1>2. ASSUME NEW T \in SUBSET S, NEW x \in S, T \in Kept, x \notin T
      PROVE  T \cup {x} \in Kept
  <2>1. x \notin T /\ Terms(G, S) /\ G[x] = F[x]
    BY <1>2 DEF Terms
  <2>2. Total(F, T \cup {x}) = Plus(F[x], Total(F, T)) /\ Total(G, T \cup {x}) = Plus(G[x], Total(G, T))
    BY <2>1, TotalAdd
  <2>3. QED
    BY <1>2, <2>1, <2>2
<1>3. S \in Kept
  <2> HIDE DEF Kept
  <2> QED
    BY <1>1, <1>2, SetInduction
<1>4. QED
  BY <1>3

\* A factor of all terms is one of the sum.
LEMMA TotalScaled ==
  ASSUME NEW S, IsFiniteSet(S), NEW F, NEW G, NEW p \in Fractions, Terms(F, S), Scaled(G, p, F, S)
  PROVE  Total(G, S) = Times(p, Total(F, S)) /\ Terms(G, S)
<1> DEFINE Kept == {T \in SUBSET S : Total(G, T) = Times(p, Total(F, T))}
<1>g. Terms(G, S)
  BY TimesIsFraction DEF Terms, Scaled
<1>1. {} \in Kept
  BY TotalOfNothing, TimesZeroOne
<1>2. ASSUME NEW T \in SUBSET S, NEW x \in S, T \in Kept, x \notin T
      PROVE  T \cup {x} \in Kept
  <2>0. x \notin T
    BY <1>2
  <2>2. Total(F, T \cup {x}) = Plus(F[x], Total(F, T)) /\ Total(F, T) \in Fractions /\ F[x] \in Fractions
    BY <2>0, TotalAdd
  <2>3. Total(G, T \cup {x}) = Plus(G[x], Total(G, T))
    BY <1>g, <2>0, TotalAdd
  <2>4. G[x] = Times(p, F[x])
    BY DEF Scaled
  <2>5. Times(p, Plus(F[x], Total(F, T))) = Plus(Times(p, F[x]), Times(p, Total(F, T)))
    BY <2>2, TimesDistributes
  <2>6. QED
    BY <1>2, <2>2, <2>3, <2>4, <2>5
<1>3. S \in Kept
  <2> HIDE DEF Kept
  <2> QED
    BY <1>1, <1>2, SetInduction
<1>4. QED
  BY <1>3, <1>g

\* Four fractions, two and two.
LEMMA PlusPairs ==
  ASSUME NEW p \in Fractions, NEW q \in Fractions, NEW r \in Fractions, NEW s \in Fractions
  PROVE  Plus(Plus(p, q), Plus(r, s)) = Plus(Plus(p, r), Plus(q, s))
<1>1. Plus(r, s) \in Fractions /\ Plus(q, s) \in Fractions
  BY PlusIsFraction
<1>2. Plus(Plus(p, q), Plus(r, s)) = Plus(p, Plus(q, Plus(r, s)))
  BY <1>1, PlusAssociates
<1>3. Plus(q, Plus(r, s)) = Plus(r, Plus(q, s))
  BY PlusSwaps
<1>4. Plus(Plus(p, r), Plus(q, s)) = Plus(p, Plus(r, Plus(q, s)))
  BY <1>1, PlusAssociates
<1>5. QED
  BY <1>2, <1>3, <1>4

\* Term by term, sums add up.
LEMMA TotalPlus ==
  ASSUME NEW S, IsFiniteSet(S), NEW F, NEW G, NEW H, Terms(F, S), Terms(G, S),
         Added(H, F, G, S)
  PROVE  Total(H, S) = Plus(Total(F, S), Total(G, S))
<1> DEFINE Kept == {T \in SUBSET S : Total(H, T) = Plus(Total(F, T), Total(G, T))}
<1>1. {} \in Kept
  BY TotalOfNothing, PlusZero, WholeNumbers
<1>2. ASSUME NEW T \in SUBSET S, NEW x \in S, T \in Kept, x \notin T
      PROVE  T \cup {x} \in Kept
  <2>0. x \notin T
    BY <1>2
  <2>1. Terms(H, S)
    BY PlusIsFraction DEF Terms, Added
  <2>2. ASSUME NEW K, Terms(K, S)
        PROVE  /\ Total(K, T \cup {x}) = Plus(K[x], Total(K, T))
               /\ Total(K, T) \in Fractions /\ K[x] \in Fractions
    BY <2>0, <2>2, TotalAdd
  <2>3. /\ Total(F, T \cup {x}) = Plus(F[x], Total(F, T)) /\ Total(F, T) \in Fractions /\ F[x] \in Fractions
        /\ Total(G, T \cup {x}) = Plus(G[x], Total(G, T)) /\ Total(G, T) \in Fractions /\ G[x] \in Fractions
        /\ Total(H, T \cup {x}) = Plus(H[x], Total(H, T))
    BY <2>1, <2>2
  <2>4. H[x] = Plus(F[x], G[x])
    BY DEF Added
  <2>5. Plus(Plus(F[x], G[x]), Plus(Total(F, T), Total(G, T)))
          = Plus(Plus(F[x], Total(F, T)), Plus(G[x], Total(G, T)))
    BY <2>3, PlusPairs
  <2>6. QED
    BY <1>2, <2>3, <2>4, <2>5
<1>3. S \in Kept
  <2> HIDE DEF Kept
  <2> QED
    BY <1>1, <1>2, SetInduction
<1>4. QED
  BY <1>3

\* Terms that are Zero may be left out.
LEMMA TotalWithoutZeros ==
  ASSUME NEW S, IsFiniteSet(S), NEW F, Terms(F, S), NEW R \in SUBSET S,
         \A i \in S \ R : F[i] = Zero
  PROVE  Total(F, S) = Total(F, R)
<1> DEFINE Kept == {T \in SUBSET S : Total(F, T) = Total(F, T \cap R)}
<1>1. {} \in Kept
  <2>1. {} \cap R = {}
    OBVIOUS
  <2>2. QED
    BY <2>1
<1>2. ASSUME NEW T \in SUBSET S, NEW x \in S, T \in Kept, x \notin T
      PROVE  T \cup {x} \in Kept
  <2> DEFINE U == T \cap R
  <2>1. x \notin T /\ x \notin U /\ U \in SUBSET S
    BY <1>2
  <2>2. Total(F, T \cup {x}) = Plus(F[x], Total(F, T)) /\ Total(F, T) \in Fractions
    BY <2>1, TotalAdd
  <2>3. Total(F, T) = Total(F, U)
    BY <1>2
  <2>4. Total(F, T \cup {x}) = Total(F, (T \cup {x}) \cap R)
    <3>1. CASE x \in R
      <4>1. (T \cup {x}) \cap R = U \cup {x}
        BY <3>1
      <4> HIDE DEF U
      <4>2. Total(F, U \cup {x}) = Plus(F[x], Total(F, U))
        BY <2>1, TotalAdd
      <4>3. QED
        BY <2>2, <2>3, <4>1, <4>2
    <3>2. CASE x \notin R
      <4>1. (T \cup {x}) \cap R = U /\ F[x] = Zero
        BY <3>2
      <4> HIDE DEF U
      <4>2. Total(F, (T \cup {x}) \cap R) = Total(F, U)
        BY <4>1
      <4>3. Total(F, T \cup {x}) = Total(F, T)
        BY <2>2, <4>1, PlusZero
      <4>4. QED
        BY <2>3, <4>2, <4>3
    <3>3. QED
      BY <3>1, <3>2
  <2>5. QED
    BY <2>4
<1>3. S \in Kept
  <2> HIDE DEF Kept
  <2> QED
    BY <1>1, <1>2, SetInduction
<1>4. S \cap R = R
  OBVIOUS
<1>5. QED
  BY <1>3, <1>4

\* Nothing but Zero sums to Zero.
LEMMA TotalOfZeros ==
  ASSUME NEW S, IsFiniteSet(S), NEW F, \A i \in S : F[i] = Zero
  PROVE  Total(F, S) = Zero
<1>1. Terms(F, S) /\ {} \in SUBSET S
  BY WholeNumbers DEF Terms
<1>2. Total(F, S) = Total(F, {})
  BY <1>1, TotalWithoutZeros
<1>3. QED
  BY <1>2, TotalOfNothing

\* The rows of a table, the table turned over, the sums of its rows.
TableOf(M, S, R)      == \A i \in S : Terms(M[i], R)
Turned(N, M, S, R)    == \A i \in S, r \in R : N[r][i] = M[i][r]
RowTotals(G, M, S, R) == \A i \in S : G[i] = Total(M[i], R)

\* A sum of sums may be taken in the other order.
LEMMA TotalSwap ==
  ASSUME NEW S, IsFiniteSet(S), NEW R, IsFiniteSet(R), NEW M, NEW N, NEW G, NEW H,
         TableOf(M, S, R), Turned(N, M, S, R), RowTotals(G, M, S, R), RowTotals(H, N, R, S)
  PROVE  Total(G, S) = Total(H, R)
<1> DEFINE part(T) == [r \in R |-> Total(N[r], T)]
           Kept == {T \in SUBSET S : Total(G, T) = Total(part(T), R)}
<1>g. Terms(G, S)
  <2>1. ASSUME NEW i \in S
        PROVE  G[i] \in Fractions
    <3>1. Terms(M[i], R) /\ G[i] = Total(M[i], R)
      BY DEF TableOf, RowTotals
    <3>2. QED
      BY <3>1, TotalIsFraction
  <2>2. QED
    BY <2>1 DEF Terms
<1>n. \A r \in R : Terms(N[r], S)
  BY DEF Terms, TableOf, Turned
<1>1. {} \in Kept
  <2>1. \A r \in R : part({})[r] = Zero
    BY TotalOfNothing
  <2> HIDE DEF part
  <2>2. Total(part({}), R) = Zero
    BY <2>1, TotalOfZeros
  <2>3. QED
    BY <2>2, TotalOfNothing
<1>2. ASSUME NEW T \in SUBSET S, NEW x \in S, T \in Kept, x \notin T
      PROVE  T \cup {x} \in Kept
  <2> DEFINE old == part(T)
             new == part(T \cup {x})
             row == M[x]
  <2>1. x \notin T
    BY <1>2
  <2>2. ASSUME NEW r \in R
        PROVE  old[r] \in Fractions /\ new[r] = Plus(row[r], old[r])
    <3>1. Total(N[r], T \cup {x}) = Plus(N[r][x], Total(N[r], T)) /\ Total(N[r], T) \in Fractions
      <4>1. Terms(N[r], S)
        BY <1>n
      <4>2. ASSUME NEW K, Terms(K, S)
            PROVE  Total(K, T \cup {x}) = Plus(K[x], Total(K, T)) /\ Total(K, T) \in Fractions
        BY <2>1, <4>2, TotalAdd
      <4>3. QED
        BY <4>1, <4>2
    <3>2. QED
      BY <3>1 DEF Turned
  <2>3. Terms(old, R) /\ Terms(row, R) /\ Added(new, row, old, R)
    <3> HIDE DEF old, new
    <3> QED
      BY <2>2 DEF Terms, Added, TableOf
  <2>4. Total(new, R) = Plus(Total(row, R), Total(old, R))
    <3> HIDE DEF old, new, row
    <3> QED
      BY <2>3, TotalPlus
  <2>5. Total(G, T \cup {x}) = Plus(G[x], Total(G, T)) /\ G[x] = Total(row, R)
    BY <1>g, <2>1, TotalAdd DEF RowTotals
  <2>6. Total(G, T) = Total(old, R)
    BY <1>2
  <2> HIDE DEF old, new, row
  <2>7. Total(G, T \cup {x}) = Total(new, R)
    BY <2>4, <2>5, <2>6
  <2>8. QED
    BY <2>7 DEF new
<1>3. S \in Kept
  <2> HIDE DEF Kept
  <2> QED
    BY <1>1, <1>2, SetInduction
<1>4. \A r \in R : part(S)[r] \in Fractions /\ H[r] = part(S)[r]
  <2>1. ASSUME NEW r \in R
        PROVE  Total(N[r], S) \in Fractions
    BY <1>n, TotalIsFraction
  <2>2. QED
    BY <2>1 DEF RowTotals
<1>5. Total(G, S) = Total(part(S), R)
  BY <1>3
<1> HIDE DEF part
<1>6. Terms(part(S), R)
  BY <1>4 DEF Terms
<1>7. QED
  BY <1>4, <1>5, <1>6, TotalOfSame

\* What each group of terms sums to, one group for each value of h.
GroupTotals(G, D, F, S, h) == \A d \in D : G[d] = Total(F, {i \in S : h[i] = d})

\* A sum may be taken in groups.
LEMMA TotalInGroups ==
  ASSUME NEW S, IsFiniteSet(S), NEW D, IsFiniteSet(D), NEW F, NEW G, NEW h, Terms(F, S),
         \A i \in S : h[i] \in D,
         GroupTotals(G, D, F, S, h)
  PROVE  Total(G, D) = Total(F, S) /\ Terms(G, D)
<1> DEFINE M == [d \in D |-> [i \in S |-> IF h[i] = d THEN F[i] ELSE Zero]]
           N == [i \in S |-> [d \in D |-> IF h[i] = d THEN F[i] ELSE Zero]]
<1>1. \A d \in D : Terms(M[d], S)
  BY WholeNumbers DEF Terms
<1>2. \A d \in D, i \in S : N[i][d] = M[d][i]
  OBVIOUS
<1>3. ASSUME NEW d \in D
      PROVE  G[d] = Total(M[d], S) /\ G[d] \in Fractions
  <2> DEFINE group == {i \in S : h[i] = d}
             row == M[d]
  <2>1. /\ group \in SUBSET S /\ \A i \in S \ group : row[i] = Zero
        /\ \A i \in group : row[i] = F[i]
    OBVIOUS
  <2>2. Terms(row, S) /\ Terms(F, group) /\ IsFiniteSet(group) /\ G[d] = Total(F, group)
    <3>1. Terms(row, S)
      BY <1>1
    <3>2. IsFiniteSet(group) /\ Terms(F, group)
      BY FS_Subset DEF Terms
    <3>3. G[d] = Total(F, group)
      BY DEF GroupTotals
    <3>4. QED
      BY <3>1, <3>2, <3>3
  <2> HIDE DEF row, group
  <2>3. Total(row, S) = Total(row, group)
    BY <2>1, <2>2, TotalWithoutZeros
  <2>4. Total(row, group) = Total(F, group) /\ Total(F, group) \in Fractions
    BY <2>1, <2>2, TotalOfSame, TotalIsFraction
  <2>5. QED
    BY <2>2, <2>3, <2>4 DEF row
<1>4. ASSUME NEW i \in S
      PROVE  F[i] = Total(N[i], D)
  <2> DEFINE row == N[i]
  <2>1. /\ {h[i]} \in SUBSET D /\ row[h[i]] = F[i] /\ F[i] \in Fractions
        /\ \A d \in D \ {h[i]} : row[d] = Zero
    BY DEF Terms
  <2>2. Terms(row, D)
    BY WholeNumbers DEF Terms
  <2> HIDE DEF row
  <2>3. Total(row, D) = Total(row, {h[i]})
    BY <2>1, <2>2, TotalWithoutZeros
  <2>4. Total(row, {h[i]}) = F[i]
    BY <2>1, TotalOfOne
  <2>5. QED
    BY <2>3, <2>4 DEF row
<1>g. Terms(G, D)
  BY <1>3 DEF Terms
<1> HIDE DEF M, N
<1>5. TableOf(M, D, S) /\ Turned(N, M, D, S) /\ RowTotals(G, M, D, S) /\ RowTotals(F, N, S, D)
  BY <1>1, <1>2, <1>3, <1>4 DEF TableOf, Turned, RowTotals
<1>6. QED
  BY <1>5, <1>g, TotalSwap

\* A sum may be taken in two parts.
LEMMA TotalOfParts ==
  ASSUME NEW S, IsFiniteSet(S), NEW F, Terms(F, S), NEW R \in SUBSET S
  PROVE  Total(F, S) = Plus(Total(F, R), Total(F, S \ R))
<1> DEFINE Kept == {T \in SUBSET S : Total(F, T) = Plus(Total(F, T \cap R), Total(F, T \ R))}
<1>1. {} \in Kept
  <2>1. {} \cap R = {} /\ {} \ R = {}
    OBVIOUS
  <2>2. QED
    BY <2>1, TotalOfNothing, PlusZero, WholeNumbers
<1>2. ASSUME NEW T \in SUBSET S, NEW x \in S, T \in Kept, x \notin T
      PROVE  T \cup {x} \in Kept
  <2> DEFINE U == T \cap R
             V == T \ R
  <2>1. x \notin T /\ x \notin U /\ x \notin V /\ U \in SUBSET S /\ V \in SUBSET S
    BY <1>2
  <2>2. Total(F, T) = Plus(Total(F, U), Total(F, V))
    BY <1>2
  <2>3. /\ x \in R => (T \cup {x}) \cap R = U \cup {x} /\ (T \cup {x}) \ R = V
        /\ x \notin R => (T \cup {x}) \cap R = U /\ (T \cup {x}) \ R = V \cup {x}
    OBVIOUS
  <2> HIDE DEF U, V
  <2>4. /\ Total(F, T \cup {x}) = Plus(F[x], Total(F, T)) /\ F[x] \in Fractions
        /\ Total(F, U \cup {x}) = Plus(F[x], Total(F, U)) /\ Total(F, U) \in Fractions
        /\ Total(F, V \cup {x}) = Plus(F[x], Total(F, V)) /\ Total(F, V) \in Fractions
    BY <2>1, TotalAdd
  <2>5. /\ Plus(F[x], Plus(Total(F, U), Total(F, V))) = Plus(Plus(F[x], Total(F, U)), Total(F, V))
        /\ Plus(F[x], Plus(Total(F, U), Total(F, V))) = Plus(Total(F, U), Plus(F[x], Total(F, V)))
    BY <2>4, PlusAssociates, PlusSwaps
  <2>6. QED
    BY <2>2, <2>3, <2>4, <2>5
<1>3. S \in Kept
  <2> HIDE DEF Kept
  <2> QED
    BY <1>1, <1>2, SetInduction
<1>4. S \cap R = R
  OBVIOUS
<1>5. QED
  BY <1>3, <1>4

\* The sum of naturals is one, and so is that of the fractions that stand for
\* them: a sum that is 0 is one of zeros.
Whole(G, F, S) == \A i \in S : F[i] \in Nat /\ G[i] = <<F[i], 1>>

\* Whole numbers add up as naturals do.
LEMMA PlusOfWholes ==
  ASSUME NEW m \in Nat, NEW n \in Nat
  PROVE  Plus(<<m, 1>>, <<n, 1>>) = <<m + n, 1>>
<1> DEFINE p == <<m, 1>>
           q == <<n, 1>>
           r == <<m + n, 1>>
<1>1. /\ p \in Fractions /\ Is(p, m, 1) /\ q \in Fractions /\ Is(q, n, 1)
      /\ m + n \in Nat /\ r \in Fractions /\ Is(r, m + n, 1) /\ 1 \in Positive
  BY WholeNumbers
<1> HIDE DEF p, q, r
<1>2. Plus(p, q) \in Fractions /\ Is(Plus(p, q), m * 1 + n * 1, 1 * 1)
  BY <1>1, PlusIsFraction, ValueOfPlus
<1>3. m * 1 + n * 1 = m + n /\ 1 * 1 = 1
  OBVIOUS
<1>4. Plus(p, q) = r
  BY <1>1, <1>2, <1>3, SameValue
<1>5. QED
  BY <1>4 DEF p, q, r

\* So do their sums.
LEMMA CountIsTotal ==
  ASSUME NEW S, IsFiniteSet(S), NEW F, NEW G, Whole(G, F, S)
  PROVE  Count(F, S) \in Nat /\ Total(G, S) = <<Count(F, S), 1>> /\ Terms(G, S)
<1> DEFINE Fine(s) == Count(F, s) \in Nat /\ Total(G, s) = <<Count(F, s), 1>>
           Sizes == {n \in Nat : \A s \in SUBSET S : Cardinality(s) = n => Fine(s)}
<1>1. /\ \A s \in SUBSET S : Cardinality(s) \in Nat /\ (Cardinality(s) = 0 <=> s = {})
      /\ \A s \in SUBSET S : s # {} =>
            /\ Chosen(s) \in s
            /\ s \ {Chosen(s)} \in SUBSET S
            /\ Cardinality(s \ {Chosen(s)}) = Cardinality(s) - 1
  BY ChosenIn
<1>2. \A s \in SUBSET S :
        /\ s = {} => Total(G, s) = Zero /\ Count(F, s) = 0
        /\ s # {} => /\ Total(G, s) = Plus(G[Chosen(s)], Total(G, s \ {Chosen(s)}))
                     /\ Count(F, s) = F[Chosen(s)] + Count(F, s \ {Chosen(s)})
  <2>1. \A s \in SUBSET S : IsFiniteSet(s)
    BY FS_Subset
  <2>2. QED
    BY <2>1, SumEquation
<1>3. 0 \in Sizes
  BY <1>1, <1>2 DEF Zero
<1>4. ASSUME NEW n \in Nat, n \in Sizes
      PROVE  n + 1 \in Sizes
  <2>1. ASSUME NEW s \in SUBSET S, Cardinality(s) = n + 1
        PROVE  Fine(s)
    <3> DEFINE c == Chosen(s)
               t == s \ {c}
    <3>1. /\ c \in s /\ t \in SUBSET S /\ Cardinality(t) = n
          /\ Total(G, s) = Plus(G[c], Total(G, t)) /\ Count(F, s) = F[c] + Count(F, t)
      <4>1. s # {}
        BY <1>1, <2>1
      <4>2. c \in s /\ t \in SUBSET S /\ Cardinality(t) = Cardinality(s) - 1
        BY <1>1, <4>1
      <4>3. Total(G, s) = Plus(G[c], Total(G, t)) /\ Count(F, s) = F[c] + Count(F, t)
        BY <1>2, <4>1
      <4> HIDE DEF c, t
      <4>4. Cardinality(t) = n
        BY <2>1, <4>2
      <4>5. QED
        BY <4>2, <4>3, <4>4
    <3>2. Fine(t)
      BY <1>4, <3>1
    <3>3. F[c] \in Nat /\ G[c] = <<F[c], 1>>
      BY <3>1 DEF Whole
    <3> DEFINE m == F[c]
               k == Count(F, t)
    <3>4. m \in Nat /\ k \in Nat /\ G[c] = <<m, 1>> /\ Total(G, t) = <<k, 1>>
      BY <3>2, <3>3
    <3> HIDE DEF c, t, m, k
    <3>5. Plus(<<m, 1>>, <<k, 1>>) = <<m + k, 1>> /\ m + k \in Nat
      BY <3>4, PlusOfWholes
    <3>6. Total(G, s) = <<m + k, 1>> /\ Count(F, s) = m + k
      BY <3>1, <3>4, <3>5 DEF m, k
    <3>7. QED
      BY <3>5, <3>6
  <2>2. QED
    BY <2>1
<1>5. Cardinality(S) \in Sizes
  <2>1. Cardinality(S) \in Nat
    BY <1>1
  <2> HIDE DEF Sizes
  <2>2. QED
    BY <1>3, <1>4, <2>1, NatSteps
<1>6. QED
  BY <1>5, WholeNumbers DEF Whole, Terms

\* A sum of two fractions is Zero if both are.
LEMMA PlusIsZero ==
  ASSUME NEW p \in Fractions, NEW q \in Fractions
  PROVE  Plus(p, q) = Zero <=> p = Zero /\ q = Zero
<1> DEFINE a == p[1]
           b == p[2]
           c == q[1]
           d == q[2]
<1>1. /\ a \in Nat /\ b \in Nat /\ b # 0 /\ c \in Nat /\ d \in Nat /\ d # 0
      /\ b \in Positive /\ d \in Positive /\ Is(p, a, b) /\ Is(q, c, d)
  BY FractionParts
<1>2. Plus(p, q) \in Fractions /\ Is(Plus(p, q), a * d + c * b, b * d)
  BY PlusIsFraction
<1>3. p = Zero <=> a = 0
  BY <1>1, ZeroIsZero
<1>4. q = Zero <=> c = 0
  BY <1>1, ZeroIsZero
<1> HIDE DEF a, b, c, d
<1>5. a * d + c * b \in Nat /\ b * d \in Positive
  BY <1>1 DEF Positive
<1>6. Plus(p, q) = Zero <=> a * d + c * b = 0
  BY <1>2, <1>5, ZeroIsZero
<1>7. a * d \in Nat /\ c * b \in Nat /\ (a * d = 0 <=> a = 0) /\ (c * b = 0 <=> c = 0)
  BY <1>1
<1>8. QED
  BY <1>3, <1>4, <1>6, <1>7

\* A sum is Zero if all terms are.
LEMMA TotalIsZero ==
  ASSUME NEW S, IsFiniteSet(S), NEW F, Terms(F, S), Total(F, S) = Zero
  PROVE  \A i \in S : F[i] = Zero
<1>1. ASSUME NEW x \in S
      PROVE  F[x] = Zero
  <2>1. Total(F, S) = Plus(F[x], Total(F, S \ {x}))
    BY TotalRemove
  <2>2. IsFiniteSet(S \ {x}) /\ Terms(F, S \ {x}) /\ F[x] \in Fractions
    <3>1. S \ {x} \in SUBSET S
      OBVIOUS
    <3>2. QED
      BY <3>1, FS_Subset DEF Terms
  <2>3. Total(F, S \ {x}) \in Fractions
    BY <2>2, TotalIsFraction
  <2>4. QED
    BY <2>1, <2>2, <2>3, PlusIsZero
<1>2. QED
  BY <1>1

-----------------------------------------------------------------------------
(***************************************************************************)
(* The figures are fractions.  An asset that is written off in 0 months is *)
(* not taken to be bought later than now: its depreciation would be a      *)
(* division by 0.                                                          *)
(***************************************************************************)
Dated(L) ==
    \A a \in Assets(L) : L.assets[a].amortMonths > 0 \/ L.assets[a].purchaseDate <= Now

\* A sum of naturals, of the values of a function.
CountOf(F) == SumFunction(F)

\* The sums of the model are those of the section above.
LEMMA SumsAreTotals ==
  ASSUME NEW F
  PROVE  FoldOf(F) = Total(F, DOMAIN F) /\ CountOf(F) = Count(F, DOMAIN F)
<1>1. FoldOf(F) = Total(F, DOMAIN F)
  BY DEF FoldOf, Total, FoldFunction
<1>2. CountOf(F) = Count(F, DOMAIN F)
  BY DEF CountOf, Count, SumFunction
<1>3. QED
  BY <1>1, <1>2

\* A sum of naturals is one, and 0 if all of them are.
LEMMA CountIsNatural ==
  ASSUME NEW S, IsFiniteSet(S), NEW F, \A i \in S : F[i] \in Nat
  PROVE  Count(F, S) \in Nat /\ (Count(F, S) = 0 => \A i \in S : F[i] = 0)
<1> DEFINE G == [i \in S |-> <<F[i], 1>>]
<1>1. Whole(G, F, S)
  BY DEF Whole
<1>2. \A i \in S : G[i] = <<F[i], 1>>
  OBVIOUS
<1> HIDE DEF G
<1>3. Count(F, S) \in Nat /\ Total(G, S) = <<Count(F, S), 1>> /\ Terms(G, S)
  BY <1>1, CountIsTotal
<1>4. ASSUME Count(F, S) = 0, NEW i \in S
      PROVE  F[i] = 0
  <2>1. Total(G, S) = Zero
    BY <1>3, <1>4 DEF Zero
  <2>2. \A j \in S : G[j] = Zero
    BY <1>3, <2>1, TotalIsZero
  <2>3. <<F[i], 1>> = <<0, 1>>
    BY <1>2, <2>2 DEF Zero
  <2>4. QED
    BY <2>3
<1>5. QED
  BY <1>3, <1>4

\* The lists have the page's types, and finitely many rows.
LEMMA ListsAreFinite ==
  ASSUME NEW L \in Lists
  PROVE  /\ IsFiniteSet(Assets(L)) /\ IsFiniteSet(Dcs(L)) /\ Assets(L) \subseteq AssetIds
         /\ Dcs(L) \subseteq DcIds
         /\ \A a \in Assets(L) : L.assets[a] \in Asset(DcIds)
         /\ \A d \in Dcs(L) : L.dcs[d] \in DataCenter(Regions) /\ L.dcs[d].coloMonthly \in Nat
<1>1. Assets(L) \in SUBSET AssetIds /\ Dcs(L) \in SUBSET DcIds
  BY DEF Assets, Dcs
<1>2. IsFiniteSet(Assets(L)) /\ IsFiniteSet(Dcs(L))
  BY <1>1, IdsAssumption, FS_Subset
<1>3. \A a \in Assets(L) : L.assets[a] \in Asset(DcIds)
  BY DEF Assets, Lists
<1>4. \A d \in Dcs(L) : L.dcs[d] \in DataCenter(Regions)
  BY DEF Dcs, Lists
<1>5. ASSUME NEW d \in Dcs(L)
      PROVE  L.dcs[d].coloMonthly \in Nat
  <2>1. L.dcs[d] \in DataCenter(Regions)
    BY <1>4
  <2> DEFINE Shorts == {"given", "derived", ""}
  <2>2. L.dcs[d] \in [short : Shorts, region : Regions, coloMonthly : Nat, racks : Nat, power_kw : Nat]
    BY <2>1, Zenon DEF DataCenter
  <2> HIDE DEF Shorts
  <2>3. QED
    BY <2>2
<1>6. QED
  BY <1>1, <1>2, <1>3, <1>4, <1>5

\* The assets in a datacenter, and its hosts, are some of the assets.
LEMMA AssetsInAreAssets ==
  ASSUME NEW L \in Lists, NEW d
  PROVE  /\ AssetsIn(L, d) \in SUBSET Assets(L) /\ Hosts(L, d) \in SUBSET Assets(L)
         /\ IsFiniteSet(AssetsIn(L, d)) /\ IsFiniteSet(Hosts(L, d))
<1>1. AssetsIn(L, d) \in SUBSET Assets(L) /\ Hosts(L, d) \in SUBSET Assets(L)
  BY DEF AssetsIn, Hosts
<1>2. QED
  BY <1>1, ListsAreFinite, FS_Subset

\* What draws power in a datacenter.
LEMMA PowerIsNatural ==
  ASSUME NEW L \in Lists, NEW d
  PROVE  /\ PowerIn(L, d) \in Nat
         /\ PowerIn(L, d) = 0 => \A a \in AssetsIn(L, d) : L.assets[a].powerWatts = 0
<1> DEFINE S == AssetsIn(L, d)
           F == [a \in S |-> L.assets[a].powerWatts]
<1>1. PowerIn(L, d) = CountOf(F)
  BY DEF PowerIn, SumOver, CountOf
<1>2. IsFiniteSet(S) /\ S \in SUBSET Assets(L)
  BY AssetsInAreAssets
<1>3. \A a \in S : F[a] \in Nat
  <2>1. \A a \in S : L.assets[a] \in Asset(DcIds)
    BY <1>2, ListsAreFinite
  <2>2. QED
    BY <2>1 DEF Asset
<1>4. DOMAIN F = S /\ \A a \in S : F[a] = L.assets[a].powerWatts
  OBVIOUS
<1> HIDE DEF F, S
<1>5. CountOf(F) = Count(F, S)
  BY <1>4, SumsAreTotals
<1>6. QED
  BY <1>1, <1>2, <1>3, <1>4, <1>5, CountIsNatural DEF S

\* What an asset costs.
LEMMA CostIsFraction ==
  ASSUME NEW L \in Lists, Dated(L), NEW a \in Assets(L)
  PROVE  /\ Depreciation(L.assets[a]) \in Fractions /\ ColoAllocation(L, a) \in Fractions
         /\ AssetCost(L, a) \in Fractions
         /\ Depreciation(L.assets[a]) = Zero
              <=> (AmortRemaining(L.assets[a]) = 0 \/ L.assets[a].purchaseAmount = 0)
<1> DEFINE b == L.assets[a]
<1>1. /\ b.purchaseAmount \in Nat /\ b.purchaseDate \in Nat /\ b.amortMonths \in Nat
      /\ b.powerWatts \in Nat /\ b.dcId \in DcIds
  <2>1. b \in Asset(DcIds)
    BY ListsAreFinite
  <2>2. QED
    BY <2>1 DEF Asset
<1>2. b.amortMonths > 0 \/ b.purchaseDate <= Now
  BY DEF Dated
<1>d. /\ Depreciation(b) = IF MonthsSince(b) >= b.amortMonths THEN Zero
                           ELSE Frac(b.purchaseAmount, b.amortMonths)
      /\ MonthsSince(b) = Now - b.purchaseDate
      /\ AmortRemaining(b) = IF b.amortMonths > MonthsSince(b) THEN b.amortMonths - MonthsSince(b) ELSE 0
      /\ Now \in Int
  BY DEF Depreciation, MonthsSince, AmortRemaining, Now, Month
<1>c. ColoAllocation(L, a) =
        IF b.dcId \in Dcs(L)
        THEN Frac(L.dcs[b.dcId].coloMonthly * b.powerWatts, Or(PowerIn(L, b.dcId), 1))
        ELSE Zero
  BY DEF ColoAllocation
<1>k. ColoAllocation(L, a) \in Fractions
  <2>1. CASE b.dcId \in Dcs(L)
    <3>1. L.dcs[b.dcId].coloMonthly \in Nat /\ PowerIn(L, b.dcId) \in Nat
      BY <2>1, ListsAreFinite, PowerIsNatural
    <3>2. L.dcs[b.dcId].coloMonthly * b.powerWatts \in Nat /\ Or(PowerIn(L, b.dcId), 1) \in Positive
      BY <1>1, <3>1 DEF Or, Positive
    <3>3. QED
      BY <1>c, <2>1, <3>2, FracIsFraction
  <2>2. QED
    BY <1>c, <2>1, WholeNumbers
<1>e. AssetCost(L, a) = Plus(Depreciation(b), ColoAllocation(L, a))
  BY DEF AssetCost
<1> DEFINE since == MonthsSince(b)
           n == b.purchaseAmount
           m == b.amortMonths
<1>s. since \in Int
  BY <1>1, <1>d
<1>3. CASE since >= m
  <2>1. Depreciation(b) = Zero /\ AmortRemaining(b) = 0
    BY <1>1, <1>3, <1>d, <1>s
  <2>2. QED
    BY <1>e, <1>k, <2>1, PlusIsFraction, WholeNumbers
<1>4. CASE since < m
  <2>1. m \in Positive /\ n \in Nat /\ Depreciation(b) = Frac(n, m) /\ AmortRemaining(b) # 0
    BY <1>1, <1>2, <1>4, <1>d, <1>s DEF Positive
  <2>2. Frac(n, m) \in Fractions /\ Is(Frac(n, m), n, m)
    BY <2>1, FracIsFraction
  <2>3. Frac(n, m) = Zero <=> n = 0
    BY <2>1, <2>2, ZeroIsZero
  <2>4. QED
    BY <1>e, <1>k, <2>1, <2>2, <2>3, PlusIsFraction
<1>5. since >= m \/ since < m
  <2> HIDE DEF b, since
  <2> QED BY <1>1, <1>s
<1>6. QED
  BY <1>3, <1>4, <1>5

\* What assets cost is the sum of their costs.
LEMMA CostOfIsTotal ==
  ASSUME NEW L \in Lists, Dated(L), NEW S \in SUBSET Assets(L), NEW F, \A a \in S : F[a] = AssetCost(L, a)
  PROVE  CostOf(L, S) = Total(F, S) /\ Terms(F, S) /\ CostOf(L, S) \in Fractions
<1> DEFINE G == [a \in S |-> AssetCost(L, a)]
<1>1. CostOf(L, S) = FoldOf(G)
  BY DEF CostOf, SumOf, FoldOf
<1>2. DOMAIN G = S /\ \A a \in S : G[a] = F[a]
  OBVIOUS
<1>3. Terms(F, S)
  BY CostIsFraction DEF Terms
<1>4. IsFiniteSet(S)
  BY ListsAreFinite, FS_Subset
<1> HIDE DEF G
<1>5. Terms(G, S)
  BY <1>2, <1>3 DEF Terms
<1>6. Total(G, S) = Total(F, S) /\ Total(F, S) \in Fractions
  BY <1>2, <1>3, <1>4, <1>5, TotalOfSame, TotalIsFraction
<1>7. QED
  BY <1>1, <1>2, <1>3, <1>6, SumsAreTotals

\* The tweaks.
LEMMA TweaksAreTyped ==
  ASSUME NEW o \in Tweaks
  PROVE  /\ o.method \in {"even", "manual", "requests", "usage"}
         /\ o.cpuWeight \in 0..100 /\ 100 - o.cpuWeight \in Nat /\ o.includeIdle \in BOOLEAN
<1>1. CASE o \in [method : {"usage", "requests"}, cpuWeight : CpuWeights, includeIdle : BOOLEAN]
  BY <1>1 DEF CpuWeights
<1>2. CASE o \in [method : {"even", "manual"}, cpuWeight : {50}, includeIdle : BOOLEAN]
  BY <1>2
<1>3. QED
  BY <1>1, <1>2 DEF Tweaks

\* A number over one that may be 0.
LEMMA QuotientIsFraction ==
  ASSUME NEW x \in Nat, NEW y \in Nat
  PROVE  (IF y = 0 THEN Zero ELSE Frac(x, y)) \in Fractions
<1>1. CASE y = 0
  BY <1>1, WholeNumbers
<1>2. CASE y # 0
  <2>1. y \in Positive
    BY <1>2 DEF Positive
  <2>2. QED
    BY <1>2, <2>1, FracIsFraction
<1>3. QED
  BY <1>1, <1>2

\* The part of the cores and the memory of a datacenter.
LEMMA PartIsFraction ==
  ASSUME NEW L \in Lists, NEW d, NEW cpu \in Nat, NEW ram \in Nat, NEW o \in Tweaks
  PROVE  Part(L, d, cpu, ram, o) \in Fractions
<1> DEFINE S == Hosts(L, d)
           F == [a \in S |-> L.assets[a].cpuCores]
           G == [a \in S |-> L.assets[a].ramGB]
           cores  == CountOf(F)
           memory == CountOf(G)
<1>1. IsFiniteSet(S) /\ S \in SUBSET Assets(L)
  BY AssetsInAreAssets
<1>2. \A a \in S : F[a] \in Nat /\ G[a] \in Nat
  <2>1. \A a \in S : L.assets[a] \in Asset(DcIds)
    BY <1>1, ListsAreFinite
  <2>2. QED
    BY <2>1 DEF Asset
<1>3. DOMAIN F = S /\ DOMAIN G = S
  OBVIOUS
<1>4. cores \in Nat /\ memory \in Nat
  <2> HIDE DEF F, G, S
  <2>1. cores = Count(F, S) /\ memory = Count(G, S)
    BY <1>3, SumsAreTotals
  <2>2. QED
    BY <1>1, <1>2, <2>1, CountIsNatural
<1>5. Part(L, d, cpu, ram, o)
        = Plus(Times(Frac(o.cpuWeight, 100), IF cores = 0 THEN Zero ELSE Frac(cpu, cores)),
               Times(Frac(100 - o.cpuWeight, 100), IF memory = 0 THEN Zero ELSE Frac(ram, memory)))
  BY DEF Part, SumOver, CountOf
<1> HIDE DEF cores, memory
<1> DEFINE x == IF cores = 0 THEN Zero ELSE Frac(cpu, cores)
           y == IF memory = 0 THEN Zero ELSE Frac(ram, memory)
           u == Frac(o.cpuWeight, 100)
           v == Frac(100 - o.cpuWeight, 100)
<1>6. x \in Fractions /\ y \in Fractions
  BY <1>4, QuotientIsFraction
<1>7. u \in Fractions /\ v \in Fractions
  <2>1. o.cpuWeight \in Nat /\ 100 - o.cpuWeight \in Nat /\ 100 \in Positive
    BY TweaksAreTyped DEF Positive
  <2>2. QED
    BY <2>1, FracIsFraction
<1>8. Part(L, d, cpu, ram, o) = Plus(Times(u, x), Times(v, y))
  BY <1>5
<1> HIDE DEF x, y, u, v
<1>9. QED
  BY <1>6, <1>7, <1>8, TimesIsFraction, PlusIsFraction

\* What a workload weighs.
LEMMA WeightIsFraction ==
  ASSUME NEW L \in Lists, NEW d, NEW c \in Workloads(L), NEW o \in Tweaks
  PROVE  Weight(L, d, c, o) \in Fractions
<1> DEFINE w == WorkloadOf(L, c)
<1>1. /\ w.cpuRequest \in Nat /\ w.ramRequestGB \in Nat /\ w.cpuUsage \in Nat /\ w.ramUsageGB \in Nat
      /\ L.services[c[1]].manualWeight \in Nat
  <2>1. w \in Workload(DcIds) /\ L.services[c[1]] \in Service(DcIds)
    BY WorkloadsAreTyped
  <2>2. QED
    BY <2>1 DEF Workload, Service
<1>2. CASE o.method = "even"
  BY <1>2, WholeNumbers DEF Weight
<1>3. CASE o.method = "manual"
  <2>1. Weight(L, d, c, o) = Frac(L.services[c[1]].manualWeight, 1)
    BY <1>3 DEF Weight
  <2>2. QED
    BY <1>1, <2>1, WholeNumbers, FracIsFraction
<1>4. CASE o.method = "requests"
  <2>1. Weight(L, d, c, o) = Part(L, d, w.cpuRequest, w.ramRequestGB, o)
    BY <1>4 DEF Weight
  <2>2. QED
    BY <1>1, <2>1, PartIsFraction
<1>5. CASE o.method = "usage"
  <2>1. Weight(L, d, c, o) = Part(L, d, w.cpuUsage, w.ramUsageGB, o)
    BY <1>5 DEF Weight
  <2>2. QED
    BY <1>1, <2>1, PartIsFraction
<1>6. QED
  BY <1>2, <1>3, <1>4, <1>5, TweaksAreTyped

\* The images of a finite set's elements are finitely many.
LEMMA FiniteImage ==
  ASSUME NEW S, IsFiniteSet(S), NEW h
  PROVE  IsFiniteSet({h[i] : i \in S})
<1> DEFINE Kept == {T \in SUBSET S : IsFiniteSet({h[i] : i \in T})}
<1>1. {} \in Kept
  BY FS_EmptySet
<1>2. ASSUME NEW T \in SUBSET S, NEW x \in S, T \in Kept, x \notin T
      PROVE  T \cup {x} \in Kept
  <2>1. {h[i] : i \in T \cup {x}} = {h[i] : i \in T} \cup {h[x]}
    OBVIOUS
  <2>2. IsFiniteSet({h[i] : i \in T} \cup {h[x]})
    BY <1>2, FS_AddElement
  <2>3. QED
    BY <2>1, <2>2
<1>3. S \in Kept
  <2> HIDE DEF Kept
  <2> QED
    BY <1>1, <1>2, SetInduction
<1>4. QED
  BY <1>3

\* There are finitely many workloads.
LEMMA WorkloadsAreFinite ==
  ASSUME NEW L \in Lists
  PROVE  IsFiniteSet(Workloads(L)) /\ \A d : IsFiniteSet(Consumers(L, d))
<1> DEFINE Known == {t \in ServiceIds : L.services[t] # None}
           h == [s \in Known |-> {<<s, i>> : i \in DOMAIN L.services[s].workloads}]
<1>1. IsFiniteSet(Known)
  BY IdsAssumption, FS_Subset
<1>2. ASSUME NEW s \in Known
      PROVE  IsFiniteSet(h[s])
  <2> DEFINE I == DOMAIN L.services[s].workloads
             g == [i \in I |-> <<s, i>>]
  <2>1. L.services[s] \in Service(DcIds)
    BY DEF Lists
  <2>2. L.services[s].workloads \in Seq(Workload(DcIds))
    BY <2>1 DEF Service
  <2>3. I = 1..Len(L.services[s].workloads) /\ Len(L.services[s].workloads) \in Nat
    <3> DEFINE W == Workload(DcIds)
    <3>1. L.services[s].workloads \in Seq(W)
      BY <2>2
    <3> HIDE DEF W
    <3>2. QED
      BY <3>1
  <2>4. IsFiniteSet(I)
    BY <2>3, FS_Interval
  <2>5. h[s] = {g[i] : i \in I}
    OBVIOUS
  <2> HIDE DEF g, I, h
  <2>6. QED
    BY <2>4, <2>5, FiniteImage
<1>3. Workloads(L) = UNION {h[s] : s \in Known}
  <2>1. \A s \in Known : h[s] = {<<s, i>> : i \in DOMAIN L.services[s].workloads}
    OBVIOUS
  <2>2. Workloads(L) = UNION {{<<s, i>> : i \in DOMAIN L.services[s].workloads} : s \in Known}
    BY DEF Workloads
  <2> HIDE DEF h, Known
  <2>3. {h[s] : s \in Known} = {{<<s, i>> : i \in DOMAIN L.services[s].workloads} : s \in Known}
    BY <2>1
  <2>4. QED
    BY <2>2, <2>3
<1> HIDE DEF h, Known
<1>4. IsFiniteSet({h[s] : s \in Known})
  BY <1>1, FiniteImage
<1>5. IsFiniteSet(Workloads(L))
  <2>1. \A T \in {h[s] : s \in Known} : IsFiniteSet(T)
    BY <1>2
  <2>2. QED
    BY <1>3, <1>4, <2>1, FS_UNION
<1>6. ASSUME NEW d
      PROVE  IsFiniteSet(Consumers(L, d))
  <2>1. Consumers(L, d) \in SUBSET Workloads(L)
    BY DEF Consumers
  <2>2. QED
    BY <1>5, <2>1, FS_Subset
<1>7. QED
  BY <1>5, <1>6

\* What is split by weight is split to the last unit, unless all weigh nothing:
\* then nobody has anything of it.
LEMMA SplitByWeight ==
  ASSUME NEW S, IsFiniteSet(S), NEW F, Terms(F, S), NEW p \in Fractions, NEW G,
         \A i \in S : G[i] = By(Times(p, F[i]), Total(F, S))
  PROVE  /\ Total(F, S) # Zero => Total(G, S) = p
         /\ Total(F, S) = Zero => Total(G, S) = Zero
         /\ Terms(G, S)
<1> DEFINE W == Total(F, S)
<1>w. W \in Fractions /\ \A i \in S : F[i] \in Fractions /\ Times(p, F[i]) \in Fractions
  BY TotalIsFraction, TimesIsFraction DEF Terms
<1>1. CASE W # Zero
  <2> DEFINE b == By(One, W)
             k == Times(p, b)
  <2>1. b \in Fractions /\ \A r \in Fractions : By(r, W) = Times(r, b)
    <3> HIDE DEF W
    <3> QED
      BY <1>1, <1>w, ByUndoesTimes, WholeNumbers
  <2> HIDE DEF b
  <2>2. k \in Fractions
    BY <2>1, TimesIsFraction
  <2>3. ASSUME NEW i \in S
        PROVE  G[i] = Times(k, F[i])
    <3>1. G[i] = Times(Times(p, F[i]), b)
      BY <1>w, <2>1
    <3>2. Times(Times(p, F[i]), b) = Times(p, Times(F[i], b))
      BY <1>w, <2>1, TimesAssociates
    <3>3. Times(F[i], b) = Times(b, F[i])
      BY <1>w, <2>1, TimesCommutes
    <3>4. Times(Times(p, b), F[i]) = Times(p, Times(b, F[i]))
      BY <1>w, <2>1, TimesAssociates
    <3>5. QED
      BY <3>1, <3>2, <3>3, <3>4
  <2>4. Total(G, S) = Times(k, W) /\ Terms(G, S)
    <3> HIDE DEF k
    <3>1. Scaled(G, k, F, S)
      BY <2>3 DEF Scaled
    <3>2. QED
      BY <2>2, <3>1, TotalScaled
  <2> HIDE DEF W
  <2>5. Times(Times(p, b), W) = Times(Times(p, W), b)
    <3>1. Times(Times(p, b), W) = Times(p, Times(b, W)) /\ Times(Times(p, W), b) = Times(p, Times(W, b))
      BY <1>w, <2>1, TimesAssociates
    <3>2. Times(b, W) = Times(W, b)
      BY <1>w, <2>1, TimesCommutes
    <3>3. QED
      BY <3>1, <3>2
  <2>6. Times(Times(p, W), b) = p
    <3>1. Times(p, W) \in Fractions
      BY <1>w, TimesIsFraction
    <3>2. By(Times(p, W), W) = p
      BY <1>1, <1>w, ByUndoesTimes
    <3>3. QED
      BY <2>1, <3>1, <3>2
  <2>7. QED
    BY <1>1, <2>4, <2>5, <2>6 DEF W
<1>2. CASE W = Zero
  <2>1. \A i \in S : F[i] = Zero
    BY <1>2, TotalIsZero
  <2>2. \A i \in S : G[i] = Zero
    BY <1>2, <2>1, TimesZeroOne DEF By
  <2>3. QED
    BY <1>2, <2>2, TotalOfZeros, WholeNumbers DEF Terms
<1>3. QED
  BY <1>1, <1>2

\* What is left of one.
LEMMA RestOfOne ==
  ASSUME NEW p \in Fractions
  PROVE  /\ AtMostOne(p) \in Fractions /\ AtMostOne(p)[1] <= AtMostOne(p)[2]
         /\ p[1] <= p[2] => OneMinus(p) \in Fractions /\ Plus(p, OneMinus(p)) = One
<1> DEFINE a == p[1]
           b == p[2]
<1>1. a \in Nat /\ b \in Nat /\ b # 0 /\ b \in Positive /\ Is(p, a, b)
  BY FractionParts
<1>2. AtMostOne(p) = IF a > b THEN One ELSE p
  BY DEF AtMostOne
<1>3. One \in Fractions /\ One[1] = 1 /\ One[2] = 1 /\ Is(One, 1, 1)
  BY WholeNumbers DEF One
<1>4. AtMostOne(p) \in Fractions /\ AtMostOne(p)[1] <= AtMostOne(p)[2]
  <2>1. CASE a > b
    BY <1>2, <1>3, <2>1
  <2>2. CASE ~(a > b)
    <3>1. a <= b
      <4> HIDE DEF a, b
      <4> QED BY <1>1, <2>2
    <3>2. QED
      BY <1>2, <2>2, <3>1
  <2>3. QED
    BY <2>1, <2>2
<1>5. ASSUME a <= b
      PROVE  OneMinus(p) \in Fractions /\ Plus(p, OneMinus(p)) = One
  <2> DEFINE q == OneMinus(p)
             m == b - a
  <2>1. q = Frac(m, b)
    BY DEF OneMinus
  <2> HIDE DEF a, b, q
  <2>2. m \in Nat
    BY <1>1, <1>5
  <2> HIDE DEF m
  <2>3. q \in Fractions /\ Is(q, m, b)
    BY <1>1, <2>1, <2>2, FracIsFraction
  <2>4. Plus(p, q) \in Fractions /\ Is(Plus(p, q), a * b + m * b, b * b)
    BY <1>1, <2>2, <2>3, PlusIsFraction, ValueOfPlus
  <2>5. a * b + m * b = b * b
    <3>1. m = b - a
      BY DEF m
    <3>2. QED
      BY <1>1, <3>1
  <2>6. b * b \in Positive /\ b * b \in Nat /\ 1 \in Positive
    BY <1>1 DEF Positive
  <2>7. Plus(p, q) = One
    <3> DEFINE n == a * b + m * b
               e == b * b
    <3>1. n = e /\ e \in Positive /\ e \in Nat /\ Is(Plus(p, q), n, e)
      BY <2>4, <2>5, <2>6
    <3> HIDE DEF n, e
    <3>2. Is(Plus(p, q), e, e) /\ e * 1 = 1 * e
      BY <3>1
    <3>3. QED
      BY <1>3, <2>4, <2>6, <3>1, <3>2, SameValue
  <2>8. QED
    BY <2>3, <2>7 DEF q
<1>6. QED
  BY <1>4, <1>5

-----------------------------------------------------------------------------
(***************************************************************************)
(* Nothing is paid twice and nothing is lost.                              *)
(***************************************************************************)
\* The weight of a service is what the mapper makes of it.
WeightsAreOne(L) ==
    \A s \in ServiceIds : L.services[s] # None => L.services[s].manualWeight = 1

\* It is so on the page: the backend has no weight to give.
LEMMA PageWeightsAreOne ==
  ASSUME EstimateInv
  PROVE  WeightsAreOne(page)
<1>1. page.services = Mapped(tables).services
  BY DEF EstimateInv, Good, Agrees
<1>2. ASSUME NEW s \in ServiceIds, page.services[s] # None
      PROVE  page.services[s].manualWeight = 1
  <2>1. page.services[s] = IF tables.services[s] = None THEN None
                           ELSE MapBackendService(tables.services[s])
    BY <1>1 DEF Mapped
  <2>2. page.services[s] = MapBackendService(tables.services[s])
    BY <1>2, <2>1
  <2>3. QED
    BY <2>2 DEF MapBackendService
<1>3. QED
  BY <1>2 DEF WeightsAreOne

\* A workload weighs one then, by hand as evenly.
LEMMA WeighsOne ==
  ASSUME NEW L \in Lists, WeightsAreOne(L), NEW d, NEW c \in Workloads(L), NEW o,
         o.method \in {"even", "manual"}
  PROVE  Weight(L, d, c, o) = One
<1>1. CASE o.method = "even"
  BY <1>1 DEF Weight
<1>2. CASE o.method = "manual"
  <2>1. Weight(L, d, c, o) = Frac(L.services[c[1]].manualWeight, 1)
    BY <1>2 DEF Weight
  <2>2. L.services[c[1]].manualWeight = 1
    <3>1. PICK s \in ServiceIds : L.services[s] # None /\ \E i \in DOMAIN L.services[s].workloads : c = <<s, i>>
      BY DEF Workloads
    <3>2. c[1] = s
      BY <3>1
    <3>3. QED
      BY <3>1, <3>2 DEF WeightsAreOne
  <2>3. Frac(1, 1) = One
    <3>1. /\ Frac(1, 1) \in Fractions /\ Is(Frac(1, 1), 1, 1) /\ One \in Fractions /\ Is(One, 1, 1)
          /\ 1 \in Positive /\ 1 \in Nat
      BY FracIsFraction, WholeNumbers
    <3>2. QED
      BY <3>1, SameValue
  <2>4. QED
    BY <2>1, <2>2, <2>3
<1>3. QED
  BY <1>1, <1>2

\* What the services pay in a datacenter.
LEMMA PaidInAll ==
  ASSUME NEW L \in Lists, Dated(L), NEW d \in Dcs(L), NEW o \in Tweaks
  PROVE  /\ TotalWeight(L, d, o) \in Fractions /\ AllocFrac(L, d, o) \in Fractions
         /\ DcCost(L, d) \in Fractions
         /\ TotalWeight(L, d, o) # Zero =>
               SumOf(ServiceIds, LAMBDA s : Pays(L, d, s, o)) = Times(DcCost(L, d), AllocFrac(L, d, o))
         /\ TotalWeight(L, d, o) = Zero =>
               SumOf(ServiceIds, LAMBDA s : Pays(L, d, s, o)) = Zero
         /\ TotalWeight(L, d, o) = Zero => \A c \in Consumers(L, d) : Weight(L, d, c, o) = Zero
         /\ Consumers(L, d) = {} => TotalWeight(L, d, o) = Zero
<1> DEFINE C == Consumers(L, d)
           F == [c \in C |-> Weight(L, d, c, o)]
           W == TotalWeight(L, d, o)
           own(s) == {c \in C : c[1] = s}
           part(s) == [c \in own(s) |-> Weight(L, d, c, o)]
           E == [s \in ServiceIds |-> FoldOf(part(s))]
           h == [c \in C |-> c[1]]
           p == Times(DcCost(L, d), AllocFrac(L, d, o))
           G == [s \in ServiceIds |-> Pays(L, d, s, o)]
<1>1. IsFiniteSet(C) /\ C \in SUBSET Workloads(L) /\ \A c \in C : c[1] \in ServiceIds
  <2>1. C \in SUBSET Workloads(L)
    BY DEF Consumers
  <2>2. QED
    BY <2>1, WorkloadsAreFinite, WorkloadsAreTyped
<1>2. Terms(F, C)
  <2>1. \A c \in C : Weight(L, d, c, o) \in Fractions
    BY <1>1, WeightIsFraction
  <2>2. QED
    BY <2>1 DEF Terms
<1>3. W = Total(F, C)
  <2>1. W = FoldOf(F)
    BY DEF TotalWeight, SumOf, FoldOf
  <2>2. DOMAIN F = C
    OBVIOUS
  <2> HIDE DEF F, C, W
  <2>3. QED
    BY <2>1, <2>2, SumsAreTotals
<1>4. W \in Fractions
  <2> HIDE DEF F, C, W
  <2> QED BY <1>1, <1>2, <1>3, TotalIsFraction
<1>5. AllocFrac(L, d, o) \in Fractions
  BY <1>4, RestOfOne, WholeNumbers DEF AllocFrac
<1>6. DcCost(L, d) \in Fractions
  <2> DEFINE K == [a \in Hosts(L, d) |-> AssetCost(L, a)]
  <2>1. \A a \in Hosts(L, d) : K[a] = AssetCost(L, a)
    OBVIOUS
  <2> HIDE DEF K
  <2>2. Hosts(L, d) \in SUBSET Assets(L)
    BY AssetsInAreAssets
  <2>3. QED
    BY <2>1, <2>2, CostOfIsTotal DEF DcCost
<1>7. p \in Fractions
  BY <1>5, <1>6, TimesIsFraction
<1>8. ASSUME NEW s \in ServiceIds
      PROVE  E[s] = Total(F, {c \in C : h[c] = s})
  <2> DEFINE Q == {c \in C : h[c] = s}
             P == part(s)
  <2>1. Q = own(s) /\ Q \in SUBSET C /\ DOMAIN P = Q /\ \A c \in Q : P[c] = F[c]
    OBVIOUS
  <2>2. E[s] = FoldOf(P)
    OBVIOUS
  <2> HIDE DEF F, C, h, P, Q, E
  <2>3. FoldOf(P) = Total(P, Q)
    BY <2>1, SumsAreTotals
  <2>4. IsFiniteSet(Q) /\ Terms(F, Q)
    BY <1>1, <1>2, <2>1, FS_Subset, TermsOfSubset
  <2>5. Total(P, Q) = Total(F, Q)
    BY <2>1, <2>4, TotalOfSame
  <2>6. QED
    BY <2>2, <2>3, <2>5 DEF Q
<1>9. Total(E, ServiceIds) = W /\ Terms(E, ServiceIds)
  <2>1. \A c \in C : h[c] \in ServiceIds
    BY <1>1
  <2> HIDE DEF F, C, h, E, W
  <2>2. GroupTotals(E, ServiceIds, F, C, h)
    BY <1>8 DEF GroupTotals
  <2>3. QED
    BY <1>1, <1>2, <1>3, <2>1, <2>2, IdsAssumption, TotalInGroups
<1>10. ASSUME NEW s \in ServiceIds
       PROVE  G[s] = By(Times(p, E[s]), W)
  <2>1. Pays(L, d, s, o) = By(Times(p, SumOf(own(s), LAMBDA c : Weight(L, d, c, o))), W)
    BY DEF Pays
  <2>2. SumOf(own(s), LAMBDA c : Weight(L, d, c, o)) = FoldOf(part(s))
    BY DEF SumOf, FoldOf
  <2>3. QED
    BY <2>1, <2>2
<1>11. SumOf(ServiceIds, LAMBDA s : Pays(L, d, s, o)) = Total(G, ServiceIds)
  <2>1. SumOf(ServiceIds, LAMBDA s : Pays(L, d, s, o)) = FoldOf(G)
    BY DEF SumOf, FoldOf
  <2>2. DOMAIN G = ServiceIds
    OBVIOUS
  <2> HIDE DEF G
  <2>3. QED
    BY <2>1, <2>2, SumsAreTotals
<1>12. (W # Zero => Total(G, ServiceIds) = p) /\ (W = Zero => Total(G, ServiceIds) = Zero)
  <2> HIDE DEF G, p, E, W
  <2> QED BY <1>7, <1>9, <1>10, IdsAssumption, SplitByWeight
<1>13. ASSUME W = Zero, NEW c \in C
       PROVE  Weight(L, d, c, o) = Zero
  <2>1. F[c] = Weight(L, d, c, o)
    OBVIOUS
  <2> HIDE DEF F, C, W
  <2>2. F[c] = Zero
    BY <1>1, <1>2, <1>3, <1>13, TotalIsZero
  <2>3. QED
    BY <2>1, <2>2
<1>14. ASSUME C = {}
       PROVE  W = Zero
  <2> HIDE DEF F, C, W
  <2> QED BY <1>3, <1>14, TotalOfNothing
<1>15. QED
  BY <1>4, <1>5, <1>6, <1>11, <1>12, <1>13, <1>14

\* What is idle of a datacenter.
LEMMA IdleInAll ==
  ASSUME NEW L \in Lists, Dated(L), NEW d \in Dcs(L), NEW o \in Tweaks
  PROVE  /\ OneMinus(AllocFrac(L, d, o)) \in Fractions
         /\ Plus(AllocFrac(L, d, o), OneMinus(AllocFrac(L, d, o))) = One
         /\ SumOf(Hosts(L, d), LAMBDA a : IdleByHost(L, d, a, o))
              = IF Consumers(L, d) = {} THEN DcCost(L, d)
                ELSE Times(DcCost(L, d), OneMinus(AllocFrac(L, d, o)))
<1> DEFINE H == Hosts(L, d)
           F == [a \in H |-> AssetCost(L, a)]
           G == [a \in H |-> IdleByHost(L, d, a, o)]
           A == AllocFrac(L, d, o)
           p == Times(DcCost(L, d), OneMinus(A))
<1>1. A \in Fractions /\ A[1] <= A[2]
  <2>1. TotalWeight(L, d, o) \in Fractions
    BY PaidInAll
  <2>2. /\ AtMostOne(TotalWeight(L, d, o)) \in Fractions
        /\ AtMostOne(TotalWeight(L, d, o))[1] <= AtMostOne(TotalWeight(L, d, o))[2]
    BY <2>1, RestOfOne
  <2>3. One \in Fractions /\ One[1] <= One[2]
    BY WholeNumbers DEF One
  <2>4. QED
    BY <2>2, <2>3 DEF AllocFrac
<1>2. OneMinus(A) \in Fractions /\ Plus(A, OneMinus(A)) = One
  <2> HIDE DEF A
  <2> QED BY <1>1, RestOfOne
<1>3. H \in SUBSET Assets(L) /\ IsFiniteSet(H)
  BY AssetsInAreAssets
<1>4. DcCost(L, d) = Total(F, H) /\ Terms(F, H) /\ DcCost(L, d) \in Fractions
  <2>1. \A a \in H : F[a] = AssetCost(L, a)
    OBVIOUS
  <2>2. DcCost(L, d) = CostOf(L, H)
    BY DEF DcCost
  <2> HIDE DEF F, H
  <2>3. QED
    BY <1>3, <2>1, <2>2, CostOfIsTotal
<1>5. SumOf(H, LAMBDA a : IdleByHost(L, d, a, o)) = Total(G, H)
  <2>1. SumOf(H, LAMBDA a : IdleByHost(L, d, a, o)) = FoldOf(G)
    BY DEF SumOf, FoldOf
  <2>2. DOMAIN G = H
    OBVIOUS
  <2> HIDE DEF G, H
  <2>3. FoldOf(G) = Total(G, H)
    BY <2>2, SumsAreTotals
  <2>4. QED
    BY <2>1, <2>3 DEF H
<1>6. CASE Consumers(L, d) = {}
  <2>1. \A a \in H : G[a] = F[a]
    BY <1>6 DEF IdleByHost
  <2> HIDE DEF F, G, H
  <2>2. Total(G, H) = Total(F, H)
    BY <1>3, <1>4, <2>1, TotalOfSame
  <2>3. QED
    BY <1>2, <1>4, <1>5, <1>6, <2>2 DEF H
<1>7. CASE Consumers(L, d) # {}
  <2>1. \A a \in H : G[a] = By(Times(p, F[a]), DcCost(L, d))
    BY <1>7 DEF IdleByHost
  <2>2. p \in Fractions
    BY <1>2, <1>4, TimesIsFraction
  <2>3. DcCost(L, d) = Zero => p = Zero
    BY <1>2, TimesZeroOne
  <2> HIDE DEF F, G, H, p
  <2>4. (Total(F, H) # Zero => Total(G, H) = p) /\ (Total(F, H) = Zero => Total(G, H) = Zero)
    BY <1>3, <1>4, <2>1, <2>2, SplitByWeight
  <2>5. Total(G, H) = p
    BY <1>4, <2>3, <2>4
  <2>6. QED
    BY <1>2, <1>5, <1>7, <2>5 DEF H, p
<1>8. QED
  BY <1>6, <1>7

\* In every datacenter that the page shows, what the services pay and what is
\* idle make what its hosts cost, whatever the tweaks are (computeServiceCosts
\* and the idle rows of data.ts); only where all that runs weighs nothing and
\* "Show idle" is off does nobody pay.
THEOREM EveryCostIsPaidOrIdle == Spec => [](Dated(page) => CostIsPaidOrIdle)
<1>1. EstimateInv => (Dated(page) => CostIsPaidOrIdle)
  <2>1. SUFFICES ASSUME EstimateInv, Dated(page), NEW o \in Tweaks, NEW d \in Dcs(page)
                 PROVE  LET paid == SumOf(ServiceIds, LAMBDA s : Pays(page, d, s, o))
                            idle == SumOf(Hosts(page, d), LAMBDA a : IdleByHost(page, d, a, o))
                        IN  \/ Plus(paid, idle) = DcCost(page, d)
                            \/ /\ TotalWeight(page, d, o) = Zero
                               /\ Consumers(page, d) # {} /\ ~o.includeIdle
                               /\ paid = Zero
    BY DEF CostIsPaidOrIdle
  <2> DEFINE paid == SumOf(ServiceIds, LAMBDA s : Pays(page, d, s, o))
             idle == SumOf(Hosts(page, d), LAMBDA a : IdleByHost(page, d, a, o))
             W == TotalWeight(page, d, o)
             A == AllocFrac(page, d, o)
             B == OneMinus(A)
             C == DcCost(page, d)
             Here == Consumers(page, d)
  <2>2. page \in Lists /\ WeightsAreOne(page)
    BY <2>1, PageWeightsAreOne DEF EstimateInv, Good
  <2>3. /\ W \in Fractions /\ A \in Fractions /\ C \in Fractions
        /\ W # Zero => paid = Times(C, A)
        /\ W = Zero => paid = Zero /\ \A c \in Here : Weight(page, d, c, o) = Zero
        /\ Here = {} => W = Zero
    BY <2>1, <2>2, PaidInAll
  <2>4. /\ B \in Fractions /\ Plus(A, B) = One
        /\ idle = IF Here = {} THEN C ELSE Times(C, B)
    BY <2>1, <2>2, IdleInAll
  <2>5. \A c \in Here : o.method \in {"even", "manual"} => Weight(page, d, c, o) = One
    BY <2>2, WeighsOne DEF Consumers
  <2>6. o.includeIdle /\ o.method \notin {"even", "manual"} => A = AtMostOne(W)
    <3>1. o.method \in {"even", "manual", "requests", "usage"}
      BY TweaksAreTyped
    <3>2. QED
      BY <3>1 DEF AllocFrac
  <2>7. Plus(paid, idle) = C \/ (W = Zero /\ Here # {} /\ ~o.includeIdle /\ paid = Zero)
    <3> HIDE DEF paid, idle, W, A, B, C, Here
    <3>1. CASE W # Zero
      <4>1. paid = Times(C, A) /\ idle = Times(C, B)
        BY <2>3, <2>4, <3>1
      <4>2. Plus(Times(C, A), Times(C, B)) = Times(C, Plus(A, B))
        BY <2>3, <2>4, TimesDistributes
      <4>3. Times(C, One) = C
        BY <2>3, TimesZeroOne
      <4>4. QED
        BY <2>4, <4>1, <4>2, <4>3
    <3>2. CASE W = Zero /\ Here = {}
      BY <2>3, <2>4, <3>2, PlusZero
    <3>3. CASE W = Zero /\ Here # {} /\ o.includeIdle
      <4>1. PICK c \in Here : TRUE
        BY <3>3
      <4>2. Weight(page, d, c, o) = Zero /\ Zero # One
        BY <2>3, <3>3, <4>1, WholeNumbers
      <4>3. o.method \notin {"even", "manual"}
        BY <2>5, <4>1, <4>2
      <4>4. A = Zero
        <5>1. AtMostOne(Zero) = Zero
          BY DEF AtMostOne, Zero
        <5>2. QED
          BY <2>6, <3>3, <4>3, <5>1
      <4>5. B = One
        BY <2>4, <4>4, PlusZero
      <4>6. paid = Zero /\ idle = C
        BY <2>3, <2>4, <3>3, <4>5, TimesZeroOne
      <4>7. QED
        BY <2>3, <4>6, PlusZero
    <3>4. CASE W = Zero /\ Here # {} /\ ~o.includeIdle
      BY <2>3, <3>4
    <3>5. QED
      BY <3>1, <3>2, <3>3, <3>4
  <2>8. QED
    BY <2>7
<1>2. QED
  BY <1>1, EstimateInvariant, PTL

-----------------------------------------------------------------------------
(***************************************************************************)
(* What the backend does not store.                                        *)
(***************************************************************************)
\* By hand is evenly, for want of a weight.
LEMMA ManualIsEven ==
  ASSUME NEW L \in Lists, WeightsAreOne(L), NEW d, NEW s, NEW o \in Tweaks, o.method = "manual"
  PROVE  Pays(L, d, s, o) = Pays(L, d, s, [o EXCEPT !.method = "even"])
<1> DEFINE e == [o EXCEPT !.method = "even"]
           C == Consumers(L, d)
           own == {c \in C : c[1] = s}
<1>1. e.method = "even"
  <2>1. CASE o \in [method : {"usage", "requests"}, cpuWeight : CpuWeights, includeIdle : BOOLEAN]
    BY <2>1
  <2>2. CASE o \in [method : {"even", "manual"}, cpuWeight : {50}, includeIdle : BOOLEAN]
    BY <2>2
  <2>3. QED
    BY <2>1, <2>2 DEF Tweaks
<1> HIDE DEF e
<1>2. \A c \in C : Weight(L, d, c, o) = One /\ Weight(L, d, c, e) = One
  BY <1>1, WeighsOne DEF Consumers
<1>3. own \in SUBSET C /\ C \in SUBSET C
  OBVIOUS
<1>4. ASSUME NEW S \in SUBSET C
      PROVE  SumOf(S, LAMBDA c : Weight(L, d, c, o)) = SumOf(S, LAMBDA c : Weight(L, d, c, e))
  <2>1. [c \in S |-> Weight(L, d, c, o)] = [c \in S |-> Weight(L, d, c, e)]
    BY <1>2
  <2>2. /\ SumOf(S, LAMBDA c : Weight(L, d, c, o)) = FoldOf([c \in S |-> Weight(L, d, c, o)])
        /\ SumOf(S, LAMBDA c : Weight(L, d, c, e)) = FoldOf([c \in S |-> Weight(L, d, c, e)])
    BY DEF SumOf, FoldOf
  <2>3. QED
    BY <2>1, <2>2
<1>5. TotalWeight(L, d, o) = TotalWeight(L, d, e)
  BY <1>3, <1>4 DEF TotalWeight
<1>6. AllocFrac(L, d, o) = One /\ AllocFrac(L, d, e) = One
  BY <1>1 DEF AllocFrac
<1>7. QED
  BY <1>3, <1>4, <1>5, <1>6 DEF Pays, e

\* A workload is known down to its datacenter only: no host runs any.
LEMMA NoHostIsUsed ==
  ASSUME NEW L \in Lists, NEW a \in Assets(L)
  PROVE  CpuUsed(L, a) = 0
<1> DEFINE S == {c \in Workloads(L) : WorkloadOf(L, c).hostId = a}
           F == [c \in S |-> WorkloadOf(L, c).cpuUsage]
<1>1. S = {}
  <2>1. a \in AssetIds
    BY DEF Assets
  <2>2. \A c \in Workloads(L) : WorkloadOf(L, c).hostId \in DcIds
    BY WorkloadsAreTyped DEF Workload
  <2>3. QED
    BY <2>1, <2>2, IdsAssumption
<1>2. CpuUsed(L, a) = CountOf(F)
  BY DEF CpuUsed, SumOver, CountOf
<1>3. DOMAIN F = S
  OBVIOUS
<1> HIDE DEF F, S
<1>4. CountOf(F) = Count(F, S)
  BY <1>3, SumsAreTotals
<1>5. QED
  BY <1>1, <1>2, <1>4, FS_EmptySet, SumEquation

\* What is said of the weights is not so: "split each host's cost by ... manual
\* weight" (frontend/README.md:72), "Used only when allocation method is set to
\* 'manual weight'" (the form, Services.tsx:511).  The backend stores no weight,
\* and the mapper gives every service 1: the method charges everybody what the
\* even split does.  Nor is any host ever utilized, since the mapper gives a
\* workload its datacenter for a host.
THEOREM NoWeightAndNoHost ==
  Spec => [](/\ \A s \in ServiceIds, d \in Dcs(page), o \in {x \in Tweaks : x.method = "manual"} :
                   Pays(page, d, s, o) = Pays(page, d, s, [o EXCEPT !.method = "even"])
             /\ \A a \in Assets(page) : CpuUsed(page, a) = 0)
<1> DEFINE Lost ==
      /\ \A s \in ServiceIds, d \in Dcs(page), o \in {x \in Tweaks : x.method = "manual"} :
            Pays(page, d, s, o) = Pays(page, d, s, [o EXCEPT !.method = "even"])
      /\ \A a \in Assets(page) : CpuUsed(page, a) = 0
<1>1. EstimateInv => Lost
  <2>1. SUFFICES ASSUME EstimateInv
                 PROVE  Lost
    OBVIOUS
  <2>2. page \in Lists /\ WeightsAreOne(page)
    BY <2>1, PageWeightsAreOne DEF EstimateInv, Good
  <2>3. QED
    BY <2>2, ManualIsEven, NoHostIsUsed
<1>2. QED
  BY <1>1, EstimateInvariant, PTL

-----------------------------------------------------------------------------
(***************************************************************************)
(* The figures of the pages agree.                                         *)
(***************************************************************************)
\* A fee is split as weights are.
LEMMA ShareOfFee ==
  ASSUME NEW fee \in Nat, NEW w \in Nat, NEW P \in Positive
  PROVE  Frac(fee * w, P) = By(Times(<<fee, 1>>, <<w, 1>>), <<P, 1>>)
<1> DEFINE f == <<fee, 1>>
           v == <<w, 1>>
           q == <<P, 1>>
           i == <<1, P>>
           t == Times(f, v)
           n == fee * w
<1>1. P \in Nat /\ P # 0 /\ 1 \in Positive /\ n \in Nat
  BY DEF Positive
<1>2. f \in Fractions /\ Is(f, fee, 1) /\ v \in Fractions /\ Is(v, w, 1) /\ q \in Fractions
  BY <1>1, WholeNumbers
<1>3. i \in Fractions /\ Is(i, 1, P)
  <2>1. Coprime(1, P)
    BY <1>1 DEF Coprime
  <2>2. QED
    BY <1>1, <2>1 DEF Fractions, Is
<1>4. q # Zero /\ By(t, q) = Times(t, i)
  <2>1. q # Zero
    BY <1>1 DEF Zero
  <2>2. q[1] = P /\ q[2] = 1
    OBVIOUS
  <2> HIDE DEF q, t
  <2>3. QED
    BY <2>1, <2>2 DEF By
<1> HIDE DEF f, v, q, i
<1>5. t \in Fractions /\ Is(t, fee * w, 1 * 1)
  BY <1>1, <1>2, TimesIsFraction, ValueOfTimes
<1>6. Is(t, n, 1)
  BY <1>5
<1> HIDE DEF t, n
<1>7. Times(t, i) \in Fractions /\ Is(Times(t, i), n * 1, 1 * P)
  BY <1>1, <1>3, <1>5, <1>6, TimesIsFraction, ValueOfTimes
<1>8. n * 1 = n /\ 1 * P = P
  BY <1>1
<1>9. Frac(n, P) \in Fractions /\ Is(Frac(n, P), n, P)
  BY <1>1, FracIsFraction
<1>10. Frac(n, P) = Times(t, i)
  BY <1>1, <1>7, <1>8, <1>9, SameValue
<1>11. QED
  BY <1>4, <1>10 DEF n, t, f, v, q

\* The fee of a datacenter is split to the last unit, if anything there draws
\* power.
LEMMA FeeIsSplit ==
  ASSUME NEW L \in Lists, Dated(L), NEW d \in Dcs(L),
         NEW G, \A a \in AssetsIn(L, d) : G[a] = ColoAllocation(L, a)
  PROVE  /\ Terms(G, AssetsIn(L, d))
         /\ Total(G, AssetsIn(L, d))
              = IF PowerIn(L, d) = 0 THEN Zero ELSE <<L.dcs[d].coloMonthly, 1>>
<1> DEFINE S == AssetsIn(L, d)
           fee == L.dcs[d].coloMonthly
           P == PowerIn(L, d)
           N == [a \in S |-> L.assets[a].powerWatts]
           F == [a \in S |-> <<L.assets[a].powerWatts, 1>>]
<1>1. IsFiniteSet(S) /\ S \in SUBSET Assets(L)
  BY AssetsInAreAssets
<1>2. \A a \in S : L.assets[a].powerWatts \in Nat /\ L.assets[a].dcId = d
  <2>1. \A a \in S : L.assets[a] \in Asset(DcIds)
    BY <1>1, ListsAreFinite
  <2>2. QED
    BY <2>1 DEF Asset, AssetsIn
<1>3. fee \in Nat /\ P \in Nat /\ (P = 0 => \A a \in S : L.assets[a].powerWatts = 0)
  BY ListsAreFinite, PowerIsNatural
<1>4. Terms(G, S)
  BY <1>1, CostIsFraction DEF Terms
<1>5. ASSUME NEW a \in S
      PROVE  G[a] = Frac(fee * L.assets[a].powerWatts, Or(P, 1))
  <2>1. G[a] = ColoAllocation(L, a) /\ L.assets[a].dcId = d
    BY <1>2
  <2>2. QED
    BY <2>1 DEF ColoAllocation
<1>6. CASE P = 0
  <2>1. ASSUME NEW a \in S
        PROVE  G[a] = Zero
    <3>1. G[a] = Frac(0, 1)
      BY <1>3, <1>5, <1>6 DEF Or
    <3>2. 0 \in Nat /\ 1 \in Positive
      BY WholeNumbers
    <3>3. QED
      BY <3>1, <3>2, FracIsFraction, ZeroIsZero
  <2> HIDE DEF S
  <2>2. Total(G, S) = Zero
    BY <1>1, <2>1, TotalOfZeros
  <2>3. QED
    BY <1>4, <1>6, <2>2 DEF S
<1>7. CASE P # 0
  <2>1. P \in Positive
    BY <1>3, <1>7 DEF Positive
  <2>2. Whole(F, N, S)
    BY <1>2 DEF Whole
  <2>3. P = CountOf(N) /\ DOMAIN N = S
    BY DEF PowerIn, SumOver, CountOf
  <2>4. \A a \in S : F[a] = <<L.assets[a].powerWatts, 1>>
    OBVIOUS
  <2> HIDE DEF F, N, S, P, fee
  <2>5. Total(F, S) = <<P, 1>> /\ Terms(F, S)
    BY <1>1, <2>2, <2>3, SumsAreTotals, CountIsTotal
  <2>6. ASSUME NEW a \in S
        PROVE  G[a] = By(Times(<<fee, 1>>, F[a]), Total(F, S))
    <3> DEFINE w == L.assets[a].powerWatts
    <3>1. w \in Nat /\ G[a] = Frac(fee * w, P) /\ F[a] = <<w, 1>>
      BY <1>2, <1>5, <1>7, <2>4 DEF Or
    <3> HIDE DEF w
    <3>2. Frac(fee * w, P) = By(Times(<<fee, 1>>, <<w, 1>>), <<P, 1>>)
      BY <1>3, <2>1, <3>1, ShareOfFee
    <3>3. QED
      BY <2>5, <3>1, <3>2
  <2> DEFINE p == <<fee, 1>>
  <2>7. p \in Fractions /\ \A a \in S : G[a] = By(Times(p, F[a]), Total(F, S))
    BY <1>3, <2>6, WholeNumbers
  <2>8. Total(F, S) # Zero
    BY <1>3, <1>7, <2>5 DEF Zero
  <2> HIDE DEF p
  <2>9. Total(G, S) = p
    BY <1>1, <2>5, <2>7, <2>8, SplitByWeight
  <2>10. QED
    BY <1>4, <1>7, <2>9 DEF p, S, P, fee
<1>8. QED
  BY <1>6, <1>7

\* The assets by datacenter, and those whose datacenter is gone.
AstrayIn(L) == {a \in Assets(L) : L.assets[a].dcId \notin Dcs(L)}

\* A sum over the assets may be taken by datacenter.
LEMMA TotalByDatacenter ==
  ASSUME NEW L \in Lists, NEW F, Terms(F, Assets(L)),
         NEW G, \A d \in Dcs(L) : G[d] = Total(F, AssetsIn(L, d))
  PROVE  /\ Total(F, Assets(L)) = Plus(Total(G, Dcs(L)), Total(F, AstrayIn(L)))
         /\ Terms(G, Dcs(L)) /\ Terms(F, AstrayIn(L)) /\ IsFiniteSet(AstrayIn(L))
<1> DEFINE S == Assets(L)
           D == Dcs(L)
           A == AstrayIn(L)
           R == S \ A
           h == [a \in R |-> L.assets[a].dcId]
<1>1. IsFiniteSet(S) /\ IsFiniteSet(D)
  BY ListsAreFinite
<1>2. R \in SUBSET S /\ A \in SUBSET S /\ S \ R = A /\ \A a \in R : h[a] \in D
  BY DEF AstrayIn
<1>3. \A d \in D : AssetsIn(L, d) = {a \in R : h[a] = d}
  BY DEF AstrayIn, AssetsIn
<1>4. \A d \in D : G[d] = Total(F, {a \in R : h[a] = d})
  BY <1>3
<1> HIDE DEF h, A, R, D, S
<1>5. GroupTotals(G, D, F, R, h)
  BY <1>4 DEF GroupTotals
<1>6. Terms(F, S) /\ Terms(F, R) /\ IsFiniteSet(R) /\ Terms(F, A) /\ IsFiniteSet(A)
  <2>1. Terms(F, S)
    BY DEF S
  <2>2. QED
    BY <1>1, <1>2, <2>1, TermsOfSubset, FS_Subset
<1>7. Total(G, D) = Total(F, R) /\ Terms(G, D)
  BY <1>1, <1>2, <1>5, <1>6, TotalInGroups
<1>8. Total(F, S) = Plus(Total(F, R), Total(F, S \ R))
  BY <1>1, <1>2, <1>6, TotalOfParts
<1>9. QED
  BY <1>2, <1>6, <1>7, <1>8 DEF S, D, A

\* The monthly total is the cost of all assets, and what the datacenters' costs
\* and those of assets astray make.
LEMMA TotalsAreCosts ==
  ASSUME NEW L \in Lists, Dated(L)
  PROVE  /\ Totals(L).monthlyTotal = CostOf(L, Assets(L))
         /\ Plus(SumOf(Dcs(L), LAMBDA d : ByDc(L, d)), CostOf(L, AstrayIn(L))) = CostOf(L, Assets(L))
<1> DEFINE S == Assets(L)
           D == Dcs(L)
           F == [a \in S |-> Depreciation(L.assets[a])]
           G == [a \in S |-> ColoAllocation(L, a)]
           H == [a \in S |-> AssetCost(L, a)]
           K == [d \in D |-> ByDc(L, d)]
<1>1. IsFiniteSet(S) /\ IsFiniteSet(D) /\ S \in SUBSET S
  BY ListsAreFinite
<1>2. Terms(F, S) /\ Terms(G, S) /\ Added(H, F, G, S)
  <2>1. \A a \in S : F[a] \in Fractions /\ G[a] \in Fractions
    BY CostIsFraction
  <2>2. \A a \in S : H[a] = Plus(F[a], G[a])
    BY DEF AssetCost
  <2>3. QED
    BY <2>1, <2>2 DEF Terms, Added
<1>3. Totals(L).monthlyTotal = Plus(FoldOf(F), FoldOf(G))
  BY DEF Totals, SumOf, FoldOf
<1>4. DOMAIN F = S /\ DOMAIN G = S /\ DOMAIN K = D /\ \A a \in S : H[a] = AssetCost(L, a)
  OBVIOUS
<1>5. \A d \in D : K[d] = ByDc(L, d)
  OBVIOUS
<1>6. SumOf(D, LAMBDA d : ByDc(L, d)) = FoldOf(K)
  BY DEF SumOf, FoldOf
<1> HIDE DEF F, G, H, K
<1>7. CostOf(L, S) = Total(H, S) /\ Terms(H, S)
  BY <1>1, <1>4, CostOfIsTotal
<1>8. FoldOf(F) = Total(F, S) /\ FoldOf(G) = Total(G, S) /\ FoldOf(K) = Total(K, D)
  BY <1>4, SumsAreTotals
<1>9. Total(H, S) = Plus(Total(F, S), Total(G, S))
  BY <1>1, <1>2, TotalPlus
<1>10. \A T \in SUBSET S : CostOf(L, T) = Total(H, T)
  BY <1>4, CostOfIsTotal
<1>11. \A d \in D : K[d] = Total(H, AssetsIn(L, d))
  BY <1>5, <1>10, AssetsInAreAssets DEF ByDc
<1>12. AstrayIn(L) \in SUBSET S
  BY DEF AstrayIn
<1>13. Total(H, S) = Plus(Total(K, D), Total(H, AstrayIn(L)))
  BY <1>7, <1>11, TotalByDatacenter
<1>14. QED
  BY <1>3, <1>6, <1>7, <1>8, <1>9, <1>10, <1>12, <1>13

\* So are the sums of the hardware page, by type.
LEMMA TypesMakeTheTotal ==
  ASSUME NEW L \in Lists, Dated(L)
  PROVE  /\ SumOf(AssetTypes, LAMBDA type : HardwareSum(L, {type}, DcIds)) = CostOf(L, Assets(L))
         /\ \A d \in Dcs(L) : HardwareSum(L, AssetTypes, {d}) = ByDc(L, d)
<1> DEFINE S == Assets(L)
           H == [a \in S |-> AssetCost(L, a)]
           h == [a \in S |-> L.assets[a].type]
           K == [type \in AssetTypes |-> HardwareSum(L, {type}, DcIds)]
<1>1. IsFiniteSet(S) /\ S \in SUBSET S /\ \A a \in S : L.assets[a] \in Asset(DcIds)
  BY ListsAreFinite
<1>2. \A a \in S : L.assets[a].type \in AssetTypes /\ L.assets[a].dcId \in DcIds
  BY <1>1 DEF Asset
<1>3. IsFiniteSet(AssetTypes)
  <2>1. IsFiniteSet({"server"}) /\ IsFiniteSet({"switch"}) /\ IsFiniteSet({"storage"})
    BY FS_Singleton
  <2>2. IsFiniteSet({"server"} \cup {"switch"})
    BY <2>1, FS_Union
  <2>3. IsFiniteSet(({"server"} \cup {"switch"}) \cup {"storage"})
    BY <2>1, <2>2, FS_Union
  <2>4. AssetTypes = ({"server"} \cup {"switch"}) \cup {"storage"}
    BY DEF AssetTypes
  <2>5. QED
    BY <2>3, <2>4
<1>4. /\ DOMAIN K = AssetTypes /\ \A a \in S : H[a] = AssetCost(L, a)
      /\ \A a \in S : h[a] = L.assets[a].type
  OBVIOUS
<1>5. \A type \in AssetTypes : K[type] = CostOf(L, {a \in S : h[a] = type})
  <2>1. ASSUME NEW type \in AssetTypes
        PROVE  {a \in S : L.assets[a].type \in {type} /\ L.assets[a].dcId \in DcIds} = {a \in S : h[a] = type}
    BY <1>2
  <2>2. QED
    BY <2>1 DEF HardwareSum
<1>6. SumOf(AssetTypes, LAMBDA type : HardwareSum(L, {type}, DcIds)) = FoldOf(K)
  BY DEF SumOf, FoldOf
<1> HIDE DEF H, h, K
<1>7. Terms(H, S) /\ \A T \in SUBSET S : CostOf(L, T) = Total(H, T)
  BY <1>1, <1>4, CostOfIsTotal
<1>8. GroupTotals(K, AssetTypes, H, S, h)
  <2>1. \A type \in AssetTypes : {a \in S : h[a] = type} \in SUBSET S
    OBVIOUS
  <2>2. QED
    BY <1>5, <1>7, <2>1 DEF GroupTotals
<1>9. \A a \in S : h[a] \in AssetTypes
  BY <1>2, <1>4
<1>10. Total(K, AssetTypes) = Total(H, S)
  <2> HIDE DEF S
  <2> QED BY <1>1, <1>3, <1>7, <1>8, <1>9, TotalInGroups
<1>11. ASSUME NEW d \in Dcs(L)
       PROVE  HardwareSum(L, AssetTypes, {d}) = ByDc(L, d)
  <2>1. {a \in S : L.assets[a].type \in AssetTypes /\ L.assets[a].dcId \in {d}} = AssetsIn(L, d)
    BY <1>2 DEF AssetsIn
  <2>2. QED
    BY <2>1 DEF HardwareSum, ByDc
<1>12. FoldOf(K) = Total(K, AssetTypes)
  BY <1>4, SumsAreTotals
<1>13. QED
  BY <1>1, <1>6, <1>7, <1>10, <1>11, <1>12

\* What is paid off, and what is not.
LEMMA PaidOffIsCounted ==
  ASSUME NEW L \in Lists, Dated(L)
  PROVE  /\ PaidOff(L) + Totals(L).activeAmort = Cardinality(Assets(L))
         /\ PaidOff(L) = Cardinality({a \in Assets(L) : \/ AmortRemaining(L.assets[a]) = 0
                                                        \/ L.assets[a].purchaseAmount = 0})
<1> DEFINE S == Assets(L)
           T == {a \in S : Depreciation(L.assets[a]) = Zero}
           U == {a \in S : Depreciation(L.assets[a]) # Zero}
<1>1. IsFiniteSet(S)
  BY ListsAreFinite
<1>2. U = S \ T /\ S \cap T = T /\ T \in SUBSET S
  OBVIOUS
<1>3. PaidOff(L) = Cardinality(T) /\ Totals(L).activeAmort = Cardinality(U)
  BY DEF PaidOff, Totals
<1>4. T = {a \in S : AmortRemaining(L.assets[a]) = 0 \/ L.assets[a].purchaseAmount = 0}
  <2>1. \A a \in S : Depreciation(L.assets[a]) = Zero
                       <=> (AmortRemaining(L.assets[a]) = 0 \/ L.assets[a].purchaseAmount = 0)
    BY CostIsFraction
  <2>2. QED
    BY <2>1
<1> HIDE DEF T, U
<1>5. Cardinality(U) = Cardinality(S) - Cardinality(T) /\ Cardinality(S) \in Nat /\ Cardinality(T) \in Nat
  <2>1. IsFiniteSet(T)
    BY <1>1, <1>2, FS_Subset
  <2>2. Cardinality(S \ T) = Cardinality(S) - Cardinality(S \cap T)
    BY <1>1, FS_Difference
  <2>3. QED
    BY <1>1, <1>2, <2>1, <2>2, FS_CardinalityType
<1>6. QED
  BY <1>3, <1>4, <1>5

\* The fees are split to the last unit, but for those nobody shares.
LEMMA FeesAreSplit ==
  ASSUME NEW L \in Lists, Dated(L)
  PROVE  Plus(Totals(L).monthlyColo,
              SumOf({d \in Dcs(L) : PowerIn(L, d) = 0}, LAMBDA d : <<L.dcs[d].coloMonthly, 1>>))
           = <<TotalColo(L), 1>>
<1> DEFINE S == Assets(L)
           D == Dcs(L)
           U == {d \in D : PowerIn(L, d) = 0}
           V == D \ U
           G == [a \in S |-> ColoAllocation(L, a)]
           N == [d \in D |-> L.dcs[d].coloMonthly]
           F == [d \in D |-> <<L.dcs[d].coloMonthly, 1>>]
           K == [d \in D |-> Total(G, AssetsIn(L, d))]
           E == [d \in U |-> <<L.dcs[d].coloMonthly, 1>>]
<1>1. IsFiniteSet(S) /\ IsFiniteSet(D) /\ \A d \in D : L.dcs[d].coloMonthly \in Nat
  BY ListsAreFinite
<1>2. /\ Totals(L).monthlyColo = FoldOf(G) /\ DOMAIN G = S
      /\ TotalColo(L) = CountOf(N) /\ DOMAIN N = D
      /\ SumOf(U, LAMBDA d : <<L.dcs[d].coloMonthly, 1>>) = FoldOf(E) /\ DOMAIN E = U
  <2>1. Totals(L).monthlyColo = FoldOf(G)
    BY DEF Totals, SumOf, FoldOf
  <2>2. TotalColo(L) = CountOf(N)
    BY DEF TotalColo, SumOver, CountOf
  <2>3. SumOf(U, LAMBDA d : <<L.dcs[d].coloMonthly, 1>>) = FoldOf(E)
    BY DEF SumOf, FoldOf
  <2>4. QED
    BY <2>1, <2>2, <2>3
<1>3. Terms(G, S) /\ \A a \in S : G[a] = ColoAllocation(L, a)
  BY CostIsFraction DEF Terms
<1>4. Whole(F, N, D)
  BY <1>1 DEF Whole
<1>5. /\ \A d \in U : E[d] = F[d]
      /\ U \in SUBSET D /\ V \in SUBSET D /\ V \in SUBSET V
  OBVIOUS
<1>6. ASSUME NEW d \in D
      PROVE  K[d] = IF PowerIn(L, d) = 0 THEN Zero ELSE F[d]
  <2>1. K[d] = Total(G, AssetsIn(L, d)) /\ F[d] = <<L.dcs[d].coloMonthly, 1>>
    OBVIOUS
  <2>2. \A a \in AssetsIn(L, d) : G[a] = ColoAllocation(L, a)
    BY <1>3, AssetsInAreAssets
  <2> HIDE DEF G, K, F
  <2>3. QED
    BY <2>1, <2>2, FeeIsSplit
<1>7. /\ \A d \in D \ V : K[d] = Zero
      /\ \A d \in V : K[d] = F[d]
  BY <1>6
<1>8. \A d \in D : K[d] = Total(G, AssetsIn(L, d))
  OBVIOUS
<1>9. \A a \in AstrayIn(L) : G[a] = Zero
  BY <1>3 DEF AstrayIn, ColoAllocation
<1>10. IsFiniteSet(U) /\ IsFiniteSet(V)
  BY <1>1, <1>5, FS_Subset
<1>v. V = D \ U
  OBVIOUS
<1> HIDE DEF E, F, G, K, N, U, V
<1>11. Terms(F, D) /\ Total(F, D) = <<Count(N, D), 1>>
  BY <1>1, <1>4, CountIsTotal
<1>12. Total(G, S) = Plus(Total(K, D), Total(G, AstrayIn(L))) /\ Terms(K, D) /\ IsFiniteSet(AstrayIn(L))
  BY <1>3, <1>8, TotalByDatacenter
<1>13. Total(G, AstrayIn(L)) = Zero
  BY <1>9, <1>12, TotalOfZeros
<1>14. Terms(F, V) /\ Terms(F, U)
  BY <1>5, <1>11, TermsOfSubset
<1>15. Total(K, D) = Total(F, V)
  <2>1. Total(K, D) = Total(K, V)
    BY <1>1, <1>5, <1>7, <1>12, TotalWithoutZeros
  <2>2. Total(K, V) = Total(F, V)
    BY <1>7, <1>10, <1>14, TotalOfSame
  <2>3. QED
    BY <2>1, <2>2
<1>16. Total(E, U) = Total(F, U)
  BY <1>5, <1>10, <1>14, TotalOfSame
<1>17. Total(F, D) = Plus(Total(F, U), Total(F, V))
  BY <1>1, <1>5, <1>11, <1>v, TotalOfParts
<1>18. Total(F, U) \in Fractions /\ Total(F, V) \in Fractions
  BY <1>10, <1>14, TotalIsFraction
<1>19. /\ FoldOf(G) = Total(G, S) /\ FoldOf(E) = Total(E, U) /\ CountOf(N) = Count(N, D)
  BY <1>2, SumsAreTotals
<1>20. Total(G, S) = Total(F, V)
  BY <1>12, <1>13, <1>15, <1>18, PlusZero
<1>21. Plus(Total(F, V), Total(F, U)) = <<Count(N, D), 1>>
  BY <1>11, <1>17, <1>18, PlusCommutes
<1>22. Plus(FoldOf(G), FoldOf(E)) = <<CountOf(N), 1>>
  BY <1>16, <1>19, <1>20, <1>21
<1>23. QED
  BY <1>2, <1>22 DEF U

\* The figures of the pages agree, though each of them is computed anew: the
\* totals (data.ts), the overview, and the pages of the hardware and of the
\* datacenters.
THEOREM FiguresAgree == Spec => [](Dated(page) => PagesAgree)
<1>1. EstimateInv => (Dated(page) => PagesAgree)
  <2>1. SUFFICES ASSUME EstimateInv, Dated(page)
                 PROVE  PagesAgree
    OBVIOUS
  <2>2. page \in Lists
    BY <2>1 DEF EstimateInv, Good
  <2>3. /\ Totals(page).monthlyTotal = CostOf(page, Assets(page))
        /\ Plus(SumOf(Dcs(page), LAMBDA d : ByDc(page, d)), CostOf(page, AstrayIn(page)))
             = CostOf(page, Assets(page))
    BY <2>1, <2>2, TotalsAreCosts
  <2>4. /\ SumOf(AssetTypes, LAMBDA type : HardwareSum(page, {type}, DcIds)) = CostOf(page, Assets(page))
        /\ \A d \in Dcs(page) : HardwareSum(page, AssetTypes, {d}) = ByDc(page, d)
    BY <2>1, <2>2, TypesMakeTheTotal
  <2>5. /\ PaidOff(page) + Totals(page).activeAmort = Cardinality(Assets(page))
        /\ PaidOff(page) = Cardinality({a \in Assets(page) : \/ AmortRemaining(page.assets[a]) = 0
                                                            \/ page.assets[a].purchaseAmount = 0})
    BY <2>1, <2>2, PaidOffIsCounted
  <2>6. Plus(Totals(page).monthlyColo,
             SumOf({d \in Dcs(page) : PowerIn(page, d) = 0}, LAMBDA d : <<page.dcs[d].coloMonthly, 1>>))
          = <<TotalColo(page), 1>>
    BY <2>1, <2>2, FeesAreSplit
  <2>7. AstrayIn(page) = {a \in Assets(page) : page.assets[a].dcId \notin Dcs(page)}
    BY DEF AstrayIn
  <2>8. QED
    BY <2>3, <2>4, <2>5, <2>6, <2>7 DEF PagesAgree
<1>2. QED
  BY <1>1, EstimateInvariant, PTL
=============================================================================
