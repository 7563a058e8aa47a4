-------------------------- MODULE InventoryProofs --------------------------
(***************************************************************************)
(* Proofs about Inventory: its type invariant with the keys of the tables, *)
(* that nothing is placed in a datacenter that does not exist, and what a  *)
(* read of the hardware is worth while it is edited; for any number of     *)
(* datacenters, servers, hardware and workloads.                           *)
(***************************************************************************)
EXTENDS Inventory, TLAPS

ReadState == [pc : {"idle", "reading", "done"}, listed : SUBSET Datacenters,
              servers : SUBSET Datacenters, hardware : SUBSET Datacenters,
              found : SUBSET (Assets \X Datacenters)]

Columns ==
    /\ datacenters \in [Datacenters -> Datacenter \cup {Absent}]
    /\ assets \in [Assets -> Asset \cup {Absent}]
    /\ placed \in [Workloads -> Datacenters \cup {Absent}]
    /\ used \subseteq Datacenters \cup Assets \cup Workloads

Keys ==
    /\ \A d \in Datacenters : Present(d) => NameFree(d, datacenters[d].name)
    /\ \A x \in Assets : assets[x] # Absent => KeyFree(x, assets[x])

\* The datacenters that a read has asked for what is in the table of x.
Asked(x) == IF x \in Servers THEN read.servers ELSE read.hardware

\* A read goes through what it has listed, servers before hardware, and has
\* found what nobody has touched where it is.
ReadInv ==
    /\ read \in ReadState
    /\ changed \subseteq Assets
    /\ read.hardware \subseteq read.servers
    /\ read.servers \subseteq read.listed
    /\ read.pc = "done" => read.hardware = read.listed
    /\ read.pc = "idle" => read = NoRead
    /\ \A x \in Assets \ changed : \A d \in Datacenters :
          <<x, d>> \in read.found <=>
             (d \in Asked(x) /\ assets[x] # Absent /\ assets[x].dc = d)

Inv ==
    /\ Columns
    /\ Keys
    /\ PlacesExist
    /\ ReadInv

-----------------------------------------------------------------------------
(***************************************************************************)
(* Reads and edits                                                         *)
(***************************************************************************)

LEMMA EmptyRead ==
  ASSUME NEW S \in SUBSET Datacenters, NEW pc \in {"idle", "reading"}
  PROVE  [NoRead EXCEPT !.pc = pc, !.listed = S] \in ReadState
  BY DEF NoRead, ReadState

\* An edit leaves the read sound, as what it edits is marked.
LEMMA EditsKeepRead ==
  ASSUME ReadInv, NEW ids \in SUBSET Assets, Edit(ids),
         \A x \in Assets \ ids : assets'[x] = assets[x]
  PROVE  ReadInv'
<1>1. read' = read
  BY DEF Edit
<1>2. CASE read.pc = "idle"
  <2>1. changed' = {}
    BY <1>2 DEF Edit
  <2>2. read = NoRead
    BY <1>2 DEF ReadInv
  <2>3. read.servers = {} /\ read.hardware = {} /\ read.found = {}
    BY <2>2 DEF NoRead
  <2>4. QED
    BY <1>1, <2>1, <2>3 DEF ReadInv, Asked
<1>3. CASE read.pc # "idle"
  <2>1. changed' = changed \cup ids
    BY <1>3 DEF Edit
  <2>2. QED
    BY <1>1, <2>1 DEF ReadInv, Asked
<1>4. QED
  BY <1>2, <1>3

\* A workload's or a server's datacenter is there as long as it is not deleted.
LEMMA PlacesStay ==
  ASSUME PlacesExist, UNCHANGED <<assets, placed>>,
         \A d \in Datacenters : Present(d) => Present(d)',
         Columns
  PROVE  PlacesExist'
<1>1. \A x \in Assets : assets[x] # Absent => assets[x].dc \in Datacenters
  BY AbsentAssumption DEF Columns, Asset
<1>2. \A w \in Workloads : placed[w] # Absent => placed[w] \in Datacenters
  BY DEF Columns
<1>3. QED
  BY <1>1, <1>2 DEF PlacesExist

-----------------------------------------------------------------------------
(***************************************************************************)
(* Datacenters                                                             *)
(***************************************************************************)

\* Creating and updating a datacenter are alike.
LEMMA NamedDatacenter ==
  ASSUME Inv, NEW d \in Datacenters, NEW n \in Names, NEW r \in Regions,
         NameFree(d, n),
         datacenters' = [datacenters EXCEPT ![d] = [name |-> n, region |-> r]],
         used' \subseteq Datacenters \cup Assets \cup Workloads,
         Edit({}), UNCHANGED <<assets, placed>>
  PROVE  Inv'
<1> DEFINE row == [name |-> n, region |-> r]
<1>1. row \in Datacenter /\ row # Absent /\ row.name = n
  BY AbsentAssumption DEF Datacenter
<1>2. \A e \in Datacenters : datacenters'[e] = IF e = d THEN row ELSE datacenters[e]
  BY DEF Inv, Columns
<1>3. Columns'
  BY <1>1 DEF Inv, Columns
<1>4. \A e \in Datacenters : Present(e)' <=> (e = d \/ Present(e))
  BY <1>1, <1>2 DEF Present
<1>5. \A e \in Datacenters : Present(e)' => NameFree(e, datacenters[e].name)'
  BY <1>1, <1>2, <1>4 DEF Inv, Keys, NameFree
<1>6. \A x \in Assets : assets'[x] # Absent => KeyFree(x, assets[x])'
  BY DEF Inv, Keys, KeyFree, Table
<1>7. PlacesExist'
  BY <1>4, PlacesStay DEF Inv
<1>8. ReadInv'
  BY EditsKeepRead DEF Inv
<1>9. QED
  BY <1>3, <1>5, <1>6, <1>7, <1>8 DEF Inv, Keys

LEMMA DeletedDatacenter ==
  ASSUME Inv, NEW d \in Datacenters, DeleteDatacenter(d)
  PROVE  Inv'
<1>1. \A e \in Datacenters : datacenters'[e] = IF e = d THEN Absent ELSE datacenters[e]
  BY DEF Inv, Columns, DeleteDatacenter
<1>2. AssetsIn(Hardware, d) \in SUBSET Assets
  BY DEF AssetsIn, Assets
<1>3. \A x \in Assets : assets'[x] = IF x \in AssetsIn(Hardware, d) THEN Absent ELSE assets[x]
  BY DEF DeleteDatacenter
<1>4. Columns'
  <2>1. datacenters' \in [Datacenters -> Datacenter \cup {Absent}]
    BY DEF Inv, Columns, DeleteDatacenter
  <2>2. assets' \in [Assets -> Asset \cup {Absent}]
    BY DEF Inv, Columns, DeleteDatacenter
  <2>3. QED
    BY <2>1, <2>2 DEF Inv, Columns, DeleteDatacenter
<1>5. \A e \in Datacenters : Present(e)' <=> (e # d /\ Present(e))
  BY <1>1 DEF Present
<1>6. \A e \in Datacenters : Present(e)' => NameFree(e, datacenters[e].name)'
  BY <1>1, <1>5 DEF Inv, Keys, NameFree
<1>7. \A x \in Assets : assets'[x] # Absent => KeyFree(x, assets[x])'
  <2> SUFFICES ASSUME NEW x \in Assets, assets'[x] # Absent, NEW y \in Table(x) \ {x}
               PROVE  assets'[y] # assets'[x]
    BY DEF KeyFree, Table
  <2>1. y \in Assets
    BY DEF Table, Assets
  <2>2. assets[x] # assets[y] /\ assets'[x] = assets[x]
    BY <1>3 DEF Inv, Keys, KeyFree
  <2>3. QED
    BY <1>3, <2>1, <2>2
<1>8. PlacesExist'
  <2>1. \A x \in Assets : assets'[x] # Absent => datacenters'[assets'[x].dc] # Absent
    <3> SUFFICES ASSUME NEW x \in Assets, assets'[x] # Absent
                 PROVE  datacenters'[assets'[x].dc] # Absent
      OBVIOUS
    <3>1. assets'[x] = assets[x] /\ x \notin AssetsIn(Hardware, d)
      BY <1>3
    <3>2. x \notin AssetsIn(Servers, d)
      BY DEF DeleteDatacenter
    <3>3. assets[x].dc # d
      BY <3>1, <3>2 DEF AssetsIn, Assets
    <3>4. assets[x].dc \in Datacenters
      BY <3>1, AbsentAssumption DEF Inv, Columns, Asset
    <3>5. QED
      BY <1>5, <3>1, <3>3, <3>4 DEF Inv, PlacesExist, Present
  <2>2. \A w \in Workloads : placed'[w] # Absent => datacenters'[placed'[w]] # Absent
    BY <1>5 DEF Inv, Columns, PlacesExist, Present, DeleteDatacenter
  <2>3. QED
    BY <2>1, <2>2 DEF PlacesExist, Present
<1>9. ReadInv'
  BY <1>2, <1>3, EditsKeepRead DEF Inv, DeleteDatacenter
<1>10. QED
  BY <1>4, <1>6, <1>7, <1>8, <1>9 DEF Inv, Keys

-----------------------------------------------------------------------------
(***************************************************************************)
(* Servers and hardware                                                    *)
(***************************************************************************)

\* So are creating and updating a server or a piece of hardware.
LEMMA PlacedAsset ==
  ASSUME Inv, NEW x \in Assets, NEW a \in Asset, Present(a.dc), KeyFree(x, a),
         assets' = [assets EXCEPT ![x] = a],
         used' \subseteq Datacenters \cup Assets \cup Workloads,
         Edit({x}), UNCHANGED <<datacenters, placed>>
  PROVE  Inv'
<1>1. a # Absent
  BY AbsentAssumption
<1>2. \A y \in Assets : assets'[y] = IF y = x THEN a ELSE assets[y]
  BY DEF Inv, Columns
<1>3. Columns'
  BY DEF Inv, Columns
<1>4. \A e \in Datacenters : Present(e)' => NameFree(e, datacenters[e].name)'
  BY DEF Inv, Keys, NameFree, Present
<1>5. \A y \in Assets : assets'[y] # Absent => KeyFree(y, assets[y])'
  <2> SUFFICES ASSUME NEW y \in Assets, assets'[y] # Absent, NEW z \in Table(y) \ {y}
               PROVE  assets'[z] # assets'[y]
    BY DEF KeyFree, Table
  <2>1. z \in Assets /\ Table(z) = Table(y) /\ y \in Table(z)
    BY IdsAssumption DEF Table, Assets
  <2>2. CASE y = x
    BY <1>2, <2>1, <2>2 DEF KeyFree
  <2>3. CASE z = x
    BY <1>2, <2>1, <2>3 DEF KeyFree
  <2>4. CASE y # x /\ z # x
    BY <1>2, <2>1, <2>4 DEF Inv, Keys, KeyFree
  <2>5. QED
    BY <2>2, <2>3, <2>4
<1>6. PlacesExist'
  BY <1>2 DEF Inv, PlacesExist, Present
<1>7. ReadInv'
  BY <1>2, EditsKeepRead DEF Inv
<1>8. QED
  BY <1>3, <1>4, <1>5, <1>6, <1>7 DEF Inv, Keys

LEMMA DeletedAsset ==
  ASSUME Inv, NEW x \in Assets, DeleteAsset(x)
  PROVE  Inv'
<1>1. \A y \in Assets : assets'[y] = IF y = x THEN Absent ELSE assets[y]
  BY DEF Inv, Columns, DeleteAsset
<1>2. Columns'
  BY DEF Inv, Columns, DeleteAsset
<1>3. \A e \in Datacenters : Present(e)' => NameFree(e, datacenters[e].name)'
  BY DEF Inv, Keys, NameFree, Present, DeleteAsset
<1>4. \A y \in Assets : assets'[y] # Absent => KeyFree(y, assets[y])'
  <2> SUFFICES ASSUME NEW y \in Assets, assets'[y] # Absent, NEW z \in Table(y) \ {y}
               PROVE  assets'[z] # assets'[y]
    BY DEF KeyFree, Table
  <2>1. z \in Assets
    BY DEF Table, Assets
  <2>2. assets'[y] = assets[y] /\ assets[z] # assets[y]
    BY <1>1 DEF Inv, Keys, KeyFree
  <2>3. QED
    BY <1>1, <2>1, <2>2
<1>5. PlacesExist'
  BY <1>1 DEF Inv, PlacesExist, Present, DeleteAsset
<1>6. ReadInv'
  BY <1>1, EditsKeepRead DEF Inv, DeleteAsset
<1>7. QED
  BY <1>2, <1>3, <1>4, <1>5, <1>6 DEF Inv, Keys

-----------------------------------------------------------------------------
(***************************************************************************)
(* Workloads                                                               *)
(***************************************************************************)
LEMMA PlacedWorkload ==
  ASSUME Inv, NEW w \in Workloads, NEW d \in Datacenters \cup {Absent},
         d # Absent => Present(d),
         placed' = [placed EXCEPT ![w] = d],
         used' \subseteq Datacenters \cup Assets \cup Workloads,
         Edit({}), UNCHANGED <<datacenters, assets>>
  PROVE  Inv'
<1>1. Columns'
  BY DEF Inv, Columns
<1>2. Keys'
  BY DEF Inv, Keys, NameFree, KeyFree, Table, Present
<1>3. PlacesExist'
  BY DEF Inv, Columns, PlacesExist, Present
<1>4. ReadInv'
  BY EditsKeepRead DEF Inv
<1>5. QED
  BY <1>1, <1>2, <1>3, <1>4 DEF Inv

-----------------------------------------------------------------------------
(***************************************************************************)
(* The read                                                                *)
(***************************************************************************)

\* The steps of a read leave the tables alone.
LEMMA TablesStay ==
  ASSUME Inv, UNCHANGED tables
  PROVE  Columns' /\ Keys' /\ PlacesExist'
  BY DEF Inv, tables, Columns, Keys, NameFree, KeyFree, Table, Present, PlacesExist

LEMMA ReadStarted ==
  ASSUME Inv, NEW n, NEW r, ListDatacenters(n, r)
  PROVE  ReadInv'
<1> DEFINE S == {d \in Datacenters : Matches(d, n, r)}
<1>1. read' = [NoRead EXCEPT !.pc = "reading", !.listed = S]
  BY DEF ListDatacenters
<1>2. read' \in ReadState
  BY <1>1, EmptyRead
<1>3. read'.pc = "reading" /\ read'.servers = {} /\ read'.hardware = {} /\ read'.found = {}
  BY <1>1 DEF NoRead
<1>4. changed' = {}
  BY DEF ListDatacenters
<1>5. QED
  BY <1>2, <1>3, <1>4 DEF ReadInv, Asked

LEMMA ServersRead ==
  ASSUME Inv, NEW d \in Datacenters, ReadServers(d)
  PROVE  ReadInv'
<1>1. /\ assets' = assets /\ changed' = changed /\ read.pc = "reading"
      /\ d \in read.listed
      /\ read' = [read EXCEPT !.servers = @ \cup {d},
                              !.found = @ \cup Found(Servers, d)]
  BY DEF ReadServers, tables
<1>2. Found(Servers, d) \in SUBSET (Assets \X Datacenters)
  BY DEF Found, AssetsIn, Assets
<1>3. read \in ReadState
  BY DEF Inv, ReadInv
<1>4. /\ read' \in ReadState
      /\ read'.pc = "reading"
      /\ read'.listed = read.listed
      /\ read'.servers = read.servers \cup {d}
      /\ read'.hardware = read.hardware
      /\ read'.found = read.found \cup Found(Servers, d)
  BY <1>1, <1>2, <1>3 DEF ReadState
<1>5. ASSUME NEW x \in Assets \ changed, NEW e \in Datacenters
      PROVE  <<x, e>> \in read'.found <=>
                (e \in Asked(x)' /\ assets[x] # Absent /\ assets[x].dc = e)
  <2>1. <<x, e>> \in Found(Servers, d) <=>
           (e = d /\ x \in Servers /\ assets[x] # Absent /\ assets[x].dc = d)
    BY DEF Found, AssetsIn
  <2>2. Asked(x)' = IF x \in Servers THEN Asked(x) \cup {d} ELSE Asked(x)
    BY <1>4 DEF Asked
  <2>3. <<x, e>> \in read.found <=>
           (e \in Asked(x) /\ assets[x] # Absent /\ assets[x].dc = e)
    BY DEF Inv, ReadInv
  <2>4. QED
    BY <1>4, <2>1, <2>2, <2>3
<1>6. QED
  BY <1>1, <1>4, <1>5 DEF Inv, ReadInv

LEMMA HardwareRead ==
  ASSUME Inv, NEW d \in Datacenters, ReadHardware(d)
  PROVE  ReadInv'
<1>1. /\ assets' = assets /\ changed' = changed /\ read.pc = "reading"
      /\ d \in read.servers
      /\ read' = [read EXCEPT !.hardware = @ \cup {d},
                              !.found = @ \cup Found(Hardware, d)]
  BY DEF ReadHardware, tables
<1>2. Found(Hardware, d) \in SUBSET (Assets \X Datacenters)
  BY DEF Found, AssetsIn, Assets
<1>3. read \in ReadState
  BY DEF Inv, ReadInv
<1>4. /\ read' \in ReadState
      /\ read'.pc = "reading"
      /\ read'.listed = read.listed
      /\ read'.servers = read.servers
      /\ read'.hardware = read.hardware \cup {d}
      /\ read'.found = read.found \cup Found(Hardware, d)
  BY <1>1, <1>2, <1>3 DEF ReadState
<1>5. ASSUME NEW x \in Assets \ changed, NEW e \in Datacenters
      PROVE  <<x, e>> \in read'.found <=>
                (e \in Asked(x)' /\ assets[x] # Absent /\ assets[x].dc = e)
  <2>1. <<x, e>> \in Found(Hardware, d) <=>
           (e = d /\ x \in Hardware /\ assets[x] # Absent /\ assets[x].dc = d)
    BY DEF Found, AssetsIn
  <2>2. Asked(x)' = IF x \in Servers THEN Asked(x) ELSE Asked(x) \cup {d}
    BY <1>4 DEF Asked
  <2>3. x \in Hardware <=> x \notin Servers
    BY IdsAssumption DEF Assets
  <2>4. <<x, e>> \in read.found <=>
           (e \in Asked(x) /\ assets[x] # Absent /\ assets[x].dc = e)
    BY DEF Inv, ReadInv
  <2>5. QED
    BY <1>4, <2>1, <2>2, <2>3, <2>4
<1>6. QED
  BY <1>1, <1>4, <1>5 DEF Inv, ReadInv

LEMMA ReadEnded ==
  ASSUME Inv, EndRead
  PROVE  ReadInv'
<1>1. read' = [read EXCEPT !.pc = "done"] /\ changed' = changed /\ assets' = assets
  BY DEF EndRead, tables
<1>2. read \in ReadState
  BY DEF Inv, ReadInv
<1>3. /\ read' \in ReadState
      /\ read'.pc = "done"
      /\ read'.listed = read.listed
      /\ read'.servers = read.servers
      /\ read'.hardware = read.hardware
      /\ read'.found = read.found
  BY <1>1, <1>2 DEF ReadState
<1>4. read.hardware = read.listed
  BY DEF EndRead
<1>5. QED
  BY <1>1, <1>3, <1>4 DEF Inv, ReadInv, Asked

LEMMA ReadClosed ==
  ASSUME Inv, CloseRead
  PROVE  ReadInv'
<1>1. read' = NoRead /\ changed' = {}
  BY DEF CloseRead
<1>2. QED
  BY <1>1 DEF ReadInv, ReadState, NoRead, Asked

-----------------------------------------------------------------------------
(***************************************************************************)
(* The invariant                                                           *)
(***************************************************************************)
LEMMA InitInv ==
  Init => Inv
<1> SUFFICES ASSUME Init PROVE Inv
  OBVIOUS
<1>1. Columns
  BY DEF Init, Columns
<1>2. Keys /\ PlacesExist
  BY DEF Init, Keys, PlacesExist, Present
<1>3. ReadInv
  BY DEF Init, ReadInv, ReadState, NoRead, Asked
<1>4. QED
  BY <1>1, <1>2, <1>3 DEF Inv

LEMMA NextInv ==
  Inv /\ [Next]_vars => Inv'
<1> SUFFICES ASSUME Inv, [Next]_vars PROVE Inv'
  OBVIOUS
<1>1. ASSUME NEW d \in Datacenters, NEW n \in Names, NEW r \in Regions,
             CreateDatacenter(d, n, r) \/ UpdateDatacenter(d, n, r)
      PROVE  Inv'
  BY <1>1, NamedDatacenter DEF CreateDatacenter, UpdateDatacenter, Inv, Columns
<1>2. ASSUME NEW d \in Datacenters, DeleteDatacenter(d)
      PROVE  Inv'
  BY <1>2, DeletedDatacenter
<1>3. ASSUME NEW x \in Assets, NEW a \in Asset, CreateAsset(x, a) \/ UpdateAsset(x, a)
      PROVE  Inv'
  BY <1>3, PlacedAsset DEF CreateAsset, UpdateAsset, Inv, Columns
<1>4. ASSUME NEW x \in Assets, DeleteAsset(x)
      PROVE  Inv'
  BY <1>4, DeletedAsset
<1>5. ASSUME NEW d \in Datacenters, NEW w \in Workloads, PlaceWorkload(w, d)
      PROVE  Inv'
  BY <1>5, PlacedWorkload DEF PlaceWorkload, Inv, Columns
<1>6. ASSUME NEW w \in Workloads, DeleteWorkload(w)
      PROVE  Inv'
  BY <1>6, PlacedWorkload DEF DeleteWorkload, Inv, Columns
<1>7. ASSUME NEW n, NEW r, ListDatacenters(n, r)
      PROVE  Inv'
  BY <1>7, ReadStarted, TablesStay DEF ListDatacenters, Inv
<1>8. ASSUME NEW d \in Datacenters, ReadServers(d)
      PROVE  Inv'
  BY <1>8, ServersRead, TablesStay DEF ReadServers, Inv, tables
<1>9. ASSUME NEW d \in Datacenters, ReadHardware(d)
      PROVE  Inv'
  BY <1>9, HardwareRead, TablesStay DEF ReadHardware, Inv, tables
<1>10. CASE EndRead
  BY <1>10, ReadEnded, TablesStay DEF EndRead, Inv, tables
<1>11. CASE CloseRead
  BY <1>11, ReadClosed, TablesStay DEF CloseRead, Inv
<1>12. CASE UNCHANGED vars
  <2>1. Columns' /\ Keys' /\ PlacesExist'
    BY <1>12, TablesStay DEF vars, tables
  <2>2. ReadInv'
    BY <1>12 DEF vars, Inv, ReadInv, Asked
  <2>3. QED
    BY <2>1, <2>2 DEF Inv
<1>13. QED
  BY <1>1, <1>2, <1>3, <1>4, <1>5, <1>6, <1>7, <1>8, <1>9, <1>10, <1>11, <1>12 DEF Next

LEMMA Invariance ==
  Spec => []Inv
<1>1. QED
  BY InitInv, NextInv, PTL DEF Spec

-----------------------------------------------------------------------------
\* The tables always have the columns and the keys of the schema.
THEOREM TypeCorrect ==
  Spec => []TypeOK
<1>1. Inv => TypeOK
  BY DEF Inv, Columns, Keys, ReadInv, ReadState, TypeOK
<1>2. QED
  BY <1>1, Invariance, PTL

\* Everything that is placed is placed in a datacenter that exists, in whatever
\* order datacenters, servers, hardware and workloads come and go.
THEOREM NothingIsNowhere ==
  Spec => []PlacesExist
<1>1. Inv => PlacesExist
  BY DEF Inv
<1>2. QED
  BY <1>1, Invariance, PTL

\* GetDatacentersWithHardware has what nobody edited exactly once.
THEOREM ReadCountsOnce ==
  Spec => []UntouchedCountedOnce
<1>1. Inv => UntouchedCountedOnce
  <2> SUFFICES ASSUME Inv, read.pc = "done", NEW x \in Assets \ changed
               PROVE  {d \in Datacenters : <<x, d>> \in read.found}
                         = {d \in read.listed : assets[x] # Absent /\ assets[x].dc = d}
    BY DEF UntouchedCountedOnce
  <2>1. Asked(x) = read.listed /\ read.listed \subseteq Datacenters
    BY DEF Inv, ReadInv, ReadState, Asked
  <2>2. \A d \in Datacenters :
           <<x, d>> \in read.found <=>
              (d \in Asked(x) /\ assets[x] # Absent /\ assets[x].dc = d)
    BY DEF Inv, ReadInv
  <2>3. QED
    BY <2>1, <2>2
<1>2. QED
  BY <1>1, Invariance, PTL
=============================================================================
