------------------------- MODULE ServiceEditProofs -------------------------
(***************************************************************************)
(* Proofs about ServiceEdit: its type invariant, and what holds of the     *)
(* workloads a save replaces, for any number of administrators, services,  *)
(* workloads and failures.                                                 *)
(***************************************************************************)
EXTENDS ServiceEdit, FiniteSetTheorems, TLAPS

Replacing(v) == v.pc \in {"replace", "refresh"}

\* What a save knows of the workloads, given those in the tables and the last
\* id: of what it has read, only what it has still to delete can be there.
Sound(v, table, last) ==
    /\ v.pc \in {"update", "service", "pods", "vms", "replace", "remove"} => v.service \in Services
    /\ v.pc \notin {"vms", "replace", "refresh"} => v.read = {}
    /\ v.pc # "replace" => v.todo = {}
    /\ v.todo \subseteq v.read
    /\ \A r \in v.read : r.id <= last
    /\ Replacing(v) => v.read \cap table \subseteq v.todo

\* A workload that two saves have read is still to be deleted by one of them.
Apart(v, w) ==
    (Replacing(v) /\ Replacing(w)) => v.read \cap w.read \subseteq v.todo \cup w.todo

RowsNumbered == IsFiniteSet(rows) /\ \A r \in rows : r.id <= inserted

Inv ==
    /\ TypeOK
    /\ RowsNumbered
    /\ \A a \in Admins : Sound(save[a], rows, inserted)
    /\ \A a, b \in Admins : a # b => Apart(save[a], save[b])

-----------------------------------------------------------------------------
(***************************************************************************)
(* Saves                                                                   *)
(***************************************************************************)

\* A save that has not read anything is sound, and apart from any other.
LEMMA NewSave ==
  ASSUME NEW pc \in (Calls \ {"vms"}) \cup {"idle", "refresh"},
         NEW s \in {0} \cup Services, NEW name \in {0} \cup Names,
         NEW items \in Seq(Items), NEW onError \in {"stop", "refresh"},
         NEW outcome \in {"ok", "failed"},
         pc \notin {"idle", "create", "refresh"} => s \in Services
  PROVE  LET v == SaveAt(pc, s, name, items, onError, outcome)
         IN  /\ v \in SaveState
             /\ \A table, last : Sound(v, table, last)
             /\ \A w : Apart(v, w)
  BY DEF SaveAt, SaveState, Calls, Sound, Apart, Replacing

LEMMA IdleSave ==
  /\ Idle \in SaveState /\ Aborted \in SaveState
  /\ \A table, last : Sound(Idle, table, last) /\ Sound(Aborted, table, last)
  /\ \A w : Apart(Idle, w) /\ Apart(Aborted, w)
<1>1. <<>> \in Seq(Items)
  OBVIOUS
<1>2. QED
  BY <1>1, NewSave DEF Idle, Aborted

\* So is one that has just been started.
LEMMA StartedSave ==
  ASSUME NEW pc \in {"create", "update", "remove"}, NEW s \in {0} \cup Services,
         NEW name \in {0} \cup Names, NEW items \in Seq(Items),
         pc # "create" => s \in Services
  PROVE  /\ Start(pc, s, name, items) \in SaveState
         /\ \A table, last : Sound(Start(pc, s, name, items), table, last)
         /\ \A w : Apart(Start(pc, s, name, items), w)
<1>1. pc \in (Calls \ {"vms"}) \cup {"idle", "refresh"}
  BY DEF Calls
<1>2. (IF pc = "create" THEN "stop" ELSE "refresh") \in {"stop", "refresh"}
  OBVIOUS
<1>3. QED
  BY <1>1, <1>2, NewSave DEF Start

\* Failing and ending keep a save sound and apart.
LEMMA FailedSave ==
  ASSUME NEW a \in Admins
  PROVE  /\ Failed(a) \in SaveState
         /\ \A table, last : Sound(Failed(a), table, last)
         /\ \A w : Apart(Failed(a), w)
  BY IdleSave DEF Failed

LEMMA EndedSave ==
  ASSUME NEW v \in SaveState, NEW table, NEW last, Sound(v, table, last)
  PROVE  /\ AfterReplacing(v) \in SaveState
         /\ Sound(AfterReplacing(v), table, last)
         /\ \A w : Apart(v, w) => Apart(AfterReplacing(v), w)
<1>1. CASE v.pc = "replace" /\ v.todo = {} /\ v.items = <<>>
  <2>1. AfterReplacing(v) = [v EXCEPT !.pc = "refresh"]
    BY <1>1 DEF AfterReplacing
  <2>2. QED
    BY <1>1, <2>1 DEF SaveState, Sound, Apart, Replacing
<1>2. CASE ~(v.pc = "replace" /\ v.todo = {} /\ v.items = <<>>)
  BY <1>2 DEF AfterReplacing
<1>3. QED
  BY <1>1, <1>2

-----------------------------------------------------------------------------
(***************************************************************************)
(* Steps                                                                   *)
(***************************************************************************)

\* What a step leaves alone: the other tables, and rows that are not new.
Types ==
    /\ owner' \in [Names -> {0} \cup Services]
    /\ deleted' \subseteq Services
    /\ view' \in [Admins -> SUBSET Services]
    /\ draft' \in [Admins -> [service : {0} \cup Services, items : Seq(Items)]]
    /\ failures' \in 0..MaxFailures

Grown ==
    /\ rows' \subseteq Rows
    /\ IsFiniteSet(rows')
    /\ inserted' \in 0..MaxRows
    /\ inserted <= inserted'
    /\ \A r \in rows' : r.id <= inserted' /\ (r \in rows \/ inserted < r.id)

LEMMA RowsStay ==
  ASSUME Inv, UNCHANGED <<rows, inserted>>
  PROVE  Grown
  BY BoundsAssumption DEF Inv, TypeOK, RowsNumbered, Grown

\* A step that gives one save a sound state, apart from the others, keeps the
\* invariant.
LEMMA SaveStep ==
  ASSUME Inv, Types, Grown, NEW a \in Admins, NEW v \in SaveState,
         save' = [save EXCEPT ![a] = v],
         Sound(v, rows', inserted'),
         \A b \in Admins : a # b => Apart(v, save[b])
  PROVE  Inv'
<1>1. save \in [Admins -> SaveState] /\ save' \in [Admins -> SaveState]
  BY DEF Inv, TypeOK
<1>2. save'[a] = v /\ \A b \in Admins : a # b => save'[b] = save[b]
  BY <1>1
<1>3. ASSUME NEW b \in Admins, a # b
      PROVE  Sound(save[b], rows', inserted')
  <2>1. Sound(save[b], rows, inserted)
    BY DEF Inv
  <2>2. save[b].read \subseteq Rows /\ inserted \in Nat /\ inserted' \in Nat
    BY <1>1, BoundsAssumption DEF SaveState, Inv, TypeOK, Grown
  <2>3. \A r \in save[b].read : r.id \in Nat /\ r.id <= inserted
    BY <2>1, <2>2 DEF Sound, Rows, RowIds
  <2>4. save[b].read \cap rows' \subseteq save[b].read \cap rows
    BY <2>2, <2>3 DEF Grown
  <2>5. \A r \in save[b].read : r.id <= inserted'
    BY <2>2, <2>3 DEF Grown
  <2>6. QED
    BY <2>1, <2>4, <2>5 DEF Sound
<1>4. \A b \in Admins : Sound(save'[b], rows', inserted')
  BY <1>2, <1>3
<1>5. ASSUME NEW b \in Admins, NEW c \in Admins, b # c
      PROVE  Apart(save'[b], save'[c])
  <2>1. CASE b = a
    BY <2>1, <1>2, <1>5
  <2>2. CASE c = a
    <3>1. Apart(v, save[b])
      BY <2>2, <1>5
    <3>2. QED
      BY <2>2, <3>1, <1>2, <1>5 DEF Apart
  <2>3. CASE b # a /\ c # a
    BY <2>3, <1>2, <1>5 DEF Inv
  <2>4. QED
    BY <2>1, <2>2, <2>3
<1>6. TypeOK'
  BY <1>1 DEF TypeOK, Types, Grown
<1>7. RowsNumbered'
  BY DEF RowsNumbered, Grown
<1>8. QED
  BY <1>4, <1>5, <1>6, <1>7 DEF Inv

\* The same of a step that ends with an answer, which may get lost.
LEMMA AnswerStep ==
  ASSUME Inv, Grown, NEW a \in Admins, NEW next \in SaveState, Answer(a, next),
         owner' \in [Names -> {0} \cup Services], deleted' \subseteq Services,
         UNCHANGED <<view, draft>>,
         Sound(next, rows', inserted'),
         \A b \in Admins : a # b => Apart(next, save[b])
  PROVE  Inv'
<1>1. failures' \in 0..MaxFailures
  BY BoundsAssumption DEF Answer, Inv, TypeOK
<1>2. Types
  BY <1>1 DEF Types, Inv, TypeOK
<1>3. CASE save' = [save EXCEPT ![a] = AfterReplacing(next)]
  <2> DEFINE v == AfterReplacing(next)
  <2>1. v \in SaveState /\ Sound(v, rows', inserted')
        /\ \A b \in Admins : a # b => Apart(v, save[b])
    BY EndedSave
  <2>2. save' = [save EXCEPT ![a] = v]
    BY <1>3
  <2> HIDE DEF v
  <2>3. QED
    BY <1>2, <2>1, <2>2, SaveStep
<1>4. CASE save' = [save EXCEPT ![a] = Failed(a)]
  BY <1>2, <1>4, FailedSave, SaveStep
<1>5. QED
  BY <1>3, <1>4 DEF Answer

\* And of a refused one.
LEMMA RefusedStep ==
  ASSUME Inv, NEW a \in Admins, Refuse(a), UNCHANGED <<view, draft>>
  PROVE  Inv'
<1>1. Types /\ Grown
  BY RowsStay DEF Refuse, tables, Types, Inv, TypeOK
<1>2. save' = [save EXCEPT ![a] = Failed(a)]
  BY DEF Refuse
<1>3. QED
  BY <1>1, <1>2, FailedSave, SaveStep

\* A step that answers without writing, with what it has read.
LEMMA ReadStep ==
  ASSUME Inv, NEW a \in Admins, NEW next \in SaveState, Answer(a, next),
         UNCHANGED <<tables, view, draft>>,
         Sound(next, rows, inserted),
         \A b \in Admins : a # b => Apart(next, save[b])
  PROVE  Inv'
<1>1. Grown
  BY RowsStay DEF tables
<1>2. owner' \in [Names -> {0} \cup Services] /\ deleted' \subseteq Services
  BY DEF tables, Inv, TypeOK
<1>3. Sound(next, rows', inserted')
  BY DEF tables
<1>4. QED
  BY <1>1, <1>2, <1>3, AnswerStep

\* The services that there are.
LEMMA LiveServices == Live \subseteq Services
  BY DEF Live, Created

-----------------------------------------------------------------------------
(***************************************************************************)
(* The browser                                                             *)
(***************************************************************************)

\* A step that leaves the saves and the tables alone.
LEMMA ViewStep ==
  ASSUME Inv, UNCHANGED <<tables, save, failures>>,
         view' \in [Admins -> SUBSET Services],
         draft' \in [Admins -> [service : {0} \cup Services, items : Seq(Items)]]
  PROVE  Inv'
<1>1. UNCHANGED <<owner, deleted, rows, inserted, save, failures>>
  BY DEF tables
<1>2. TypeOK' /\ RowsNumbered'
  BY <1>1 DEF Inv, TypeOK, RowsNumbered
<1>3. (\A a \in Admins : Sound(save[a], rows, inserted))'
      /\ (\A a, b \in Admins : a # b => Apart(save[a], save[b]))'
  BY <1>1 DEF Inv
<1>4. QED
  BY <1>2, <1>3 DEF Inv

\* The workloads of a service, as the browser keeps them.
LEMMA ListedItems ==
  ASSUME TypeOK, RowsNumbered, NEW s,
         NEW pods \in SetToSeqs(RowsOf(s, "pod")), NEW vms \in SetToSeqs(RowsOf(s, "vm"))
  PROVE  [i \in DOMAIN (pods \o vms) |-> MapBackendWorkload((pods \o vms)[i])] \in Seq(Items)
<1>1. ASSUME NEW kind, NEW list \in SetToSeqs(RowsOf(s, kind))
      PROVE  list \in Seq(rows)
  <2>1. IsFiniteSet(RowsOf(s, kind)) /\ RowsOf(s, kind) \subseteq rows
    BY FS_Subset DEF RowsOf, RowsNumbered
  <2>2. Cardinality(RowsOf(s, kind)) \in Nat
    BY <2>1, FS_CardinalityType
  <2>3. list \in [1..Cardinality(RowsOf(s, kind)) -> RowsOf(s, kind)]
    BY DEF SetToSeqs
  <2>4. list \in [1..Cardinality(RowsOf(s, kind)) -> rows]
    BY <2>1, <2>3
  <2>5. QED
    BY <2>2, <2>4
<1>2. pods \o vms \in Seq(rows)
  BY <1>1
<1> DEFINE list == pods \o vms
<1>3. Len(list) \in Nat /\ DOMAIN list = 1..Len(list) /\ \A i \in 1..Len(list) : list[i] \in Rows
  BY <1>2 DEF TypeOK
<1>4. \A r \in Rows : MapBackendWorkload(r) \in Items
  BY DEF MapBackendWorkload, Rows, Items, Hosts
<1> HIDE DEF list
<1>5. [i \in DOMAIN list |-> MapBackendWorkload(list[i])] \in [1..Len(list) -> Items]
  BY <1>3, <1>4
<1>6. [i \in DOMAIN list |-> MapBackendWorkload(list[i])] \in Seq(Items)
  BY <1>3, <1>5
<1>7. QED
  BY <1>6 DEF list

\* A user's action keeps the invariant.
LEMMA BrowseStep ==
  ASSUME Inv, NEW a \in Admins, Browse(a)
  PROVE  Inv'
<1> USE DEF Inv
<1>1. CASE Reload(a)
  <2>1. view' \in [Admins -> SUBSET Services]
    BY <1>1, LiveServices DEF Reload, TypeOK
  <2>2. QED
    BY <1>1, <2>1, ViewStep DEF Reload, TypeOK
<1>2. ASSUME NEW s \in Services, Open(a, s)
      PROVE  Inv'
  <2>1. PICK pods \in SetToSeqs(RowsOf(s, "pod")), vms \in SetToSeqs(RowsOf(s, "vm")) :
          draft' = [draft EXCEPT ![a] =
                      [service |-> s, items |-> [i \in DOMAIN (pods \o vms) |->
                                                   MapBackendWorkload((pods \o vms)[i])]]]
    BY <1>2 DEF Open
  <2> DEFINE list == [i \in DOMAIN (pods \o vms) |-> MapBackendWorkload((pods \o vms)[i])]
  <2>2. list \in Seq(Items)
    BY ListedItems
  <2>3. draft' = [draft EXCEPT ![a] = [service |-> s, items |-> list]]
    BY <2>1
  <2> HIDE DEF list
  <2>4. draft' \in [Admins -> [service : {0} \cup Services, items : Seq(Items)]]
    BY <2>2, <2>3 DEF TypeOK
  <2>5. QED
    BY <1>2, <2>4, ViewStep DEF Open, TypeOK
<1>3. ASSUME NEW v \in SaveState, save' = [save EXCEPT ![a] = v],
             \A table, last : Sound(v, table, last), \A w : Apart(v, w),
             UNCHANGED <<tables, failures>>,
             view' \in [Admins -> SUBSET Services],
             draft' \in [Admins -> [service : {0} \cup Services, items : Seq(Items)]]
      PROVE  Inv'
  <2>1. Types /\ Grown
    BY <1>3, RowsStay DEF tables, Types, TypeOK
  <2>2. QED
    BY <1>3, <2>1, SaveStep
<1>4. \A items \in Forms : items \in Seq(Items)
  BY FormsAssumption
<1>5. ASSUME NEW n \in Names, NEW items \in Forms, AddService(a, n, items)
      PROVE  Inv'
  <2> DEFINE v == Start("create", 0, n, items)
  <2>1. v \in SaveState /\ (\A table, last : Sound(v, table, last)) /\ \A w : Apart(v, w)
    BY <1>4, StartedSave
  <2>2. save' = [save EXCEPT ![a] = v]
    BY <1>5 DEF AddService
  <2> HIDE DEF v
  <2>3. QED
    BY <1>3, <1>5, <2>1, <2>2 DEF AddService, TypeOK
<1>6. ASSUME NEW n \in Names, NEW items \in Forms \cup {draft[a].items}, EditService(a, n, items)
      PROVE  Inv'
  <2> DEFINE s == draft[a].service
             v == IF s \in view[a] THEN Start("update", s, n, items)
                  ELSE Start("create", 0, n, items)
  <2>1. items \in Seq(Items) /\ s \in Services
    BY <1>4, <1>6 DEF TypeOK, EditService
  <2>2. v \in SaveState /\ (\A table, last : Sound(v, table, last)) /\ \A w : Apart(v, w)
    BY <2>1, StartedSave
  <2>3. save' = [save EXCEPT ![a] = v]
    BY <1>6 DEF EditService
  <2> HIDE DEF v
  <2>4. QED
    BY <1>3, <1>6, <2>2, <2>3 DEF EditService, TypeOK
<1>7. ASSUME NEW s \in Services, RemoveService(a, s)
      PROVE  Inv'
  <2> DEFINE v == Start("remove", s, 0, <<>>)
  <2>1. <<>> \in Seq(Items)
    OBVIOUS
  <2>2. v \in SaveState /\ (\A table, last : Sound(v, table, last)) /\ \A w : Apart(v, w)
    BY <2>1, StartedSave
  <2>3. save' = [save EXCEPT ![a] = v]
    BY <1>7 DEF RemoveService
  <2>4. view' \in [Admins -> SUBSET Services]
    BY <1>7 DEF RemoveService, TypeOK
  <2>5. Closed \in [service : {0} \cup Services, items : Seq(Items)]
    BY <2>1 DEF Closed
  <2>6. draft' \in [Admins -> [service : {0} \cup Services, items : Seq(Items)]]
    BY <1>7, <2>5 DEF RemoveService, TypeOK
  <2> HIDE DEF v
  <2>7. QED
    BY <1>3, <1>7, <2>2, <2>3, <2>4, <2>6 DEF RemoveService
<1>8. QED
  BY <1>1, <1>2, <1>5, <1>6, <1>7 DEF Browse

-----------------------------------------------------------------------------
(***************************************************************************)
(* The calls                                                               *)
(***************************************************************************)

\* A save that moves on without having read anything more.
LEMMA MovedOn ==
  ASSUME Inv, NEW a \in Admins, NEW pc \in Calls \ {"vms"}, NEW s \in Services,
         save[a].pc \notin {"vms", "replace", "refresh"}
  PROVE  LET v == [save[a] EXCEPT !.pc = pc, !.service = s]
         IN  /\ v \in SaveState
             /\ \A table, last : Sound(v, table, last)
             /\ \A w : Apart(v, w)
<1>1. save[a] \in SaveState /\ save[a].read = {} /\ save[a].todo = {}
  BY DEF Inv, TypeOK, Sound
<1>2. QED
  BY <1>1 DEF SaveState, Calls, Sound, Apart, Replacing

LEMMA CallsStep ==
  ASSUME Inv, NEW a \in Admins, Call(a)
  PROVE  Inv'
<1> DEFINE old == save[a]
<1>1. old \in SaveState /\ Sound(old, rows, inserted)
  BY DEF Inv, TypeOK
<1>2. CASE CreateService(a)
  <2> DEFINE s == Cardinality(Created) + 1
             next == [old EXCEPT !.pc = "replace", !.service = s]
  <2>1. CASE Refuse(a)
    BY <1>2, <2>1, RefusedStep DEF CreateService
  <2>2. CASE ~Refuse(a)
    <3>1. /\ old.pc = "create" /\ s \in Services
          /\ owner' = [owner EXCEPT ![old.name] = s]
          /\ UNCHANGED <<deleted, rows, inserted, view, draft>>
          /\ Answer(a, next)
      BY <1>2, <2>2 DEF CreateService
    <3>2. /\ next \in SaveState /\ Sound(next, rows', inserted')
          /\ \A b \in Admins : a # b => Apart(next, save[b])
      BY <3>1, MovedOn DEF Calls
    <3>3. owner' \in [Names -> {0} \cup Services] /\ deleted' \subseteq Services
      BY <3>1 DEF Inv, TypeOK
    <3>4. Grown
      BY <3>1, RowsStay
    <3> HIDE DEF next, s
    <3>5. QED
      BY <3>1, <3>2, <3>3, <3>4, AnswerStep
  <2>3. QED
    BY <2>1, <2>2
<1>3. CASE UpdateService(a)
  <2> DEFINE s == old.service
             next == [old EXCEPT !.pc = "service"]
  <2>1. CASE Refuse(a)
    BY <1>3, <2>1, RefusedStep DEF UpdateService
  <2>2. CASE ~Refuse(a)
    <3>1. /\ old.pc = "update" /\ s \in Live
          /\ owner' = [n \in Names |-> IF n = old.name THEN s
                                       ELSE IF owner[n] = s THEN 0 ELSE owner[n]]
          /\ UNCHANGED <<deleted, rows, inserted, view, draft>>
          /\ Answer(a, next)
      BY <1>3, <2>2 DEF UpdateService
    <3>2. s \in Services /\ next = [old EXCEPT !.pc = "service", !.service = s]
      BY <1>1, <3>1, LiveServices DEF SaveState
    <3>3. /\ next \in SaveState /\ Sound(next, rows', inserted')
          /\ \A b \in Admins : a # b => Apart(next, save[b])
      BY <3>1, <3>2, MovedOn DEF Calls
    <3>4. owner' \in [Names -> {0} \cup Services] /\ deleted' \subseteq Services
      BY <3>1, <3>2 DEF Inv, TypeOK
    <3>5. Grown
      BY <3>1, RowsStay
    <3> HIDE DEF next, s
    <3>6. QED
      BY <3>1, <3>3, <3>4, <3>5, AnswerStep
  <2>3. QED
    BY <2>1, <2>2
<1>4. CASE GetService(a)
  <2> DEFINE next == [old EXCEPT !.pc = "pods"]
  <2>1. CASE Refuse(a)
    BY <1>4, <2>1, RefusedStep DEF GetService
  <2>2. CASE ~Refuse(a)
    <3>1. /\ old.pc = "service" /\ old.service \in Live
          /\ UNCHANGED <<tables, view, draft>> /\ Answer(a, next)
      BY <1>4, <2>2 DEF GetService
    <3>2. old.service \in Services /\ next = [old EXCEPT !.pc = "pods", !.service = old.service]
      BY <1>1, <3>1, LiveServices DEF SaveState
    <3>3. /\ next \in SaveState /\ Sound(next, rows, inserted)
          /\ \A b \in Admins : a # b => Apart(next, save[b])
      BY <3>1, <3>2, MovedOn DEF Calls
    <3> HIDE DEF next
    <3>4. QED
      BY <3>1, <3>3, ReadStep
  <2>3. QED
    BY <2>1, <2>2
<1>5. CASE GetPods(a)
  <2> DEFINE next == [old EXCEPT !.pc = "vms", !.read = RowsOf(old.service, "pod")]
  <2>1. old.pc = "pods" /\ UNCHANGED <<tables, view, draft>> /\ Answer(a, next)
    BY <1>5 DEF GetPods
  <2>2. RowsOf(old.service, "pod") \subseteq rows
    BY DEF RowsOf
  <2>3. rows \subseteq Rows /\ \A r \in rows : r.id <= inserted
    BY DEF Inv, TypeOK, RowsNumbered
  <2>4. next \in SaveState /\ Sound(next, rows, inserted)
    BY <1>1, <2>1, <2>2, <2>3 DEF SaveState, Calls, Sound, Replacing
  <2>5. \A b \in Admins : Apart(next, save[b])
    BY <1>1 DEF SaveState, Apart, Replacing
  <2> HIDE DEF next
  <2>6. QED
    BY <2>1, <2>4, <2>5, ReadStep
<1>6. CASE GetVMs(a)
  <2> DEFINE read == old.read \cup RowsOf(old.service, "vm")
             next == [old EXCEPT !.pc = "replace", !.read = read, !.todo = read]
  <2>1. old.pc = "vms" /\ UNCHANGED <<tables, view, draft>> /\ Answer(a, next)
    BY <1>6 DEF GetVMs
  <2>2. RowsOf(old.service, "vm") \subseteq rows
    BY DEF RowsOf
  <2>3. rows \subseteq Rows /\ \A r \in rows : r.id <= inserted
    BY DEF Inv, TypeOK, RowsNumbered
  <2>4. read \subseteq Rows /\ \A r \in read : r.id <= inserted
    BY <1>1, <2>2, <2>3 DEF SaveState, Sound
  <2> HIDE DEF read
  <2>5. next \in SaveState /\ Sound(next, rows, inserted)
    BY <1>1, <2>1, <2>4 DEF SaveState, Calls, Sound, Replacing
  <2>6. \A b \in Admins : Apart(next, save[b])
    BY <1>1 DEF SaveState, Apart, Replacing
  <2> HIDE DEF next
  <2>7. QED
    BY <2>1, <2>5, <2>6, ReadStep
<1>7. ASSUME NEW r \in old.todo, DeleteWorkload(a, r)
      PROVE  Inv'
  <2> DEFINE next == [old EXCEPT !.todo = @ \ {r}]
  <2>1. CASE Refuse(a)
    BY <1>7, <2>1, RefusedStep DEF DeleteWorkload
  <2>2. CASE ~Refuse(a)
    <3>1. /\ old.pc = "replace" /\ r \in rows /\ rows' = rows \ {r}
          /\ UNCHANGED <<owner, deleted, inserted, view, draft>>
          /\ Answer(a, next)
      BY <1>7, <2>2 DEF DeleteWorkload
    <3>2. IsFiniteSet(rows')
      BY <3>1, FS_RemoveElement DEF Inv, RowsNumbered
    <3>3. Grown
      BY <3>1, <3>2, BoundsAssumption DEF Grown, Inv, TypeOK, RowsNumbered
    <3>4. next \in SaveState /\ Sound(next, rows', inserted')
      BY <1>1, <3>1 DEF SaveState, Sound, Replacing
    <3>5. ASSUME NEW b \in Admins, a # b
          PROVE  Apart(next, save[b])
      <4>1. Apart(old, save[b]) /\ Sound(save[b], rows, inserted)
        BY <3>5 DEF Inv
      <4>2. r \in save[b].read /\ Replacing(save[b]) => r \in save[b].todo
        BY <3>1, <4>1 DEF Sound
      <4>3. QED
        BY <1>1, <4>1, <4>2 DEF SaveState, Apart, Replacing
    <3>6. owner' \in [Names -> {0} \cup Services] /\ deleted' \subseteq Services
      BY <3>1 DEF Inv, TypeOK
    <3> HIDE DEF next
    <3>7. QED
      BY <3>1, <3>3, <3>4, <3>5, <3>6, AnswerStep
  <2>3. QED
    BY <2>1, <2>2
<1>8. CASE AddWorkload(a)
  <2> DEFINE w == Head(old.items)
             r == [id |-> inserted + 1, service |-> old.service,
                   kind |-> w.kind, dc |-> DatacenterFor(w)]
             next == [old EXCEPT !.items = Tail(@)]
  <2>1. CASE Refuse(a)
    BY <1>8, <2>1, RefusedStep DEF AddWorkload
  <2>2. CASE ~Refuse(a)
    <3>1. /\ old.pc = "replace" /\ old.todo = {} /\ old.items # <<>>
          /\ r.dc # NoDatacenter /\ inserted < MaxRows
          /\ inserted' = inserted + 1 /\ rows' = rows \cup {r}
          /\ UNCHANGED <<owner, deleted, view, draft>>
          /\ Answer(a, next)
      BY <1>8, <2>2 DEF AddWorkload
    <3>2. w \in Items /\ Tail(old.items) \in Seq(Items)
      BY <1>1, <3>1 DEF SaveState
    <3>3. w.kind \in {"pod", "vm"} /\ DatacenterFor(w) \in Datacenters
      BY <3>1, <3>2, PlacesAssumption DEF Items, DatacenterFor
    <3>4. old.service \in Services
      BY <1>1, <3>1 DEF Sound
    <3>5. inserted \in Nat /\ inserted + 1 \in RowIds
      BY <3>1, BoundsAssumption DEF Inv, TypeOK, RowIds
    <3>6. r \in Rows /\ r.id = inserted + 1
      BY <3>3, <3>4, <3>5 DEF Rows
    <3> HIDE DEF r
    <3>7. IsFiniteSet(rows')
      BY <3>1, FS_AddElement DEF Inv, RowsNumbered
    <3>8. \A q \in rows : q.id \in Nat /\ q.id <= inserted
      BY DEF Inv, TypeOK, RowsNumbered, Rows, RowIds
    <3>9. Grown
      BY <3>1, <3>5, <3>6, <3>7, <3>8, BoundsAssumption DEF Grown, Inv, TypeOK
    <3>10. next \in SaveState
      BY <1>1, <3>2 DEF SaveState
    <3>11. Sound(next, rows', inserted')
      <4>1. next.pc = old.pc /\ next.read = old.read /\ next.todo = old.todo
            /\ next.service = old.service
        BY <1>1 DEF SaveState
      <4>2. \A q \in old.read : q.id \in Nat /\ q.id <= inserted
        BY <1>1 DEF SaveState, Sound, Rows, RowIds
      <4>3. r \notin old.read /\ \A q \in old.read : q.id <= inserted'
        BY <3>1, <3>5, <3>6, <4>2
      <4>4. old.read \cap rows' \subseteq old.read \cap rows
        BY <3>1, <4>3
      <4> HIDE DEF next
      <4>5. QED
        BY <1>1, <3>1, <4>1, <4>3, <4>4 DEF Sound, Replacing
    <3>12. \A b \in Admins : a # b => Apart(next, save[b])
      BY <1>1 DEF SaveState, Inv, Apart, Replacing
    <3>13. owner' \in [Names -> {0} \cup Services] /\ deleted' \subseteq Services
      BY <3>1 DEF Inv, TypeOK
    <3> HIDE DEF next
    <3>14. QED
      BY <3>1, <3>9, <3>10, <3>11, <3>12, <3>13, AnswerStep
  <2>3. QED
    BY <2>1, <2>2
<1>9. CASE DeleteService(a)
  <2>1. CASE Refuse(a)
    BY <1>9, <2>1, RefusedStep DEF DeleteService
  <2>2. CASE ~Refuse(a)
    <3>1. /\ old.service \in Live /\ deleted' = deleted \cup {old.service}
          /\ UNCHANGED <<owner, rows, inserted, view, draft>>
          /\ Answer(a, Idle)
      BY <1>9, <2>2 DEF DeleteService
    <3>2. owner' \in [Names -> {0} \cup Services] /\ deleted' \subseteq Services
      BY <3>1, LiveServices DEF Inv, TypeOK
    <3>3. QED
      BY <3>1, <3>2, RowsStay, IdleSave, AnswerStep
  <2>3. QED
    BY <2>1, <2>2
<1>10. CASE CallFails(a)
  <2>1. /\ UNCHANGED <<owner, deleted, rows, inserted, view, draft>>
        /\ failures < MaxFailures /\ failures' = failures + 1
        /\ save' = [save EXCEPT ![a] = Failed(a)]
    BY <1>10 DEF CallFails, tables
  <2>2. failures' \in 0..MaxFailures
    BY <2>1, BoundsAssumption DEF Inv, TypeOK
  <2>3. Types
    BY <2>1, <2>2 DEF Types, Inv, TypeOK
  <2>4. Grown
    BY <2>1, RowsStay
  <2>5. QED
    BY <2>1, <2>3, <2>4, FailedSave, SaveStep
<1>11. CASE Refresh(a)
  <2>1. /\ UNCHANGED <<owner, deleted, rows, inserted, draft>>
        /\ view' = [view EXCEPT ![a] = Live] \/ view' = view
        /\ failures' = failures \/ (failures < MaxFailures /\ failures' = failures + 1)
        /\ save' = [save EXCEPT ![a] = Idle]
    BY <1>11 DEF Refresh, tables
  <2>2. view' \in [Admins -> SUBSET Services]
    BY <2>1, LiveServices DEF Inv, TypeOK
  <2>3. failures' \in 0..MaxFailures
    BY <2>1, BoundsAssumption DEF Inv, TypeOK
  <2>4. Types
    BY <2>1, <2>2, <2>3 DEF Types, Inv, TypeOK
  <2>5. Grown
    BY <2>1, RowsStay
  <2>6. QED
    BY <2>1, <2>4, <2>5, IdleSave, SaveStep
<1>12. QED
  BY <1>2, <1>3, <1>4, <1>5, <1>6, <1>7, <1>8, <1>9, <1>10, <1>11 DEF Call

-----------------------------------------------------------------------------
(***************************************************************************)
(* Theorems                                                                *)
(***************************************************************************)

\* The invariant holds.
LEMMA Invariance == Spec => []Inv
<1>1. Init => Inv
  <2> SUFFICES ASSUME Init PROVE Inv
    OBVIOUS
  <2>1. <<>> \in Seq(Items)
    OBVIOUS
  <2>2. TypeOK
    BY <2>1, IdleSave, BoundsAssumption DEF Init, TypeOK, Closed
  <2>3. RowsNumbered
    BY FS_EmptySet DEF Init, RowsNumbered
  <2>4. \A a \in Admins : save[a] = Idle
    BY DEF Init
  <2>5. QED
    BY <2>2, <2>3, <2>4, IdleSave DEF Inv
<1>2. Inv /\ [Next]_vars => Inv'
  <2> SUFFICES ASSUME Inv, [Next]_vars PROVE Inv'
    OBVIOUS
  <2>1. CASE UNCHANGED vars
    BY <2>1, ViewStep DEF vars, tables, Inv, TypeOK
  <2>2. ASSUME NEW a \in Admins, Browse(a) \/ Call(a)
        PROVE  Inv'
    BY <2>2, BrowseStep, CallsStep
  <2>3. QED
    BY <2>1, <2>2 DEF Next
<1>3. QED
  BY <1>1, <1>2, PTL DEF Spec

\* The tables, the browsers and the saves keep their types.
THEOREM TypeCorrect == Spec => []TypeOK
<1>1. Inv => TypeOK
  BY DEF Inv
<1>2. QED
  BY <1>1, Invariance, PTL

\* A save that is past its deletions has nothing left to delete.
LEMMA NothingLeft ==
  ASSUME Inv, NEW a \in Admins, PastDeleting(a)
  PROVE  Replacing(save[a]) /\ save[a].todo = {} /\ Sound(save[a], rows, inserted)
  BY DEF Inv, Sound, PastDeleting, Replacing

\* upsertService: past its deletions, a save has left none of the pods and VMs
\* it read, whatever other saves did meanwhile.
THEOREM SavesReplace == Spec => []SaveReplacesWhatItRead
<1>1. Inv => SaveReplacesWhatItRead
  BY NothingLeft DEF SaveReplacesWhatItRead, Sound
<1>2. QED
  BY <1>1, Invariance, PTL

\* upsertService: of the saves that run together and have read the same pod or
\* VM, one at most gets past its deletions.
THEOREM OneReaderReplaces == Spec => []OneOfTwoReaders
<1>1. ASSUME Inv, NEW a \in Admins, NEW b \in Admins, a # b, PastDeleting(a), PastDeleting(b)
      PROVE  save[a].read \cap save[b].read = {}
  <2>1. Apart(save[a], save[b])
    BY <1>1 DEF Inv
  <2>2. QED
    BY <1>1, <2>1, NothingLeft DEF Apart
<1>2. Inv => OneOfTwoReaders
  BY <1>1 DEF OneOfTwoReaders
<1>3. QED
  BY <1>2, Invariance, PTL
=============================================================================
