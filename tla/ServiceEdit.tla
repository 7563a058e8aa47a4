---------------------------- MODULE ServiceEdit ----------------------------
(***************************************************************************)
(* Editing the service catalog from the browser.                           *)
(*                                                                         *)
(* The backend has one call per row: create, rename or delete a service,   *)
(* add or delete one pod or VM.  The frontend makes a save of them: a new  *)
(* service is created and its workloads added one by one; an edited one is *)
(* renamed, read, all its workloads are deleted one by one, and those of   *)
(* the form are added.  Nothing spans two calls, so the saves of two       *)
(* administrators interleave call by call, and a save that fails stops     *)
(* where it is.                                                            *)
(*                                                                         *)
(* A call may fail before or after it took effect.  A workload is          *)
(* abstracted to its kind and its datacenter; the datacenters and the      *)
(* servers do not change here (Inventory has their changes).               *)
(***************************************************************************)
EXTENDS Naturals, Sequences, FiniteSets, SequencesExt

CONSTANTS
    Admins,             \* the browsers of administrators, one save each
    Names,              \* names of services
    Datacenters,
    Nodes,              \* the servers that a form offers as hosts of pods
    DatacenterOf(_),    \* the datacenter of a node
    NoDatacenter,       \* the empty id
    Forms,              \* the workloads of a form: sequences of
                        \* [kind, host], hosts chosen from the form's lists
    MaxServices,        \* bound: services ever created
    MaxRows,            \* bound: workload rows ever inserted
    MaxFailures         \* bound: calls that fail

Services == 1..MaxServices
RowIds   == 1..MaxRows
Hosts    == Nodes \cup Datacenters
Items    == [kind : {"pod"}, host : Hosts] \cup [kind : {"vm"}, host : Datacenters]
Rows     == [id : RowIds, service : Services, kind : {"pod", "vm"},
             dc : Datacenters]

ASSUME BoundsAssumption ==
    /\ MaxServices \in Nat
    /\ MaxRows \in Nat
    /\ MaxFailures \in Nat

ASSUME PlacesAssumption ==
    /\ NoDatacenter \notin Datacenters
    /\ Nodes \cap Datacenters = {}
    /\ \A n \in Nodes : DatacenterOf(n) \in Datacenters

ASSUME FormsAssumption == Forms \subseteq Seq(Items)

VARIABLES
    owner,      \* services: the one with a name, 0 for a free name
    deleted,    \* the services marked deleted
    rows,       \* service_pods and service_vms
    inserted,   \* the number of rows ever inserted, the last row id
    view,       \* the services each browser shows
    draft,      \* the service each browser has open, and its workloads as
                \* they were when it was opened
    save,       \* the save each browser runs
    failures

vars == <<owner, deleted, rows, inserted, view, draft, save, failures>>

tables == <<owner, deleted, rows, inserted>>

Created == {s \in Services : \E n \in Names : owner[n] = s}
Live    == Created \ deleted

RowsOf(s, kind) == {r \in rows : r.service = s /\ r.kind = kind}

(***************************************************************************)
(* pc is the call the save is waiting for; "replace" deletes what is in    *)
(* todo, pods first, and then adds items.  A save that creates a service   *)
(* ends without a refresh when it fails, the others refresh.               *)
(***************************************************************************)
Calls == {"create", "update", "service", "pods", "vms", "replace", "remove"}

\* A save that has not read anything.
SaveAt(pc, s, name, items, onError, outcome) ==
    [pc |-> pc, service |-> s, name |-> name, items |-> items,
     onError |-> onError, read |-> {}, todo |-> {}, outcome |-> outcome]

Idle    == SaveAt("idle", 0, 0, <<>>, "refresh", "ok")
Aborted == SaveAt("refresh", 0, 0, <<>>, "refresh", "failed")

Start(pc, s, name, items) ==
    SaveAt(pc, s, name, items, IF pc = "create" THEN "stop" ELSE "refresh", "ok")

Closed == [service |-> 0, items |-> <<>>]

Failed(a) ==
    IF save[a].onError = "stop" THEN Idle ELSE Aborted

\* Replacing is over when the last call of it has been answered.
AfterReplacing(s) ==
    IF s.pc = "replace" /\ s.todo = {} /\ s.items = <<>>
    THEN [s EXCEPT !.pc = "refresh"]
    ELSE s

\* The answer to a call that took effect; it may not arrive.
Answer(a, next) ==
    \/ save' = [save EXCEPT ![a] = AfterReplacing(next)] /\ UNCHANGED failures
    \/ /\ failures < MaxFailures
       /\ failures' = failures + 1
       /\ save' = [save EXCEPT ![a] = Failed(a)]

\* The backend answers with an error.
Refuse(a) ==
    /\ save' = [save EXCEPT ![a] = Failed(a)]
    /\ UNCHANGED <<tables, failures>>

----------------------------------------------------------------------------
Init ==
    /\ owner = [n \in Names |-> 0]
    /\ deleted = {}
    /\ rows = {}
    /\ inserted = 0
    /\ view = [a \in Admins |-> {}]
    /\ draft = [a \in Admins |-> Closed]
    /\ save = [a \in Admins |-> Idle]
    /\ failures = 0

(***************************************************************************)
(* The browser.                                                            *)
(***************************************************************************)
\* The services are loaded: at login, on a reload, on "Refresh".
Reload(a) ==
    /\ view' = [view EXCEPT ![a] = Live]
    /\ UNCHANGED <<tables, draft, save, failures>>

\* A workload as the browser keeps it: the host is the datacenter.
MapBackendWorkload(r) == [kind |-> r.kind, host |-> r.dc]

\* A service is expanded or opened in the form: its pods, then its VMs, each
\* in the order the database happens to return.
Open(a, s) ==
    /\ save[a] = Idle
    /\ s \in view[a]
    /\ \E pods \in SetToSeqs(RowsOf(s, "pod")), vms \in SetToSeqs(RowsOf(s, "vm")) :
          LET list == [i \in DOMAIN (pods \o vms) |-> MapBackendWorkload((pods \o vms)[i])]
          IN  draft' = [draft EXCEPT ![a] = [service |-> s, items |-> list]]
    /\ UNCHANGED <<tables, view, save, failures>>

\* "Create" in an empty form.
AddService(a, name, items) ==
    /\ save[a] = Idle
    /\ save' = [save EXCEPT ![a] = Start("create", 0, name, items)]
    /\ UNCHANGED <<tables, view, draft, failures>>

\* "Save" in the form, with hosts chosen again, or, with the workloads as
\* they were opened, "Save usage" or "Save" in the form as it is.  A service
\* that the browser no longer shows is taken for a new one.
EditService(a, name, items) ==
    LET s == draft[a].service
    IN  /\ save[a] = Idle
        /\ s # 0
        /\ items \in Forms \cup {draft[a].items}
        /\ save' = [save EXCEPT ![a] =
                      IF s \in view[a]
                      THEN Start("update", s, name, items)
                      ELSE Start("create", 0, name, items)]
        /\ UNCHANGED <<tables, view, draft, failures>>

\* "Delete": the service disappears from the page before the call, and what
\* was open of it with it.
RemoveService(a, s) ==
    /\ save[a] = Idle
    /\ s # 0
    /\ s \in view[a] \cup {draft[a].service}
    /\ view' = [view EXCEPT ![a] = @ \ {s}]
    /\ draft' = [draft EXCEPT ![a] = IF @.service = s THEN Closed ELSE @]
    /\ save' = [save EXCEPT ![a] = Start("remove", s, 0, <<>>)]
    /\ UNCHANGED <<tables, failures>>

\* The end of a save: everything is loaded again, unless that fails too.
Refresh(a) ==
    /\ save[a].pc = "refresh"
    /\ save' = [save EXCEPT ![a] = Idle]
    /\ \/ view' = [view EXCEPT ![a] = Live] /\ UNCHANGED failures
       \/ /\ failures < MaxFailures
          /\ failures' = failures + 1
          /\ UNCHANGED view
    /\ UNCHANGED <<tables, draft>>

(***************************************************************************)
(* The calls of a save.                                                    *)
(***************************************************************************)
\* A name stays taken when its service is deleted.
CreateService(a) ==
    LET name == save[a].name
        s    == Cardinality(Created) + 1
    IN  /\ save[a].pc = "create"
        /\ UNCHANGED <<view, draft>>
        /\ IF owner[name] # 0
           THEN Refuse(a)
           ELSE /\ s \in Services
                /\ owner' = [owner EXCEPT ![name] = s]
                /\ UNCHANGED <<deleted, rows, inserted>>
                /\ Answer(a, [save[a] EXCEPT !.pc = "replace", !.service = s])

UpdateService(a) ==
    LET name == save[a].name
        s    == save[a].service
    IN  /\ save[a].pc = "update"
        /\ UNCHANGED <<view, draft>>
        /\ IF s \in Live /\ owner[name] \in {0, s}
           THEN /\ owner' = [n \in Names |->
                               IF n = name THEN s
                               ELSE IF owner[n] = s THEN 0 ELSE owner[n]]
                /\ UNCHANGED <<deleted, rows, inserted>>
                /\ Answer(a, [save[a] EXCEPT !.pc = "service"])
           ELSE Refuse(a)

\* GetServiceByID: the service, its pods and its VMs, in three queries.
GetService(a) ==
    /\ save[a].pc = "service"
    /\ UNCHANGED <<view, draft>>
    /\ IF save[a].service \in Live
       THEN UNCHANGED tables /\ Answer(a, [save[a] EXCEPT !.pc = "pods"])
       ELSE Refuse(a)

GetPods(a) ==
    /\ save[a].pc = "pods"
    /\ Answer(a, [save[a] EXCEPT !.pc = "vms",
                                 !.read = RowsOf(save[a].service, "pod")])
    /\ UNCHANGED <<tables, view, draft>>

\* Wrong on purpose (see "Mutants" in the README): only the pods are deleted.
DeletePodsOnly(a) ==
    /\ save[a].pc = "vms"
    /\ Answer(a, [save[a] EXCEPT !.pc = "replace", !.todo = save[a].read,
                      !.read = @ \cup RowsOf(save[a].service, "vm")])
    /\ UNCHANGED <<tables, view, draft>>

GetVMs(a) ==
    LET read == save[a].read \cup RowsOf(save[a].service, "vm")
    IN  /\ save[a].pc = "vms"
        /\ Answer(a, [save[a] EXCEPT !.pc = "replace", !.read = read,
                                     !.todo = read])
        /\ UNCHANGED <<tables, view, draft>>

\* Wrong on purpose: a row that is gone already counts as deleted.
DeleteIfThere(a, r) ==
    /\ save[a].pc = "replace"
    /\ r \in save[a].todo
    /\ rows' = rows \ {r}
    /\ Answer(a, [save[a] EXCEPT !.todo = @ \ {r}])
    /\ UNCHANGED <<owner, deleted, inserted, view, draft>>

\* A row that is gone already is an error.
DeleteWorkload(a, r) ==
    /\ save[a].pc = "replace"
    /\ r \in save[a].todo
    /\ r.kind = "vm" => \A p \in save[a].todo : p.kind = "vm"
    /\ UNCHANGED <<view, draft>>
    /\ IF r \in rows
       THEN /\ rows' = rows \ {r}
            /\ UNCHANGED <<owner, deleted, inserted>>
            /\ Answer(a, [save[a] EXCEPT !.todo = @ \ {r}])
       ELSE Refuse(a)

\* Wrong on purpose: the host is sent as the datacenter.
DatacenterOfHost(w) == w.host

\* syncWorkloads: the datacenter of a pod is that of the server it is on,
\* and no datacenter when the host is no server.
DatacenterFor(w) ==
    IF w.kind = "vm" THEN w.host
    ELSE IF w.host \in Nodes THEN DatacenterOf(w.host)
    ELSE NoDatacenter

\* A request without a datacenter cannot be decoded.  The service may have
\* been marked deleted: its row is still there for the foreign key.
AddWorkload(a) ==
    LET w == Head(save[a].items)
        r == [id |-> inserted + 1, service |-> save[a].service,
              kind |-> w.kind, dc |-> DatacenterFor(w)]
    IN  /\ save[a].pc = "replace"
        /\ save[a].todo = {}
        /\ save[a].items # <<>>
        /\ UNCHANGED <<view, draft>>
        /\ IF r.dc = NoDatacenter
           THEN Refuse(a)
           ELSE /\ inserted < MaxRows
                /\ inserted' = inserted + 1
                /\ rows' = rows \cup {r}
                /\ UNCHANGED <<owner, deleted>>
                /\ Answer(a, [save[a] EXCEPT !.items = Tail(@)])

\* DeleteService marks the row; a success does not refresh.
DeleteService(a) ==
    /\ save[a].pc = "remove"
    /\ UNCHANGED <<view, draft>>
    /\ IF save[a].service \in Live
       THEN /\ deleted' = deleted \cup {save[a].service}
            /\ UNCHANGED <<owner, rows, inserted>>
            /\ Answer(a, Idle)
       ELSE Refuse(a)

\* A call fails before it took effect.
CallFails(a) ==
    /\ save[a].pc \in Calls
    /\ failures < MaxFailures
    /\ failures' = failures + 1
    /\ save' = [save EXCEPT ![a] = Failed(a)]
    /\ UNCHANGED <<tables, view, draft>>

----------------------------------------------------------------------------
Browse(a) ==
    \/ Reload(a)
    \/ \E s \in Services : Open(a, s) \/ RemoveService(a, s)
    \/ \E n \in Names, items \in Forms : AddService(a, n, items)
    \/ \E n \in Names, items \in Forms \cup {draft[a].items} :
          EditService(a, n, items)

Call(a) ==
    \/ CreateService(a)
    \/ UpdateService(a)
    \/ GetService(a)
    \/ GetPods(a)
    \/ GetVMs(a)
    \/ \E r \in save[a].todo : DeleteWorkload(a, r)
    \/ AddWorkload(a)
    \/ DeleteService(a)
    \/ CallFails(a)
    \/ Refresh(a)

Next == \E a \in Admins : Browse(a) \/ Call(a)

Spec == Init /\ [][Next]_vars

----------------------------------------------------------------------------
SaveState == [pc : Calls \cup {"idle", "refresh"}, service : {0} \cup Services,
              name : {0} \cup Names, items : Seq(Items), onError : {"stop", "refresh"},
              read : SUBSET Rows, todo : SUBSET Rows, outcome : {"ok", "failed"}]

TypeOK ==
    /\ owner \in [Names -> {0} \cup Services]
    /\ deleted \subseteq Services
    /\ rows \subseteq Rows
    /\ inserted \in 0..MaxRows
    /\ view \in [Admins -> SUBSET Services]
    /\ draft \in [Admins -> [service : {0} \cup Services, items : Seq(Items)]]
    /\ save \in [Admins -> SaveState]
    /\ failures \in 0..MaxFailures

\* A save of a has deleted all it had to and has not failed.
PastDeleting(a) ==
    \/ save[a].pc = "replace" /\ save[a].todo = {}
    \/ save[a].pc = "refresh" /\ save[a].outcome = "ok"

(***************************************************************************)
(* "Replace all workloads: delete existing, create new": when a save has   *)
(* got past its deletions, none of the pods and VMs it read is left,       *)
(* whatever other saves did to them meanwhile; the service is never billed *)
(* for its old workloads together with those of the form.                  *)
(***************************************************************************)
SaveReplacesWhatItRead ==
    \A a \in Admins : PastDeleting(a) => save[a].read \cap rows = {}

(***************************************************************************)
(* Two saves that run at the same time and have read the same workload are *)
(* not both replacing it: the later one to delete it fails, since a        *)
(* deletion that finds no row is an error, before it adds anything.  Two   *)
(* administrators who press "Save usage" together do not double a service  *)
(* that has workloads.                                                     *)
(***************************************************************************)
OneOfTwoReaders ==
    \A a, b \in Admins :
       (a # b /\ PastDeleting(a) /\ PastDeleting(b)) =>
          save[a].read \cap save[b].read = {}

(***************************************************************************)
(* A comment of syncWorkloads has it that a pod's host is a server: "Pods: *)
(* hostId is a k8s-node server asset ID; derive datacenter from it."       *)
(***************************************************************************)
PodHostIsNode ==
    \A a \in Admins :
       LET items == save[a].items
       IN  (save[a].pc = "replace" /\ save[a].todo = {} /\ items # <<>>
              /\ Head(items).kind = "pod") => Head(items).host \in Nodes
=============================================================================
