------------------------------ MODULE Console ------------------------------
(***************************************************************************)
(* One browser tab and the lists it shows (useAppState and the calls of    *)
(* api.ts).  A button starts an asynchronous function that goes on by      *)
(* itself, call after call, whatever else is pressed meanwhile:            *)
(*                                                                         *)
(*   - a change is sent; of a row that is there it shows at once, before   *)
(*     the server has answered;                                            *)
(*   - a refresh asks for every list at the same time, shows them when all *)
(*     are there, asks an administrator's list of users after that, and    *)
(*     the cost reports at the end;                                        *)
(*   - a created row, and a change that was refused, end in a refresh.     *)
(*                                                                         *)
(* A service is saved in many calls: see ServiceEdit.  Here it is listed   *)
(* and deleted.  Who may do what, and whose token it is: see Session.      *)
(***************************************************************************)
EXTENDS Naturals, FiniteSets

CONSTANTS
    Kinds,          \* the lists, and in Ids the rows the tables may have
    Ids,
    Home,           \* the list each id belongs to
    Hosted,         \* the ids that the server deletes along with an id
    Values,         \* the contents of a row
    FirstRows,      \* the rows of the server in the beginning
    Phantom,        \* the id a new user has on the page, not at the server
    None,           \* no row, nobody
    Slots,          \* bound: asynchronous functions under way
    MaxEvents       \* bound: buttons pressed, changes made elsewhere, and
                    \* calls without an answer

Keys  == Ids \cup {Phantom}
Roles == {"admin", "viewer"}
Row   == [kind : Kinds, value : Values]
Rows  == [Ids -> Row \cup {None}]

ASSUME ConsoleAssumption ==
    /\ {"user", "report"} \subseteq Kinds
    /\ Phantom \notin Ids
    /\ None \notin Row \cup Roles \cup Keys
    /\ Home \in [Ids -> Kinds]
    /\ Hosted \in [Ids -> SUBSET Ids]
    /\ FirstRows \in Rows
    /\ \A k \in Ids : FirstRows[k] # None => FirstRows[k].kind = Home[k]
    /\ MaxEvents \in Nat

\* Listed with one Promise.all.
Main == Kinds \ {"user", "report"}

\* The form of an asset may turn a server into a switch.
Assets == {"server", "hardware"} \cap Kinds

VARIABLES
    server,     \* the row of each id
    page,       \* the row shown of each id
    me,         \* the role of the person signed in, or None
    tasks,      \* the asynchronous function in each slot
    doubtful,   \* history: keys that other calls, failures, or changes made
                \* elsewhere may have left different from the server
    late,       \* history: functions were under way at the last sign-out
    events

vars == <<server, page, me, tasks, doubtful, late, events>>

(***************************************************************************)
(* An asynchronous function: what it is about (keys and row), the role of  *)
(* the person who pressed the button, the role its present call was sent   *)
(* with; a refresh has the lists it got so far (read and seen) and, as     *)
(* history, the keys that nobody has changed since it began (clean).       *)
(***************************************************************************)
Ops    == {"create", "update", "delete", "recalculate", "refresh"}
Stages == {"idle", "sent", "ok", "refused", "lists", "users", "reports"}

Task == [op : Ops, keys : SUBSET Keys, row : Row \cup {None}, admin : BOOLEAN,
         as : Roles \cup {None}, at : Stages, heard : BOOLEAN,
         read : SUBSET Kinds, seen : Rows, clean : SUBSET Keys]

NoRows == [k \in Ids |-> None]
Idle   == [op |-> "refresh", keys |-> {}, row |-> None, admin |-> FALSE, as |-> None,
           at |-> "idle", heard |-> TRUE, read |-> {}, seen |-> NoRows, clean |-> {}]

Change(op, keys, row) ==
    [Idle EXCEPT !.op = op, !.keys = keys, !.row = row, !.admin = me = "admin",
                 !.as = me, !.at = "sent"]

InFlight(T, k) == \E s \in Slots : T[s].at = "sent" /\ k \in T[s].keys

\* c begins refreshData, which returns at once without a token.
Refreshing(T, c, role) ==
    IF role = None THEN Idle
    ELSE [c EXCEPT !.at = "lists", !.as = role, !.read = {}, !.seen = NoRows,
                   !.clean = {k \in Keys : ~InFlight(T, k)}]

\* K is changed: no refresh under way is sure to show the change.
Touched(T, K) == [s \in Slots |-> [T[s] EXCEPT !.clean = @ \ K]]

Event ==
    /\ events < MaxEvents
    /\ events' = events + 1

Free(s) == tasks[s] = Idle

\* Sign-in and reload: the effects of "me" and of the first render.
Loading(T, s, role) ==
    [T EXCEPT ![s] = Refreshing(T, [Idle EXCEPT !.admin = role = "admin"], role)]

Show(k, row) == page' = [page EXCEPT ![k] = row]

Reports == {k \in Ids : Home[k] = "report"}

----------------------------------------------------------------------------
Init ==
    /\ server = FirstRows
    /\ page = [k \in Keys |-> None]
    /\ me = None
    /\ tasks = [s \in Slots |-> Idle]
    /\ doubtful = Keys
    /\ late = FALSE
    /\ events = 0

(***************************************************************************)
(* Buttons                                                                 *)
(***************************************************************************)
\* A change of K is sent from slot s; two at a time of one row may be carried
\* out in either order.
Submit(s, op, K, row) ==
    /\ me = "admin"
    /\ Free(s)
    /\ Event
    /\ tasks' = Touched([tasks EXCEPT ![s] = Change(op, K, row)], K)
    /\ doubtful' = doubtful \cup {k \in K : InFlight(tasks, k)}
    /\ UNCHANGED <<server, me, late>>

\* "Save" of a form: a row that is on the page by then is updated.  The row
\* is what the form has, whatever the page or the server has now.
Save(s, k, row) ==
    /\ page[k] # None
    /\ page[k].kind \notin {"report", "service"}
    /\ row.kind \in IF page[k].kind \in Assets THEN Assets ELSE {page[k].kind}
    /\ Submit(s, "update", {k}, row)
    /\ Show(k, row)

\* Otherwise it is created, also when it has been deleted meanwhile.  Only a
\* new user shows at once.
Create(s, row) ==
    /\ row.kind \notin {"report", "service"}
    /\ IF row.kind = "user"
       THEN /\ page[Phantom] = None
            /\ Submit(s, "create", {Phantom}, row)
            /\ Show(Phantom, row)
       ELSE Submit(s, "create", {}, row) /\ UNCHANGED page

Delete(s, k) ==
    /\ page[k] # None
    /\ page[k].kind # "report"
    /\ Submit(s, "delete", {k}, page[k])
    /\ Show(k, None)

\* "Recalculate today" and "Recalculate".
Recalculate(s, row) ==
    /\ row.kind = "report"
    /\ Submit(s, "recalculate", {}, row)
    /\ UNCHANGED page

\* resetData
Refresh(s) ==
    /\ me # None
    /\ Free(s)
    /\ Event
    /\ tasks' = Loading(tasks, s, me)
    /\ UNCHANGED <<server, page, me, doubtful, late>>

SignIn(s, role) ==
    /\ me = None
    /\ Free(s)
    /\ Event
    /\ me' = role
    /\ tasks' = Loading(tasks, s, role)
    /\ doubtful' = Keys
    /\ UNCHANGED <<server, page, late>>

\* Wrong on purpose (see "Mutants" in the README): the users stay.
KeepUsers ==
    /\ me' = None
    /\ page' = [k \in Keys |-> IF page[k] = None \/ page[k].kind \in {"report", "user"}
                               THEN page[k] ELSE None]
    /\ late' = \E s \in Slots : ~Free(s)

\* setMe(null) empties the lists, but for the cost reports; what is under way
\* goes on.
Leave ==
    /\ me' = None
    /\ page' = [k \in Keys |-> IF page[k] # None /\ page[k].kind = "report"
                               THEN page[k] ELSE None]
    /\ late' = \E s \in Slots : ~Free(s)

SignOut ==
    /\ me # None
    /\ Event
    /\ Leave
    /\ UNCHANGED <<server, tasks, doubtful>>

\* The lists are in local storage, the cost reports are not; a change that was
\* sent may still be carried out.
Reload(s) ==
    LET sent == [x \in Slots |-> IF tasks[x].at = "sent"
                                 THEN [tasks[x] EXCEPT !.heard = FALSE] ELSE Idle]
    IN  /\ me # None
        /\ sent[s] = Idle
        /\ Event
        /\ tasks' = Loading(sent, s, me)
        /\ page' = [k \in Keys |-> IF k \in Reports THEN None ELSE page[k]]
        /\ doubtful' = Keys
        /\ UNCHANGED <<server, me, late>>

(***************************************************************************)
(* The server                                                              *)
(***************************************************************************)
Without(K) == [i \in Ids |-> IF i \in K THEN None ELSE server[i]]

Outcome(K, rows) == [changed |-> K, rows |-> rows]

Deletion(k) == Outcome({k} \cup Hosted[k], Without({k} \cup Hosted[k]))

\* Wrong on purpose: the row is filed under the value it has.
WritingValue(k, row) == Outcome({k}, [server EXCEPT ![k] = row.value])

Writing(k, row) == Outcome({k}, [server EXCEPT ![k] = row])

\* What a change does when it is carried out; nothing when there is no such
\* row.  A user is not to be deleted: deleted_at is set, but its answer, which
\* cannot be scanned, is an error, and the list of users shows the row as ever.
Outcomes(c) ==
    CASE c.op = "create" ->
            {Writing(k, c.row) : k \in {i \in Ids : server[i] = None /\ Home[i] = c.row.kind}}
      [] c.op = "update" ->
            {Writing(k, c.row) :
                k \in {i \in c.keys \cap Ids : server[i] # None /\ Home[i] = c.row.kind}}
      [] c.op = "delete" ->
            {Deletion(k) : k \in {i \in c.keys \cap Ids : server[i] # None /\ Home[i] # "user"}}
      [] c.op = "recalculate" -> {Writing(k, c.row) : k \in Reports}

Answered(s, answer, changed) ==
    LET c == tasks[s]
        T == Touched(tasks, changed)
    IN  tasks' = [T EXCEPT ![s] = IF ~c.heard THEN Idle
                                  ELSE [c EXCEPT !.at = answer, !.keys = @ \cup changed]]

\* The browser is not told which hardware has gone with a datacenter; and
\* after a reload it is not told anything.
CarryOut(s) ==
    LET c == tasks[s]
    IN  /\ c.at = "sent"
        /\ \E o \in Outcomes(c) :
              /\ server' = o.rows
              /\ doubtful' = doubtful \cup IF ~c.heard THEN o.changed
                                           ELSE IF c.op = "delete" THEN o.changed \ c.keys
                                           ELSE {}
              /\ \/ Answered(s, "ok", o.changed) /\ UNCHANGED events
                 \/ Answered(s, "refused", o.changed) /\ Event  \* no answer
        /\ UNCHANGED <<page, me, late>>

\* Keys, references, bad values - or the call does not reach the server.
Refuse(s) ==
    /\ tasks[s].at = "sent"
    /\ Answered(s, "refused", {})
    /\ UNCHANGED <<server, page, me, doubtful, late, events>>

\* Another administrator, or a job of the server.
ChangeElsewhere(o) ==
    /\ Event
    /\ server' = o.rows
    /\ tasks' = Touched(tasks, o.changed)
    /\ doubtful' = doubtful \cup o.changed
    /\ UNCHANGED <<page, me, late>>

(***************************************************************************)
(* The asynchronous functions go on                                        *)
(***************************************************************************)
\* Wrong on purpose: only what was created is looked up again.
CallsForCreated(c) == c.op \in {"create", "recalculate"} /\ c.at = "ok"

\* What ends in a refresh: a creation or a calculation that was carried out, a
\* change that was not, and both of a new user.
CallsForRefresh(c) ==
    \/ c.op \in {"create", "recalculate"} /\ c.at = "ok"
    \/ c.op \in {"update", "delete"} /\ c.at = "refused"
    \/ c.op = "create" /\ c.row.kind = "user"

HearAnswer(s) ==
    LET c == tasks[s]
    IN  /\ c.at \in {"ok", "refused"}
        /\ IF CallsForRefresh(c)
           THEN /\ tasks' = [tasks EXCEPT ![s] = Refreshing(tasks, c, me)]
                /\ UNCHANGED doubtful
           ELSE /\ tasks' = [tasks EXCEPT ![s] = Idle]
                /\ doubtful' = doubtful \cup IF c.op \in {"create", "recalculate"} THEN c.keys ELSE {}
        /\ UNCHANGED <<server, page, me, late, events>>

\* The lists a refresh asks for at each stage, and who may have them.
Asked(at) == CASE at = "lists" -> Main
               [] at = "users" -> {"user"}
               [] at = "reports" -> {"report"}
               [] OTHER -> {}

Allowed(c) == c.as # None /\ (c.at = "users" => c.as = "admin")

\* The server answers one of the lists.
ReadList(s, kind) ==
    LET c == tasks[s]
    IN  /\ kind \in Asked(c.at) \ c.read
        /\ Allowed(c)
        /\ tasks' = [tasks EXCEPT ![s] =
              [c EXCEPT !.read = @ \cup {kind},
                        !.seen = [k \in Ids |-> IF Home[k] = kind THEN server[k] ELSE @[k]]]]
        /\ UNCHANGED <<server, page, me, doubtful, late, events>>

\* Wrong on purpose: what a refresh shows calls for a refresh.
KeepRefreshing(s, role) ==
    LET c == tasks[s]
        next == CASE c.at = "lists" /\ c.admin -> "users"
                  [] c.at = "reports" -> "lists"
                  [] OTHER -> "reports"
    IN  tasks' = [tasks EXCEPT ![s] = [c EXCEPT !.at = next, !.as = role, !.read = {}]]

\* The stage after c.at; its call is sent by whoever is signed in then.
GoOn(s, role) ==
    LET c == tasks[s]
        next == IF c.at = "lists" /\ c.admin THEN "users" ELSE "reports"
    IN  tasks' = [tasks EXCEPT ![s] = IF c.at = "reports" THEN Idle
                                      ELSE [c EXCEPT !.at = next, !.as = role]]

KeysOf(kinds) == {k \in Ids : Home[k] \in kinds}
                    \cup IF "user" \in kinds THEN {Phantom} ELSE {}

\* All are there: they are shown, the older answer over the newer one when it
\* comes later.
HearLists(s) ==
    LET c == tasks[s]
        K == KeysOf(Asked(c.at))
    IN  /\ c.at \in {"lists", "users", "reports"}
        /\ Asked(c.at) \subseteq c.read
        /\ page' = [k \in Keys |-> IF k \notin K THEN page[k]
                                   ELSE IF k = Phantom THEN None ELSE c.seen[k]]
        /\ doubtful' = (doubtful \ (K \cap c.clean)) \cup (K \ c.clean)
        /\ GoOn(s, me)
        /\ UNCHANGED <<server, me, late, events>>

\* A call sent after the sign-out is refused (401) and signs out whoever is
\* signed in by now; a viewer is refused the users (403).
HearRefused(s) ==
    LET c == tasks[s]
    IN  /\ c.at \in {"users", "reports"}
        /\ ~Allowed(c)
        /\ IF c.as = None THEN Leave /\ GoOn(s, None)
                          ELSE UNCHANGED <<page, me, late>> /\ GoOn(s, me)
        /\ doubtful' = doubtful \cup c.keys
        /\ UNCHANGED <<server, events>>

\* One of the lists does not come: nothing of this stage is shown.
FailRefresh(s) ==
    LET c == tasks[s]
    IN  /\ c.at \in {"lists", "users", "reports"}
        /\ Event
        /\ tasks' = [tasks EXCEPT ![s] = IF c.at = "reports" THEN Idle
                                         ELSE [c EXCEPT !.at = "reports", !.as = me]]
        /\ doubtful' = doubtful \cup c.keys
        /\ UNCHANGED <<server, page, me, late>>

----------------------------------------------------------------------------
Press(s) ==
    \/ \E row \in Row :
          \/ \E k \in Keys : Save(s, k, row)
          \/ Create(s, row)
          \/ Recalculate(s, row)
    \/ \E k \in Keys : Delete(s, k)
    \/ Refresh(s)
    \/ \E role \in Roles : SignIn(s, role)
    \/ Reload(s)

Progress(s) ==
    \/ CarryOut(s) \/ Refuse(s) \/ HearAnswer(s)
    \/ \E kind \in Kinds : ReadList(s, kind)
    \/ HearLists(s) \/ HearRefused(s)

Next ==
    \/ \E s \in Slots : Press(s) \/ Progress(s) \/ FailRefresh(s)
    \/ SignOut
    \/ \E k \in Ids : \/ ChangeElsewhere(Deletion(k))
                      \/ \E v \in Values : ChangeElsewhere(Writing(k, [kind |-> Home[k], value |-> v]))

Spec == Init /\ [][Next]_vars

(***************************************************************************)
(* Calls are answered, if only with an error, and an answer wakes the      *)
(* function that awaits it; nobody has to press a button.                  *)
(***************************************************************************)
Fairness == \A s \in Slots : WF_vars(Progress(s))

FairSpec == Spec /\ Fairness

(***************************************************************************)
(* Properties                                                              *)
(***************************************************************************)
TypeOK ==
    /\ server \in Rows
    /\ page \in [Keys -> Row \cup {None}]
    /\ me \in Roles \cup {None}
    /\ tasks \in [Slots -> Task]
    /\ doubtful \subseteq Keys
    /\ late \in BOOLEAN
    /\ events \in 0..MaxEvents

About(k) == \E s \in Slots : k \in tasks[s].keys

Agrees(k) == page[k] = IF k \in Ids THEN server[k] ELSE None

\* Showing a change before it is answered does no harm: with no function
\* under way about a row, the page shows what the server has, refused changes
\* and users that were never created included - unless a refresh was under way
\* while the row was changed, two changes of it were, an answer was lost, or
\* the row was changed elsewhere, since the last refresh that nothing disturbed.
PageIsServer ==
    me # None => \A k \in Keys \ doubtful : ~About(k) => Agrees(k)

\* What one person saw, the next one at this browser does not see: the login
\* page has no rows behind it and a viewer's pages have no users, unless a
\* function that was under way at the sign-out has filled them again.
NothingIsLeftBehind ==
    ~late => \A k \in Keys :
        /\ me = None /\ page[k] # None => page[k].kind = "report"
        /\ me = "viewer" /\ page[k] # None => page[k].kind # "user"

\* When no more buttons are pressed, and all of them come to an end (MaxEvents),
\* every function does, and then every row of the page agrees with the server,
\* if somebody is signed in and nothing has made the row doubtful.
PageSettles ==
    <>[](\A k \in Keys : ~About(k) /\ (Agrees(k) \/ k \in doubtful \/ me = None))
=============================================================================
