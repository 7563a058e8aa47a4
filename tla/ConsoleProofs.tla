--------------------------- MODULE ConsoleProofs ---------------------------
(***************************************************************************)
(* Proofs about Console: its type invariant, that nobody sees what another *)
(* person saw, and that the page is what the server has once nothing is    *)
(* under way; for any number of functions at a time, lists and rows.       *)
(***************************************************************************)
EXTENDS Console, TLAPS

\* What a function of each kind carries.  Its change has one key, or none yet.
Shaped(c) ==
    /\ c.at = "sent" => /\ c.op # "refresh" /\ c.row \in Row
                        /\ c.op \in {"update", "delete"} => \E k \in Keys : c.keys = {k}
                        /\ c.op = "recalculate" => c.row.kind = "report"
    /\ (c.at = "sent" \/ c.keys # {}) => c.admin
    /\ \A k \in Ids : c.seen[k] # None => c.seen[k].kind = Home[k]

ServerKinds == \A k \in Ids : server[k] # None => server[k].kind = Home[k]

TypeInv ==
    /\ TypeOK
    /\ \A s \in Slots : Shaped(tasks[s])
    /\ ServerKinds

\* d is c, but that K is not clean any more.
Like(d, c, K) ==
    /\ d.op = c.op /\ d.keys = c.keys /\ d.row = c.row /\ d.admin = c.admin /\ d.as = c.as
    /\ d.at = c.at /\ d.heard = c.heard /\ d.read = c.read /\ d.seen = c.seen
    /\ d.clean = c.clean \ K

Others(s, K) == \A x \in Slots \ {s} : Like(tasks'[x], tasks[x], K)

\* The function in s goes on, the others are at most less clean.
Moved(s, K) == tasks' \in [Slots -> Task] /\ Others(s, K) /\ Shaped(tasks'[s])

-----------------------------------------------------------------------------
(***************************************************************************)
(* Functions                                                               *)
(***************************************************************************)
LEMMA Constants ==
  /\ None \notin Row /\ None \notin Roles /\ None \notin Keys /\ Phantom \notin Ids
  /\ Ids \subseteq Keys /\ Phantom \in Keys /\ "user" \in Kinds /\ "report" \in Kinds
  /\ \A k \in Ids : Home[k] \in Kinds /\ Hosted[k] \subseteq Ids
  BY ConsoleAssumption DEF Keys

LEMMA IdleFields ==
  /\ Idle \in Task /\ Shaped(Idle)
  /\ Idle.op = "refresh" /\ Idle.keys = {} /\ Idle.at = "idle" /\ Idle.as = None
  /\ Idle.heard = TRUE /\ Idle.read = {} /\ Idle.clean = {} /\ Idle.admin = FALSE
<1>1. NoRows \in Rows /\ \A k \in Ids : NoRows[k] = None
  BY DEF NoRows, Rows
<1>2. QED
  BY <1>1 DEF Idle, Task, Shaped, Ops, Stages

LEMMA TouchedFields ==
  ASSUME NEW T \in [Slots -> Task], NEW K
  PROVE  /\ Touched(T, K) \in [Slots -> Task]
         /\ \A x \in Slots : Like(Touched(T, K)[x], T[x], K)
  BY DEF Touched, Task, Like

LEMMA LikeShaped ==
  ASSUME NEW c, NEW d, NEW K, Like(d, c, K), Shaped(c)
  PROVE  Shaped(d)
  BY DEF Like, Shaped

LEMMA LikeSelf ==
  ASSUME NEW x \in Slots, tasks'[x] = tasks[x], TypeOK
  PROVE  Like(tasks'[x], tasks[x], {})
<1>1. tasks[x].clean = tasks[x].clean \ {}
  BY DEF TypeOK, Task
<1>2. QED
  BY <1>1 DEF Like

\* A refresh begins, with the keys that are clean.
Begun(c, role, clean) ==
    [c EXCEPT !.at = "lists", !.as = role, !.read = {}, !.seen = NoRows, !.clean = clean]

Quiet(T) == {k \in Keys : ~InFlight(T, k)}

LEMMA RefreshingBegins ==
  ASSUME NEW T, NEW c \in Task, NEW role \in Roles
  PROVE  Refreshing(T, c, role) = Begun(c, role, Quiet(T)) /\ Quiet(T) \in SUBSET Keys
<1>1. role # None
  BY Constants
<1>2. QED
  BY <1>1 DEF Refreshing, Begun, Quiet

LEMMA BegunShaped ==
  ASSUME NEW c \in Task, NEW role \in Roles, NEW clean \in SUBSET Keys, Shaped(c)
  PROVE  Begun(c, role, clean) \in Task /\ Shaped(Begun(c, role, clean))
<1> DEFINE d == Begun(c, role, clean)
<1>1. NoRows \in Rows /\ \A k \in Ids : NoRows[k] = None
  BY DEF NoRows, Rows
<1>2. /\ d \in Task
      /\ d.keys = c.keys /\ d.admin = c.admin /\ d.at = "lists" /\ d.seen = NoRows
  BY <1>1 DEF Begun, Task, Stages
<1> HIDE DEF d
<1>3. Shaped(d)
  BY <1>1, <1>2 DEF Shaped
<1>4. QED
  BY <1>2, <1>3 DEF d

\* The refresh of a person who has come.
LEMMA LoadingFields ==
  ASSUME NEW T \in [Slots -> Task], NEW s \in Slots, NEW role \in Roles
  PROVE  LET L == Loading(T, s, role)
         IN  /\ L \in [Slots -> Task]
             /\ \A x \in Slots \ {s} : L[x] = T[x]
             /\ Shaped(L[s])
             /\ L[s].keys = {} /\ L[s].as = role /\ L[s].at = "lists" /\ L[s].read = {}
             /\ L[s].clean = Quiet(T) /\ (L[s].admin <=> role = "admin")
<1> DEFINE c == [Idle EXCEPT !.admin = role = "admin"]
           d == Begun(c, role, Quiet(T))
<1>1. c \in Task /\ c.keys = {} /\ Shaped(c) /\ (c.admin <=> role = "admin")
  <2>1. NoRows \in Rows /\ \A k \in Ids : NoRows[k] = None
    BY DEF NoRows, Rows
  <2>2. QED
    BY <2>1 DEF Idle, Task, Shaped, Ops, Stages
<1> HIDE DEF c
<1>2. Refreshing(T, c, role) = d /\ Quiet(T) \in SUBSET Keys
  BY <1>1, RefreshingBegins
<1>3. d \in Task /\ Shaped(d)
  BY <1>1, <1>2, BegunShaped
<1>4. /\ d.keys = {} /\ d.as = role /\ d.at = "lists" /\ d.read = {} /\ d.clean = Quiet(T)
      /\ d.admin = c.admin
  BY <1>1, <1>2 DEF Begun, Task, Stages
<1>5. Loading(T, s, role) = [T EXCEPT ![s] = d]
  BY <1>2 DEF Loading, c
<1> HIDE DEF d
<1>6. QED
  BY <1>1, <1>3, <1>4, <1>5

-----------------------------------------------------------------------------
(***************************************************************************)
(* Changes                                                                 *)
(***************************************************************************)
\* A change leaves well-formed rows, and changes what it says.
Sound(o) ==
    /\ o.rows \in Rows /\ o.changed \subseteq Ids
    /\ \A k \in Ids : o.rows[k] # None => o.rows[k].kind = Home[k]
    /\ \A k \in Ids \ o.changed : o.rows[k] = server[k]

LEMMA DeletionSound ==
  ASSUME TypeInv, NEW k \in Ids
  PROVE  /\ Sound(Deletion(k))
         /\ k \in Deletion(k).changed /\ Deletion(k).rows[k] = None
  BY Constants DEF Sound, Deletion, Outcome, Without, TypeInv, TypeOK, Rows, ServerKinds

LEMMA WritingSound ==
  ASSUME TypeInv, NEW k \in Ids, NEW row \in Row, row.kind = Home[k]
  PROVE  /\ Sound(Writing(k, row))
         /\ Writing(k, row).changed = {k} /\ Writing(k, row).rows[k] = row
  BY DEF Sound, Writing, Outcome, TypeInv, TypeOK, Rows, ServerKinds

\* What the change of a function does to the row it is about.
LEMMA OutcomeSound ==
  ASSUME TypeInv, NEW c \in Task, Shaped(c), c.at = "sent", NEW o \in Outcomes(c)
  PROVE  /\ Sound(o)
         /\ c.op = "update" => \A k \in c.keys :
               k \in Ids /\ o.changed = {k} /\ o.rows[k] = c.row
         /\ c.op = "delete" => \A k \in c.keys :
               k \in Ids /\ k \in o.changed /\ o.rows[k] = None
<1>1. c.op \in {"create", "update", "delete", "recalculate"} /\ c.row \in Row
  BY DEF Shaped, Task, Ops
<1>2. CASE c.op = "create"
  <2>1. PICK k \in Ids : Home[k] = c.row.kind /\ o = Writing(k, c.row)
    BY <1>2 DEF Outcomes
  <2>2. QED
    BY <1>1, <1>2, <2>1, WritingSound
<1>3. CASE c.op = "update"
  <2>1. PICK k \in c.keys \cap Ids : Home[k] = c.row.kind /\ o = Writing(k, c.row)
    BY <1>3 DEF Outcomes
  <2>2. c.keys = {k}
    BY <1>3, <2>1 DEF Shaped
  <2>3. QED
    BY <1>1, <1>3, <2>1, <2>2, WritingSound
<1>4. CASE c.op = "delete"
  <2>1. PICK k \in c.keys \cap Ids : o = Deletion(k)
    BY <1>4 DEF Outcomes
  <2>2. c.keys = {k}
    BY <1>4, <2>1 DEF Shaped
  <2>3. QED
    BY <1>4, <2>1, <2>2, DeletionSound
<1>5. CASE c.op = "recalculate"
  <2>1. PICK k \in Reports : o = Writing(k, c.row)
    BY <1>5 DEF Outcomes
  <2>2. c.row.kind = Home[k] /\ k \in Ids
    BY <1>5, <2>1 DEF Shaped, Reports
  <2>3. QED
    BY <1>1, <1>5, <2>1, <2>2, WritingSound
<1>6. QED
  BY <1>1, <1>2, <1>3, <1>4, <1>5

-----------------------------------------------------------------------------
(***************************************************************************)
(* What each step does to the functions                                    *)
(***************************************************************************)

\* Submit: a new function, for whoever is signed in.
LEMMA SubmitTasks ==
  ASSUME TypeInv, NEW s \in Slots, NEW op \in Ops \ {"refresh"}, NEW K \in SUBSET Keys,
         NEW row \in Row, Submit(s, op, K, row),
         op \in {"update", "delete"} => \E k \in Keys : K = {k},
         op = "recalculate" => row.kind = "report"
  PROVE  /\ Moved(s, K)
         /\ LET d == tasks'[s]
            IN  /\ d.op = op /\ d.keys = K /\ d.row = row /\ d.at = "sent" /\ d.heard
                /\ d.read = {} /\ d.clean = {}
         /\ me = "admin" /\ me' = me /\ events' \in 0..MaxEvents
         /\ tasks[s] = Idle
<1> DEFINE T == [tasks EXCEPT ![s] = Change(op, K, row)]
<1>0. me = "admin" /\ op \in Ops /\ row \in Row
  BY DEF Submit
<1>1. me = "admin" /\ tasks[s] = Idle /\ tasks' = Touched(T, K) /\ me' = me
  BY DEF Submit, Free
<1>2. events' \in 0..MaxEvents
  BY ConsoleAssumption DEF Submit, Event, TypeInv, TypeOK
<1> DEFINE c == Change(op, K, row)
<1>3. /\ c \in Task
      /\ c.op = op /\ c.keys = K /\ c.row = row /\ c.admin /\ c.heard
      /\ c.at = "sent" /\ c.read = {} /\ c.seen = NoRows /\ c.clean = {}
  <2>1. NoRows \in Rows
    BY DEF NoRows, Rows
  <2>2. QED
    BY <1>0, <2>1 DEF Change, Idle, Task, Ops, Stages, Roles
<1> HIDE DEF c
<1>4. Shaped(c)
  <2>1. \A k \in Ids : c.seen[k] = None
    BY <1>3 DEF NoRows
  <2>2. QED
    BY <1>3, <2>1 DEF Shaped
<1>5. T \in [Slots -> Task] /\ T[s] = c /\ \A x \in Slots \ {s} : T[x] = tasks[x]
  BY <1>3 DEF TypeInv, TypeOK, c
<1> HIDE DEF T
<1>6. tasks' \in [Slots -> Task] /\ \A x \in Slots : Like(tasks'[x], T[x], K)
  BY <1>1, <1>5, TouchedFields
<1>7. Others(s, K) /\ Like(tasks'[s], c, K)
  BY <1>5, <1>6 DEF Others
<1>8. Shaped(tasks'[s])
  BY <1>4, <1>7, LikeShaped
<1>9. QED
  BY <1>1, <1>2, <1>3, <1>6, <1>7, <1>8 DEF Like, Moved

\* Answered: the function goes on, unless nobody awaits the answer.
LEMMA AnsweredTasks ==
  ASSUME TypeInv, NEW s \in Slots, NEW answer \in {"ok", "refused"}, NEW changed \in SUBSET Ids,
         tasks[s].at = "sent", Answered(s, answer, changed)
  PROVE  /\ Moved(s, changed)
         /\ ~tasks[s].heard => tasks'[s] = Idle
         /\ tasks[s].heard =>
              LET d == tasks'[s]
              IN  /\ d.op = tasks[s].op /\ d.keys = tasks[s].keys \cup changed /\ d.at = answer
                  /\ d.clean = tasks[s].clean /\ d.read = tasks[s].read /\ d.seen = tasks[s].seen
                  /\ d.as = tasks[s].as
<1> DEFINE c == tasks[s]
           T == Touched(tasks, changed)
           d == [c EXCEPT !.at = answer, !.keys = @ \cup changed]
<1>1. c \in Task /\ Shaped(c) /\ tasks \in [Slots -> Task]
  BY DEF TypeInv, TypeOK
<1>2. T \in [Slots -> Task] /\ \A x \in Slots : Like(T[x], tasks[x], changed)
  BY <1>1, TouchedFields
<1>3. /\ d \in Task
      /\ d.op = c.op /\ d.keys = c.keys \cup changed /\ d.at = answer /\ d.admin = c.admin
      /\ d.clean = c.clean /\ d.read = c.read /\ d.seen = c.seen /\ d.as = c.as
  BY <1>1, Constants DEF Task, Stages
<1>4. Shaped(d)
  BY <1>1, <1>3 DEF Shaped
<1>5. tasks' = [T EXCEPT ![s] = IF ~c.heard THEN Idle ELSE d]
  BY DEF Answered
<1> HIDE DEF T, d, c
<1>6. tasks' \in [Slots -> Task] /\ Others(s, changed)
  BY <1>2, <1>3, <1>5, IdleFields DEF Others
<1>7. tasks'[s] = IF ~c.heard THEN Idle ELSE d
  BY <1>2, <1>5
<1>8. QED
  BY <1>3, <1>4, <1>6, <1>7, IdleFields DEF c, Moved

LEMMA OnlyMoved ==
  ASSUME TypeInv, NEW s \in Slots, NEW d \in Task, Shaped(d), tasks' = [tasks EXCEPT ![s] = d]
  PROVE  Moved(s, {}) /\ tasks'[s] = d
<1>1. tasks' \in [Slots -> Task] /\ tasks'[s] = d
  BY DEF TypeInv, TypeOK
<1>2. \A x \in Slots \ {s} : tasks'[x] = tasks[x]
  BY DEF TypeInv, TypeOK
<1>3. QED
  BY <1>1, <1>2, LikeSelf DEF Moved, Others, TypeInv

LEMMA HearAnswerTasks ==
  ASSUME TypeInv, NEW s \in Slots, HearAnswer(s)
  PROVE  /\ Moved(s, {})
         /\ IF CallsForRefresh(tasks[s]) /\ me # None
            THEN LET d == tasks'[s]
                 IN  /\ d.keys = tasks[s].keys /\ d.at = "lists" /\ d.as = me /\ d.read = {}
                     /\ d.clean = Quiet(tasks) /\ d.admin = tasks[s].admin
            ELSE tasks'[s] = Idle
<1> DEFINE c == tasks[s]
           d == Begun(c, me, Quiet(tasks))
<1>1. c \in Task /\ Shaped(c) /\ me \in Roles \cup {None}
  BY DEF TypeInv, TypeOK
<1>2. CASE CallsForRefresh(c) /\ me # None
  <2>1. tasks' = [tasks EXCEPT ![s] = d] /\ Quiet(tasks) \in SUBSET Keys
    BY <1>1, <1>2, RefreshingBegins DEF HearAnswer
  <2>2. d \in Task /\ Shaped(d)
    BY <1>1, <1>2, <2>1, BegunShaped
  <2>3. /\ d.keys = c.keys /\ d.at = "lists" /\ d.as = me /\ d.read = {} /\ d.clean = Quiet(tasks)
        /\ d.admin = c.admin
    BY <1>1, <1>2, <2>1 DEF Begun, Task, Stages
  <2> HIDE DEF d
  <2>4. Moved(s, {}) /\ tasks'[s] = d
    BY <2>1, <2>2, OnlyMoved
  <2>5. QED
    BY <1>2, <2>3, <2>4
<1>3. CASE ~(CallsForRefresh(c) /\ me # None)
  <2>1. tasks' = [tasks EXCEPT ![s] = Idle]
    BY <1>3 DEF HearAnswer, Refreshing
  <2>2. Moved(s, {}) /\ tasks'[s] = Idle
    BY <2>1, IdleFields, OnlyMoved
  <2>3. QED
    BY <1>3, <2>2
<1>4. QED
  BY <1>2, <1>3

LEMMA ReadListTasks ==
  ASSUME TypeInv, NEW s \in Slots, NEW kind \in Kinds, ReadList(s, kind)
  PROVE  /\ Moved(s, {})
         /\ LET c == tasks[s]
                d == tasks'[s]
            IN  /\ d.op = c.op /\ d.keys = c.keys /\ d.at = c.at /\ d.as = c.as
                /\ d.admin = c.admin
                /\ d.clean = c.clean /\ d.read = c.read \cup {kind}
                /\ \A k \in Ids : d.seen[k] = IF Home[k] = kind THEN server[k] ELSE c.seen[k]
         /\ tasks[s].at \in {"lists", "users", "reports"}
<1> DEFINE c == tasks[s]
           seen == [k \in Ids |-> IF Home[k] = kind THEN server[k] ELSE c.seen[k]]
           d == [c EXCEPT !.read = @ \cup {kind}, !.seen = seen]
<1>1. c \in Task /\ Shaped(c) /\ ServerKinds /\ server \in Rows
  BY DEF TypeInv, TypeOK
<1>2. c.at \in {"lists", "users", "reports"}
  BY DEF ReadList, Asked
<1>3. seen \in Rows /\ \A k \in Ids : seen[k] # None => seen[k].kind = Home[k]
  BY <1>1 DEF Rows, Shaped, ServerKinds, Task
<1>4. tasks' = [tasks EXCEPT ![s] = d]
  BY <1>1 DEF ReadList, Task
<1>5. \A k \in Ids : seen[k] = IF Home[k] = kind THEN server[k] ELSE c.seen[k]
  OBVIOUS
<1> HIDE DEF seen
<1>6. /\ d \in Task /\ d.op = c.op /\ d.keys = c.keys /\ d.at = c.at /\ d.as = c.as
      /\ d.clean = c.clean /\ d.read = c.read \cup {kind} /\ d.seen = seen
      /\ d.admin = c.admin
  BY <1>1, <1>3 DEF Task
<1> HIDE DEF d
<1>7. Shaped(d)
  BY <1>1, <1>2, <1>3, <1>6 DEF Shaped
<1>8. Moved(s, {}) /\ tasks'[s] = d
  BY <1>4, <1>6, <1>7, OnlyMoved
<1>9. QED
  BY <1>2, <1>5, <1>6, <1>8

\* A refresh gets to another stage.
LEMMA StageTasks ==
  ASSUME TypeInv, NEW s \in Slots, NEW next \in {"users", "reports"}, NEW role \in Roles \cup {None},
         NEW read \in SUBSET Kinds, tasks[s].at \in {"lists", "users", "reports"},
         tasks' = [tasks EXCEPT ![s] = [tasks[s] EXCEPT !.at = next, !.as = role, !.read = read]]
  PROVE  /\ Moved(s, {})
         /\ LET c == tasks[s]
                d == tasks'[s]
            IN  /\ d.op = c.op /\ d.keys = c.keys /\ d.at = next /\ d.as = role
                /\ d.clean = c.clean /\ d.read = read /\ d.seen = c.seen /\ d.admin = c.admin
<1> DEFINE c == tasks[s]
           d == [c EXCEPT !.at = next, !.as = role, !.read = read]
<1>1. c \in Task /\ Shaped(c)
  BY DEF TypeInv, TypeOK
<1>2. /\ d \in Task /\ d.op = c.op /\ d.keys = c.keys /\ d.at = next /\ d.as = role
      /\ d.clean = c.clean /\ d.read = read /\ d.seen = c.seen /\ d.admin = c.admin
  BY <1>1 DEF Task, Stages
<1> HIDE DEF d
<1>3. Shaped(d)
  BY <1>1, <1>2 DEF Shaped
<1>4. Moved(s, {}) /\ tasks'[s] = d
  BY <1>2, <1>3, OnlyMoved DEF d
<1>5. QED
  BY <1>2, <1>4

LEMMA GoOnTasks ==
  ASSUME TypeInv, NEW s \in Slots, NEW role \in Roles \cup {None},
         tasks[s].at \in {"lists", "users", "reports"}, GoOn(s, role)
  PROVE  /\ Moved(s, {})
         /\ IF tasks[s].at = "reports" THEN tasks'[s] = Idle
            ELSE LET c == tasks[s]
                     d == tasks'[s]
                 IN  /\ d.op = c.op /\ d.keys = c.keys /\ d.as = role
                     /\ d.at = IF c.at = "lists" /\ c.admin THEN "users" ELSE "reports"
                     /\ d.clean = c.clean /\ d.read = c.read /\ d.seen = c.seen
                     /\ d.admin = c.admin
<1>0. tasks[s] \in Task
  BY DEF TypeInv, TypeOK
<1>1. CASE tasks[s].at = "reports"
  <2>1. tasks' = [tasks EXCEPT ![s] = Idle]
    BY <1>1 DEF GoOn
  <2>2. QED
    BY <1>1, <2>1, IdleFields, OnlyMoved
<1>2. CASE tasks[s].at # "reports"
  <2>1. CASE tasks[s].at = "lists" /\ tasks[s].admin
    <3> DEFINE read == tasks[s].read
    <3>1. tasks' = [tasks EXCEPT ![s] = [tasks[s] EXCEPT !.at = "users", !.as = role, !.read = read]]
      BY <1>0, <1>2, <2>1 DEF GoOn, Task
    <3>2. read \in SUBSET Kinds
      BY <1>0 DEF Task
    <3> HIDE DEF read
    <3>3. /\ Moved(s, {})
          /\ LET c == tasks[s]
                 d == tasks'[s]
             IN  /\ d.op = c.op /\ d.keys = c.keys /\ d.at = "users" /\ d.as = role
                 /\ d.clean = c.clean /\ d.read = read /\ d.seen = c.seen /\ d.admin = c.admin
      BY <3>1, <3>2, StageTasks
    <3>4. QED
      BY <1>2, <2>1, <3>3 DEF read
  <2>2. CASE ~(tasks[s].at = "lists" /\ tasks[s].admin)
    <3> DEFINE read == tasks[s].read
    <3>1. tasks' = [tasks EXCEPT ![s] = [tasks[s] EXCEPT !.at = "reports", !.as = role, !.read = read]]
      BY <1>0, <1>2, <2>2 DEF GoOn, Task
    <3>2. read \in SUBSET Kinds
      BY <1>0 DEF Task
    <3> HIDE DEF read
    <3>3. /\ Moved(s, {})
          /\ LET c == tasks[s]
                 d == tasks'[s]
             IN  /\ d.op = c.op /\ d.keys = c.keys /\ d.at = "reports" /\ d.as = role
                 /\ d.clean = c.clean /\ d.read = read /\ d.seen = c.seen /\ d.admin = c.admin
      BY <3>1, <3>2, StageTasks
    <3>4. QED
      BY <1>2, <2>2, <3>3 DEF read
  <2>3. QED
    BY <2>1, <2>2
<1>3. QED
  BY <1>1, <1>2

LEMMA FailTasks ==
  ASSUME TypeInv, NEW s \in Slots, FailRefresh(s)
  PROVE  /\ Moved(s, {})
         /\ IF tasks[s].at = "reports" THEN tasks'[s] = Idle
            ELSE LET c == tasks[s]
                     d == tasks'[s]
                 IN  /\ d.op = c.op /\ d.keys = c.keys /\ d.as = me /\ d.at = "reports"
                     /\ d.clean = c.clean /\ d.read = c.read /\ d.seen = c.seen
                     /\ d.admin = c.admin
<1>1. tasks[s] \in Task /\ me \in Roles \cup {None}
  BY DEF TypeInv, TypeOK
<1>2. CASE tasks[s].at = "reports"
  <2>1. tasks' = [tasks EXCEPT ![s] = Idle]
    BY <1>2 DEF FailRefresh
  <2>2. QED
    BY <1>2, <2>1, IdleFields, OnlyMoved
<1>3. CASE tasks[s].at # "reports"
  <2> DEFINE read == tasks[s].read
  <2>1. tasks' = [tasks EXCEPT ![s] = [tasks[s] EXCEPT !.at = "reports", !.as = me, !.read = read]]
    BY <1>1, <1>3 DEF FailRefresh, Task
  <2>2. read \in SUBSET Kinds
    BY <1>1 DEF Task
  <2>3. tasks[s].at \in {"lists", "users", "reports"}
    BY DEF FailRefresh
  <2> HIDE DEF read
  <2>4. /\ Moved(s, {})
        /\ LET c == tasks[s]
               d == tasks'[s]
           IN  /\ d.op = c.op /\ d.keys = c.keys /\ d.at = "reports" /\ d.as = me
               /\ d.clean = c.clean /\ d.read = read /\ d.seen = c.seen /\ d.admin = c.admin
    BY <1>1, <2>1, <2>2, <2>3, StageTasks
  <2>5. QED
    BY <1>3, <2>4 DEF read
<1>4. QED
  BY <1>2, <1>3

\* A reload leaves the changes that were sent, with nobody to hear of them.
SentOnly == [x \in Slots |-> IF tasks[x].at = "sent" THEN [tasks[x] EXCEPT !.heard = FALSE] ELSE Idle]

LEMMA SentOnlyFields ==
  ASSUME TypeInv
  PROVE  /\ SentOnly \in [Slots -> Task]
         /\ \A x \in Slots : Shaped(SentOnly[x])
         /\ \A x \in Slots : IF tasks[x].at = "sent"
               THEN /\ SentOnly[x].at = "sent" /\ ~SentOnly[x].heard
                    /\ SentOnly[x].op = tasks[x].op /\ SentOnly[x].keys = tasks[x].keys
                    /\ SentOnly[x].as = tasks[x].as /\ SentOnly[x].clean = tasks[x].clean
                    /\ SentOnly[x].seen = tasks[x].seen /\ SentOnly[x].read = tasks[x].read
               ELSE SentOnly[x] = Idle
<1>1. ASSUME NEW x \in Slots, tasks[x].at = "sent"
      PROVE  /\ SentOnly[x] \in Task /\ Shaped(SentOnly[x])
             /\ SentOnly[x].at = "sent" /\ ~SentOnly[x].heard
             /\ SentOnly[x].op = tasks[x].op /\ SentOnly[x].keys = tasks[x].keys
             /\ SentOnly[x].as = tasks[x].as /\ SentOnly[x].clean = tasks[x].clean
             /\ SentOnly[x].seen = tasks[x].seen /\ SentOnly[x].read = tasks[x].read
  <2> DEFINE c == tasks[x]
             d == [c EXCEPT !.heard = FALSE]
  <2>1. c \in Task /\ Shaped(c) /\ c.at = "sent"
    BY <1>1 DEF TypeInv, TypeOK
  <2>2. /\ d \in Task /\ d.at = "sent" /\ ~d.heard /\ d.op = c.op /\ d.keys = c.keys
        /\ d.as = c.as /\ d.clean = c.clean /\ d.seen = c.seen /\ d.read = c.read
        /\ d.row = c.row /\ d.admin = c.admin
    BY <2>1 DEF Task
  <2>3. SentOnly[x] = d
    BY <1>1 DEF SentOnly
  <2> HIDE DEF d
  <2>4. Shaped(d)
    BY <2>1, <2>2 DEF Shaped
  <2>5. QED
    BY <2>2, <2>3, <2>4
<1>2. ASSUME NEW x \in Slots, tasks[x].at # "sent"
      PROVE  SentOnly[x] = Idle
  BY <1>2 DEF SentOnly
<1>3. \A x \in Slots : SentOnly[x] \in Task /\ Shaped(SentOnly[x])
  BY <1>1, <1>2, IdleFields
<1>4. SentOnly \in [Slots -> Task]
  BY <1>3 DEF SentOnly
<1>5. QED
  BY <1>1, <1>2, <1>3, <1>4

-----------------------------------------------------------------------------
(***************************************************************************)
(* Types                                                                   *)
(***************************************************************************)
Pages == [Keys -> Row \cup {None}]

LEMMA ShapesFrom ==
  ASSUME TypeInv, NEW s \in Slots, NEW K, Moved(s, K)
  PROVE  tasks' \in [Slots -> Task] /\ \A x \in Slots : Shaped(tasks'[x])
<1>1. \A x \in Slots \ {s} : Shaped(tasks[x]) /\ Like(tasks'[x], tasks[x], K)
  BY DEF TypeInv, Moved, Others
<1>2. \A x \in Slots \ {s} : Shaped(tasks'[x])
  BY <1>1, LikeShaped
<1>3. QED
  BY <1>2 DEF Moved

LEMMA PressType ==
  ASSUME TypeInv, NEW s \in Slots, NEW op \in Ops \ {"refresh"}, NEW K \in SUBSET Keys,
         NEW row \in Row, Submit(s, op, K, row), page' \in Pages,
         op \in {"update", "delete"} => \E k \in Keys : K = {k},
         op = "recalculate" => row.kind = "report"
  PROVE  TypeInv'
<1>1. Moved(s, K) /\ me' = me /\ events' \in 0..MaxEvents
  BY SubmitTasks
<1>2. doubtful' \subseteq Keys /\ server' = server /\ late' = late
  BY DEF Submit, TypeInv, TypeOK
<1>3. QED
  BY <1>1, <1>2, ShapesFrom DEF TypeInv, TypeOK, ServerKinds, Pages

\* The buttons that send a change.
LEMMA ButtonType ==
  ASSUME TypeInv, NEW s \in Slots, NEW row \in Row,
         (\E k \in Keys : Save(s, k, row)) \/ Create(s, row) \/ Recalculate(s, row)
  PROVE  TypeInv'
<1>1. ASSUME NEW k \in Keys, Save(s, k, row) PROVE TypeInv'
  <2>1. Submit(s, "update", {k}, row) /\ page' \in Pages
    BY <1>1 DEF Save, Show, TypeInv, TypeOK, Pages
  <2>2. "update" \in Ops \ {"refresh"} /\ {k} \in SUBSET Keys
    BY DEF Ops
  <2>3. QED
    BY <2>1, <2>2, PressType
<1>2. CASE Create(s, row)
  <2>1. "create" \in Ops \ {"refresh"} /\ {Phantom} \in SUBSET Keys /\ {} \in SUBSET Keys
    BY Constants DEF Ops
  <2>2. page' \in Pages
    BY <1>2 DEF Create, Show, TypeInv, TypeOK, Pages
  <2>3. CASE Submit(s, "create", {Phantom}, row)
    BY <2>1, <2>2, <2>3, PressType
  <2>4. CASE Submit(s, "create", {}, row)
    BY <2>1, <2>2, <2>4, PressType
  <2>5. QED
    BY <1>2, <2>3, <2>4 DEF Create
<1>3. CASE Recalculate(s, row)
  <2>1. "recalculate" \in Ops \ {"refresh"} /\ {} \in SUBSET Keys
    BY DEF Ops
  <2>2. /\ Submit(s, "recalculate", {}, row) /\ row.kind = "report"
        /\ page' \in Pages
    BY <1>3 DEF Recalculate, TypeInv, TypeOK, Pages
  <2>3. QED
    BY <2>1, <2>2, PressType
<1>4. QED
  BY <1>1, <1>2, <1>3

LEMMA DeleteType ==
  ASSUME TypeInv, NEW s \in Slots, NEW k \in Keys, Delete(s, k)
  PROVE  TypeInv'
<1>1. page[k] \in Row /\ page' \in Pages
  BY DEF Delete, Show, TypeInv, TypeOK, Pages
<1>2. Submit(s, "delete", {k}, page[k])
  BY DEF Delete
<1>3. "delete" \in Ops \ {"refresh"} /\ {k} \in SUBSET Keys
  BY DEF Ops
<1>4. QED
  BY <1>1, <1>2, <1>3, PressType

LEMMA LoadType ==
  ASSUME TypeInv, NEW s \in Slots,
         Refresh(s) \/ (\E role \in Roles : SignIn(s, role)) \/ Reload(s)
  PROVE  TypeInv'
<1>1. events' \in 0..MaxEvents
  BY ConsoleAssumption DEF Refresh, SignIn, Reload, Event, TypeInv, TypeOK
<1>2. ASSUME NEW T \in [Slots -> Task], \A x \in Slots : Shaped(T[x]), NEW role \in Roles,
             tasks' = Loading(T, s, role)
      PROVE  tasks' \in [Slots -> Task] /\ \A x \in Slots : Shaped(tasks'[x])
  BY <1>2, LoadingFields
<1>3. tasks \in [Slots -> Task] /\ \A x \in Slots : Shaped(tasks[x])
  BY DEF TypeInv, TypeOK
<1>4. CASE Refresh(s)
  <2>1. me \in Roles
    BY <1>4 DEF Refresh, TypeInv, TypeOK
  <2>2. tasks' \in [Slots -> Task] /\ \A x \in Slots : Shaped(tasks'[x])
    BY <1>2, <1>3, <1>4, <2>1 DEF Refresh
  <2>3. QED
    BY <1>1, <1>4, <2>2 DEF Refresh, TypeInv, TypeOK, ServerKinds
<1>5. ASSUME NEW role \in Roles, SignIn(s, role) PROVE TypeInv'
  <2>1. tasks' \in [Slots -> Task] /\ \A x \in Slots : Shaped(tasks'[x])
    BY <1>2, <1>3, <1>5 DEF SignIn
  <2>2. QED
    BY <1>1, <1>5, <2>1 DEF SignIn, TypeInv, TypeOK, ServerKinds
<1>6. CASE Reload(s)
  <2>1. me \in Roles
    BY <1>6 DEF Reload, TypeInv, TypeOK
  <2>2. tasks' = Loading(SentOnly, s, me)
    BY <1>6 DEF Reload, SentOnly
  <2>3. tasks' \in [Slots -> Task] /\ \A x \in Slots : Shaped(tasks'[x])
    BY <1>2, <2>1, <2>2, SentOnlyFields
  <2>4. page' \in Pages
    BY <1>6 DEF Reload, TypeInv, TypeOK, Pages
  <2>5. QED
    BY <1>1, <1>6, <2>3, <2>4 DEF Reload, TypeInv, TypeOK, ServerKinds, Pages
<1>7. QED
  BY <1>4, <1>5, <1>6

LEMMA LeaveFields ==
  ASSUME TypeInv, Leave
  PROVE  /\ page' \in Pages /\ me' = None /\ late' \in BOOLEAN
         /\ late' <=> \E s \in Slots : tasks[s] # Idle
         /\ \A k \in Keys : page'[k] # None => page'[k].kind = "report"
<1>1. late' = \E s \in Slots : tasks[s] # Idle
  BY DEF Leave, Free
<1>2. late' \in BOOLEAN /\ (late' <=> \E s \in Slots : tasks[s] # Idle)
  BY <1>1, Zenon
<1>3. QED
  BY <1>2 DEF Leave, TypeInv, TypeOK, Pages

LEMMA SignOutType ==
  ASSUME TypeInv, SignOut
  PROVE  TypeInv'
<1>1. page' \in Pages /\ me' = None /\ late' \in BOOLEAN
  BY LeaveFields DEF SignOut
<1>2. events' \in 0..MaxEvents
  BY ConsoleAssumption DEF SignOut, Event, TypeInv, TypeOK
<1>3. QED
  BY <1>1, <1>2 DEF SignOut, TypeInv, TypeOK, ServerKinds, Pages

LEMMA EventsType ==
  ASSUME TypeInv, Event \/ UNCHANGED events
  PROVE  events' \in 0..MaxEvents
  BY ConsoleAssumption DEF Event, TypeInv, TypeOK

\* The server carries a change out, whether the browser is told so or not.
LEMMA CarryOutFields ==
  ASSUME TypeInv, NEW s \in Slots, CarryOut(s)
  PROVE  \E o \in Outcomes(tasks[s]), answer \in {"ok", "refused"} :
            /\ Sound(o) /\ server' = o.rows /\ Answered(s, answer, o.changed)
            /\ doubtful' = doubtful \cup IF ~tasks[s].heard THEN o.changed
                                         ELSE IF tasks[s].op = "delete" THEN o.changed \ tasks[s].keys
                                         ELSE {}
            /\ Event \/ UNCHANGED events
<1>1. tasks[s] \in Task /\ Shaped(tasks[s]) /\ tasks[s].at = "sent"
  BY DEF TypeInv, TypeOK, CarryOut
<1>2. PICK o \in Outcomes(tasks[s]) :
         /\ server' = o.rows
         /\ doubtful' = doubtful \cup IF ~tasks[s].heard THEN o.changed
                                      ELSE IF tasks[s].op = "delete" THEN o.changed \ tasks[s].keys
                                      ELSE {}
         /\ \/ Answered(s, "ok", o.changed) /\ UNCHANGED events
            \/ Answered(s, "refused", o.changed) /\ Event
  BY DEF CarryOut
<1>3. Sound(o)
  BY <1>1, OutcomeSound
<1>4. QED
  BY <1>2, <1>3

LEMMA ServeType ==
  ASSUME TypeInv, NEW s \in Slots, CarryOut(s) \/ Refuse(s)
  PROVE  TypeInv'
<1>1. CASE CarryOut(s)
  <2>1. PICK o \in Outcomes(tasks[s]), answer \in {"ok", "refused"} :
            /\ Sound(o) /\ server' = o.rows /\ Answered(s, answer, o.changed)
            /\ doubtful' = doubtful \cup IF ~tasks[s].heard THEN o.changed
                                         ELSE IF tasks[s].op = "delete" THEN o.changed \ tasks[s].keys
                                         ELSE {}
            /\ Event \/ UNCHANGED events
    BY <1>1, CarryOutFields
  <2>2. o.rows \in Rows /\ o.changed \in SUBSET Ids /\ ServerKinds'
    BY <2>1 DEF Sound, ServerKinds
  <2>3. tasks[s].at = "sent"
    BY <1>1 DEF CarryOut
  <2>4. Moved(s, o.changed)
    BY <2>1, <2>2, <2>3, AnsweredTasks
  <2>5. tasks' \in [Slots -> Task] /\ \A x \in Slots : Shaped(tasks'[x])
    BY <2>4, ShapesFrom
  <2>6. doubtful' \subseteq Keys /\ events' \in 0..MaxEvents
    BY <2>1, <2>2, Constants, EventsType DEF TypeInv, TypeOK
  <2>7. QED
    BY <1>1, <2>1, <2>2, <2>5, <2>6 DEF CarryOut, TypeInv, TypeOK
<1>2. CASE Refuse(s)
  <2>1. tasks[s].at = "sent" /\ {} \in SUBSET Ids /\ Answered(s, "refused", {})
    BY <1>2 DEF Refuse
  <2>2. Moved(s, {})
    BY <2>1, AnsweredTasks
  <2>3. tasks' \in [Slots -> Task] /\ \A x \in Slots : Shaped(tasks'[x])
    BY <2>2, ShapesFrom
  <2>4. QED
    BY <1>2, <2>3 DEF Refuse, TypeInv, TypeOK, ServerKinds
<1>3. QED
  BY <1>1, <1>2

\* The changes made elsewhere.
LEMMA ElsewhereFields ==
  ASSUME TypeInv, NEW o, Sound(o), ChangeElsewhere(o)
  PROVE  /\ tasks' \in [Slots -> Task]
         /\ \A x \in Slots : Like(tasks'[x], tasks[x], o.changed) /\ Shaped(tasks'[x])
<1>1. tasks \in [Slots -> Task] /\ \A x \in Slots : Shaped(tasks[x])
  BY DEF TypeInv, TypeOK
<1>2. tasks' = Touched(tasks, o.changed)
  BY DEF ChangeElsewhere
<1>3. tasks' \in [Slots -> Task] /\ \A x \in Slots : Like(tasks'[x], tasks[x], o.changed)
  BY <1>1, <1>2, TouchedFields
<1>4. QED
  BY <1>1, <1>3, LikeShaped

LEMMA ElsewhereType ==
  ASSUME TypeInv, NEW o, Sound(o), ChangeElsewhere(o)
  PROVE  TypeInv'
<1>1. tasks' \in [Slots -> Task] /\ \A x \in Slots : Shaped(tasks'[x])
  BY ElsewhereFields
<1>2. events' \in 0..MaxEvents
  BY EventsType DEF ChangeElsewhere
<1>3. server' \in Rows /\ ServerKinds' /\ doubtful' \subseteq Keys
  BY Constants DEF ChangeElsewhere, Sound, ServerKinds, TypeInv, TypeOK
<1>4. QED
  BY <1>1, <1>2, <1>3 DEF ChangeElsewhere, TypeInv, TypeOK

\* A refresh that goes on.
LEMMA KeysOfKeys == \A S : KeysOf(S) \subseteq Keys
  BY Constants DEF KeysOf

LEMMA HearListsFields ==
  ASSUME TypeInv, NEW s \in Slots, HearLists(s)
  PROVE  LET c == tasks[s]
             K == KeysOf(Asked(c.at))
         IN  /\ c.at \in {"lists", "users", "reports"} /\ Asked(c.at) \subseteq c.read
             /\ page' \in Pages
             /\ \A k \in Keys : page'[k] = IF k \notin K THEN page[k]
                                          ELSE IF k = Phantom THEN None ELSE c.seen[k]
             /\ doubtful' = (doubtful \ (K \cap c.clean)) \cup (K \ c.clean)
             /\ doubtful' \subseteq Keys
             /\ GoOn(s, me) /\ Moved(s, {})
<1> DEFINE c == tasks[s]
           K == KeysOf(Asked(c.at))
<1>1. c.at \in {"lists", "users", "reports"} /\ Asked(c.at) \subseteq c.read /\ GoOn(s, me)
  BY DEF HearLists
<1>2. me \in Roles \cup {None} /\ c.seen \in Rows /\ K \subseteq Keys
  BY KeysOfKeys DEF TypeInv, TypeOK, Task
<1>3. Moved(s, {})
  BY <1>1, <1>2, GoOnTasks
<1>4. doubtful' = (doubtful \ (K \cap c.clean)) \cup (K \ c.clean)
  BY DEF HearLists
<1>5. page' = [k \in Keys |-> IF k \notin K THEN page[k]
                              ELSE IF k = Phantom THEN None ELSE c.seen[k]]
  BY DEF HearLists
<1> HIDE DEF K
<1>6. page' \in Pages
  BY <1>2, <1>5 DEF Pages, Rows, Keys, TypeInv, TypeOK
<1>7. doubtful' \subseteq Keys
  BY <1>2, <1>4 DEF TypeInv, TypeOK
<1>8. QED
  BY <1>1, <1>3, <1>4, <1>5, <1>6, <1>7 DEF K

LEMMA HearType ==
  ASSUME TypeInv, NEW s \in Slots,
         \/ HearAnswer(s) \/ HearLists(s) \/ HearRefused(s) \/ FailRefresh(s)
         \/ \E kind \in Kinds : ReadList(s, kind)
  PROVE  TypeInv'
<1>1. tasks[s].keys \subseteq Keys
  BY DEF TypeInv, TypeOK, Task
<1>2. CASE HearAnswer(s)
  <2>1. tasks' \in [Slots -> Task] /\ \A x \in Slots : Shaped(tasks'[x])
    BY <1>2, HearAnswerTasks, ShapesFrom
  <2>2. doubtful' \subseteq Keys
    BY <1>1, <1>2 DEF HearAnswer, TypeInv, TypeOK
  <2>3. QED
    BY <1>2, <2>1, <2>2 DEF HearAnswer, TypeInv, TypeOK, ServerKinds
<1>3. ASSUME NEW kind \in Kinds, ReadList(s, kind) PROVE TypeInv'
  <2>1. tasks' \in [Slots -> Task] /\ \A x \in Slots : Shaped(tasks'[x])
    BY <1>3, ReadListTasks, ShapesFrom
  <2>2. QED
    BY <1>3, <2>1 DEF ReadList, TypeInv, TypeOK, ServerKinds
<1>4. CASE HearLists(s)
  <2>1. page' \in Pages /\ doubtful' \subseteq Keys /\ Moved(s, {})
    BY <1>4, HearListsFields
  <2>2. tasks' \in [Slots -> Task] /\ \A x \in Slots : Shaped(tasks'[x])
    BY <2>1, ShapesFrom
  <2>3. QED
    BY <1>4, <2>1, <2>2 DEF HearLists, TypeInv, TypeOK, ServerKinds, Pages
<1>5. CASE HearRefused(s)
  <2>1. Moved(s, {})
    BY <1>5, GoOnTasks DEF HearRefused, TypeInv, TypeOK
  <2>2. tasks' \in [Slots -> Task] /\ \A x \in Slots : Shaped(tasks'[x])
    BY <2>1, ShapesFrom
  <2>3. page' \in Pages /\ me' \in Roles \cup {None} /\ late' \in BOOLEAN
    BY <1>5, LeaveFields DEF HearRefused, TypeInv, TypeOK, Pages
  <2>4. doubtful' \subseteq Keys
    BY <1>1, <1>5 DEF HearRefused, TypeInv, TypeOK
  <2>5. QED
    BY <1>5, <2>2, <2>3, <2>4 DEF HearRefused, TypeInv, TypeOK, ServerKinds, Pages
<1>6. CASE FailRefresh(s)
  <2>1. tasks' \in [Slots -> Task] /\ \A x \in Slots : Shaped(tasks'[x])
    BY <1>6, FailTasks, ShapesFrom
  <2>2. doubtful' \subseteq Keys /\ events' \in 0..MaxEvents
    BY <1>1, <1>6, EventsType DEF FailRefresh, TypeInv, TypeOK
  <2>3. QED
    BY <1>6, <2>1, <2>2 DEF FailRefresh, TypeInv, TypeOK, ServerKinds
<1>7. QED
  BY <1>2, <1>3, <1>4, <1>5, <1>6

LEMMA InitType == Init => TypeInv
<1>1. SUFFICES ASSUME Init PROVE TypeInv
  OBVIOUS
<1>2. server \in Rows /\ ServerKinds
  BY <1>1, ConsoleAssumption DEF Init, ServerKinds
<1>3. tasks \in [Slots -> Task] /\ \A s \in Slots : Shaped(tasks[s])
  BY <1>1, IdleFields DEF Init
<1>4. late \in BOOLEAN
  BY <1>1 DEF Init
<1>5. QED
  BY <1>1, <1>2, <1>3, <1>4, ConsoleAssumption DEF Init, TypeInv, TypeOK

\* The ways of a step; what is changed elsewhere is one of two sorts.
Elsewhere == \E o : Sound(o) /\ ChangeElsewhere(o)

LEMMA NextSplit ==
  ASSUME TypeInv, Next
  PROVE  \/ \E s \in Slots : Press(s) \/ Progress(s) \/ FailRefresh(s)
         \/ SignOut \/ Elsewhere
<1>1. ASSUME NEW k \in Ids, ChangeElsewhere(Deletion(k)) PROVE Elsewhere
  BY <1>1, DeletionSound DEF Elsewhere
<1>2. ASSUME NEW k \in Ids, NEW v \in Values,
             ChangeElsewhere(Writing(k, [kind |-> Home[k], value |-> v]))
      PROVE  Elsewhere
  <2>1. [kind |-> Home[k], value |-> v] \in Row /\ [kind |-> Home[k], value |-> v].kind = Home[k]
    BY Constants DEF Row
  <2>2. Sound(Writing(k, [kind |-> Home[k], value |-> v]))
    BY <2>1, WritingSound
  <2>3. QED
    BY <1>2, <2>2 DEF Elsewhere
<1>3. CASE \E k \in Ids : \/ ChangeElsewhere(Deletion(k))
                         \/ \E v \in Values :
                               ChangeElsewhere(Writing(k, [kind |-> Home[k], value |-> v]))
  BY <1>1, <1>2, <1>3, Zenon
<1>4. QED
  BY <1>3, Zenon DEF Next

LEMMA NextType == TypeInv /\ [Next]_vars => TypeInv'
<1>1. SUFFICES ASSUME TypeInv, [Next]_vars PROVE TypeInv'
  OBVIOUS
<1>2. CASE UNCHANGED vars
  BY <1>1, <1>2 DEF vars, TypeInv, TypeOK, ServerKinds
<1>3. ASSUME NEW s \in Slots, Press(s) PROVE TypeInv'
  <2>1. CASE \E row \in Row : (\E k \in Keys : Save(s, k, row)) \/ Create(s, row) \/ Recalculate(s, row)
    BY <1>1, <2>1, ButtonType, Zenon
  <2>2. CASE \E k \in Keys : Delete(s, k)
    BY <1>1, <2>2, DeleteType, Zenon
  <2>3. CASE Refresh(s) \/ (\E role \in Roles : SignIn(s, role)) \/ Reload(s)
    BY <1>1, <2>3, LoadType
  <2>4. QED
    BY <1>3, <2>1, <2>2, <2>3, Zenon DEF Press
<1>4. ASSUME NEW s \in Slots, Progress(s) \/ FailRefresh(s) PROVE TypeInv'
  <2>1. CASE CarryOut(s) \/ Refuse(s)
    BY <1>1, <2>1, ServeType
  <2>2. CASE \/ HearAnswer(s) \/ HearLists(s) \/ HearRefused(s) \/ FailRefresh(s)
             \/ \E kind \in Kinds : ReadList(s, kind)
    BY <1>1, <2>2, HearType
  <2>3. QED
    BY <1>4, <2>1, <2>2, Zenon DEF Progress
<1>5. CASE SignOut
  BY <1>1, <1>5, SignOutType
<1>6. CASE Elsewhere
  BY <1>1, <1>6, ElsewhereType, Zenon DEF Elsewhere
<1>7. QED
  BY <1>1, <1>2, <1>3, <1>4, <1>5, <1>6, NextSplit, Zenon

\* The state of Console is well typed: a change in flight has the row it is
\* about, and every list has rows of its own kind.
THEOREM TypeCorrect == Spec => []TypeOK
<1>1. TypeInv => TypeOK
  BY DEF TypeInv
<1>2. QED
  BY <1>1, InitType, NextType, PTL DEF Spec

-----------------------------------------------------------------------------
(***************************************************************************)
(* What one person saw                                                     *)
(***************************************************************************)
\* With nothing under way at the last sign-out: nothing is, before the next
\* sign-in; and then only what a viewer has begun, which never asks for users.
Strangers ==
    ~late => /\ me = None => \A s \in Slots : tasks[s].at = "idle" /\ ~tasks[s].admin
             /\ me = "viewer" => \A s \in Slots : tasks[s].at # "users" /\ ~tasks[s].admin

Private == Strangers /\ NothingIsLeftBehind

\* Nothing is claimed of an administrator, or after a hasty sign-out.
LEMMA NotClaimed ==
  ASSUME me' = "admin" \/ late'
  PROVE  Private'
<1>1. None # "admin"
  BY Constants DEF Roles
<1>2. QED
  BY <1>1 DEF Private, Strangers, NothingIsLeftBehind

LEMMA NoUsersShown ==
  ASSUME Private, me = "viewer", ~late, NEW k \in Keys, page[k] # None
  PROVE  page[k].kind # "user"
  BY DEF Private, NothingIsLeftBehind

\* A viewer's function goes on.
LEMMA ViewerGoesOn ==
  ASSUME Private, me = "viewer", me' = me, ~late, NEW s \in Slots, NEW K, Others(s, K),
         tasks'[s].at # "users", ~tasks'[s].admin,
         \A k \in Keys : page'[k] # None => page'[k].kind # "user"
  PROVE  Private'
<1>1. me' # None
  BY Constants DEF Roles
<1>2. ASSUME NEW x \in Slots \ {s} PROVE tasks'[x].at # "users" /\ ~tasks'[x].admin
  BY <1>2 DEF Private, Strangers, Others, Like
<1>3. Strangers'
  BY <1>1, <1>2 DEF Strangers
<1>4. NothingIsLeftBehind'
  BY <1>1 DEF NothingIsLeftBehind
<1>5. QED
  BY <1>3, <1>4 DEF Private

\* Buttons of changes are an administrator's.
LEMMA SubmitPrivate ==
  ASSUME NEW s, NEW op, NEW K, NEW row, Submit(s, op, K, row)
  PROVE  Private'
<1>1. me' = "admin"
  BY DEF Submit
<1>2. QED
  BY <1>1, NotClaimed

LEMMA LoadPrivate ==
  ASSUME TypeInv, Private, NEW s \in Slots,
         Refresh(s) \/ (\E role \in Roles : SignIn(s, role)) \/ Reload(s)
  PROVE  Private'
<1>1. late' = late
  BY DEF Refresh, SignIn, Reload
<1>2. CASE late
  BY <1>1, <1>2, NotClaimed
<1>3. CASE ~late /\ Refresh(s)
  <2>1. me' = me /\ page' = page /\ tasks' = Loading(tasks, s, me) /\ me \in Roles
    BY <1>3 DEF Refresh, TypeInv, TypeOK
  <2>2. CASE me = "viewer"
    <3>1. tasks'[s].at = "lists" /\ (tasks'[s].admin <=> me = "admin")
      BY <2>1, LoadingFields DEF TypeInv, TypeOK
    <3>2. \A x \in Slots \ {s} : tasks'[x] = tasks[x]
      BY <2>1, LoadingFields DEF TypeInv, TypeOK
    <3>3. Others(s, {})
      BY <3>2, LikeSelf DEF Others, TypeInv
    <3>4. QED
      BY <1>3, <2>1, <2>2, <3>1, <3>3, NoUsersShown, ViewerGoesOn
  <2>3. CASE me = "admin"
    BY <2>1, <2>3, NotClaimed
  <2>4. QED
    BY <2>1, <2>2, <2>3 DEF Roles
<1>4. ASSUME ~late, NEW role \in Roles, SignIn(s, role) PROVE Private'
  <2>1. me = None /\ me' = role /\ page' = page /\ tasks' = Loading(tasks, s, role)
    BY <1>4 DEF SignIn
  <2>2. CASE role = "viewer"
    <3>1. tasks'[s].at = "lists" /\ (tasks'[s].admin <=> role = "admin")
      BY <2>1, LoadingFields DEF TypeInv, TypeOK
    <3>2. \A x \in Slots \ {s} : tasks'[x] = tasks[x]
      BY <2>1, LoadingFields DEF TypeInv, TypeOK
    <3>3. \A x \in Slots : tasks'[x].at # "users" /\ ~tasks'[x].admin
      BY <1>4, <2>1, <2>2, <3>1, <3>2 DEF Private, Strangers
    <3>4. \A k \in Keys : page'[k] # None => page'[k].kind # "user"
      BY <1>4, <2>1 DEF Private, NothingIsLeftBehind
    <3>5. me' # None /\ me' = "viewer"
      BY <2>1, <2>2, Constants DEF Roles
    <3>6. QED
      BY <3>3, <3>4, <3>5 DEF Private, Strangers, NothingIsLeftBehind
  <2>3. CASE role = "admin"
    BY <2>1, <2>3, NotClaimed
  <2>4. QED
    BY <1>4, <2>2, <2>3 DEF Roles
<1>5. CASE ~late /\ Reload(s)
  <2>1. me' = me /\ tasks' = Loading(SentOnly, s, me) /\ me \in Roles
    BY <1>5 DEF Reload, SentOnly, TypeInv, TypeOK
  <2>2. CASE me = "viewer"
    <3>1. SentOnly \in [Slots -> Task]
      BY SentOnlyFields
    <3>2. tasks'[s].at = "lists" /\ (tasks'[s].admin <=> me = "admin")
      BY <2>1, <3>1, LoadingFields
    <3>3. ASSUME NEW x \in Slots \ {s} PROVE tasks'[x] = Idle
      <4>1. tasks[x].at # "sent"
        BY <1>5, <2>2 DEF Private, Strangers, TypeInv, Shaped
      <4>2. SentOnly[x] = Idle
        BY <4>1 DEF SentOnly
      <4>3. QED
        BY <2>1, <3>1, <4>2, LoadingFields
    <3>4. \A x \in Slots : tasks'[x].at # "users" /\ ~tasks'[x].admin
      BY <2>2, <3>2, <3>3, IdleFields
    <3>5. \A k \in Keys : page'[k] = None \/ page'[k] = page[k]
      BY <1>5 DEF Reload
    <3>6. \A k \in Keys : page'[k] # None => page'[k].kind # "user"
      BY <1>5, <2>2, <3>5, NoUsersShown
    <3>7. me' # None /\ me' = "viewer"
      BY <2>1, <2>2, Constants
    <3>8. QED
      BY <3>4, <3>6, <3>7 DEF Private, Strangers, NothingIsLeftBehind
  <2>3. CASE me = "admin"
    BY <2>1, <2>3, NotClaimed
  <2>4. QED
    BY <2>1, <2>2, <2>3 DEF Roles
<1>6. QED
  BY <1>2, <1>3, <1>4, <1>5

LEMMA LeavePrivate ==
  ASSUME TypeInv, Leave, \A s \in Slots : tasks[s] = Idle => tasks'[s] = Idle
  PROVE  Private'
<1>1. CASE late'
  BY <1>1, NotClaimed
<1>2. CASE ~late'
  <2>1. \A s \in Slots : tasks'[s] = Idle
    BY <1>2, LeaveFields
  <2>2. me' = None /\ None # "viewer" /\ \A k \in Keys : page'[k] # None => page'[k].kind = "report"
    BY LeaveFields, Constants DEF Roles
  <2>3. QED
    BY <2>1, <2>2, IdleFields DEF Private, Strangers, NothingIsLeftBehind
<1>3. QED
  BY <1>1, <1>2

\* What goes on is an administrator's, goes on after a hasty sign-out, or is a
\* viewer's refresh.
LEMMA UnderWay ==
  ASSUME TypeInv, Private, NEW s \in Slots, tasks[s].at # "idle"
  PROVE  \/ late \/ me = "admin"
         \/ me = "viewer" /\ ~late /\ tasks[s].at # "users" /\ ~tasks[s].admin /\ tasks[s].at # "sent"
<1>1. me \in {"admin", "viewer", None}
  BY DEF TypeInv, TypeOK, Roles
<1>2. QED
  BY <1>1 DEF Private, Strangers, TypeInv, Shaped

LEMMA HearPrivate ==
  ASSUME TypeInv, Private, NEW s \in Slots,
         \/ CarryOut(s) \/ Refuse(s)
         \/ HearAnswer(s) \/ HearLists(s) \/ HearRefused(s) \/ FailRefresh(s)
         \/ \E kind \in Kinds : ReadList(s, kind)
  PROVE  Private'
<1> DEFINE c == tasks[s]
<1>1. c.at # "idle"
  BY DEF CarryOut, Refuse, HearAnswer, HearLists, HearRefused, FailRefresh, ReadList, Asked
<1>2. CASE HearRefused(s) /\ c.as = None
  <2>1. Leave /\ GoOn(s, None) /\ c.at \in {"users", "reports"}
    BY <1>2 DEF HearRefused
  <2>2. c # Idle
    BY <1>1, IdleFields
  <2>3. late'
    BY <2>1, <2>2, LeaveFields
  <2>4. QED
    BY <2>3, NotClaimed
<1>3. CASE ~(HearRefused(s) /\ c.as = None)
  <2>1. me' = me /\ late' = late
    BY <1>3 DEF CarryOut, Refuse, HearAnswer, HearLists, HearRefused, FailRefresh, ReadList
  <2>2. CASE late \/ me = "admin"
    BY <2>1, <2>2, NotClaimed
  <2>3. CASE me = "viewer" /\ ~late /\ c.at # "users" /\ ~c.admin /\ c.at # "sent"
    <3>0. \A k \in Keys : page[k] # None => page[k].kind # "user"
      BY <2>3, NoUsersShown
    <3>1. CASE HearAnswer(s)
      <4>1. Moved(s, {}) /\ page' = page
        BY <3>1, HearAnswerTasks DEF HearAnswer
      <4>2. tasks'[s].at # "users" /\ ~tasks'[s].admin
        BY <2>3, <3>1, HearAnswerTasks, IdleFields
      <4>3. QED
        BY <2>1, <2>3, <3>0, <4>1, <4>2, ViewerGoesOn DEF Moved
    <3>2. CASE HearLists(s)
      <4>1. Moved(s, {}) /\ GoOn(s, me) /\ c.at \in {"lists", "reports"}
        BY <2>3, <3>2, HearListsFields
      <4>2. tasks'[s].at # "users" /\ ~tasks'[s].admin
        BY <2>3, <4>1, GoOnTasks, IdleFields DEF TypeInv, TypeOK
      <4>3. ASSUME NEW k \in Keys, page'[k] # None PROVE page'[k].kind # "user"
        <5>1. CASE k \notin KeysOf(Asked(c.at))
          BY <3>0, <3>2, <4>3, <5>1, HearListsFields
        <5>2. CASE k \in KeysOf(Asked(c.at))
          <6>1. "user" \notin Asked(c.at)
            BY <4>1 DEF Asked, Main
          <6>2. k \in Ids /\ Home[k] # "user"
            BY <5>2, <6>1 DEF KeysOf
          <6>3. page'[k] = c.seen[k]
            BY <3>2, <5>2, <6>2, Constants, HearListsFields
          <6>4. c.seen[k].kind = Home[k]
            BY <4>3, <6>2, <6>3 DEF TypeInv, Shaped
          <6>5. QED
            BY <6>2, <6>3, <6>4
        <5>3. QED
          BY <5>1, <5>2
      <4>4. QED
        BY <2>1, <2>3, <4>1, <4>2, <4>3, ViewerGoesOn DEF Moved
    <3>3. CASE HearRefused(s)
      <4>1. GoOn(s, me) /\ page' = page /\ c.at = "reports"
        BY <1>3, <2>3, <3>3 DEF HearRefused
      <4>2. Moved(s, {}) /\ tasks'[s] = Idle
        BY <4>1, GoOnTasks DEF TypeInv, TypeOK
      <4>3. QED
        BY <2>1, <2>3, <3>0, <4>1, <4>2, IdleFields, ViewerGoesOn DEF Moved
    <3>4. CASE FailRefresh(s)
      <4>1. Moved(s, {}) /\ page' = page
        BY <3>4, FailTasks DEF FailRefresh
      <4>2. tasks'[s].at # "users" /\ ~tasks'[s].admin
        BY <2>3, <3>4, FailTasks, IdleFields
      <4>3. QED
        BY <2>1, <2>3, <3>0, <4>1, <4>2, ViewerGoesOn DEF Moved
    <3>5. ASSUME NEW kind \in Kinds, ReadList(s, kind) PROVE Private'
      <4>1. Moved(s, {}) /\ page' = page
        BY <3>5, ReadListTasks DEF ReadList
      <4>2. tasks'[s].at # "users" /\ ~tasks'[s].admin
        BY <2>3, <3>5, ReadListTasks
      <4>3. QED
        BY <2>1, <2>3, <3>0, <4>1, <4>2, ViewerGoesOn DEF Moved
    <3>6. ~CarryOut(s) /\ ~Refuse(s)
      BY <2>3 DEF CarryOut, Refuse
    <3>7. QED
      BY <3>1, <3>2, <3>3, <3>4, <3>5, <3>6
  <2>4. QED
    BY <1>1, <2>2, <2>3, UnderWay
<1>4. QED
  BY <1>2, <1>3

LEMMA NextPrivate == TypeInv /\ Private /\ [Next]_vars => Private'
<1>1. SUFFICES ASSUME TypeInv, Private, [Next]_vars PROVE Private'
  OBVIOUS
<1>2. CASE UNCHANGED vars
  BY <1>1, <1>2 DEF vars, Private, Strangers, NothingIsLeftBehind
<1>3. ASSUME NEW s \in Slots, Press(s) PROVE Private'
  <2>1. ASSUME NEW row \in Row, NEW k \in Keys, Save(s, k, row) PROVE Private'
    BY <2>1, SubmitPrivate DEF Save
  <2>2. ASSUME NEW row \in Row, Create(s, row) \/ Recalculate(s, row) PROVE Private'
    BY <2>2, SubmitPrivate DEF Create, Recalculate
  <2>3. ASSUME NEW k \in Keys, Delete(s, k) PROVE Private'
    BY <2>3, SubmitPrivate DEF Delete
  <2>4. CASE Refresh(s) \/ (\E role \in Roles : SignIn(s, role)) \/ Reload(s)
    BY <1>1, <2>4, LoadPrivate
  <2>5. QED
    BY <1>3, <2>1, <2>2, <2>3, <2>4, Zenon DEF Press
<1>4. ASSUME NEW s \in Slots, Progress(s) \/ FailRefresh(s) PROVE Private'
  BY <1>1, <1>4, HearPrivate, Zenon DEF Progress
<1>5. CASE SignOut
  <2>1. Leave /\ tasks' = tasks
    BY <1>5 DEF SignOut
  <2>2. QED
    BY <1>1, <2>1, LeavePrivate
<1>6. ASSUME NEW o, Sound(o), ChangeElsewhere(o) PROVE Private'
  <2>1. \A x \in Slots : Like(tasks'[x], tasks[x], o.changed)
    BY <1>1, <1>6, ElsewhereFields
  <2>2. me' = me /\ late' = late /\ page' = page
    BY <1>6 DEF ChangeElsewhere
  <2>3. QED
    BY <1>1, <2>1, <2>2 DEF Private, Strangers, NothingIsLeftBehind, Like
<1>7. QED
  BY <1>1, <1>2, <1>3, <1>4, <1>5, <1>6, NextSplit, Zenon DEF Elsewhere

\* Nobody at this browser sees what the person before had on the page, cost
\* reports excepted, when nothing was under way at the sign-out: setMe(null)
\* has emptied the lists, and a viewer's refresh never asks for users.
THEOREM NothingLeft == Spec => []NothingIsLeftBehind
<1>1. Init => Private
  <2>1. SUFFICES ASSUME Init PROVE Private
    OBVIOUS
  <2>2. None # "viewer"
    BY Constants DEF Roles
  <2>3. QED
    BY <2>1, <2>2, IdleFields DEF Init, Private, Strangers, NothingIsLeftBehind
<1>2. Private => NothingIsLeftBehind
  BY DEF Private
<1>3. QED
  BY <1>1, <1>2, InitType, NextType, NextPrivate, PTL DEF Spec

-----------------------------------------------------------------------------
(***************************************************************************)
(* What the page shows                                                     *)
(***************************************************************************)
ChangesAreSent ==
    \A s \in Slots : tasks[s].at \in {"sent", "ok", "refused"} => tasks[s].op # "refresh"

\* A refresh is sure of a key only when no change of it is on its way, and what
\* it read of such a key is what the server has.
SentIsUnclean == \A s \in Slots : tasks[s].at = "sent" => tasks[s].clean = {}

CleanIsQuiet == \A s \in Slots : \A k \in tasks[s].clean : ~InFlight(tasks, k)

SeenIsServer ==
    \A s \in Slots : \A k \in Ids :
        k \in tasks[s].clean /\ Home[k] \in tasks[s].read => tasks[s].seen[k] = server[k]

\* Nobody waits for what was sent before a reload.
UnheardIsDoubtful ==
    \A s \in Slots : tasks[s].at = "sent" /\ ~tasks[s].heard => tasks[s].keys \subseteq doubtful

Watched == ChangesAreSent /\ SentIsUnclean /\ CleanIsQuiet /\ SeenIsServer /\ UnheardIsDoubtful

LEMMA InFlightBefore ==
  ASSUME NEW s \in Slots, NEW K, Others(s, K), tasks'[s].at # "sent", NEW k, InFlight(tasks', k)
  PROVE  InFlight(tasks, k)
<1>1. PICK x \in Slots : tasks'[x].at = "sent" /\ k \in tasks'[x].keys
  BY DEF InFlight
<1>2. x # s /\ tasks[x].at = "sent" /\ k \in tasks[x].keys
  BY <1>1 DEF Others, Like
<1>3. QED
  BY <1>2 DEF InFlight

\* The function in s goes on without a change on its way, K has changed.
LEMMA WatchedGoesOn ==
  ASSUME Watched, NEW s \in Slots, NEW K, Others(s, K),
         tasks'[s].at # "sent",
         tasks'[s].at \in {"ok", "refused"} => tasks'[s].op # "refresh",
         \A k \in Ids \ K : server'[k] = server[k],
         \A k \in tasks'[s].clean : ~InFlight(tasks, k),
         \A k \in Ids : k \in tasks'[s].clean /\ Home[k] \in tasks'[s].read
                           => tasks'[s].seen[k] = server'[k],
         \A x \in Slots \ {s} : tasks[x].at = "sent" /\ ~tasks[x].heard
                                   => tasks[x].keys \subseteq doubtful'
  PROVE  Watched'
<1> USE DEF Watched
<1>1. ChangesAreSent'
  BY DEF ChangesAreSent, Others, Like
<1>2. SentIsUnclean'
  BY DEF SentIsUnclean, Others, Like
<1>3. CleanIsQuiet'
  <2>1. SUFFICES ASSUME NEW x \in Slots, NEW k \in tasks'[x].clean, InFlight(tasks', k) PROVE FALSE
    BY DEF CleanIsQuiet
  <2>2. InFlight(tasks, k)
    BY <2>1, InFlightBefore
  <2>3. CASE x = s
    BY <2>1, <2>2, <2>3
  <2>4. CASE x # s
    BY <2>1, <2>2, <2>4 DEF CleanIsQuiet, Others, Like
  <2>5. QED
    BY <2>3, <2>4
<1>4. SeenIsServer'
  <2>1. SUFFICES ASSUME NEW x \in Slots, NEW k \in Ids, k \in tasks'[x].clean,
                        Home[k] \in tasks'[x].read
                 PROVE  tasks'[x].seen[k] = server'[k]
    BY DEF SeenIsServer
  <2>2. CASE x # s
    <3>1. Like(tasks'[x], tasks[x], K)
      BY <2>2 DEF Others
    <3>2. k \in tasks[x].clean /\ k \notin K /\ Home[k] \in tasks[x].read
      BY <2>1, <3>1 DEF Like
    <3>3. tasks[x].seen[k] = server[k]
      BY <3>2 DEF SeenIsServer
    <3>4. QED
      BY <3>1, <3>2, <3>3 DEF Like
  <2>3. QED
    BY <2>1, <2>2
<1>5. UnheardIsDoubtful'
  BY DEF UnheardIsDoubtful, Others, Like
<1>6. QED
  BY <1>1, <1>2, <1>3, <1>4, <1>5

LEMMA WatchedSubmit ==
  ASSUME TypeInv, Watched, NEW s \in Slots, NEW op \in Ops \ {"refresh"}, NEW K \in SUBSET Keys,
         NEW row \in Row, Submit(s, op, K, row),
         op \in {"update", "delete"} => \E k \in Keys : K = {k},
         op = "recalculate" => row.kind = "report"
  PROVE  Watched'
<1> USE DEF Watched
<1>1. /\ Others(s, K) /\ tasks[s] = Idle
      /\ tasks'[s].op = op /\ tasks'[s].keys = K /\ tasks'[s].at = "sent" /\ tasks'[s].heard
      /\ tasks'[s].read = {} /\ tasks'[s].clean = {}
  BY SubmitTasks DEF Moved
<1>2. server' = server /\ doubtful \subseteq doubtful'
  BY DEF Submit
<1>3. ChangesAreSent' /\ SentIsUnclean'
  BY <1>1 DEF ChangesAreSent, SentIsUnclean, Others, Like
<1>4. CleanIsQuiet'
  <2>1. SUFFICES ASSUME NEW x \in Slots, NEW k \in tasks'[x].clean, InFlight(tasks', k) PROVE FALSE
    BY DEF CleanIsQuiet
  <2>2. x # s /\ k \in tasks[x].clean /\ k \notin K
    BY <1>1, <2>1 DEF Others, Like
  <2>3. PICK y \in Slots : tasks'[y].at = "sent" /\ k \in tasks'[y].keys
    BY <2>1 DEF InFlight
  <2>4. y # s /\ tasks[y].at = "sent" /\ k \in tasks[y].keys
    BY <1>1, <2>2, <2>3 DEF Others, Like
  <2>5. QED
    BY <2>2, <2>4 DEF CleanIsQuiet, InFlight
<1>5. SeenIsServer'
  <2>1. SUFFICES ASSUME NEW x \in Slots, NEW k \in Ids, k \in tasks'[x].clean,
                        Home[k] \in tasks'[x].read
                 PROVE  tasks'[x].seen[k] = server[k]
    BY <1>2 DEF SeenIsServer
  <2>2. x # s
    BY <1>1, <2>1
  <2>3. k \in tasks[x].clean /\ Home[k] \in tasks[x].read /\ tasks'[x].seen = tasks[x].seen
    BY <1>1, <2>1, <2>2 DEF Others, Like
  <2>4. QED
    BY <2>3 DEF SeenIsServer
<1>6. UnheardIsDoubtful'
  BY <1>1, <1>2 DEF UnheardIsDoubtful, Others, Like
<1>7. QED
  BY <1>3, <1>4, <1>5, <1>6

LEMMA WatchedButton ==
  ASSUME TypeInv, Watched, NEW s \in Slots, NEW row \in Row,
         (\E k \in Keys : Save(s, k, row)) \/ Create(s, row) \/ Recalculate(s, row)
  PROVE  Watched'
<1>1. ASSUME NEW k \in Keys, Save(s, k, row) PROVE Watched'
  <2>1. Submit(s, "update", {k}, row)
    BY <1>1 DEF Save
  <2>2. "update" \in Ops \ {"refresh"} /\ {k} \in SUBSET Keys
    BY DEF Ops
  <2>3. QED
    BY <2>1, <2>2, WatchedSubmit
<1>2. CASE Create(s, row)
  <2>1. "create" \in Ops \ {"refresh"} /\ {Phantom} \in SUBSET Keys /\ {} \in SUBSET Keys
    BY Constants DEF Ops
  <2>2. CASE Submit(s, "create", {Phantom}, row)
    BY <2>1, <2>2, WatchedSubmit
  <2>3. CASE Submit(s, "create", {}, row)
    BY <2>1, <2>3, WatchedSubmit
  <2>4. QED
    BY <1>2, <2>2, <2>3 DEF Create
<1>3. CASE Recalculate(s, row)
  <2>1. "recalculate" \in Ops \ {"refresh"} /\ {} \in SUBSET Keys
    BY DEF Ops
  <2>2. Submit(s, "recalculate", {}, row) /\ row.kind = "report"
    BY <1>3 DEF Recalculate
  <2>3. QED
    BY <2>1, <2>2, WatchedSubmit
<1>4. QED
  BY <1>1, <1>2, <1>3

LEMMA WatchedDelete ==
  ASSUME TypeInv, Watched, NEW s \in Slots, NEW k \in Keys, Delete(s, k)
  PROVE  Watched'
<1>1. page[k] \in Row /\ Submit(s, "delete", {k}, page[k])
  BY DEF Delete, TypeInv, TypeOK
<1>2. "delete" \in Ops \ {"refresh"} /\ {k} \in SUBSET Keys
  BY DEF Ops
<1>3. QED
  BY <1>1, <1>2, WatchedSubmit

LEMMA WatchedLoad ==
  ASSUME TypeInv, Watched, NEW s \in Slots,
         Refresh(s) \/ (\E role \in Roles : SignIn(s, role)) \/ Reload(s)
  PROVE  Watched'
<1>1. ASSUME NEW role \in Roles, tasks' = Loading(tasks, s, role), server' = server,
             doubtful' = doubtful \/ doubtful' = Keys
      PROVE  Watched'
  <2>1. /\ tasks'[s].at = "lists" /\ tasks'[s].read = {} /\ tasks'[s].clean = Quiet(tasks)
        /\ \A x \in Slots \ {s} : tasks'[x] = tasks[x]
    BY <1>1, LoadingFields DEF TypeInv, TypeOK
  <2>2. Others(s, {})
    BY <2>1, LikeSelf DEF Others, TypeInv
  <2>3. \A x \in Slots : tasks[x].at = "sent" /\ ~tasks[x].heard => tasks[x].keys \subseteq doubtful'
    BY <1>1 DEF Watched, UnheardIsDoubtful, TypeInv, TypeOK, Task
  <2>4. \A k \in tasks'[s].clean : ~InFlight(tasks, k)
    BY <2>1 DEF Quiet
  <2>5. QED
    BY <1>1, <2>1, <2>2, <2>3, <2>4, WatchedGoesOn
<1>2. CASE Refresh(s)
  BY <1>1, <1>2 DEF Refresh, TypeInv, TypeOK
<1>3. ASSUME NEW role \in Roles, SignIn(s, role) PROVE Watched'
  BY <1>1, <1>3 DEF SignIn
<1>4. CASE Reload(s)
  <2>1. me \in Roles /\ tasks' = Loading(SentOnly, s, me) /\ server' = server /\ doubtful' = Keys
    BY <1>4 DEF Reload, SentOnly, TypeInv, TypeOK
  <2>2. /\ tasks' \in [Slots -> Task]
        /\ tasks'[s].at = "lists" /\ tasks'[s].read = {} /\ tasks'[s].clean = Quiet(SentOnly)
        /\ \A x \in Slots \ {s} : tasks'[x] = SentOnly[x]
    BY <2>1, SentOnlyFields, LoadingFields
  <2>3. SentOnly[s] = Idle
    BY <1>4 DEF Reload, SentOnly
  <2>4. \A x \in Slots \ {s} :
           \/ tasks'[x] = Idle
           \/ /\ tasks[x].at = "sent" /\ tasks'[x].at = "sent"
              /\ tasks'[x].op = tasks[x].op /\ tasks'[x].keys = tasks[x].keys
              /\ tasks'[x].clean = tasks[x].clean /\ tasks'[x].seen = tasks[x].seen
              /\ tasks'[x].read = tasks[x].read
    BY <2>2, SentOnlyFields
  <2>5. ASSUME NEW k, InFlight(tasks', k) PROVE InFlight(tasks, k) /\ InFlight(SentOnly, k)
    <3>1. PICK x \in Slots : tasks'[x].at = "sent" /\ k \in tasks'[x].keys
      BY <2>5 DEF InFlight
    <3>2. x # s
      BY <2>2, <3>1
    <3>3. tasks'[x] = SentOnly[x] /\ tasks[x].at = "sent" /\ k \in tasks[x].keys
      BY <2>2, <2>4, <3>1, <3>2, IdleFields
    <3>4. QED
      BY <3>1, <3>3 DEF InFlight
  <2>6. ChangesAreSent' /\ SentIsUnclean'
    BY <2>2, <2>4, IdleFields DEF Watched, ChangesAreSent, SentIsUnclean
  <2>7. CleanIsQuiet'
    <3>1. SUFFICES ASSUME NEW x \in Slots, NEW k \in tasks'[x].clean, InFlight(tasks', k) PROVE FALSE
      BY DEF CleanIsQuiet
    <3>2. CASE x = s
      BY <2>2, <2>5, <3>1, <3>2 DEF Quiet
    <3>3. CASE x # s
      BY <2>4, <2>5, <3>1, <3>3, IdleFields DEF Watched, CleanIsQuiet
    <3>4. QED
      BY <3>2, <3>3
  <2>8. SeenIsServer'
    BY <2>1, <2>2, <2>4, IdleFields DEF Watched, SeenIsServer
  <2>9. UnheardIsDoubtful'
    BY <2>1, <2>2 DEF UnheardIsDoubtful, Task
  <2>10. QED
    BY <2>6, <2>7, <2>8, <2>9 DEF Watched
<1>5. QED
  BY <1>2, <1>3, <1>4

\* The answer to a change: what the server has changed is not clean any more.
LEMMA WatchedAnswer ==
  ASSUME TypeInv, Watched, NEW s \in Slots, NEW answer \in {"ok", "refused"},
         NEW changed \in SUBSET Ids, tasks[s].at = "sent", Answered(s, answer, changed),
         \A k \in Ids \ changed : server'[k] = server[k], doubtful \subseteq doubtful'
  PROVE  Watched'
<1>1. /\ Others(s, changed)
      /\ ~tasks[s].heard => tasks'[s] = Idle
      /\ tasks[s].heard => /\ tasks'[s].op = tasks[s].op /\ tasks'[s].at = answer
                           /\ tasks'[s].clean = tasks[s].clean
  BY AnsweredTasks DEF Moved
<1>2. tasks[s].clean = {} /\ tasks[s].op # "refresh"
  BY DEF Watched, SentIsUnclean, ChangesAreSent
<1>3. tasks'[s].clean = {} /\ tasks'[s].at # "sent"
      /\ (tasks'[s].at \in {"ok", "refused"} => tasks'[s].op # "refresh")
  BY <1>1, <1>2, IdleFields
<1>4. \A x \in Slots \ {s} : tasks[x].at = "sent" /\ ~tasks[x].heard => tasks[x].keys \subseteq doubtful'
  BY DEF Watched, UnheardIsDoubtful
<1>5. QED
  BY <1>1, <1>3, <1>4, WatchedGoesOn

LEMMA WatchedServe ==
  ASSUME TypeInv, Watched, NEW s \in Slots, CarryOut(s) \/ Refuse(s)
  PROVE  Watched'
<1>1. tasks[s].at = "sent"
  BY DEF CarryOut, Refuse
<1>2. CASE CarryOut(s)
  <2>1. PICK o \in Outcomes(tasks[s]), answer \in {"ok", "refused"} :
            /\ Sound(o) /\ server' = o.rows /\ Answered(s, answer, o.changed)
            /\ doubtful' = doubtful \cup IF ~tasks[s].heard THEN o.changed
                                         ELSE IF tasks[s].op = "delete" THEN o.changed \ tasks[s].keys
                                         ELSE {}
    BY <1>2, CarryOutFields
  <2>2. o.changed \in SUBSET Ids /\ \A k \in Ids \ o.changed : server'[k] = server[k]
    BY <2>1 DEF Sound
  <2>3. QED
    BY <1>1, <2>1, <2>2, WatchedAnswer
<1>3. CASE Refuse(s)
  <2>1. {} \in SUBSET Ids /\ Answered(s, "refused", {}) /\ UNCHANGED <<server, doubtful>>
    BY <1>3 DEF Refuse
  <2>2. QED
    BY <1>1, <2>1, WatchedAnswer
<1>4. QED
  BY <1>2, <1>3

\* A refresh, or what is left of it, after a step of s that changes nothing at
\* the server.
LEMMA WatchedHear ==
  ASSUME TypeInv, Watched, NEW s \in Slots,
         \/ HearAnswer(s) \/ HearLists(s) \/ HearRefused(s) \/ FailRefresh(s)
         \/ \E kind \in Kinds : ReadList(s, kind)
  PROVE  Watched'
<1> DEFINE c == tasks[s]
<1>1. server' = server
  BY DEF HearAnswer, HearLists, HearRefused, FailRefresh, ReadList
<1>2. \A k \in c.clean : ~InFlight(tasks, k)
  BY DEF Watched, CleanIsQuiet
<1>3. \A k \in Ids : k \in c.clean /\ Home[k] \in c.read => c.seen[k] = server[k]
  BY DEF Watched, SeenIsServer
<1>4. \A x \in Slots : tasks[x].at = "sent" /\ ~tasks[x].heard => tasks[x].keys \subseteq doubtful
  BY DEF Watched, UnheardIsDoubtful
<1>5. ASSUME Moved(s, {}), tasks'[s].at \notin {"sent", "ok", "refused"},
             tasks'[s].read \subseteq c.read, tasks'[s].clean \subseteq c.clean,
             tasks'[s].clean = {} \/ tasks'[s].seen = c.seen,
             \A x \in Slots \ {s} : tasks[x].at = "sent" /\ ~tasks[x].heard
                                       => tasks[x].keys \subseteq doubtful'
      PROVE  Watched'
  <2>1. \A k \in tasks'[s].clean : ~InFlight(tasks, k)
    BY <1>2, <1>5
  <2>2. \A k \in Ids : k \in tasks'[s].clean /\ Home[k] \in tasks'[s].read
                          => tasks'[s].seen[k] = server'[k]
    BY <1>1, <1>3, <1>5
  <2>3. QED
    BY <1>1, <1>5, <2>1, <2>2, WatchedGoesOn DEF Moved
<1>6. ASSUME tasks'[s] = Idle
      PROVE  /\ tasks'[s].at \notin {"sent", "ok", "refused"}
             /\ tasks'[s].read \subseteq c.read /\ tasks'[s].clean \subseteq c.clean
             /\ tasks'[s].clean = {}
  BY <1>6, IdleFields
<1>7. CASE HearAnswer(s)
  <2>1. Moved(s, {}) /\ doubtful \subseteq doubtful'
    BY <1>7, HearAnswerTasks DEF HearAnswer
  <2>2. CASE tasks'[s] = Idle
    BY <1>4, <1>5, <1>6, <2>1, <2>2
  <2>3. CASE tasks'[s].at = "lists" /\ tasks'[s].read = {} /\ tasks'[s].clean = Quiet(tasks)
    <3>1. \A k \in tasks'[s].clean : ~InFlight(tasks, k)
      BY <2>3 DEF Quiet
    <3>2. \A x \in Slots \ {s} : tasks[x].at = "sent" /\ ~tasks[x].heard => tasks[x].keys \subseteq doubtful'
      BY <1>4, <2>1
    <3>3. QED
      BY <1>1, <2>1, <2>3, <3>1, <3>2, WatchedGoesOn DEF Moved
  <2>4. QED
    BY <1>7, <2>2, <2>3, HearAnswerTasks
<1>8. CASE HearLists(s)
  <2>1. /\ Moved(s, {}) /\ GoOn(s, me) /\ c.at \in {"lists", "users", "reports"}
        /\ doubtful' = (doubtful \ (KeysOf(Asked(c.at)) \cap c.clean)) \cup (KeysOf(Asked(c.at)) \ c.clean)
    BY <1>8, HearListsFields
  <2>2. ASSUME NEW x \in Slots \ {s}, tasks[x].at = "sent", ~tasks[x].heard
        PROVE  tasks[x].keys \subseteq doubtful'
    <3>1. ASSUME NEW k \in tasks[x].keys PROVE k \in doubtful'
      <4>1. InFlight(tasks, k)
        BY <2>2, <3>1 DEF InFlight
      <4>2. k \notin c.clean
        BY <1>2, <4>1
      <4>3. k \in doubtful
        BY <1>4, <2>2, <3>1
      <4>4. QED
        BY <2>1, <4>2, <4>3
    <3>2. QED
      BY <3>1
  <2>3. CASE tasks'[s] = Idle
    BY <1>5, <1>6, <2>1, <2>2, <2>3
  <2>4. CASE c.at # "reports"
    <3>1. /\ tasks'[s].at \in {"users", "reports"} /\ tasks'[s].clean = c.clean
          /\ tasks'[s].read = c.read /\ tasks'[s].seen = c.seen
      BY <2>1, <2>4, GoOnTasks DEF TypeInv, TypeOK
    <3>2. QED
      BY <1>5, <2>1, <2>2, <3>1
  <2>5. CASE c.at = "reports"
    <3>1. tasks'[s] = Idle
      BY <2>1, <2>5, GoOnTasks DEF TypeInv, TypeOK
    <3>2. QED
      BY <2>3, <3>1
  <2>6. QED
    BY <2>4, <2>5
<1>9. CASE HearRefused(s)
  <2>1. PICK role \in Roles \cup {None} : GoOn(s, role)
    BY <1>9 DEF HearRefused, TypeInv, TypeOK
  <2>2. c.at \in {"lists", "users", "reports"} /\ doubtful \subseteq doubtful'
    BY <1>9 DEF HearRefused
  <2>3. Moved(s, {})
    BY <2>1, <2>2, GoOnTasks
  <2>4. CASE c.at = "reports"
    <3>1. tasks'[s] = Idle
      BY <2>1, <2>2, <2>4, GoOnTasks
    <3>2. QED
      BY <1>4, <1>5, <1>6, <2>2, <2>3, <3>1
  <2>5. CASE c.at # "reports"
    <3>1. /\ tasks'[s].at \in {"users", "reports"} /\ tasks'[s].clean = c.clean
          /\ tasks'[s].read = c.read /\ tasks'[s].seen = c.seen
      BY <2>1, <2>2, <2>5, GoOnTasks
    <3>2. QED
      BY <1>4, <1>5, <2>2, <2>3, <3>1
  <2>6. QED
    BY <2>4, <2>5
<1>10. CASE FailRefresh(s)
  <2>1. Moved(s, {}) /\ doubtful \subseteq doubtful'
    BY <1>10, FailTasks DEF FailRefresh
  <2>2. CASE c.at = "reports"
    <3>1. tasks'[s] = Idle
      BY <1>10, <2>2, FailTasks
    <3>2. QED
      BY <1>4, <1>5, <1>6, <2>1, <3>1
  <2>3. CASE c.at # "reports"
    <3>1. /\ tasks'[s].at = "reports" /\ tasks'[s].clean = c.clean
          /\ tasks'[s].read = c.read /\ tasks'[s].seen = c.seen
      BY <1>10, <2>3, FailTasks
    <3>2. QED
      BY <1>4, <1>5, <2>1, <3>1
  <2>4. QED
    BY <2>2, <2>3
<1>11. ASSUME NEW kind \in Kinds, ReadList(s, kind) PROVE Watched'
  <2>1. /\ Moved(s, {}) /\ tasks'[s].at = c.at /\ tasks'[s].clean = c.clean
        /\ tasks'[s].read = c.read \cup {kind} /\ c.at \in {"lists", "users", "reports"}
        /\ \A k \in Ids : tasks'[s].seen[k] = IF Home[k] = kind THEN server[k] ELSE c.seen[k]
    BY <1>11, ReadListTasks
  <2>2. \A k \in Ids : k \in tasks'[s].clean /\ Home[k] \in tasks'[s].read
                          => tasks'[s].seen[k] = server[k]
    BY <1>3, <2>1
  <2>3. doubtful' = doubtful
    BY <1>11 DEF ReadList
  <2>4. QED
    BY <1>1, <1>2, <1>4, <2>1, <2>2, <2>3, WatchedGoesOn DEF Moved
<1>12. QED
  BY <1>7, <1>8, <1>9, <1>10, <1>11

LEMMA WatchedElsewhere ==
  ASSUME TypeInv, Watched, NEW o, Sound(o), ChangeElsewhere(o)
  PROVE  Watched'
<1>1. \A x \in Slots : Like(tasks'[x], tasks[x], o.changed)
  BY ElsewhereFields
<1>2. doubtful \subseteq doubtful' /\ \A k \in Ids \ o.changed : server'[k] = server[k]
  BY DEF ChangeElsewhere, Sound
<1>3. \A k : InFlight(tasks', k) => InFlight(tasks, k)
  BY <1>1 DEF InFlight, Like
<1>4. ChangesAreSent' /\ SentIsUnclean'
  BY <1>1 DEF Watched, ChangesAreSent, SentIsUnclean, Like
<1>5. CleanIsQuiet'
  <2>1. ASSUME NEW x \in Slots, NEW k \in tasks'[x].clean PROVE ~InFlight(tasks', k)
    <3>1. k \in tasks[x].clean
      BY <1>1, <2>1 DEF Like
    <3>2. ~InFlight(tasks, k)
      BY <3>1 DEF Watched, CleanIsQuiet
    <3>3. QED
      BY <1>3, <3>2
  <2>2. QED
    BY <2>1 DEF CleanIsQuiet
<1>6. SeenIsServer'
  <2>1. SUFFICES ASSUME NEW x \in Slots, NEW k \in Ids, k \in tasks'[x].clean,
                        Home[k] \in tasks'[x].read
                 PROVE  tasks'[x].seen[k] = server'[k]
    BY DEF SeenIsServer
  <2>2. /\ k \in tasks[x].clean /\ k \notin o.changed /\ Home[k] \in tasks[x].read
        /\ tasks'[x].seen = tasks[x].seen
    BY <1>1, <2>1 DEF Like
  <2>3. QED
    BY <1>2, <2>2 DEF Watched, SeenIsServer
<1>7. UnheardIsDoubtful'
  BY <1>1, <1>2 DEF Watched, UnheardIsDoubtful, Like
<1>8. QED
  BY <1>4, <1>5, <1>6, <1>7 DEF Watched

\* The key is settled later: by the answer, or by a stage of the refresh that
\* the function ends in.
ListOf(k) == IF k \in Ids THEN Home[k] ELSE "user"

Pending(c, k) ==
    /\ k \in c.keys
    /\ \/ c.at \in {"sent", "refused", "lists"}
       \/ c.at = "ok" /\ c.op \notin {"update", "delete"}
       \/ c.at = "users" /\ ListOf(k) \in {"user", "report"}
       \/ c.at = "reports" /\ ListOf(k) = "report"

Settled(k) == Agrees(k) \/ \E s \in Slots : Pending(tasks[s], k)

\* The page shows a change that is on its way.
Shown(s, k) ==
    LET c == tasks[s]
    IN  c.at = "sent" /\ c.heard => /\ c.op = "update" => page[k] = c.row
                                    /\ c.op = "delete" => page[k] = None

Showing ==
    me # None => /\ \A k \in Keys \ doubtful : Settled(k)
                 /\ \A s \in Slots : \A k \in tasks[s].keys \ doubtful : Shown(s, k)

LEMMA PendingLike ==
  ASSUME NEW c, NEW d, NEW K, Like(d, c, K), NEW k
  PROVE  Pending(d, k) <=> Pending(c, k)
  BY DEF Like, Pending

LEMMA AgreesStill ==
  ASSUME NEW k, page'[k] = page[k], k \in Ids => server'[k] = server[k]
  PROVE  Agrees(k)' <=> Agrees(k)
  BY DEF Agrees

\* What was settled is, when the page and the server still have it and s is not
\* what it was waiting for, or still is.
LEMMA SettledStill ==
  ASSUME NEW s \in Slots, NEW K, Others(s, K), NEW k, Settled(k),
         page'[k] = page[k], k \in Ids => server'[k] = server[k],
         Pending(tasks[s], k) => Pending(tasks'[s], k)
  PROVE  Settled(k)'
<1>1. CASE Agrees(k)
  BY <1>1, AgreesStill DEF Settled
<1>2. ASSUME NEW x \in Slots, Pending(tasks[x], k) PROVE Settled(k)'
  <2>1. Pending(tasks'[x], k)
    <3>1. CASE x = s
      BY <1>2, <3>1
    <3>2. CASE x # s
      <4>1. Like(tasks'[x], tasks[x], K)
        BY <3>2 DEF Others
      <4>2. QED
        BY <1>2, <4>1, PendingLike
    <3>3. QED
      BY <3>1, <3>2
  <2>2. QED
    BY <2>1 DEF Settled
<1>3. QED
  BY <1>1, <1>2 DEF Settled

LEMMA ShownStill ==
  ASSUME NEW x, NEW K, Like(tasks'[x], tasks[x], K), NEW k, Shown(x, k), page'[k] = page[k]
  PROVE  Shown(x, k)'
  BY DEF Like, Shown

\* Nobody is told of a page without a person.
LEMMA NobodyLooks ==
  ASSUME me' = None
  PROVE  Showing'
  BY DEF Showing

\* s goes on with no change on its way, and the page stays.
LEMMA ShowingGoesOn ==
  ASSUME TypeInv, Showing, NEW s \in Slots, NEW K, Moved(s, K), tasks'[s].at # "sent",
         me' = me, page' = page, doubtful \subseteq doubtful',
         me # None => \A k \in Keys \ doubtful' : Settled(k)'
  PROVE  Showing'
<1>1. CASE me = None
  BY <1>1, NobodyLooks
<1>2. CASE me # None
  <2>1. ASSUME NEW x \in Slots, NEW k \in tasks'[x].keys, k \notin doubtful'
        PROVE  Shown(x, k)'
    <3>1. CASE x = s
      BY <3>1 DEF Shown
    <3>2. CASE x # s
      <4>1. Like(tasks'[x], tasks[x], K)
        BY <3>2 DEF Moved, Others
      <4>2. k \in tasks[x].keys /\ k \notin doubtful
        BY <2>1, <4>1 DEF Like
      <4>3. Shown(x, k)
        BY <1>2, <4>2 DEF Showing
      <4>4. QED
        BY <4>1, <4>3, ShownStill
    <3>3. QED
      BY <3>1, <3>2
  <2>2. QED
    BY <1>2, <2>1 DEF Showing
<1>3. QED
  BY <1>1, <1>2

LEMMA ShowingSubmit ==
  ASSUME TypeInv, Showing, NEW s \in Slots, NEW op \in Ops \ {"refresh"}, NEW K \in SUBSET Keys,
         NEW row \in Row, Submit(s, op, K, row),
         op \in {"update", "delete"} => \E k \in Keys : K = {k},
         op = "recalculate" => row.kind = "report",
         \A k \in Keys \ K : page'[k] = page[k],
         \A k \in K : /\ op = "update" => page'[k] = row
                      /\ op = "delete" => page'[k] = None
  PROVE  Showing'
<1>1. /\ Moved(s, K) /\ tasks[s] = Idle
      /\ tasks'[s].op = op /\ tasks'[s].keys = K /\ tasks'[s].row = row /\ tasks'[s].at = "sent"
      /\ me = "admin"
  BY SubmitTasks
<1>2. server' = server /\ doubtful' = doubtful \cup {k \in K : InFlight(tasks, k)}
  BY DEF Submit
<1>3. me # None
  BY <1>1, Constants DEF Roles
<1>4. ASSUME NEW k \in Keys, k \notin doubtful' PROVE Settled(k)'
  <2>1. CASE k \in K
    <3>1. Pending(tasks'[s], k)
      BY <1>1, <2>1 DEF Pending
    <3>2. QED
      BY <3>1 DEF Settled
  <2>2. CASE k \notin K
    <3>1. Settled(k)
      BY <1>2, <1>3, <1>4 DEF Showing
    <3>2. ~Pending(tasks[s], k)
      BY <1>1, IdleFields DEF Pending
    <3>3. QED
      BY <1>1, <1>2, <2>2, <3>1, <3>2, SettledStill DEF Moved
  <2>3. QED
    BY <2>1, <2>2
<1>5. ASSUME NEW x \in Slots, NEW k \in tasks'[x].keys, k \notin doubtful'
      PROVE  Shown(x, k)'
  <2>1. CASE x = s
    BY <1>1, <1>5, <2>1 DEF Shown
  <2>2. CASE x # s
    <3>1. Like(tasks'[x], tasks[x], K)
      BY <1>1, <2>2 DEF Moved, Others
    <3>2. k \in tasks[x].keys /\ k \notin doubtful /\ k \in Keys
      BY <1>2, <1>5, <3>1 DEF Like, TypeInv, TypeOK, Task
    <3>3. Shown(x, k)
      BY <1>3, <3>2 DEF Showing
    <3>4. CASE k \notin K
      BY <3>1, <3>2, <3>3, <3>4, ShownStill
    <3>5. CASE k \in K
      <4>1. tasks[x].at # "sent"
        BY <1>2, <1>5, <3>2, <3>5 DEF InFlight
      <4>2. QED
        BY <3>1, <4>1 DEF Shown, Like
    <3>6. QED
      BY <3>4, <3>5
  <2>3. QED
    BY <2>1, <2>2
<1>6. QED
  BY <1>4, <1>5 DEF Showing

LEMMA ShowingButton ==
  ASSUME TypeInv, Showing, NEW s \in Slots, NEW row \in Row,
         (\E k \in Keys : Save(s, k, row)) \/ Create(s, row) \/ Recalculate(s, row)
  PROVE  Showing'
<1>1. ASSUME NEW k \in Keys, Save(s, k, row) PROVE Showing'
  <2>1. Submit(s, "update", {k}, row) /\ page' = [page EXCEPT ![k] = row]
    BY <1>1 DEF Save, Show
  <2>2. "update" \in Ops \ {"refresh"} /\ {k} \in SUBSET Keys
    BY DEF Ops
  <2>3. page'[k] = row /\ \A x \in Keys \ {k} : page'[x] = page[x]
    BY <2>1 DEF TypeInv, TypeOK
  <2>4. QED
    BY <2>1, <2>2, <2>3, ShowingSubmit
<1>2. CASE Create(s, row)
  <2>1. "create" \in Ops \ {"refresh"} /\ {Phantom} \in SUBSET Keys /\ {} \in SUBSET Keys
    BY Constants DEF Ops
  <2>2. CASE Submit(s, "create", {Phantom}, row) /\ Show(Phantom, row)
    <3>1. \A x \in Keys \ {Phantom} : page'[x] = page[x]
      BY <2>2 DEF Show, TypeInv, TypeOK
    <3>2. QED
      BY <2>1, <2>2, <3>1, ShowingSubmit
  <2>3. CASE Submit(s, "create", {}, row) /\ page' = page
    BY <2>1, <2>3, ShowingSubmit
  <2>4. QED
    BY <1>2, <2>2, <2>3 DEF Create
<1>3. CASE Recalculate(s, row)
  <2>1. "recalculate" \in Ops \ {"refresh"} /\ {} \in SUBSET Keys
    BY DEF Ops
  <2>2. Submit(s, "recalculate", {}, row) /\ row.kind = "report" /\ page' = page
    BY <1>3 DEF Recalculate
  <2>3. QED
    BY <2>1, <2>2, ShowingSubmit
<1>4. QED
  BY <1>1, <1>2, <1>3

LEMMA ShowingDelete ==
  ASSUME TypeInv, Showing, NEW s \in Slots, NEW k \in Keys, Delete(s, k)
  PROVE  Showing'
<1>1. page[k] \in Row /\ page' = [page EXCEPT ![k] = None] /\ Submit(s, "delete", {k}, page[k])
  BY DEF Delete, Show, TypeInv, TypeOK
<1>2. page'[k] = None /\ \A x \in Keys \ {k} : page'[x] = page[x]
  BY <1>1 DEF TypeInv, TypeOK
<1>3. "delete" \in Ops \ {"refresh"} /\ {k} \in SUBSET Keys
  BY DEF Ops
<1>4. QED
  BY <1>1, <1>2, <1>3, ShowingSubmit

LEMMA ShowingLoad ==
  ASSUME TypeInv, Showing, NEW s \in Slots,
         Refresh(s) \/ (\E role \in Roles : SignIn(s, role)) \/ Reload(s)
  PROVE  Showing'
<1>1. ASSUME tasks' \in [Slots -> Task], doubtful' = Keys PROVE Showing'
  BY <1>1 DEF Showing, Task
<1>2. CASE Refresh(s)
  <2>1. /\ me \in Roles /\ tasks' = Loading(tasks, s, me) /\ tasks[s] = Idle
        /\ UNCHANGED <<server, page, me, doubtful>>
    BY <1>2 DEF Refresh, Free, TypeInv, TypeOK
  <2>2. /\ tasks' \in [Slots -> Task] /\ \A x \in Slots \ {s} : tasks'[x] = tasks[x]
        /\ Shaped(tasks'[s]) /\ tasks'[s].at = "lists"
    BY <2>1, LoadingFields DEF TypeInv, TypeOK
  <2>3. Moved(s, {})
    BY <2>2, LikeSelf DEF Moved, Others, TypeInv
  <2>4. ASSUME me # None, NEW k \in Keys \ doubtful' PROVE Settled(k)'
    <3>1. Settled(k) /\ ~Pending(tasks[s], k)
      BY <2>1, <2>4, IdleFields DEF Showing, Pending
    <3>2. QED
      BY <2>1, <2>3, <3>1, SettledStill DEF Moved
  <2>5. QED
    BY <2>1, <2>2, <2>3, <2>4, ShowingGoesOn
<1>3. ASSUME NEW role \in Roles, SignIn(s, role) PROVE Showing'
  <2>1. tasks' \in [Slots -> Task]
    BY <1>3, LoadingFields DEF SignIn, TypeInv, TypeOK
  <2>2. QED
    BY <1>1, <1>3, <2>1 DEF SignIn
<1>4. CASE Reload(s)
  <2>1. me \in Roles /\ tasks' = Loading(SentOnly, s, me) /\ doubtful' = Keys
    BY <1>4 DEF Reload, SentOnly, TypeInv, TypeOK
  <2>2. tasks' \in [Slots -> Task]
    BY <2>1, SentOnlyFields, LoadingFields
  <2>3. QED
    BY <1>1, <2>1, <2>2
<1>5. QED
  BY <1>2, <1>3, <1>4

\* A change is answered: an update or a deletion that was carried out is on the
\* page already, and what else is settled later.
LEMMA ShowingCarryOut ==
  ASSUME TypeInv, Watched, Showing, NEW s \in Slots, CarryOut(s)
  PROVE  Showing'
<1> DEFINE c == tasks[s]
<1>1. c \in Task /\ Shaped(c) /\ c.at = "sent"
  BY DEF TypeInv, TypeOK, CarryOut
<1>2. PICK o \in Outcomes(c), answer \in {"ok", "refused"} :
         /\ Sound(o) /\ server' = o.rows /\ Answered(s, answer, o.changed)
         /\ doubtful' = doubtful \cup IF ~c.heard THEN o.changed
                                      ELSE IF c.op = "delete" THEN o.changed \ c.keys
                                      ELSE {}
  BY CarryOutFields
<1>3. /\ o.changed \in SUBSET Ids
      /\ \A k \in Ids \ o.changed : server'[k] = server[k]
  BY <1>2 DEF Sound
<1>4. /\ c.op = "update" => \A k \in c.keys : k \in Ids /\ o.changed = {k} /\ server'[k] = c.row
      /\ c.op = "delete" => \A k \in c.keys : k \in Ids /\ k \in o.changed /\ server'[k] = None
  BY <1>1, <1>2, OutcomeSound
<1>5. /\ Moved(s, o.changed)
      /\ ~c.heard => tasks'[s] = Idle
      /\ c.heard => /\ tasks'[s].op = c.op /\ tasks'[s].keys = c.keys \cup o.changed
                    /\ tasks'[s].at = answer
  BY <1>1, <1>2, <1>3, AnsweredTasks
<1>6. me' = me /\ page' = page /\ doubtful \subseteq doubtful'
  BY <1>2 DEF CarryOut
<1>7. tasks'[s].at # "sent"
  BY <1>5, IdleFields
<1>8. ASSUME me # None, NEW k \in Keys \ doubtful' PROVE Settled(k)'
  <2>1. k \notin doubtful /\ Settled(k)
    BY <1>6, <1>8 DEF Showing
  <2>2. CASE ~c.heard
    <3>1. k \notin o.changed /\ k \notin c.keys
      BY <1>1, <1>2, <1>8, <2>1, <2>2 DEF Watched, UnheardIsDoubtful
    <3>2. ~Pending(c, k)
      BY <3>1 DEF Pending
    <3>3. QED
      BY <1>3, <1>5, <1>6, <2>1, <3>1, <3>2, SettledStill DEF Moved
  <2>3. CASE c.heard /\ (answer = "refused" \/ c.op \notin {"update", "delete"})
    <3>1. k \in c.keys \cup o.changed => Pending(tasks'[s], k)
      BY <1>5, <2>3 DEF Pending
    <3>2. CASE k \in o.changed
      BY <3>1, <3>2 DEF Settled
    <3>3. CASE k \notin o.changed
      <4>1. Pending(c, k) => Pending(tasks'[s], k)
        BY <3>1 DEF Pending
      <4>2. QED
        BY <1>3, <1>5, <1>6, <2>1, <3>3, <4>1, SettledStill DEF Moved
    <3>4. QED
      BY <3>2, <3>3
  <2>4. CASE c.heard /\ c.op = "update"
    <3>1. PICK k0 \in Keys : c.keys = {k0}
      BY <1>1, <2>4 DEF Shaped
    <3>2. o.changed = c.keys
      BY <1>4, <2>4, <3>1
    <3>3. CASE k \in c.keys
      <4>1. Shown(s, k)
        BY <1>8, <2>1, <3>3 DEF Showing
      <4>2. page[k] = c.row /\ k \in Ids /\ server'[k] = c.row
        BY <1>1, <1>4, <2>4, <3>3, <4>1 DEF Shown
      <4>3. QED
        BY <1>6, <4>2 DEF Settled, Agrees
    <3>4. CASE k \notin c.keys
      <4>1. ~Pending(c, k)
        BY <3>4 DEF Pending
      <4>2. QED
        BY <1>3, <1>5, <1>6, <2>1, <3>2, <3>4, <4>1, SettledStill DEF Moved
    <3>5. QED
      BY <3>3, <3>4
  <2>5. CASE c.heard /\ c.op = "delete"
    <3>1. CASE k \in c.keys
      <4>1. Shown(s, k)
        BY <1>8, <2>1, <3>1 DEF Showing
      <4>2. page[k] = None /\ k \in Ids /\ server'[k] = None
        BY <1>1, <1>4, <2>5, <3>1, <4>1 DEF Shown
      <4>3. QED
        BY <1>6, <4>2 DEF Settled, Agrees
    <3>2. CASE k \notin c.keys
      <4>1. k \notin o.changed
        BY <1>2, <1>8, <2>5, <3>2
      <4>2. ~Pending(c, k)
        BY <3>2 DEF Pending
      <4>3. QED
        BY <1>3, <1>5, <1>6, <2>1, <4>1, <4>2, SettledStill DEF Moved
    <3>3. QED
      BY <3>1, <3>2
  <2>6. QED
    BY <2>2, <2>3, <2>4, <2>5
<1>9. QED
  BY <1>5, <1>6, <1>7, <1>8, ShowingGoesOn

LEMMA ShowingRefuse ==
  ASSUME TypeInv, Watched, Showing, NEW s \in Slots, Refuse(s)
  PROVE  Showing'
<1> DEFINE c == tasks[s]
<1>1. /\ c.at = "sent" /\ {} \in SUBSET Ids /\ Answered(s, "refused", {})
      /\ UNCHANGED <<server, page, me, doubtful>>
  BY DEF Refuse
<1>2. /\ Moved(s, {})
      /\ ~c.heard => tasks'[s] = Idle
      /\ c.heard => tasks'[s].keys = c.keys \cup {} /\ tasks'[s].at = "refused"
  BY <1>1, AnsweredTasks
<1>3. tasks'[s].at # "sent"
  BY <1>2, IdleFields
<1>4. ASSUME me # None, NEW k \in Keys \ doubtful' PROVE Settled(k)'
  <2>1. k \notin doubtful /\ Settled(k)
    BY <1>1, <1>4 DEF Showing
  <2>2. Pending(c, k) => Pending(tasks'[s], k)
    BY <1>1, <1>2, <2>1 DEF Pending, Watched, UnheardIsDoubtful
  <2>3. QED
    BY <1>1, <1>2, <2>1, <2>2, SettledStill DEF Moved
<1>5. QED
  BY <1>1, <1>2, <1>3, <1>4, ShowingGoesOn

\* s goes on at this browser, with no effect on the page, and what it leaves
\* unsettled becomes doubtful.
LEMMA ShowingIdles ==
  ASSUME TypeInv, Showing, NEW s \in Slots, Moved(s, {}), tasks'[s].at # "sent",
         me' = me, page' = page, server' = server, doubtful \subseteq doubtful',
         me # None => \A k \in Keys \ doubtful' :
                         Pending(tasks[s], k) => Pending(tasks'[s], k)
  PROVE  Showing'
<1>1. ASSUME me # None, NEW k \in Keys \ doubtful' PROVE Settled(k)'
  <2>1. Settled(k) /\ (Pending(tasks[s], k) => Pending(tasks'[s], k))
    BY <1>1 DEF Showing
  <2>2. QED
    BY <2>1, SettledStill DEF Moved
<1>2. QED
  BY <1>1, ShowingGoesOn

\* All that a refresh does not ask for is asked for later.
LEMMA PendingGoesOn ==
  ASSUME TypeInv, NEW s \in Slots, NEW role \in Roles \cup {None}, GoOn(s, role),
         tasks[s].at \in {"lists", "users", "reports"},
         NEW k \in Keys, k \notin KeysOf(Asked(tasks[s].at)), Pending(tasks[s], k)
  PROVE  Pending(tasks'[s], k)
<1> DEFINE c == tasks[s]
           d == tasks'[s]
<1>1. k \in c.keys /\ c.admin
  BY DEF Pending, TypeInv, Shaped
<1>2. k \in Ids => Home[k] \in Kinds
  BY Constants
<1>3. k \in Ids \/ k = Phantom
  BY DEF Keys
<1>4. CASE c.at = "lists"
  <2>1. d.keys = c.keys /\ d.at = "users"
    BY <1>1, <1>4, GoOnTasks
  <2>2. k \in Ids => Home[k] \in {"user", "report"}
    BY <1>2, <1>4 DEF KeysOf, Asked, Main
  <2>3. ListOf(k) \in {"user", "report"}
    BY <2>2 DEF ListOf
  <2>4. QED
    BY <1>1, <2>1, <2>3 DEF Pending
<1>5. CASE c.at = "users"
  <2>1. d.keys = c.keys /\ d.at = "reports"
    BY <1>5, GoOnTasks
  <2>2. k \in Ids /\ Home[k] # "user"
    BY <1>3, <1>5 DEF KeysOf, Asked
  <2>3. ListOf(k) = "report"
    BY <1>5, <2>2 DEF Pending, ListOf
  <2>4. QED
    BY <1>1, <2>1, <2>3 DEF Pending
<1>6. CASE c.at = "reports"
  <2>1. k \in Ids /\ Home[k] = "report"
    BY <1>6 DEF Pending, ListOf
  <2>2. FALSE
    BY <1>6, <2>1 DEF KeysOf, Asked
  <2>3. QED
    BY <2>2
<1>7. QED
  BY <1>4, <1>5, <1>6

LEMMA ShowingHearLists ==
  ASSUME TypeInv, Watched, Showing, NEW s \in Slots, HearLists(s)
  PROVE  Showing'
<1> DEFINE c == tasks[s]
           K == KeysOf(Asked(c.at))
<1>1. /\ c.at \in {"lists", "users", "reports"} /\ Asked(c.at) \subseteq c.read
      /\ \A k \in Keys : page'[k] = IF k \notin K THEN page[k]
                                   ELSE IF k = Phantom THEN None ELSE c.seen[k]
      /\ doubtful' = (doubtful \ (K \cap c.clean)) \cup (K \ c.clean)
      /\ GoOn(s, me) /\ Moved(s, {})
  BY HearListsFields
<1>2. server' = server /\ me' = me /\ me \in Roles \cup {None}
  BY DEF HearLists, TypeInv, TypeOK
<1>3. tasks'[s].at # "sent"
  <2>1. CASE c.at = "reports"
    BY <1>1, <1>2, <2>1, GoOnTasks, IdleFields
  <2>2. CASE c.at # "reports"
    BY <1>1, <1>2, <2>2, GoOnTasks
  <2>3. QED
    BY <2>1, <2>2
<1>4. ASSUME me # None, NEW k \in Keys, k \notin doubtful' PROVE Settled(k)'
  <2>1. CASE k \in K
    <3>1. k \in c.clean
      BY <1>1, <1>4, <2>1
    <3>2. CASE k = Phantom
      BY <1>1, <2>1, <3>2, Constants DEF Settled, Agrees
    <3>3. CASE k # Phantom
      <4>1. k \in Ids /\ Home[k] \in Asked(c.at)
        BY <2>1, <3>3 DEF KeysOf
      <4>2. c.seen[k] = server[k]
        BY <1>1, <3>1, <4>1 DEF Watched, SeenIsServer
      <4>3. QED
        BY <1>1, <1>2, <2>1, <3>3, <4>1, <4>2 DEF Settled, Agrees
    <3>4. QED
      BY <3>2, <3>3
  <2>2. CASE k \notin K
    <3>1. k \notin doubtful /\ Settled(k) /\ page'[k] = page[k]
      BY <1>1, <1>4, <2>2 DEF Showing
    <3>2. Pending(c, k) => Pending(tasks'[s], k)
      BY <1>1, <1>2, <2>2, PendingGoesOn
    <3>3. QED
      BY <1>1, <1>2, <3>1, <3>2, SettledStill DEF Moved
  <2>3. QED
    BY <2>1, <2>2
<1>5. ASSUME me # None, NEW x \in Slots, NEW k \in tasks'[x].keys, k \notin doubtful'
      PROVE  Shown(x, k)'
  <2>1. CASE x = s \/ tasks[x].at # "sent"
    <3>1. tasks'[x].at # "sent"
      BY <1>1, <1>3, <2>1 DEF Moved, Others, Like
    <3>2. QED
      BY <3>1 DEF Shown
  <2>2. CASE x # s /\ tasks[x].at = "sent"
    <3>1. Like(tasks'[x], tasks[x], {})
      BY <1>1, <2>2 DEF Moved, Others
    <3>2. k \in tasks[x].keys /\ k \in Keys
      BY <1>5, <3>1 DEF Like, TypeInv, TypeOK, Task
    <3>3. InFlight(tasks, k)
      BY <2>2, <3>2 DEF InFlight
    <3>4. k \notin c.clean
      BY <3>3 DEF Watched, CleanIsQuiet
    <3>5. k \notin K /\ k \notin doubtful
      BY <1>1, <1>5, <3>4
    <3>6. Shown(x, k) /\ page'[k] = page[k]
      BY <1>1, <1>5, <3>2, <3>5 DEF Showing
    <3>7. QED
      BY <3>1, <3>6, ShownStill
  <2>3. QED
    BY <2>1, <2>2
<1>6. QED
  BY <1>2, <1>4, <1>5 DEF Showing

LEMMA ShowingHear ==
  ASSUME TypeInv, Watched, Showing, NEW s \in Slots,
         \/ HearAnswer(s) \/ HearRefused(s) \/ FailRefresh(s)
         \/ \E kind \in Kinds : ReadList(s, kind)
  PROVE  Showing'
<1> DEFINE c == tasks[s]
<1>1. CASE HearAnswer(s)
  <2>1. /\ Moved(s, {}) /\ UNCHANGED <<server, page, me>> /\ doubtful \subseteq doubtful'
        /\ c.at \in {"ok", "refused"} /\ c \in Task
    BY <1>1, HearAnswerTasks DEF HearAnswer, TypeInv, TypeOK
  <2>2. CASE CallsForRefresh(c) /\ me # None
    <3>1. tasks'[s].keys = c.keys /\ tasks'[s].at = "lists"
      BY <1>1, <2>2, HearAnswerTasks
    <3>2. \A k : Pending(c, k) => Pending(tasks'[s], k)
      BY <3>1 DEF Pending
    <3>3. QED
      BY <2>1, <3>1, <3>2, ShowingIdles
  <2>3. CASE ~(CallsForRefresh(c) /\ me # None)
    <3>1. tasks'[s] = Idle
      BY <1>1, <2>3, HearAnswerTasks
    <3>2. ASSUME me # None, NEW k \in Keys \ doubtful' PROVE ~Pending(c, k)
      <4>1. ~CallsForRefresh(c)
        BY <2>3, <3>2
      <4>2. c.op \in {"create", "recalculate"} => k \notin c.keys
        BY <1>1, <3>2, <4>1 DEF HearAnswer
      <4>3. c.op \in {"create", "update", "delete", "recalculate"}
        BY <2>1 DEF Watched, ChangesAreSent, Task, Ops
      <4>4. CASE c.op \in {"update", "delete"}
        <5>1. c.at = "ok"
          BY <2>1, <4>1, <4>4 DEF CallsForRefresh
        <5>2. QED
          BY <4>4, <5>1 DEF Pending
      <4>5. QED
        BY <4>2, <4>3, <4>4 DEF Pending
    <3>3. tasks'[s].at # "sent"
      BY <3>1, IdleFields
    <3>4. QED
      BY <2>1, <3>2, <3>3, ShowingIdles
  <2>4. QED
    BY <2>2, <2>3
<1>2. CASE HearRefused(s) \/ FailRefresh(s)
  <2>1. /\ doubtful' = doubtful \cup c.keys /\ server' = server
        /\ c.at \in {"lists", "users", "reports"}
    BY <1>2 DEF HearRefused, FailRefresh
  <2>2. CASE HearRefused(s) /\ c.as = None
    BY <2>2, NobodyLooks DEF HearRefused, Leave
  <2>3. CASE ~(HearRefused(s) /\ c.as = None)
    <3>1. me' = me /\ page' = page
      BY <1>2, <2>3 DEF HearRefused, FailRefresh
    <3>2. Moved(s, {}) /\ tasks'[s].at # "sent"
      <4>1. CASE FailRefresh(s)
        BY <4>1, FailTasks, IdleFields
      <4>2. CASE HearRefused(s)
        <5>1. GoOn(s, me) /\ me \in Roles \cup {None}
          BY <2>3, <4>2 DEF HearRefused, TypeInv, TypeOK
        <5>2. CASE c.at = "reports"
          BY <2>1, <5>1, <5>2, GoOnTasks, IdleFields
        <5>3. CASE c.at # "reports"
          BY <2>1, <5>1, <5>3, GoOnTasks
        <5>4. QED
          BY <5>2, <5>3
      <4>3. QED
        BY <1>2, <4>1, <4>2
    <3>3. \A k \in Keys \ doubtful' : ~Pending(c, k)
      BY <2>1 DEF Pending
    <3>4. QED
      BY <2>1, <3>1, <3>2, <3>3, ShowingIdles
  <2>4. QED
    BY <2>2, <2>3
<1>3. ASSUME NEW kind \in Kinds, ReadList(s, kind) PROVE Showing'
  <2>1. /\ Moved(s, {}) /\ tasks'[s].op = c.op /\ tasks'[s].keys = c.keys
        /\ tasks'[s].at = c.at /\ c.at \in {"lists", "users", "reports"}
    BY <1>3, ReadListTasks
  <2>2. UNCHANGED <<server, page, me, doubtful>>
    BY <1>3 DEF ReadList
  <2>3. \A k : Pending(c, k) => Pending(tasks'[s], k)
    BY <2>1 DEF Pending
  <2>4. QED
    BY <2>1, <2>2, <2>3, ShowingIdles
<1>4. QED
  BY <1>1, <1>2, <1>3

LEMMA ShowingElsewhere ==
  ASSUME TypeInv, Showing, NEW o, Sound(o), ChangeElsewhere(o)
  PROVE  Showing'
<1>1. \A x \in Slots : Like(tasks'[x], tasks[x], o.changed)
  BY ElsewhereFields
<1>2. /\ \A k \in Ids \ o.changed : server'[k] = server[k]
      /\ doubtful' = doubtful \cup o.changed /\ page' = page /\ me' = me
  BY DEF ChangeElsewhere, Sound
<1>3. ASSUME me # None, NEW k \in Keys, k \notin doubtful' PROVE Settled(k)'
  <2>1. Settled(k) /\ k \notin o.changed
    BY <1>2, <1>3 DEF Showing
  <2>2. CASE Agrees(k)
    BY <1>2, <2>1, <2>2, AgreesStill DEF Settled
  <2>3. ASSUME NEW x \in Slots, Pending(tasks[x], k) PROVE Settled(k)'
    BY <1>1, <2>3, PendingLike DEF Settled
  <2>4. QED
    BY <2>1, <2>2, <2>3 DEF Settled
<1>4. ASSUME me # None, NEW x \in Slots, NEW k \in tasks'[x].keys, k \notin doubtful'
      PROVE  Shown(x, k)'
  <2>1. k \in tasks[x].keys /\ k \notin doubtful
    BY <1>1, <1>2, <1>4 DEF Like
  <2>2. Shown(x, k)
    BY <1>4, <2>1 DEF Showing
  <2>3. QED
    BY <1>1, <1>2, <2>2, ShownStill
<1>5. QED
  BY <1>2, <1>3, <1>4 DEF Showing

LEMMA NextShowing == TypeInv /\ Watched /\ Showing /\ [Next]_vars => Watched' /\ Showing'
<1>1. SUFFICES ASSUME TypeInv, Watched, Showing, [Next]_vars PROVE Watched' /\ Showing'
  OBVIOUS
<1>2. CASE UNCHANGED vars
  <2>1. UNCHANGED <<server, page, me, tasks, doubtful>>
    BY <1>2 DEF vars
  <2>2. Watched'
    BY <1>1, <2>1 DEF Watched, ChangesAreSent, SentIsUnclean, CleanIsQuiet, SeenIsServer,
                      UnheardIsDoubtful, InFlight
  <2>3. Showing'
    BY <1>1, <2>1 DEF Showing, Settled, Pending, Agrees, Shown
  <2>4. QED
    BY <2>2, <2>3
<1>3. ASSUME NEW s \in Slots, Press(s) PROVE Watched' /\ Showing'
  <2>1. CASE \E row \in Row : (\E k \in Keys : Save(s, k, row)) \/ Create(s, row) \/ Recalculate(s, row)
    <3>1. Showing'
      BY <1>1, <2>1, ShowingButton, Zenon
    <3>2. Watched'
      BY <1>1, <2>1, WatchedButton, Zenon
    <3>3. QED
      BY <3>1, <3>2
  <2>2. ASSUME NEW k \in Keys, Delete(s, k) PROVE Watched' /\ Showing'
    BY <1>1, <2>2, WatchedDelete, ShowingDelete
  <2>3. CASE Refresh(s) \/ (\E role \in Roles : SignIn(s, role)) \/ Reload(s)
    BY <1>1, <2>3, WatchedLoad, ShowingLoad
  <2>4. QED
    BY <1>3, <2>1, <2>2, <2>3, Zenon DEF Press
<1>4. ASSUME NEW s \in Slots, Progress(s) \/ FailRefresh(s) PROVE Watched' /\ Showing'
  <2>1. CASE CarryOut(s) \/ Refuse(s)
    BY <1>1, <2>1, WatchedServe, ShowingCarryOut, ShowingRefuse
  <2>2. CASE HearLists(s)
    BY <1>1, <2>2, WatchedHear, ShowingHearLists
  <2>3. CASE HearAnswer(s) \/ HearRefused(s) \/ FailRefresh(s) \/ \E kind \in Kinds : ReadList(s, kind)
    BY <1>1, <2>3, WatchedHear, ShowingHear
  <2>4. QED
    BY <1>4, <2>1, <2>2, <2>3, Zenon DEF Progress
<1>5. CASE SignOut
  <2>1. UNCHANGED <<server, tasks, doubtful>> /\ me' = None
    BY <1>5 DEF SignOut, Leave
  <2>2. Watched'
    BY <1>1, <2>1 DEF Watched, ChangesAreSent, SentIsUnclean, CleanIsQuiet, SeenIsServer,
                      UnheardIsDoubtful, InFlight
  <2>3. QED
    BY <2>1, <2>2, NobodyLooks
<1>6. ASSUME NEW o, Sound(o), ChangeElsewhere(o) PROVE Watched' /\ Showing'
  BY <1>1, <1>6, WatchedElsewhere, ShowingElsewhere
<1>7. QED
  BY <1>1, <1>2, <1>3, <1>4, <1>5, <1>6, NextSplit, Zenon DEF Elsewhere

\* Every row that no function under way is about, and nothing has made
\* doubtful, is on the page of the person signed in what the server has: a
\* change shown before its answer is what the server carries out, or else a
\* refresh that nothing disturbed shows what the server has.
THEOREM PageShowsServer == Spec => []PageIsServer
<1>1. Init => Watched /\ Showing
  <2>1. SUFFICES ASSUME Init PROVE Watched /\ Showing
    OBVIOUS
  <2>2. \A s \in Slots : tasks[s] = Idle
    BY <2>1 DEF Init
  <2>3. Watched
    BY <2>2, IdleFields DEF Watched, ChangesAreSent, SentIsUnclean, CleanIsQuiet, SeenIsServer,
                            UnheardIsDoubtful
  <2>4. Showing
    BY <2>1 DEF Init, Showing
  <2>5. QED
    BY <2>3, <2>4
<1>2. Watched /\ Showing => PageIsServer
  BY DEF Showing, PageIsServer, Settled, Pending, About
<1>3. QED
  BY <1>1, <1>2, InitType, NextType, NextShowing, PTL DEF Spec
=============================================================================
