------------------------------ MODULE Session ------------------------------
(***************************************************************************)
(* Who is signed in: the accounts and tokens of the server (identity and   *)
(* the middleware of the API) and the tabs of one browser.                 *)
(*                                                                         *)
(* The server keeps in memory, for each user, the one token it accepts,    *)
(* and loses it when it is restarted.  A token is a signed text that names *)
(* its user, the role of that moment and the second it was made in: two    *)
(* logins within a second make the same token.                             *)
(*                                                                         *)
(* The tabs share what is in local storage, the token and the person ("me")*)
(* a reload shows, and each has the person it shows now.  A tab writes the *)
(* token at once and the person only when React runs the effects of the    *)
(* change; between the two other tabs do what they do, and it may itself   *)
(* be reloaded.  Any refusal (status 401) of any call signs a tab out, a   *)
(* mistyped password included.                                             *)
(*                                                                         *)
(* A password change leaves a connection of the database pool acquired for *)
(* good; a call that gets no connection fails when its time is over.       *)
(***************************************************************************)
EXTENDS Naturals, FiniteSets

CONSTANTS
    Users,
    Passwords,
    Tabs,
    None,               \* no token, nobody, no password
    FirstAccount(_),    \* the account a user begins with
    MaxConns,           \* the connections of the pool
    MaxSeconds,         \* bound: the seconds that count
    MaxCalls,           \* bound: calls in flight when a user starts one
    MaxEvents           \* bound: changes of accounts by administrators, calls
                        \* that fail, and restarts, together

Seconds  == 0..MaxSeconds
Roles    == {"admin", "viewer"}
Persons  == [user : Users, role : Roles]
Tokens   == [user : Users, role : Roles, second : Seconds]
Accounts == [password : Passwords, role : Roles, active : BOOLEAN]

ASSUME BoundsAssumption ==
    /\ MaxConns \in Nat
    /\ MaxSeconds \in Nat
    /\ MaxCalls \in Nat
    /\ MaxEvents \in Nat

ASSUME NoneAssumption ==
    None \notin Users \cup Passwords \cup Persons \cup Tokens

ASSUME AccountsAssumption == \A u \in Users : FirstAccount(u) \in Accounts

VARIABLES
    account,        \* table users
    store,          \* TokenStore: the token that is accepted of each user
    leaked,         \* connections acquired and never released
    second,         \* the clock
    localToken,     \* localStorage ic_token
    savedMe,        \* localStorage ic_me
    me,             \* the person each tab shows; None: the login page
    unsaved,        \* tabs whose person has changed and is still to be saved
    mounting,       \* tabs that are being loaded: their first effects are to run
    leaving,        \* how many password changes each tab is to sign out for,
                    \* two seconds after each
    calls,          \* the calls in flight
    madeWith,       \* history: the password behind the token that is accepted
    torn,           \* history: a tab has written the token, or been reloaded,
                    \* in the middle of a change (OthersBusy)
    excused,        \* history: users whose last password change ran while a
                    \* login did, or failed after it had taken effect
    edits, failures

server  == <<account, store, leaked, madeWith, excused>>
person  == <<localToken, savedMe, me, unsaved, mounting, torn>>
browser == <<person, leaving>>
vars    == <<server, browser, second, calls, edits, failures>>

(***************************************************************************)
(* Calls.  A tab that is reloaded does not hear the answer any more.       *)
(***************************************************************************)
Kinds   == {"login", "password", "logout", "data"}
Answers == {"ok", "unauthorized", "error"}

Call == [tab : Tabs, heard : BOOLEAN, kind : Kinds,
         token : Tokens \cup {None},        \* in the header
         user : Users \cup {None},          \* login: the address typed
         typed : Passwords \cup {None},     \* login, password
         new : Passwords \cup {None},       \* password
         role : Roles \cup {None},          \* login: as it was read
         stage : {"sent", "read", "written"} \cup Answers]

\* apiFetch attaches whatever token is in local storage.
Sent(t, kind, token) ==
    [tab |-> t, heard |-> TRUE, kind |-> kind, token |-> token, user |-> None,
     typed |-> None, new |-> None, role |-> None, stage |-> "sent"]

Send(c) ==
    /\ Cardinality(calls \cup {c}) <= MaxCalls
    /\ calls' = calls \cup {c}

Answered(c, stage) == [Sent(c.tab, c.kind, None) EXCEPT !.stage = stage]

\* A call goes on, or is answered; an answer nobody hears is gone.
Advance(c, next)   == calls' = (calls \ {c}) \cup {next}
Answer(c, answer)  == calls' = (calls \ {c}) \cup {d \in {answer} : c.heard}
Refuse(c)          == Answer(c, Answered(c, "unauthorized"))
Succeed(c)         == Answer(c, Answered(c, "ok"))
Break(c)           == Answer(c, Answered(c, "error"))

\* Wrong on purpose (see "Mutants" in the README): the answer to a login is taken without the role.
NameOf(token) == [user |-> token.user]

PersonOf(token) == [user |-> token.user, role |-> token.role]

\* AuthMiddleware: the token is the one that is stored of its user.
Accepted(c) == c.token # None /\ store[c.token.user] = c.token

\* The user in whose name a call acts: ContextKeyEmail.
Acting(c) == c.token.user

----------------------------------------------------------------------------
Init ==
    /\ account = [u \in Users |-> FirstAccount(u)]
    /\ store = [u \in Users |-> None]
    /\ leaked = 0
    /\ second = 0
    /\ localToken = None
    /\ savedMe = None
    /\ me = [t \in Tabs |-> None]
    /\ unsaved = {}
    /\ mounting = {}
    /\ leaving = [t \in Tabs |-> 0]
    /\ calls = {}
    /\ madeWith = [u \in Users |-> FirstAccount(u).password]
    /\ torn = FALSE
    /\ excused = {}
    /\ edits = 0
    /\ failures = 0

(***************************************************************************)
(* The server                                                              *)
(***************************************************************************)
Connected == leaked < MaxConns

\* Login looks the user up and checks password and status.
LoginReads(c) ==
    LET a == account[c.user]
    IN  /\ c.kind = "login" /\ c.stage = "sent"
        /\ Connected
        /\ IF c.typed = a.password /\ a.active
           THEN Advance(c, [c EXCEPT !.stage = "read", !.role = a.role])
           ELSE Refuse(c)
        /\ UNCHANGED <<server, browser, second, edits, failures>>

\* Then it makes the token, which replaces the stored one.
LoginStores(c) ==
    LET token == [user |-> c.user, role |-> c.role, second |-> second]
    IN  /\ c.kind = "login" /\ c.stage = "read"
        /\ store' = [store EXCEPT ![c.user] = token]
        /\ madeWith' = [madeWith EXCEPT ![c.user] = c.typed]
        /\ Answer(c, [Answered(c, "ok") EXCEPT !.token = token])
        /\ UNCHANGED <<account, leaked, excused, browser, second, edits, failures>>

\* UpdatePassword of the user in the token: the old password must be right
\* and the new one another.
PasswordReads(c) ==
    LET a == account[Acting(c)]
    IN  /\ c.kind = "password" /\ c.stage = "sent"
        /\ IF ~Accepted(c) THEN Refuse(c)
           ELSE /\ Connected
                /\ IF a.active /\ c.typed = a.password /\ c.new # a.password
                   THEN Advance(c, [c EXCEPT !.stage = "read"])
                   ELSE Refuse(c)
        /\ UNCHANGED <<server, browser, second, edits, failures>>

LoginReading(u) == \E c \in calls : c.kind = "login" /\ c.stage = "read" /\ c.user = u

SavePassword(c) == account' = [account EXCEPT ![Acting(c)].password = c.new]

\* UpdateUserPassword does not close the rows of its query.
PasswordWrites(c) ==
    /\ c.kind = "password" /\ c.stage = "read"
    /\ Connected
    /\ SavePassword(c)
    /\ leaked' = leaked + 1
    /\ excused' = IF LoginReading(Acting(c)) THEN excused \cup {Acting(c)}
                                             ELSE excused \ {Acting(c)}
    /\ Advance(c, [c EXCEPT !.stage = "written"])
    /\ UNCHANGED <<store, madeWith, browser, second, edits, failures>>

\* Wrong on purpose: the token stays.
PasswordDone(c) ==
    /\ c.kind = "password" /\ c.stage = "written"
    /\ Succeed(c)
    /\ UNCHANGED <<server, browser, second, edits, failures>>

PasswordRevokes(c) ==
    /\ c.kind = "password" /\ c.stage = "written"
    /\ store' = [store EXCEPT ![Acting(c)] = None]
    /\ Succeed(c)
    /\ UNCHANGED <<account, leaked, madeWith, excused, browser, second, edits, failures>>

Logout(c) ==
    /\ c.kind = "logout" /\ c.stage = "sent"
    /\ IF Accepted(c)
       THEN store' = [store EXCEPT ![Acting(c)] = None] /\ Succeed(c)
       ELSE UNCHANGED store /\ Refuse(c)
    /\ UNCHANGED <<account, leaked, madeWith, excused, browser, second, edits, failures>>

\* Any other call: what it answers besides a refusal does not matter here.
Data(c) ==
    /\ c.kind = "data" /\ c.stage = "sent"
    /\ IF Accepted(c) THEN Succeed(c) ELSE Refuse(c)
    /\ UNCHANGED <<server, browser, second, edits, failures>>

\* The database does not answer, or the pool has no connection left until the
\* time of the call is over.  UpdatePassword takes the failed look-up for a
\* user that does not exist; its update may have been committed.
Fails(c) ==
    \/ /\ c.kind = "login" /\ c.stage = "sent"
       /\ Break(c)
       /\ UNCHANGED <<account, excused>>
    \/ /\ c.kind = "password" /\ c.stage = "sent" /\ Accepted(c)
       /\ Refuse(c)
       /\ UNCHANGED <<account, excused>>
    \/ /\ c.kind = "password" /\ c.stage = "read"
       /\ Break(c)
       /\ \/ UNCHANGED <<account, excused>>
          \/ Connected /\ SavePassword(c) /\ excused' = excused \cup {Acting(c)}

\* Wrong on purpose: a call waits for a connection without end.
DatabaseWaits(c) ==
    /\ Connected
    /\ edits + failures < MaxEvents /\ failures' = failures + 1
    /\ Fails(c)
    /\ UNCHANGED <<store, leaked, madeWith, browser, second, edits>>

DatabaseFails(c) ==
    /\ \/ ~Connected /\ UNCHANGED failures
       \/ edits + failures < MaxEvents /\ failures' = failures + 1
    /\ Fails(c)
    /\ UNCHANGED <<store, leaked, madeWith, browser, second, edits>>

\* A token is accepted for three days.
Expire(u) ==
    /\ store[u] # None
    /\ store[u].second < second
    /\ store' = [store EXCEPT ![u] = None]
    /\ UNCHANGED <<account, leaked, madeWith, excused, browser, second, calls, edits, failures>>

\* Accounts are edited on the users page; the token keeps the role it has.
EditAccount(u, role, active) ==
    /\ edits + failures < MaxEvents
    /\ edits' = edits + 1
    /\ account' = [account EXCEPT ![u].role = role, ![u].active = active]
    /\ UNCHANGED <<store, leaked, madeWith, excused, browser, second, calls, failures>>

\* The process ends and starts again: the tokens and the pool are new, and
\* the calls it was working on break off.
Restart ==
    /\ edits + failures < MaxEvents
    /\ failures' = failures + 1
    /\ store' = [u \in Users |-> None]
    /\ leaked' = 0
    /\ calls' = {c \in calls : c.stage \in Answers}
                  \cup {Answered(c, "error") :
                            c \in {d \in calls : d.heard /\ d.stage \notin Answers}}
    /\ UNCHANGED <<account, madeWith, excused, browser, second, edits>>

Tick ==
    /\ second < MaxSeconds
    /\ second' = second + 1
    /\ UNCHANGED <<server, browser, calls, edits, failures>>

(***************************************************************************)
(* The browser                                                             *)
(***************************************************************************)
\* Another tab has not yet run its effects: what it saves then, it has had
\* in hand before.
OthersBusy(t) == \E u \in Tabs \ {t} : u \in unsaved \cup mounting

\* Wrong on purpose: the token stays in local storage.
ForgetMe(t) ==
    /\ me' = [me EXCEPT ![t] = None]
    /\ unsaved' = IF me[t] # None THEN unsaved \cup {t} ELSE unsaved
    /\ torn' = OthersBusy(t)
    /\ UNCHANGED <<localToken, savedMe, mounting>>

\* setMe(null), in whichever tab, clears the token that all of them use.  The
\* effects run only when "me" has changed.
SignOut(t) ==
    /\ localToken' = None
    /\ me' = [me EXCEPT ![t] = None]
    /\ unsaved' = IF me[t] # None THEN unsaved \cup {t} ELSE unsaved
    /\ torn' = OthersBusy(t)
    /\ UNCHANGED <<savedMe, mounting>>

\* "Sign in" on the login page: disabled while a login is under way.  Whoever
\* types there has had the page drawn again, and the effects have run.
SubmitLogin(t, u, p) ==
    /\ me[t] = None /\ t \notin unsaved \cup mounting
    /\ \A c \in calls : ~(c.tab = t /\ c.heard /\ c.kind = "login")
    /\ Send([Sent(t, "login", localToken) EXCEPT !.user = u, !.typed = p])
    /\ UNCHANGED <<server, browser, second, edits, failures>>

\* Anything that the pages load or save.
Request(t) ==
    /\ me[t] # None
    /\ Send(Sent(t, "data", localToken))
    /\ UNCHANGED <<server, browser, second, edits, failures>>

\* "Sign out" of the menu does not tell the server, that of the sidebar does
\* and waits for its answer.
MenuSignOut(t) ==
    /\ me[t] # None
    /\ SignOut(t)
    /\ UNCHANGED <<server, leaving, second, calls, edits, failures>>

SidebarSignOut(t) ==
    /\ me[t] # None
    /\ Send(Sent(t, "logout", localToken))
    /\ UNCHANGED <<server, browser, second, edits, failures>>

\* The form compares new and confirmed password itself.  It may be closed and
\* opened again while the call is under way.
SubmitPassword(t, old, new) ==
    /\ me[t] # None
    /\ Send([Sent(t, "password", localToken) EXCEPT !.typed = old, !.new = new])
    /\ UNCHANGED <<server, browser, second, edits, failures>>

\* Wrong on purpose: the sign-out that was announced is forgotten.
NoLeave(t) ==
    /\ leaving[t] > 0
    /\ leaving' = [leaving EXCEPT ![t] = @ - 1]
    /\ UNCHANGED <<server, person, second, calls, edits, failures>>

\* Two seconds after the password was changed, whoever is signed in then.
Leave(t) ==
    /\ leaving[t] > 0
    /\ leaving' = [leaving EXCEPT ![t] = @ - 1]
    /\ calls' = calls \cup {Sent(t, "logout", localToken)}
    /\ UNCHANGED <<server, person, second, edits, failures>>

\* Of calls nobody hears, those that do nothing at the server are left out.
Unheard(S) == {[c EXCEPT !.heard = FALSE] :
                  c \in {d \in S : d.kind # "data" /\ d.stage \notin Answers}}

\* A reload takes the person that was saved, and drops timers and answers.
Reload(t) ==
    LET mine == {c \in calls : c.tab = t}
    IN  /\ me' = [me EXCEPT ![t] = savedMe]
        /\ mounting' = mounting \cup {t}
        /\ unsaved' = unsaved \ {t}
        /\ torn' = (torn \/ unsaved # {})
        /\ leaving' = [leaving EXCEPT ![t] = 0]
        /\ calls' = (calls \ mine) \cup Unheard(mine)
        /\ UNCHANGED <<server, localToken, savedMe, second, edits, failures>>

\* The effects of a load and of a new "me": it is saved, even if nothing has
\* changed; a load with a token loads the data, a person the data or the
\* configuration.
Effects(t) ==
    /\ t \in unsaved \cup mounting
    /\ savedMe' = me[t]
    /\ unsaved' = unsaved \ {t}
    /\ mounting' = mounting \ {t}
    /\ calls' = IF me[t] # None \/ (t \in mounting /\ localToken # None)
                THEN calls \cup {Sent(t, "data", localToken)} ELSE calls
    /\ UNCHANGED <<server, localToken, me, torn, leaving, second, edits, failures>>

\* A tab hears a login succeed, and stores the token.
HearLogin(c) ==
    /\ c.heard /\ c.kind = "login" /\ c.stage = "ok"
    /\ localToken' = c.token
    /\ me' = [me EXCEPT ![c.tab] = PersonOf(c.token)]
    /\ unsaved' = unsaved \cup {c.tab}
    /\ torn' = OthersBusy(c.tab)
    /\ calls' = calls \ {c}
    /\ UNCHANGED <<server, savedMe, mounting, leaving, second, edits, failures>>

\* A refusal signs out; so does the answer to a logout, whatever it is.
HearEnd(c) ==
    /\ c.heard
    /\ \/ c.stage = "unauthorized"
       \/ c.kind = "logout" /\ c.stage \in Answers
    /\ SignOut(c.tab)
    /\ calls' = calls \ {c}
    /\ UNCHANGED <<server, leaving, second, edits, failures>>

HearOther(c) ==
    /\ c.heard
    /\ \/ c.kind = "data" /\ c.stage \in {"ok", "error"}
       \/ c.kind = "password" /\ c.stage \in {"ok", "error"}
       \/ c.kind = "login" /\ c.stage = "error"
    /\ leaving' = IF c.kind = "password" /\ c.stage = "ok"
                  THEN [leaving EXCEPT ![c.tab] = @ + 1] ELSE leaving
    /\ calls' = calls \ {c}
    /\ UNCHANGED <<server, person, second, edits, failures>>

\* The connection of a call breaks: the request, or its answer, is lost.
Disconnect(c) ==
    /\ edits + failures < MaxEvents
    /\ failures' = failures + 1
    /\ c.heard
    /\ \/ calls' = (calls \ {c}) \cup Unheard({c})
       \/ c.stage = "sent" /\ calls' = calls \ {c}
    /\ IF c.kind = "logout" THEN SignOut(c.tab)
                            ELSE UNCHANGED person
    /\ UNCHANGED <<server, leaving, second, edits>>

----------------------------------------------------------------------------
Serve(c) ==
    \/ LoginReads(c) \/ LoginStores(c)
    \/ PasswordReads(c) \/ PasswordWrites(c) \/ PasswordRevokes(c)
    \/ Logout(c) \/ Data(c) \/ DatabaseFails(c)

Hear(c) == HearLogin(c) \/ HearEnd(c) \/ HearOther(c)

UserActs(t) ==
    \/ \E u \in Users, p \in Passwords : SubmitLogin(t, u, p)
    \/ \E old, new \in Passwords : SubmitPassword(t, old, new)
    \/ Request(t) \/ MenuSignOut(t) \/ SidebarSignOut(t) \/ Reload(t)

Next ==
    \/ \E c \in calls : Serve(c) \/ Hear(c) \/ Disconnect(c)
    \/ \E t \in Tabs : UserActs(t) \/ Effects(t) \/ Leave(t)
    \/ \E u \in Users, role \in Roles, active \in BOOLEAN : EditAccount(u, role, active)
    \/ \E u \in Users : Expire(u)
    \/ Restart
    \/ Tick

Spec == Init /\ [][Next]_vars

(***************************************************************************)
(* A call goes on: the server answers, if only because its time is over,   *)
(* and the tab hears it; the effects run, and the timer of Leave fires.  A *)
(* reload breaks this off; but a tab is not reloaded for ever before the   *)
(* answer to the data it loads (hence strong fairness).  Nothing rests on  *)
(* the end of a password change.                                           *)
(***************************************************************************)
ServeKind(t, k) == \E c \in calls : c.tab = t /\ c.kind = k /\ Serve(c)
HearKind(t, k)  == \E c \in calls : c.tab = t /\ c.kind = k /\ Hear(c)

Fairness ==
    \A t \in Tabs :
       /\ WF_vars(Effects(t)) /\ WF_vars(Leave(t))
       /\ \A k \in {"login", "logout"} : WF_vars(ServeKind(t, k)) /\ WF_vars(HearKind(t, k))
       /\ SF_vars(ServeKind(t, "data")) /\ SF_vars(HearKind(t, "data"))

FairSpec == Spec /\ Fairness

(***************************************************************************)
(* Properties                                                              *)
(***************************************************************************)
TypeOK ==
    /\ account \in [Users -> Accounts]
    /\ store \in [Users -> Tokens \cup {None}]
    /\ leaked \in 0..MaxConns
    /\ second \in Seconds
    /\ localToken \in Tokens \cup {None}
    /\ savedMe \in Persons \cup {None}
    /\ me \in [Tabs -> Persons \cup {None}]
    /\ unsaved \subseteq Tabs
    /\ mounting \subseteq Tabs
    /\ leaving \in [Tabs -> Nat]
    /\ calls \subseteq Call
    /\ madeWith \in [Users -> Passwords]
    /\ torn \in BOOLEAN
    /\ excused \subseteq Users
    /\ edits \in 0..MaxEvents
    /\ failures \in 0..MaxEvents

\* When no tab has a person still to save, the token in local storage is the
\* token of the person a reload would show, with the same role, whatever the
\* tabs do and in whatever order their answers come: nobody is shown a page
\* and acts as another after a reload.  Token and person are two writes, and
\* two of these changes may mix: excepted is a token that was last written
\* while another tab was in the middle of a change or a load, and a reload in
\* the middle of a change, until the next change on its own.
TokenIsOfSavedMe ==
    (unsaved = {} /\ ~torn /\ localToken # None) => savedMe = PersonOf(localToken)

\* "changing password ... removes the entry immediately": a token that is
\* accepted was made with the present password - except between the two
\* steps of a change, after a change whose answer from the database was lost,
\* and when a login had read the old password before the change.
OldPasswordsAreOut ==
    \A u \in Users :
       (store[u] # None /\ madeWith[u] # account[u].password) =>
          \/ u \in excused
          \/ \E c \in calls : c.kind = "password" /\ c.stage = "written" /\ Acting(c) = u

\* "Password updated - signing out for security": a tab whose user has
\* changed the password ends at the login page, by its timer, or, when it was
\* reloaded before the timer fired, by the refusal of its token; unless there
\* has been a new login meanwhile, or a failure.
PasswordChangeSignsOut ==
    \A t \in Tabs :
       leaving[t] > 0 ~> \/ me[t] = None
                         \/ localToken = None
                         \/ store[localToken.user] = localToken
                         \/ failures > 0

\* The login form comes back: a login ends, also when every connection of the
\* pool has been lost to password changes.
LoginEnds ==
    \A t \in Tabs :
       (\E c \in calls : c.tab = t /\ c.heard /\ c.kind = "login")
          ~> ~(\E c \in calls : c.tab = t /\ c.heard /\ c.kind = "login")
=============================================================================
