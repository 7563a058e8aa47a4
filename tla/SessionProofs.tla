--------------------------- MODULE SessionProofs ---------------------------
(***************************************************************************)
(* Proofs about Session: its type invariant, that the token in local       *)
(* storage is the one of the person a reload would show unless the two     *)
(* writes of two tabs mix, and that no token outlives the password it was  *)
(* made with; for any number of users, passwords, tabs, calls, connections *)
(* and failures.                                                           *)
(***************************************************************************)
EXTENDS Session, TLAPS

\* What a call of each kind carries, and what it has found out.
Shaped(c) ==
    /\ c.kind = "login" /\ c.stage \in {"sent", "read"} => c.user \in Users /\ c.typed \in Passwords
    /\ c.kind = "login" /\ c.stage = "read" => c.role \in Roles
    /\ c.kind = "login" /\ c.stage = "ok" => c.token \in Tokens
    /\ c.kind = "password" /\ c.stage \notin Answers => c.typed \in Passwords /\ c.new \in Passwords
    /\ c.kind = "password" /\ c.stage \in {"read", "written"} => c.token \in Tokens

Good(c) == c \in Call /\ Shaped(c)

GoodCalls == \A c \in calls : Good(c)

Tables ==
    /\ account \in [Users -> Accounts]
    /\ store \in [Users -> Tokens \cup {None}]
    /\ leaked \in 0..MaxConns
    /\ second \in Seconds
    /\ madeWith \in [Users -> Passwords]
    /\ excused \subseteq Users
    /\ edits \in 0..MaxEvents
    /\ failures \in 0..MaxEvents

Browser ==
    /\ localToken \in Tokens \cup {None}
    /\ savedMe \in Persons \cup {None}
    /\ me \in [Tabs -> Persons \cup {None}]
    /\ unsaved \subseteq Tabs
    /\ mounting \subseteq Tabs
    /\ torn \in BOOLEAN
    /\ leaving \in [Tabs -> Nat]

TypeInv == Tables /\ Browser /\ GoodCalls

\* A login that is about to store its token has read the present password, or
\* the user is excused.
LoginsAreFresh ==
    \A c \in calls : c.kind = "login" /\ c.stage = "read" =>
        c.typed = account[c.user].password \/ c.user \in excused

PasswordInv == TypeInv /\ LoginsAreFresh /\ OldPasswordsAreOut

-----------------------------------------------------------------------------
(***************************************************************************)
(* Calls                                                                   *)
(***************************************************************************)

LEMMA Unequal ==
  /\ None \notin Users /\ None \notin Passwords
  /\ None \notin Persons /\ None \notin Tokens
  BY NoneAssumption

LEMMA TokenFields ==
  ASSUME NEW token \in Tokens
  PROVE  token.user \in Users /\ token.role \in Roles /\ PersonOf(token) \in Persons
  BY DEF Tokens, Persons, PersonOf

LEMMA CallIsRecord ==
  ASSUME NEW c \in Call, NEW b \in BOOLEAN, NEW stage \in {"sent", "read", "written"} \cup Answers
  PROVE  [c EXCEPT !.stage = stage] \in Call /\ [c EXCEPT !.heard = b] \in Call
  BY DEF Call

\* What a call carries stays, whatever its stage.
LEMMA CallKeeps ==
  ASSUME NEW c \in Call, NEW b, NEW stage
  PROVE  LET d == [c EXCEPT !.stage = stage]
             e == [c EXCEPT !.heard = b]
         IN  /\ d.stage = stage /\ d.kind = c.kind /\ d.user = c.user /\ d.typed = c.typed
             /\ d.new = c.new /\ d.role = c.role /\ d.token = c.token /\ d.tab = c.tab
             /\ d.heard = c.heard
             /\ e.stage = c.stage /\ e.kind = c.kind /\ e.user = c.user /\ e.typed = c.typed
             /\ e.new = c.new /\ e.role = c.role /\ e.token = c.token /\ e.tab = c.tab
  BY DEF Call

\* An answer is a call of the same tab and kind, and carries nothing else.
LEMMA AnsweredCall ==
  ASSUME NEW c \in Call, NEW stage \in Answers
  PROVE  /\ Answered(c, stage) \in Call
         /\ Answered(c, stage).kind = c.kind /\ Answered(c, stage).stage = stage
  BY DEF Answered, Sent, Call

\* A call that is refused, fails, or is not heard any more is a call.
LEMMA Ended ==
  ASSUME NEW c, Good(c)
  PROVE  /\ Good(Answered(c, "unauthorized"))
         /\ Good(Answered(c, "error"))
         /\ c.kind # "login" => Good(Answered(c, "ok"))
         /\ Good([c EXCEPT !.heard = FALSE])
<1>1. c \in Call /\ Shaped(c)
  BY DEF Good
<1>2. \A stage \in Answers :
         /\ Answered(c, stage) \in Call
         /\ Answered(c, stage).kind = c.kind /\ Answered(c, stage).stage = stage
  BY <1>1, AnsweredCall
<1>3. Good(Answered(c, "unauthorized")) /\ Good(Answered(c, "error"))
  BY <1>2 DEF Good, Shaped, Answers
<1>4. c.kind # "login" => Good(Answered(c, "ok"))
  BY <1>2 DEF Good, Shaped, Answers
<1>5. [c EXCEPT !.heard = FALSE] \in Call
  BY <1>1 DEF Call
<1>6. Shaped([c EXCEPT !.heard = FALSE])
  BY <1>1, CallKeeps DEF Shaped
<1>7. QED
  BY <1>3, <1>4, <1>5, <1>6 DEF Good

LEMMA SentIsGood ==
  ASSUME NEW t \in Tabs, NEW token \in Tokens \cup {None}, NEW kind \in {"logout", "data"}
  PROVE  Good(Sent(t, kind, token))
  BY DEF Good, Shaped, Call, Sent, Kinds

\* Calls that were there, or that are good.
LEMMA GrowsGood ==
  ASSUME GoodCalls, NEW S, \A c \in S : Good(c), calls' \subseteq calls \cup S
  PROVE  GoodCalls'
  BY DEF GoodCalls

LEMMA AnswerGood ==
  ASSUME GoodCalls, NEW c, NEW next, Good(next), Answer(c, next) \/ Advance(c, next)
  PROVE  GoodCalls'
<1>1. calls' \subseteq calls \cup {next}
  BY DEF Answer, Advance
<1>2. QED
  BY <1>1 DEF GoodCalls

LEMMA RefuseGood ==
  ASSUME GoodCalls, NEW c \in calls,
         \/ Refuse(c) \/ Break(c) \/ calls' = calls \ {c}
         \/ c.kind # "login" /\ Succeed(c)
  PROVE  GoodCalls'
<1>1. Good(c)
  BY DEF GoodCalls
<1>2. CASE Refuse(c)
  BY <1>1, <1>2, Ended, AnswerGood DEF Refuse
<1>3. CASE Break(c)
  BY <1>1, <1>3, Ended, AnswerGood DEF Break
<1>4. CASE c.kind # "login" /\ Succeed(c)
  BY <1>1, <1>4, Ended, AnswerGood DEF Succeed
<1>5. CASE calls' = calls \ {c}
  BY <1>5 DEF GoodCalls
<1>6. QED
  BY <1>2, <1>3, <1>4, <1>5

LEMMA UnheardGood ==
  ASSUME GoodCalls, NEW S \in SUBSET calls
  PROVE  \A c \in Unheard(S) : Good(c)
  BY Ended DEF Unheard, GoodCalls

-----------------------------------------------------------------------------
LEMMA InitType == Init => TypeInv
<1>1. SUFFICES ASSUME Init PROVE TypeInv
  OBVIOUS
<1>2. \A u \in Users : FirstAccount(u) \in Accounts /\ FirstAccount(u).password \in Passwords
  BY AccountsAssumption DEF Accounts
<1>3. Tables
  BY <1>1, <1>2, BoundsAssumption DEF Init, Tables, Seconds
<1>4. Browser /\ GoodCalls
  BY <1>1 DEF Init, Browser, GoodCalls
<1>5. QED
  BY <1>3, <1>4 DEF TypeInv

(***************************************************************************)
(* The server                                                              *)
(***************************************************************************)
LEMMA ServerUnchanged ==
  ASSUME Tables, UNCHANGED <<server, second, edits, failures>>
  PROVE  Tables'
  BY DEF Tables, server

LEMMA BrowserUnchanged ==
  ASSUME Browser, UNCHANGED browser
  PROVE  Browser'
  BY DEF Browser, browser, person

LEMMA LoginType ==
  ASSUME TypeInv, NEW c \in calls, LoginReads(c) \/ LoginStores(c)
  PROVE  TypeInv'
<1>1. Good(c) /\ c \in Call /\ Shaped(c) /\ c.kind = "login"
  BY DEF TypeInv, GoodCalls, Good, LoginReads, LoginStores
<1>2. c.user \in Users /\ c.typed \in Passwords
  BY <1>1 DEF Shaped, LoginReads, LoginStores
<1>3. CASE LoginReads(c)
  <2>1. account[c.user].role \in Roles
    BY <1>2 DEF TypeInv, Tables, Accounts
  <2> DEFINE next == [c EXCEPT !.stage = "read", !.role = account[c.user].role]
  <2>2. next \in Call /\ next.kind = "login" /\ next.stage = "read"
        /\ next.user = c.user /\ next.typed = c.typed /\ next.role = account[c.user].role
    BY <1>1, <2>1 DEF Call
  <2>3. Good(next)
    BY <1>2, <2>1, <2>2 DEF Good, Shaped
  <2>4. GoodCalls'
    BY <1>3, <2>3, AnswerGood, RefuseGood DEF LoginReads, TypeInv
  <2>5. QED
    BY <1>3, <2>4, ServerUnchanged, BrowserUnchanged DEF LoginReads, TypeInv
<1>4. CASE LoginStores(c)
  <2> DEFINE token == [user |-> c.user, role |-> c.role, second |-> second]
             next == [Answered(c, "ok") EXCEPT !.token = token]
  <2>1. token \in Tokens
    BY <1>1, <1>2, <1>4 DEF Tokens, TypeInv, Tables, Shaped, LoginStores
  <2>2. next \in Call /\ next.kind = "login" /\ next.stage = "ok" /\ next.token = token
    BY <1>1, <2>1 DEF Call, Answers, Answered, Sent
  <2>3. Good(next)
    BY <1>2, <2>1, <2>2 DEF Good, Shaped
  <2>4. GoodCalls'
    BY <1>4, <2>3, AnswerGood DEF LoginStores, TypeInv
  <2>5. Tables'
    BY <1>2, <1>4, <2>1 DEF LoginStores, TypeInv, Tables
  <2>6. QED
    BY <1>4, <2>4, <2>5, BrowserUnchanged DEF LoginStores, TypeInv
<1>5. QED
  BY <1>3, <1>4

\* The user of a call that is let in.
LEMMA ActingUser ==
  ASSUME NEW c, Good(c), c.token # None
  PROVE  c.token \in Tokens /\ Acting(c) \in Users
  BY TokenFields DEF Good, Call, Acting

LEMMA PasswordUser ==
  ASSUME NEW c, Good(c), c.kind = "password", c.stage \in {"read", "written"}
  PROVE  c.token \in Tokens /\ Acting(c) \in Users /\ c.new \in Passwords
  BY TokenFields DEF Good, Shaped, Acting, Answers

LEMMA SavedAccounts ==
  ASSUME Tables, NEW c, Acting(c) \in Users, c.new \in Passwords, SavePassword(c)
  PROVE  account' \in [Users -> Accounts]
  BY DEF SavePassword, Tables, Accounts

LEMMA PasswordType ==
  ASSUME TypeInv, NEW c \in calls, PasswordReads(c) \/ PasswordWrites(c) \/ PasswordRevokes(c)
  PROVE  TypeInv'
<1>1. Good(c) /\ c \in Call /\ Shaped(c) /\ c.kind = "password"
  BY DEF TypeInv, GoodCalls, Good, PasswordReads, PasswordWrites, PasswordRevokes
<1>2. ASSUME NEW stage \in {"read", "written"}, c.token \in Tokens
      PROVE  Good([c EXCEPT !.stage = stage])
  <2>0. c.typed \in Passwords /\ c.new \in Passwords
    BY <1>1, <1>2 DEF Shaped, Answers, PasswordReads, PasswordWrites, PasswordRevokes
  <2>1. [c EXCEPT !.stage = stage] \in Call
    BY <1>1, CallIsRecord
  <2>2. Shaped([c EXCEPT !.stage = stage])
    BY <1>1, <1>2, <2>0, CallKeeps DEF Shaped
  <2>3. QED
    BY <2>1, <2>2 DEF Good
<1>3. CASE PasswordReads(c)
  <2>1. Accepted(c) => c.token \in Tokens
    BY <1>1, ActingUser DEF Accepted
  <2>2. GoodCalls'
    BY <1>2, <1>3, <2>1, AnswerGood, RefuseGood DEF PasswordReads, TypeInv
  <2>3. QED
    BY <1>3, <2>2, ServerUnchanged, BrowserUnchanged DEF PasswordReads, TypeInv
<1>4. CASE PasswordWrites(c)
  <2>1. c.token \in Tokens /\ Acting(c) \in Users /\ c.new \in Passwords
    BY <1>1, <1>4, PasswordUser DEF PasswordWrites
  <2>2. GoodCalls'
    BY <1>2, <1>4, <2>1, AnswerGood DEF PasswordWrites, TypeInv
  <2>3. account' \in [Users -> Accounts]
    BY <1>4, <2>1, SavedAccounts DEF PasswordWrites, TypeInv
  <2>4. leaked' \in 0..MaxConns
    BY <1>4, BoundsAssumption DEF PasswordWrites, Connected, TypeInv, Tables
  <2>5. excused' \subseteq Users
    BY <1>4, <2>1 DEF PasswordWrites, TypeInv, Tables
  <2>6. Tables'
    BY <1>4, <2>3, <2>4, <2>5 DEF PasswordWrites, TypeInv, Tables
  <2>7. QED
    BY <1>4, <2>2, <2>6, BrowserUnchanged DEF PasswordWrites, TypeInv
<1>5. CASE PasswordRevokes(c)
  <2>1. GoodCalls'
    BY <1>1, <1>5, RefuseGood DEF PasswordRevokes, TypeInv
  <2>2. Tables'
    BY <1>5 DEF PasswordRevokes, TypeInv, Tables
  <2>3. QED
    BY <1>5, <2>1, <2>2, BrowserUnchanged DEF PasswordRevokes, TypeInv
<1>6. QED
  BY <1>3, <1>4, <1>5

LEMMA OtherServiceType ==
  ASSUME TypeInv, NEW c \in calls, Logout(c) \/ Data(c) \/ DatabaseFails(c)
  PROVE  TypeInv'
<1>1. Good(c)
  BY DEF TypeInv, GoodCalls
<1>2. CASE Logout(c)
  <2>1. GoodCalls'
    BY <1>2, RefuseGood DEF Logout, TypeInv
  <2>2. Tables'
    BY <1>2 DEF Logout, TypeInv, Tables
  <2>3. QED
    BY <1>2, <2>1, <2>2, BrowserUnchanged DEF Logout, TypeInv
<1>3. CASE Data(c)
  <2>1. GoodCalls'
    BY <1>3, RefuseGood DEF Data, TypeInv
  <2>2. QED
    BY <1>3, <2>1, ServerUnchanged, BrowserUnchanged DEF Data, TypeInv
<1>4. CASE DatabaseFails(c)
  <2>1. GoodCalls'
    BY <1>4, RefuseGood DEF DatabaseFails, Fails, TypeInv
  <2>2. account' \in [Users -> Accounts] /\ excused' \subseteq Users
    <3>1. CASE UNCHANGED <<account, excused>>
      BY <3>1 DEF TypeInv, Tables
    <3>2. CASE ~UNCHANGED <<account, excused>>
      <4>1. /\ c.kind = "password" /\ c.stage = "read" /\ SavePassword(c)
            /\ excused' = excused \cup {Acting(c)}
        BY <1>4, <3>2 DEF DatabaseFails, Fails
      <4>2. Acting(c) \in Users /\ c.new \in Passwords
        BY <1>1, <4>1, PasswordUser
      <4>3. QED
        BY <4>1, <4>2, SavedAccounts DEF TypeInv, Tables
    <3>3. QED
      BY <3>1, <3>2
  <2>3. failures' \in 0..MaxEvents
    BY <1>4, BoundsAssumption DEF DatabaseFails, TypeInv, Tables
  <2>4. Tables'
    BY <1>4, <2>2, <2>3 DEF DatabaseFails, TypeInv, Tables
  <2>5. QED
    BY <1>4, <2>1, <2>4, BrowserUnchanged DEF DatabaseFails, TypeInv
<1>5. QED
  BY <1>2, <1>3, <1>4

(***************************************************************************)
(* Accounts, restarts and time                                             *)
(***************************************************************************)
LEMMA EventType ==
  ASSUME TypeInv,
         \/ \E u \in Users, role \in Roles, active \in BOOLEAN : EditAccount(u, role, active)
         \/ \E u \in Users : Expire(u)
         \/ Restart \/ Tick
  PROVE  TypeInv'
<1>1. ASSUME NEW u \in Users, NEW role \in Roles, NEW active \in BOOLEAN,
             EditAccount(u, role, active)
      PROVE  TypeInv'
  <2>1. account' \in [Users -> Accounts]
    BY <1>1 DEF EditAccount, TypeInv, Tables, Accounts
  <2>2. edits' \in 0..MaxEvents
    BY <1>1, BoundsAssumption DEF EditAccount, TypeInv, Tables
  <2>3. QED
    BY <1>1, <2>1, <2>2, BrowserUnchanged DEF EditAccount, TypeInv, Tables, GoodCalls
<1>2. ASSUME NEW u \in Users, Expire(u)
      PROVE  TypeInv'
  BY <1>2, BrowserUnchanged DEF Expire, TypeInv, Tables, GoodCalls
<1>3. CASE Restart
  <2>1. GoodCalls'
    BY <1>3, Ended DEF Restart, TypeInv, GoodCalls
  <2>2. Tables'
    BY <1>3, BoundsAssumption DEF Restart, TypeInv, Tables
  <2>3. QED
    BY <1>3, <2>1, <2>2, BrowserUnchanged DEF Restart, TypeInv
<1>4. CASE Tick
  <2>1. Tables'
    BY <1>4, BoundsAssumption DEF Tick, TypeInv, Tables, Seconds, server
  <2>2. QED
    BY <1>4, <2>1, BrowserUnchanged DEF Tick, TypeInv, GoodCalls
<1>5. QED
  BY <1>1, <1>2, <1>3, <1>4

(***************************************************************************)
(* The browser                                                             *)
(***************************************************************************)
LEMMA SignOutType ==
  ASSUME Browser, NEW t \in Tabs, SignOut(t), leaving' = leaving
  PROVE  Browser'
  BY DEF SignOut, Browser, OthersBusy

LEMMA SendGood ==
  ASSUME GoodCalls, NEW c, Good(c), Send(c)
  PROVE  GoodCalls'
  BY DEF Send, GoodCalls

LEMMA UserType ==
  ASSUME TypeInv, NEW t \in Tabs, UserActs(t)
  PROVE  TypeInv'
<1>1. localToken \in Tokens \cup {None}
  BY DEF TypeInv, Browser
<1>2. ASSUME NEW u \in Users, NEW p \in Passwords, SubmitLogin(t, u, p)
      PROVE  TypeInv'
  <2>1. Good([Sent(t, "login", localToken) EXCEPT !.user = u, !.typed = p])
    BY <1>1 DEF Good, Shaped, Call, Sent, Kinds
  <2>2. QED
    BY <1>2, <2>1, SendGood, ServerUnchanged, BrowserUnchanged DEF SubmitLogin, TypeInv
<1>3. ASSUME NEW old \in Passwords, NEW new \in Passwords, SubmitPassword(t, old, new)
      PROVE  TypeInv'
  <2>1. Good([Sent(t, "password", localToken) EXCEPT !.typed = old, !.new = new])
    BY <1>1 DEF Good, Shaped, Call, Sent, Kinds
  <2>2. QED
    BY <1>3, <2>1, SendGood, ServerUnchanged, BrowserUnchanged DEF SubmitPassword, TypeInv
<1>4. CASE Request(t)
  BY <1>1, <1>4, SentIsGood, SendGood, ServerUnchanged, BrowserUnchanged DEF Request, TypeInv
<1>5. CASE SidebarSignOut(t)
  BY <1>1, <1>5, SentIsGood, SendGood, ServerUnchanged, BrowserUnchanged DEF SidebarSignOut, TypeInv
<1>6. CASE MenuSignOut(t)
  BY <1>6, SignOutType, ServerUnchanged DEF MenuSignOut, TypeInv, GoodCalls
<1>7. CASE Reload(t)
  <2> DEFINE mine == {c \in calls : c.tab = t}
  <2>1. \A c \in Unheard(mine) : Good(c)
    BY UnheardGood DEF TypeInv
  <2>2. calls' \subseteq calls \cup Unheard(mine)
    BY <1>7 DEF Reload
  <2>3. GoodCalls'
    BY <2>1, <2>2 DEF TypeInv, GoodCalls
  <2>4. Browser'
    BY <1>7 DEF Reload, TypeInv, Browser
  <2>5. QED
    BY <1>7, <2>3, <2>4, ServerUnchanged DEF Reload, TypeInv
<1>8. QED
  BY <1>2, <1>3, <1>4, <1>5, <1>6, <1>7 DEF UserActs

\* What a tab does by itself: its effects and its timers.
LEMMA TabType ==
  ASSUME TypeInv, NEW t \in Tabs, Effects(t) \/ Leave(t)
  PROVE  TypeInv'
<1>1. Good(Sent(t, "logout", localToken)) /\ Good(Sent(t, "data", localToken))
  BY SentIsGood DEF TypeInv, Browser
<1>2. GoodCalls'
  BY <1>1 DEF Effects, Leave, TypeInv, GoodCalls
<1>3. CASE Leave(t)
  <2>1. leaving' \in [Tabs -> Nat]
    BY <1>3 DEF Leave, TypeInv, Browser
  <2>2. Browser'
    BY <1>3, <2>1 DEF Leave, TypeInv, Browser, person
  <2>3. QED
    BY <1>2, <1>3, <2>2, ServerUnchanged DEF Leave, TypeInv
<1>4. CASE Effects(t)
  <2>1. Browser'
    BY <1>4 DEF Effects, TypeInv, Browser
  <2>2. QED
    BY <1>2, <1>4, <2>1, ServerUnchanged DEF Effects, TypeInv
<1>5. QED
  BY <1>3, <1>4

LEMMA HearType ==
  ASSUME TypeInv, NEW c \in calls, Hear(c)
  PROVE  TypeInv'
<1>1. Good(c) /\ c.tab \in Tabs
  BY DEF TypeInv, GoodCalls, Good, Call
<1>2. CASE HearLogin(c)
  <2>1. c.token \in Tokens
    BY <1>1, <1>2 DEF HearLogin, Good, Shaped
  <2>2. GoodCalls'
    BY <1>2, RefuseGood DEF HearLogin, TypeInv
  <2>3. me' \in [Tabs -> Persons \cup {None}]
    BY <1>1, <1>2, <2>1, TokenFields DEF HearLogin, TypeInv, Browser
  <2>4. Browser'
    BY <1>1, <1>2, <2>1, <2>3 DEF HearLogin, TypeInv, Browser, OthersBusy
  <2>5. QED
    BY <1>2, <2>2, <2>4, ServerUnchanged DEF HearLogin, TypeInv
<1>3. CASE HearEnd(c)
  BY <1>1, <1>3, RefuseGood, SignOutType, ServerUnchanged DEF HearEnd, TypeInv
<1>4. CASE HearOther(c)
  <2>1. leaving' \in [Tabs -> Nat]
    BY <1>1, <1>4 DEF HearOther, TypeInv, Browser
  <2>2. Browser'
    BY <1>4, <2>1 DEF HearOther, TypeInv, Browser, person
  <2>3. QED
    BY <1>4, <2>2, RefuseGood, ServerUnchanged DEF HearOther, TypeInv
<1>5. QED
  BY <1>2, <1>3, <1>4 DEF Hear

LEMMA DisconnectType ==
  ASSUME TypeInv, NEW c \in calls, Disconnect(c)
  PROVE  TypeInv'
<1>1. c.tab \in Tabs /\ {c} \in SUBSET calls
  BY DEF TypeInv, GoodCalls, Good, Call
<1>2. calls' \subseteq calls \cup Unheard({c})
  BY DEF Disconnect
<1>3. GoodCalls'
  BY <1>1, <1>2, UnheardGood DEF TypeInv, GoodCalls
<1>4. Browser'
  BY <1>1, SignOutType, BrowserUnchanged DEF Disconnect, TypeInv, browser, person
<1>5. Tables'
  BY BoundsAssumption DEF Disconnect, TypeInv, Tables, server
<1>6. QED
  BY <1>3, <1>4, <1>5 DEF TypeInv

LEMMA NextType == TypeInv /\ [Next]_vars => TypeInv'
<1>1. SUFFICES ASSUME TypeInv, [Next]_vars PROVE TypeInv'
  OBVIOUS
<1>2. ASSUME NEW c \in calls, Serve(c) PROVE TypeInv'
  BY <1>1, <1>2, LoginType, PasswordType, OtherServiceType DEF Serve
<1>3. ASSUME NEW c \in calls, Hear(c) \/ Disconnect(c) PROVE TypeInv'
  BY <1>1, <1>3, HearType, DisconnectType
<1>4. ASSUME NEW t \in Tabs, UserActs(t) \/ Effects(t) \/ Leave(t) PROVE TypeInv'
  BY <1>1, <1>4, UserType, TabType
<1>5. CASE UNCHANGED vars
  BY <1>1, <1>5 DEF vars, server, browser, person, TypeInv, Tables, Browser, GoodCalls
<1>6. QED
  BY <1>1, <1>2, <1>3, <1>4, <1>5, EventType DEF Next

LEMMA TypeInvImplies == TypeInv => TypeOK
  BY DEF TypeInv, TypeOK, Tables, Browser, GoodCalls, Good

\* The state of Session is well typed: a call that has been let in carries a
\* token, and a login that succeeds brings one.
THEOREM TypeCorrect == Spec => []TypeOK
<1>1. Spec => []TypeInv
  BY InitType, NextType, PTL DEF Spec
<1>2. QED
  BY <1>1, TypeInvImplies, PTL

-----------------------------------------------------------------------------
(***************************************************************************)
(* The token in local storage                                              *)
(***************************************************************************)

\* What holds as long as no two changes have mixed.  The tab that has a person
\* to save is the only one in the middle of anything, and has the person of the
\* token in hand; when none has, the person that is saved is that of the token,
\* and every tab that is being loaded is about to save the same again.
Alone == \A t \in unsaved : \A u \in Tabs \ {t} : u \notin unsaved \cup mounting

InHand == localToken # None => \A t \in unsaved : me[t] = PersonOf(localToken)

Loading == unsaved = {} /\ localToken # None => \A t \in mounting : me[t] = savedMe

TabsInv == ~torn => Alone /\ InHand /\ Loading /\ TokenIsOfSavedMe

LEMMA TabsUnchanged ==
  ASSUME TabsInv, UNCHANGED person
  PROVE  TabsInv'
  BY DEF TabsInv, Alone, InHand, Loading, TokenIsOfSavedMe, PersonOf, person

\* A tab that signs out while no other is busy leaves no token behind.
LEMMA SignOutTabs ==
  ASSUME Browser, TabsInv, NEW t \in Tabs, SignOut(t)
  PROVE  TabsInv'
<1>1. SUFFICES ASSUME ~torn' PROVE Alone' /\ InHand' /\ Loading' /\ TokenIsOfSavedMe'
  BY DEF TabsInv
<1>2. unsaved \cup mounting \subseteq {t}
  BY <1>1 DEF SignOut, OthersBusy, Browser
<1>3. unsaved' \subseteq {t} /\ mounting' \subseteq {t} /\ localToken' = None
  BY <1>2 DEF SignOut
<1>4. QED
  BY <1>3 DEF Alone, InHand, Loading, TokenIsOfSavedMe

\* A tab that hears a login while no other is busy has its person in hand.
LEMMA HearLoginTabs ==
  ASSUME TypeInv, TabsInv, NEW c \in calls, HearLogin(c)
  PROVE  TabsInv'
<1>1. SUFFICES ASSUME ~torn' PROVE Alone' /\ InHand' /\ Loading' /\ TokenIsOfSavedMe'
  BY DEF TabsInv
<1>2. c.tab \in Tabs
  BY DEF TypeInv, GoodCalls, Good, Call
<1>3. unsaved \cup mounting \subseteq {c.tab}
  BY <1>1 DEF HearLogin, OthersBusy, TypeInv, Browser
<1>4. /\ unsaved' = {c.tab} /\ mounting' \subseteq {c.tab}
      /\ localToken' = c.token /\ me'[c.tab] = PersonOf(c.token)
  BY <1>2, <1>3 DEF HearLogin, TypeInv, Browser
<1>5. InHand'
  BY <1>4 DEF InHand, PersonOf
<1>6. QED
  BY <1>4, <1>5 DEF Alone, Loading, TokenIsOfSavedMe

\* A tab that is reloaded while no person is to be saved takes the one that is.
LEMMA ReloadTabs ==
  ASSUME Browser, TabsInv, NEW t \in Tabs, Reload(t)
  PROVE  TabsInv'
<1>1. SUFFICES ASSUME ~torn' PROVE Alone' /\ InHand' /\ Loading' /\ TokenIsOfSavedMe'
  BY DEF TabsInv
<1>2. ~torn /\ unsaved = {} /\ unsaved' = {}
  BY <1>1 DEF Reload
<1>3. TokenIsOfSavedMe'
  BY <1>2 DEF Reload, TabsInv, TokenIsOfSavedMe, PersonOf
<1>4. Loading'
  BY <1>2 DEF Reload, TabsInv, Loading, Browser
<1>5. QED
  BY <1>2, <1>3, <1>4 DEF Alone, InHand

\* The effects save the person in hand, or, after a load, the same again.
LEMMA EffectsTabs ==
  ASSUME Browser, TabsInv, NEW t \in Tabs, Effects(t)
  PROVE  TabsInv'
<1>1. SUFFICES ASSUME ~torn' PROVE Alone' /\ InHand' /\ Loading' /\ TokenIsOfSavedMe'
  BY DEF TabsInv
<1>2. Alone /\ InHand /\ Loading /\ TokenIsOfSavedMe
  BY <1>1 DEF Effects, TabsInv
<1>3. /\ unsaved' = unsaved \ {t} /\ mounting' = mounting \ {t} /\ savedMe' = me[t]
      /\ localToken' = localToken /\ me' = me
  BY DEF Effects
<1>4. CASE t \in unsaved
  <2>1. unsaved' = {} /\ mounting' = {}
    BY <1>2, <1>3, <1>4 DEF Alone, Browser
  <2>2. localToken # None => savedMe' = PersonOf(localToken)
    BY <1>2, <1>3, <1>4 DEF InHand
  <2>3. QED
    BY <1>3, <2>1, <2>2 DEF Alone, InHand, Loading, TokenIsOfSavedMe, PersonOf
<1>5. CASE t \notin unsaved
  <2>1. t \in mounting /\ unsaved = {}
    BY <1>2, <1>5 DEF Effects, Alone, Browser
  <2>2. localToken # None => savedMe' = savedMe
    BY <1>2, <1>3, <2>1 DEF Loading
  <2>3. unsaved' = {} /\ mounting' \subseteq mounting
    BY <1>3, <2>1
  <2>4. Loading'
    BY <1>2, <1>3, <2>1, <2>2, <2>3 DEF Loading
  <2>5. TokenIsOfSavedMe'
    BY <1>1, <1>2, <1>3, <2>1, <2>2 DEF TokenIsOfSavedMe, PersonOf, Effects
  <2>6. QED
    BY <2>3, <2>4, <2>5 DEF Alone, InHand
<1>6. QED
  BY <1>4, <1>5

LEMMA TabsStep == TypeInv /\ TabsInv /\ [Next]_vars => TabsInv'
<1> SUFFICES ASSUME TypeInv, TabsInv, [Next]_vars PROVE TabsInv'
  OBVIOUS
<1>1. Browser
  BY DEF TypeInv
<1>2. ASSUME NEW c \in calls, Serve(c) \/ Hear(c) \/ Disconnect(c) PROVE TabsInv'
  <2>1. c.tab \in Tabs
    BY DEF TypeInv, GoodCalls, Good, Call
  <2>2. CASE Serve(c)
    BY <2>2, TabsUnchanged DEF Serve, LoginReads, LoginStores, PasswordReads, PasswordWrites,
                               PasswordRevokes, Logout, Data, DatabaseFails, browser
  <2>3. CASE Hear(c)
    BY <1>1, <2>1, <2>3, TabsUnchanged, HearLoginTabs, SignOutTabs DEF Hear, HearEnd, HearOther
  <2>4. CASE Disconnect(c)
    BY <1>1, <2>1, <2>4, TabsUnchanged, SignOutTabs DEF Disconnect
  <2>5. QED
    BY <1>2, <2>2, <2>3, <2>4
<1>3. ASSUME NEW t \in Tabs, UserActs(t) \/ Effects(t) \/ Leave(t) PROVE TabsInv'
  <2>1. CASE Reload(t) \/ Effects(t)
    BY <1>1, <2>1, ReloadTabs, EffectsTabs
  <2>2. CASE MenuSignOut(t)
    BY <1>1, <2>2, SignOutTabs DEF MenuSignOut
  <2>3. CASE UNCHANGED person
    BY <2>3, TabsUnchanged
  <2>4. QED
    BY <1>3, <2>1, <2>2, <2>3 DEF UserActs, SubmitLogin, SubmitPassword, Request,
                                  SidebarSignOut, Leave, browser
<1>4. CASE \/ \E u \in Users, role \in Roles, active \in BOOLEAN : EditAccount(u, role, active)
           \/ \E u \in Users : Expire(u)
           \/ Restart \/ Tick \/ UNCHANGED vars
  BY <1>4, TabsUnchanged DEF EditAccount, Expire, Restart, Tick, vars, browser
<1>5. QED
  BY <1>2, <1>3, <1>4 DEF Next

\* When no tab has a person still to save, the token in local storage is the
\* one of the person that a reload shows, unless two changes have mixed; for
\* any number of tabs that sign in and out, are reloaded, and save the person
\* later than the token.
THEOREM TokenBelongs == Spec => []TokenIsOfSavedMe
<1>1. Init => TabsInv
  BY DEF Init, TabsInv, Alone, InHand, Loading, TokenIsOfSavedMe
<1>2. TabsInv => TokenIsOfSavedMe
  BY DEF TabsInv, TokenIsOfSavedMe
<1>3. QED
  BY <1>1, <1>2, TabsStep, InitType, NextType, PTL DEF Spec

-----------------------------------------------------------------------------
(***************************************************************************)
(* Passwords and tokens                                                    *)
(***************************************************************************)
Reading(c) == c.kind = "login" /\ c.stage = "read"
Written(c) == c.kind = "password" /\ c.stage = "written"

Changing(u) == \E c \in calls : Written(c) /\ Acting(c) = u

\* No login comes to have read a password, no change of a password comes to
\* its end.
NoneReads == \A d \in calls' : Reading(d) =>
                \E c \in calls : Reading(c) /\ c.user = d.user /\ c.typed = d.typed
StillChanging(u) == Changing(u) => Changing(u)'

\* A step that takes tokens away at most, and changes no password.
LEMMA Harmless ==
  ASSUME PasswordInv, NoneReads,
         madeWith' = madeWith, excused' = excused,
         \A u \in Users : /\ store'[u] \in {store[u], None}
                          /\ account'[u].password = account[u].password
                          /\ StillChanging(u) \/ store'[u] = None
  PROVE  LoginsAreFresh' /\ OldPasswordsAreOut'
<1>1. ASSUME NEW d \in calls', d.kind = "login", d.stage = "read"
      PROVE  d.typed = account'[d.user].password \/ d.user \in excused'
  <2>1. PICK c \in calls : Reading(c) /\ c.user = d.user /\ c.typed = d.typed
    BY <1>1 DEF NoneReads, Reading
  <2>2. c.user \in Users
    BY <2>1 DEF PasswordInv, TypeInv, GoodCalls, Good, Shaped, Reading
  <2>3. QED
    BY <2>1, <2>2 DEF PasswordInv, LoginsAreFresh, Reading
<1>2. ASSUME NEW u \in Users, store'[u] # None, madeWith'[u] # account'[u].password
      PROVE  u \in excused' \/ Changing(u)'
  BY <1>2 DEF PasswordInv, OldPasswordsAreOut, Changing, Written, StillChanging
<1>3. QED
  BY <1>1, <1>2 DEF LoginsAreFresh, OldPasswordsAreOut, Changing, Written

\* A call ends that is not a change about to revoke the token.
LEMMA EndedCalls ==
  ASSUME GoodCalls, NEW c \in calls,
         Refuse(c) \/ Break(c) \/ Succeed(c) \/ calls' = calls \ {c}
  PROVE  NoneReads /\ \A u \in Users : StillChanging(u) \/ (Written(c) /\ Acting(c) = u)
<1>1. c \in Call
  BY DEF GoodCalls, Good
<1>2. PICK stage \in Answers : calls' \subseteq calls \cup {Answered(c, stage)}
  BY DEF Refuse, Break, Succeed, Answer, Answers
<1>3. ~Reading(Answered(c, stage))
  BY <1>1, <1>2, AnsweredCall DEF Reading, Answers
<1>4. NoneReads
  BY <1>2, <1>3 DEF NoneReads
<1>5. calls \ {c} \subseteq calls'
  BY DEF Refuse, Break, Succeed, Answer
<1>6. QED
  BY <1>4, <1>5 DEF StillChanging, Changing

\* Calls that nobody hears any more go on.
LEMMA UnheardCalls ==
  ASSUME GoodCalls, NEW S \in SUBSET calls,
         \A d \in calls' : Reading(d) => d \in calls \cup Unheard(S),
         (calls \ S) \cup Unheard(S) \subseteq calls'
  PROVE  NoneReads /\ \A u \in Users : StillChanging(u)
<1>1. ASSUME NEW c \in calls
      PROVE  LET e == [c EXCEPT !.heard = FALSE]
             IN  /\ Reading(e) <=> Reading(c)
                 /\ Written(e) <=> Written(c)
                 /\ e.user = c.user /\ e.typed = c.typed /\ Acting(e) = Acting(c)
  BY CallKeeps DEF GoodCalls, Good, Reading, Written, Acting
<1>2. NoneReads
  <2> SUFFICES ASSUME NEW d \in calls', Reading(d)
               PROVE  \E c \in calls : Reading(c) /\ c.user = d.user /\ c.typed = d.typed
    BY DEF NoneReads
  <2>1. CASE d \in calls
    BY <2>1
  <2>2. CASE d \in Unheard(S)
    <3>1. PICK c \in S : d = [c EXCEPT !.heard = FALSE]
      BY <2>2 DEF Unheard
    <3>2. QED
      BY <1>1, <3>1
  <2>3. QED
    BY <2>1, <2>2
<1>3. ASSUME NEW c \in S, Written(c) PROVE [c EXCEPT !.heard = FALSE] \in calls'
  BY <1>3 DEF Unheard, Written, Answers
<1>4. ASSUME NEW u \in Users, Changing(u) PROVE Changing(u)'
  <2>1. PICK c \in calls : Written(c) /\ Acting(c) = u
    BY <1>4 DEF Changing
  <2>2. CASE c \in S
    BY <1>1, <1>3, <2>1, <2>2 DEF Changing
  <2>3. CASE c \notin S
    BY <2>1, <2>3 DEF Changing
  <2>4. QED
    BY <2>2, <2>3
<1>5. QED
  BY <1>2, <1>4 DEF StillChanging

\* A call is added.
LEMMA AddedCall ==
  ASSUME NEW c, ~Reading(c), calls' = calls \cup {c}
  PROVE  NoneReads /\ \A u \in Users : StillChanging(u)
  BY DEF NoneReads, StillChanging, Changing

\* One call goes on.
LEMMA AdvancedCalls ==
  ASSUME NEW c \in calls, ~Written(c), NEW next, ~Reading(next), Advance(c, next) \/ Answer(c, next)
  PROVE  NoneReads /\ \A u \in Users : StillChanging(u)
<1>1. calls' \subseteq calls \cup {next} /\ calls \ {c} \subseteq calls'
  BY DEF Advance, Answer
<1>2. NoneReads
  BY <1>1 DEF NoneReads
<1>3. QED
  BY <1>1, <1>2 DEF StillChanging, Changing

\* Steps that leave the passwords and tokens alone, or take tokens away.
LEMMA ServerKeeps ==
  ASSUME PasswordInv, UNCHANGED <<account, store, madeWith, excused>>,
         NoneReads, \A u \in Users : StillChanging(u)
  PROVE  LoginsAreFresh' /\ OldPasswordsAreOut'
  BY Harmless

LEMMA BrowserKeeps ==
  ASSUME PasswordInv,
         \/ \E t \in Tabs : UserActs(t) \/ Effects(t) \/ Leave(t)
         \/ \E c \in calls : Hear(c) \/ Disconnect(c)
         \/ Tick
  PROVE  LoginsAreFresh' /\ OldPasswordsAreOut'
<1>1. \A t, token, kind : ~Reading(Sent(t, kind, token))
  BY DEF Reading, Sent
<1>2. GoodCalls
  BY DEF PasswordInv, TypeInv
<1>3. ASSUME NEW t \in Tabs, Reload(t)
      PROVE  LoginsAreFresh' /\ OldPasswordsAreOut'
  <2> DEFINE mine == {c \in calls : c.tab = t}
  <2>1. calls' = (calls \ mine) \cup Unheard(mine)
    BY <1>3 DEF Reload
  <2>2. \A d \in calls' : Reading(d) => d \in calls \cup Unheard(mine)
    BY <2>1
  <2>3. mine \in SUBSET calls
    OBVIOUS
  <2> HIDE DEF mine
  <2>4. NoneReads /\ \A u \in Users : StillChanging(u)
    BY <1>2, <2>1, <2>2, <2>3, UnheardCalls
  <2>5. QED
    BY <1>3, <2>4, ServerKeeps DEF Reload, server
<1>4. ASSUME NEW t \in Tabs, NEW c, ~Reading(c), Send(c), UNCHANGED server
      PROVE  LoginsAreFresh' /\ OldPasswordsAreOut'
  <2>1. NoneReads /\ \A u \in Users : StillChanging(u)
    BY <1>4, AddedCall DEF Send
  <2>2. QED
    BY <1>4, <2>1, ServerKeeps DEF server
<1>5. ASSUME NEW t \in Tabs, UserActs(t) \/ Effects(t) \/ Leave(t)
      PROVE  LoginsAreFresh' /\ OldPasswordsAreOut'
  <2>1. ASSUME NEW u \in Users, NEW p \in Passwords, SubmitLogin(t, u, p)
        PROVE  LoginsAreFresh' /\ OldPasswordsAreOut'
    <3>1. ~Reading([Sent(t, "login", localToken) EXCEPT !.user = u, !.typed = p])
      BY DEF Reading, Sent
    <3>2. QED
      BY <1>4, <2>1, <3>1 DEF SubmitLogin
  <2>2. ASSUME NEW old \in Passwords, NEW new \in Passwords, SubmitPassword(t, old, new)
        PROVE  LoginsAreFresh' /\ OldPasswordsAreOut'
    <3>1. ~Reading([Sent(t, "password", localToken) EXCEPT !.typed = old, !.new = new])
      BY DEF Reading, Sent
    <3>2. QED
      BY <1>4, <2>2, <3>1 DEF SubmitPassword
  <2>3. CASE Request(t) \/ SidebarSignOut(t)
    BY <1>1, <1>4, <2>3 DEF Request, SidebarSignOut
  <2>4. CASE MenuSignOut(t)
    BY <2>4, ServerKeeps DEF MenuSignOut, server, NoneReads, StillChanging, Changing
  <2>5. CASE Effects(t) \/ Leave(t)
    <3>1. CASE calls' = calls
      BY <2>5, <3>1, ServerKeeps DEF Effects, Leave, server, NoneReads, StillChanging, Changing
    <3>2. CASE \E kind : calls' = calls \cup {Sent(t, kind, localToken)}
      <4>1. NoneReads /\ \A u \in Users : StillChanging(u)
        BY <1>1, <3>2, AddedCall
      <4>2. QED
        BY <2>5, <4>1, ServerKeeps DEF Effects, Leave, server
    <3>3. QED
      BY <2>5, <3>1, <3>2 DEF Effects, Leave
  <2>6. QED
    BY <1>3, <1>5, <2>1, <2>2, <2>3, <2>4, <2>5 DEF UserActs
<1>6. ASSUME NEW c \in calls, Hear(c)
      PROVE  LoginsAreFresh' /\ OldPasswordsAreOut'
  <2>1. ~Written(c) /\ calls' = calls \ {c}
    BY <1>6 DEF Hear, HearLogin, HearEnd, HearOther, Written, Answers
  <2>2. QED
    BY <1>2, <1>6, <2>1, EndedCalls, ServerKeeps DEF Hear, HearLogin, HearEnd, HearOther, server
<1>7. ASSUME NEW c \in calls, Disconnect(c)
      PROVE  LoginsAreFresh' /\ OldPasswordsAreOut'
  <2>1. CASE calls' = (calls \ {c}) \cup Unheard({c})
    <3>1. {c} \in SUBSET calls
      OBVIOUS
    <3>2. NoneReads /\ \A u \in Users : StillChanging(u)
      BY <1>2, <2>1, <3>1, UnheardCalls
    <3>3. QED
      BY <1>7, <3>2, ServerKeeps DEF Disconnect, server
  <2>2. CASE c.stage = "sent" /\ calls' = calls \ {c}
    <3>1. ~Written(c)
      BY <2>2 DEF Written
    <3>2. QED
      BY <1>2, <1>7, <2>2, <3>1, EndedCalls, ServerKeeps DEF Disconnect, server
  <2>3. QED
    BY <1>7, <2>1, <2>2 DEF Disconnect
<1>8. CASE Tick
  BY <1>8, ServerKeeps DEF Tick, server, NoneReads, StillChanging, Changing
<1>9. QED
  BY <1>3, <1>5, <1>6, <1>7, <1>8

\* Steps of the server that store no token and no password.
LEMMA QuietServerKeeps ==
  ASSUME PasswordInv,
         \/ \E c \in calls : PasswordReads(c) \/ PasswordRevokes(c) \/ Logout(c) \/ Data(c)
         \/ \E u \in Users, role \in Roles, active \in BOOLEAN : EditAccount(u, role, active)
         \/ \E u \in Users : Expire(u)
         \/ Restart
  PROVE  LoginsAreFresh' /\ OldPasswordsAreOut'
<1>1. GoodCalls /\ \A c \in calls : c \in Call
  BY DEF PasswordInv, TypeInv, GoodCalls, Good
<1>2. ASSUME NEW c \in calls, PasswordReads(c)
      PROVE  LoginsAreFresh' /\ OldPasswordsAreOut'
  <2>1. ~Written(c) /\ ~Reading([c EXCEPT !.stage = "read"])
    BY <1>1, <1>2, CallKeeps DEF PasswordReads, Written, Reading
  <2>2. NoneReads /\ \A u \in Users : StillChanging(u)
    BY <1>1, <1>2, <2>1, EndedCalls, AdvancedCalls DEF PasswordReads
  <2>3. QED
    BY <1>2, <2>2, ServerKeeps DEF PasswordReads, server
<1>3. ASSUME NEW c \in calls, PasswordRevokes(c)
      PROVE  LoginsAreFresh' /\ OldPasswordsAreOut'
  <2>1. NoneReads /\ \A u \in Users : StillChanging(u) \/ Acting(c) = u
    BY <1>1, <1>3, EndedCalls DEF PasswordRevokes
  <2>2. \A u \in Users : store'[u] \in {store[u], None} /\ (Acting(c) = u => store'[u] = None)
    BY <1>3 DEF PasswordRevokes, PasswordInv, TypeInv, Tables
  <2>3. QED
    BY <1>3, <2>1, <2>2, Harmless DEF PasswordRevokes
<1>4. ASSUME NEW c \in calls, Logout(c) \/ Data(c)
      PROVE  LoginsAreFresh' /\ OldPasswordsAreOut'
  <2>1. NoneReads /\ \A u \in Users : StillChanging(u)
    BY <1>1, <1>4, EndedCalls DEF Logout, Data, Written
  <2>2. \A u \in Users : store'[u] \in {store[u], None}
    BY <1>4 DEF Logout, Data, server, PasswordInv, TypeInv, Tables
  <2>3. QED
    BY <1>4, <2>1, <2>2, Harmless DEF Logout, Data, server
<1>5. ASSUME NEW u \in Users, NEW role \in Roles, NEW active \in BOOLEAN,
             EditAccount(u, role, active)
      PROVE  LoginsAreFresh' /\ OldPasswordsAreOut'
  <2>1. \A v \in Users : account'[v].password = account[v].password
    BY <1>5 DEF EditAccount, PasswordInv, TypeInv, Tables, Accounts
  <2>2. NoneReads /\ \A v \in Users : StillChanging(v)
    BY <1>5 DEF EditAccount, NoneReads, StillChanging, Changing
  <2>3. QED
    BY <1>5, <2>1, <2>2, Harmless DEF EditAccount
<1>6. ASSUME NEW u \in Users, Expire(u)
      PROVE  LoginsAreFresh' /\ OldPasswordsAreOut'
  <2>1. \A v \in Users : store'[v] \in {store[v], None}
    BY <1>6 DEF Expire, PasswordInv, TypeInv, Tables
  <2>2. NoneReads /\ \A v \in Users : StillChanging(v)
    BY <1>6 DEF Expire, NoneReads, StillChanging, Changing
  <2>3. QED
    BY <1>6, <2>1, <2>2, Harmless DEF Expire
<1>7. CASE Restart
  <2>1. \A c \in calls : ~Reading(Answered(c, "error"))
    BY <1>1, AnsweredCall DEF Reading, Answers
  <2>2. NoneReads
    BY <1>7, <2>1 DEF Restart, NoneReads
  <2>3. \A u \in Users : store'[u] = None
    BY <1>7 DEF Restart
  <2>4. QED
    BY <1>7, <2>2, <2>3, Harmless DEF Restart
<1>8. QED
  BY <1>2, <1>3, <1>4, <1>5, <1>6, <1>7

\* A login reads the password, and stores a token made with what it has read.
LEMMA LoginKeeps ==
  ASSUME PasswordInv, NEW c \in calls, LoginReads(c) \/ LoginStores(c)
  PROVE  LoginsAreFresh' /\ OldPasswordsAreOut'
<1>1. GoodCalls /\ Good(c) /\ c \in Call /\ ~Written(c) /\ c.user \in Users
  BY DEF PasswordInv, TypeInv, GoodCalls, Good, Shaped, Written, LoginReads, LoginStores, Answers
<1>2. CASE LoginReads(c) /\ Refuse(c)
  <2>1. NoneReads /\ \A u \in Users : StillChanging(u)
    BY <1>1, <1>2, EndedCalls
  <2>2. QED
    BY <1>2, <2>1, ServerKeeps DEF LoginReads, server
<1>3. CASE LoginReads(c) /\ ~Refuse(c)
  <2> DEFINE next == [c EXCEPT !.stage = "read", !.role = account[c.user].role]
  <2>1. next.user = c.user /\ next.typed = c.typed /\ next.kind = "login"
    BY <1>1, <1>3 DEF Call, LoginReads
  <2>2. c.typed = account[c.user].password /\ calls' = (calls \ {c}) \cup {next}
    BY <1>3 DEF LoginReads, Advance
  <2>3. LoginsAreFresh'
    BY <1>3, <2>1, <2>2 DEF LoginReads, server, PasswordInv, LoginsAreFresh
  <2>4. \A u \in Users : Changing(u) => Changing(u)'
    BY <1>1, <2>2 DEF Changing
  <2>5. OldPasswordsAreOut'
    BY <1>3, <2>4 DEF LoginReads, server, PasswordInv, OldPasswordsAreOut, Changing, Written
  <2>6. QED
    BY <2>3, <2>5
<1>4. CASE LoginStores(c)
  <2> DEFINE token == [user |-> c.user, role |-> c.role, second |-> second]
             next == [Answered(c, "ok") EXCEPT !.token = token]
  <2>1. ~Reading(next)
    BY DEF Answered, Sent, Reading
  <2>2. Answer(c, next)
    BY <1>4 DEF LoginStores
  <2> HIDE DEF next
  <2>3. NoneReads /\ \A u \in Users : StillChanging(u)
    BY <1>1, <2>1, <2>2, AdvancedCalls
  <2>4. c.typed = account[c.user].password \/ c.user \in excused
    BY <1>4 DEF LoginStores, PasswordInv, LoginsAreFresh
  <2>5. /\ \A u \in Users \ {c.user} : store'[u] = store[u] /\ madeWith'[u] = madeWith[u]
        /\ madeWith'[c.user] = c.typed
        /\ account' = account /\ excused' = excused
    BY <1>1, <1>4 DEF LoginStores, PasswordInv, TypeInv, Tables
  <2>6. LoginsAreFresh'
    BY <2>3, <2>5 DEF PasswordInv, LoginsAreFresh, NoneReads, Reading
  <2>7. OldPasswordsAreOut'
    BY <2>3, <2>4, <2>5 DEF PasswordInv, OldPasswordsAreOut, StillChanging, Changing, Written
  <2>8. QED
    BY <2>6, <2>7
<1>5. QED
  BY <1>2, <1>3, <1>4

\* A new password is stored: every login that has read the old one excuses its
\* user, who otherwise has a token that is about to be revoked.
LEMMA SavedPasswordKeeps ==
  ASSUME PasswordInv, NEW c \in calls, c.kind = "password", c.stage = "read",
         SavePassword(c), UNCHANGED <<store, madeWith>>,
         NoneReads, \A u \in Users : StillChanging(u),
         \A u \in Users \ {Acting(c)} : u \in excused => u \in excused',
         \/ Acting(c) \in excused'
         \/ ~LoginReading(Acting(c)) /\ Changing(Acting(c))'
  PROVE  LoginsAreFresh' /\ OldPasswordsAreOut'
<1>1. \A u \in Users \ {Acting(c)} : account'[u] = account[u]
  BY DEF SavePassword, PasswordInv, TypeInv, Tables
<1>2. ASSUME NEW d \in calls', d.kind = "login", d.stage = "read"
      PROVE  d.typed = account'[d.user].password \/ d.user \in excused'
  <2>1. PICK e \in calls : Reading(e) /\ e.user = d.user /\ e.typed = d.typed
    BY <1>2 DEF NoneReads, Reading
  <2>2. e.user \in Users
    BY <2>1 DEF PasswordInv, TypeInv, GoodCalls, Good, Shaped, Reading
  <2>3. CASE e.user = Acting(c)
    BY <2>1, <2>3 DEF LoginReading, Reading
  <2>4. CASE e.user # Acting(c)
    BY <1>1, <2>1, <2>2, <2>4 DEF PasswordInv, LoginsAreFresh, Reading
  <2>5. QED
    BY <2>3, <2>4
<1>3. ASSUME NEW u \in Users, store'[u] # None, madeWith'[u] # account'[u].password
      PROVE  u \in excused' \/ Changing(u)'
  <2>1. CASE u = Acting(c)
    BY <2>1
  <2>2. CASE u # Acting(c)
    <3>1. u \in excused \/ Changing(u)
      BY <1>1, <1>3, <2>2 DEF PasswordInv, OldPasswordsAreOut, Changing, Written
    <3>2. QED
      BY <2>2, <3>1 DEF StillChanging
  <2>3. QED
    BY <2>1, <2>2
<1>4. QED
  BY <1>2, <1>3 DEF LoginsAreFresh, OldPasswordsAreOut, Changing, Written

LEMMA PasswordKeeps ==
  ASSUME PasswordInv, NEW c \in calls, PasswordWrites(c) \/ DatabaseFails(c)
  PROVE  LoginsAreFresh' /\ OldPasswordsAreOut'
<1>1. GoodCalls /\ Good(c) /\ c \in Call /\ ~Written(c)
  BY DEF PasswordInv, TypeInv, GoodCalls, Good, Written, PasswordWrites, DatabaseFails, Fails
<1>2. CASE PasswordWrites(c)
  <2> DEFINE next == [c EXCEPT !.stage = "written"]
  <2>1. ~Reading(next) /\ Written(next) /\ Acting(next) = Acting(c) /\ Advance(c, next)
    BY <1>1, <1>2, CallKeeps DEF Reading, Written, Acting, PasswordWrites
  <2> HIDE DEF next
  <2>2. NoneReads /\ \A u \in Users : StillChanging(u)
    BY <1>1, <2>1, AdvancedCalls
  <2>3. Changing(Acting(c))'
    BY <2>1 DEF Changing, Advance, Acting
  <2>4. /\ c.kind = "password" /\ c.stage = "read"
        /\ SavePassword(c) /\ UNCHANGED <<store, madeWith>>
        /\ \A u \in Users \ {Acting(c)} : u \in excused => u \in excused'
        /\ Acting(c) \in excused' \/ ~LoginReading(Acting(c))
    BY <1>2 DEF PasswordWrites
  <2>5. QED
    BY <2>2, <2>3, <2>4, SavedPasswordKeeps
<1>3. CASE DatabaseFails(c)
  <2>1. NoneReads /\ \A u \in Users : StillChanging(u)
    BY <1>1, <1>3, EndedCalls DEF DatabaseFails, Fails
  <2>2. CASE UNCHANGED <<account, excused>>
    BY <1>3, <2>1, <2>2, ServerKeeps DEF DatabaseFails
  <2>3. CASE ~UNCHANGED <<account, excused>>
    <3>1. /\ c.kind = "password" /\ c.stage = "read" /\ SavePassword(c)
          /\ excused' = excused \cup {Acting(c)} /\ UNCHANGED <<store, madeWith>>
      BY <1>3, <2>3 DEF DatabaseFails, Fails
    <3>2. QED
      BY <2>1, <3>1, SavedPasswordKeeps
  <2>4. QED
    BY <2>2, <2>3
<1>4. QED
  BY <1>2, <1>3

LEMMA PasswordStep == PasswordInv /\ [Next]_vars => PasswordInv'
<1>1. SUFFICES ASSUME PasswordInv, [Next]_vars PROVE PasswordInv'
  OBVIOUS
<1>2. TypeInv'
  BY <1>1, NextType DEF PasswordInv
<1>3. CASE UNCHANGED vars
  <2>1. NoneReads /\ \A u \in Users : StillChanging(u)
    BY <1>3 DEF vars, NoneReads, StillChanging, Changing
  <2>2. QED
    BY <1>1, <1>2, <1>3, <2>1, ServerKeeps DEF vars, server, PasswordInv
<1>4. CASE Next
  <2>1. ASSUME NEW c \in calls, Serve(c) PROVE LoginsAreFresh' /\ OldPasswordsAreOut'
    BY <1>1, <2>1, LoginKeeps, PasswordKeeps, QuietServerKeeps DEF Serve
  <2>2. QED
    BY <1>1, <1>2, <1>4, <2>1, BrowserKeeps, QuietServerKeeps DEF Next, PasswordInv
<1>5. QED
  BY <1>1, <1>3, <1>4

\* No token that is accepted outlives the password it was made with, but for
\* the cases OldPasswordsAreOut names; for any number of tabs and calls of one
\* user that log in, change the password and fail at the same time.
THEOREM TokensFollowPasswords == Spec => []OldPasswordsAreOut
<1>1. Init => PasswordInv
  <2>1. Init => LoginsAreFresh /\ OldPasswordsAreOut
    BY DEF Init, LoginsAreFresh, OldPasswordsAreOut
  <2>2. QED
    BY <2>1, InitType DEF PasswordInv
<1>2. PasswordInv => OldPasswordsAreOut
  BY DEF PasswordInv
<1>3. QED
  BY <1>1, <1>2, PasswordStep, PTL DEF Spec
=============================================================================
