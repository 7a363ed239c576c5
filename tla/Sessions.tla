---------------------------- MODULE Sessions ----------------------------
(***************************************************************************)
(* One person's session: the Auth service's refresh tokens (auth,          *)
(* sessions.py, routers/auth.py, routers/federation.py) and the tabs of    *)
(* the browser that holds the cookie (frontend, lib/auth/session.ts).      *)
(*                                                                         *)
(* An exchange is one request that ends in a new pair of tokens: a         *)
(* renewal, a switch of workspace, or the code of a sign-in.  Its handler  *)
(* reads the row, reads the membership and commits, with other requests    *)
(* between; its answer carries the new cookie.                             *)
(***************************************************************************)
EXTENDS Naturals, Sequences, FiniteSets

CONSTANTS
  Tabs,        \* tabs of one browser
  Slots,       \* requests a tab may have in flight
  Home,        \* the workspace the person owns
  Others,      \* workspaces the person was added to
  MaxRows,     \* bound on refresh tokens issued
  MaxEvents    \* bound on renames, lost answers and failed reads

Settings ==
  /\ Home \notin Others
  /\ MaxRows \in Nat \ {0} /\ MaxEvents \in Nat

ASSUME SessionsAssumption == Settings

VARIABLES
  rows,       \* the refresh tokens committed, in order: see Row
  members,    \* the workspaces the person is a member of
  name,       \* the version of the person's profile
  cookie,     \* the browser's refresh token, 0 for none
  tab,        \* each tab's store
  ex,         \* the exchanges in flight
  logout,     \* each tab's sign-out in flight
  sessionFaults,  \* faults so far
  lost,       \* an answer was lost
  overlapped, \* two tabs had the same cookie in flight
  raced       \* workspaces left between an exchange's membership read and its commit

sessionsVars ==
  <<rows, members, name, cookie, tab, ex, logout, sessionFaults, lost, overlapped, raced>>

server == <<rows, members, name, raced>>

Workspaces == Others \cup {Home}

Row(root, ws) == [root |-> root, ws |-> ws, next |-> 0, revoked |-> FALSE]

Live(n) == ~rows[n].revoked

Exchanges == Tabs \X Slots

NoExchange == [pc |-> "idle", kind |-> "none", to |-> Home, cookie |-> 0, row |-> 0,
               before |-> 0, seen |-> 0]

NoLogout == [pc |-> "none", cookie |-> 0]

SessionsInit ==
  /\ rows = <<Row(1, Home)>>
  /\ members = Workspaces
  /\ name = 0
  /\ cookie = 1
  /\ tab = [t \in Tabs |-> [status |-> "loading", ws |-> Home, name |-> 0, updates |-> 0,
                            renamed |-> 0, own |-> 0, timer |-> FALSE, ended |-> FALSE]]
  /\ ex = [x \in Exchanges |-> NoExchange]
  /\ logout = [t \in Tabs |-> NoLogout]
  /\ sessionFaults = 0
  /\ lost = FALSE
  /\ overlapped = FALSE
  /\ raced = {}

-----------------------------------------------------------------------------
(* The browser sends. *)

InFlight(t) == {x \in Exchanges : x[1] = t /\ ex[x].pc # "idle"}

(* Whatever holds the cookie: a sign-in's code does not. *)
Spending(t) == \E x \in InFlight(t) : ex[x].kind # "code"

Begin(t, kind, to) ==
  \E x \in Exchanges :
    /\ x[1] = t /\ ex[x].pc = "idle"
    /\ ex' = [ex EXCEPT ![x] = [NoExchange EXCEPT !.pc = "sent", !.kind = kind, !.to = to,
                                                  !.cookie = cookie]]
    /\ overlapped' = (overlapped \/
         \E y \in Exchanges : /\ y[1] # t /\ ex[y].pc # "idle"
                              /\ ex[y].cookie = cookie /\ kind # "code")
    /\ UNCHANGED <<server, cookie, tab, logout, sessionFaults, lost>>

(* renew: by the timer, or by restore as the page loads. *)
Renew(t) ==
  /\ tab[t].status = "loading" \/ tab[t].timer
  /\ ~Spending(t)
  /\ Begin(t, "refresh", Home)

(* changeWorkspace, once its turn has come. *)
ChangeWorkspace(t) ==
  /\ tab[t].status = "in" /\ ~Spending(t)
  /\ \E w \in Workspaces \ {tab[t].ws} : Begin(t, "switch", w)

(* The page of the callback loads with a code, and restores as any does. *)
CompleteSignIn(t) ==
  /\ tab[t].status = "out" /\ InFlight(t) = {} /\ logout[t].pc = "none"
  /\ \E x \in Exchanges :
       /\ x[1] = t
       /\ ex' = [ex EXCEPT ![x] = [NoExchange EXCEPT !.pc = "sent", !.kind = "code"]]
  /\ tab' = [tab EXCEPT ![t].status = "loading", ![t].ended = FALSE]
  /\ UNCHANGED <<server, cookie, logout, sessionFaults, lost, overlapped>>

-----------------------------------------------------------------------------
(* Auth answers.  Each step is a transaction of its own but the last two   *)
(* reads and the commit, which see what has committed by then.             *)

(* A row and what it was rotated to, and so on. *)
Chain(n) ==
  LET from[i \in 0 .. Len(rows)] == IF i = 0 THEN {} ELSE {i} \cup from[rows[i].next]
  IN  from[n]

Refused(x) == ex' = [ex EXCEPT ![x].pc = "refused"]

(* spend: a token spent before takes its whole chain with it, and that is  *)
(* committed before the refusal.                                           *)
Spend(x) ==
  LET n == ex[x].cookie
  IN  /\ ex[x].pc = "sent"
      /\ CASE ex[x].kind = "code" ->
                ex' = [ex EXCEPT ![x].pc = "held"] /\ UNCHANGED rows
           [] ex[x].kind # "code" /\ n = 0 -> Refused(x) /\ UNCHANGED rows
           [] ex[x].kind # "code" /\ n # 0 /\ rows[n].next # 0 ->
                /\ Refused(x)
                /\ rows' = [i \in DOMAIN rows |->
                              [rows[i] EXCEPT !.revoked = @ \/ i \in Chain(n)]]
           [] ex[x].kind # "code" /\ n # 0 /\ rows[n].next = 0 /\ ~Live(n) ->
                Refused(x) /\ UNCHANGED rows
           [] OTHER -> ex' = [ex EXCEPT ![x].pc = "held"] /\ UNCHANGED rows
      /\ UNCHANGED <<members, name, raced, cookie, tab, logout, sessionFaults, lost, overlapped>>

(* default_membership: the workspace the person owns, or one of the others.*)
DefaultMembership == IF Home \in members THEN Home ELSE CHOOSE w \in members : TRUE

(* The workspace of the new pair: the one asked for if the person is a     *)
(* member; a renewal falls back on the default one, a switch is refused.   *)
Grant(x) ==
  LET want == CASE ex[x].kind = "switch" -> ex[x].to
                [] ex[x].kind = "refresh" -> rows[ex[x].cookie].ws
                [] OTHER -> Home
  IN  /\ ex[x].pc = "held"
      /\ IF want \in members THEN ex' = [ex EXCEPT ![x].pc = "granted", ![x].to = want]
         ELSE IF ex[x].kind = "refresh"
                THEN ex' = [ex EXCEPT ![x].pc = "granted", ![x].to = DefaultMembership]
         ELSE Refused(x)
      /\ UNCHANGED <<server, cookie, tab, logout, sessionFaults, lost, overlapped>>

(* Mutant: the token that bought the pair stays good. *)
RotateKeepsOld(x) ==
  LET n   == ex[x].cookie
      new == Len(rows) + 1
      root == IF ex[x].kind = "code" THEN new ELSE rows[n].root
  IN  /\ ex[x].pc = "granted" /\ Len(rows) < MaxRows
      /\ rows' = Append(rows, Row(root, ex[x].to))
      /\ ex' = [ex EXCEPT ![x].pc = "issued", ![x].row = new]
      /\ UNCHANGED <<members, name, raced, cookie, tab, logout, sessionFaults, lost, overlapped>>

(* issue: one more token, of a family and for a workspace. *)
Issue(before, root, ws) == rows' = Append(before, Row(root, ws))

(* rotate: the next pair of the family, and the token that bought it is    *)
(* retired, by its id alone.  A sign-in's issue begins a family.           *)
Rotate(x) ==
  LET n   == ex[x].cookie
      new == Len(rows) + 1
  IN  /\ ex[x].pc = "granted" /\ Len(rows) < MaxRows
      /\ IF ex[x].kind = "code" THEN Issue(rows, new, ex[x].to)
         ELSE Issue([rows EXCEPT ![n].next = new, ![n].revoked = TRUE], rows[n].root, ex[x].to)
      /\ ex' = [ex EXCEPT ![x].pc = "issued", ![x].row = new]
      /\ UNCHANGED <<members, name, raced, cookie, tab, logout, sessionFaults, lost, overlapped>>

(* revoke_workspace_sessions. *)
RevokeSessions(w) ==
  rows' = [i \in DOMAIN rows |-> [rows[i] EXCEPT !.revoked = @ \/ rows[i].ws = w]]

(* remove_member, which spares the last owner, and what it revokes, in one *)
(* transaction.                                                            *)
RemoveMember(w) ==
  /\ w \in members \ {Home}
  /\ members' = members \ {w}
  /\ RevokeSessions(w)
  /\ raced' = IF \E x \in Exchanges : ex[x].pc = "granted" /\ ex[x].to = w
              THEN raced \cup {w} ELSE raced
  /\ UNCHANGED <<name, cookie, tab, ex, logout, sessionFaults, lost, overlapped>>

-----------------------------------------------------------------------------
(* The answers reach the browser. *)

(* Mutant: the answer does not carry the cookie. *)
AnsweredNoCookie(x) ==
  /\ ex[x].pc = "issued"
  /\ ex' = [ex EXCEPT ![x].pc = "adopting", ![x].before = tab[x[1]].updates]
  /\ UNCHANGED <<server, cookie, tab, logout, sessionFaults, lost, overlapped>>

(* The browser has one cookie of the name and path, set or deleted by the  *)
(* answer that comes last.                                                 *)
SetCookie(n) == cookie' = n

ClearCookie == cookie' = 0

Answered(x) ==
  /\ ex[x].pc = "issued"
  /\ SetCookie(ex[x].row)
  /\ ex' = [ex EXCEPT ![x].pc = "adopting", ![x].before = tab[x[1]].updates]
  /\ UNCHANGED <<server, tab, logout, sessionFaults, lost, overlapped>>

(* What /users/me answers. *)
Me == name

(* adopt reads the profile and the workspaces. *)
ReadProfile(x) ==
  /\ ex[x].pc = "adopting"
  /\ ex' = [ex EXCEPT ![x].pc = "read", ![x].seen = Me]
  /\ UNCHANGED <<server, cookie, tab, logout, sessionFaults, lost, overlapped>>

Adopted(x, shown) ==
  /\ ex[x].pc = "read"
  /\ tab' = [tab EXCEPT ![x[1]].status = "in", ![x[1]].ws = ex[x].to, ![x[1]].timer = TRUE,
                        ![x[1]].name = shown]
  /\ ex' = [ex EXCEPT ![x] = NoExchange]
  /\ UNCHANGED <<server, cookie, logout, sessionFaults, lost, overlapped>>

(* Mutant: the profile read is adopted whatever landed meanwhile. *)
AdoptRead(x) == Adopted(x, ex[x].seen)

(* A rename that landed meanwhile outlives the read. *)
Adopt(x) ==
  LET t == x[1]
  IN  Adopted(x, IF tab[t].updates # ex[x].before /\ tab[t].status = "in" THEN tab[t].name
                 ELSE ex[x].seen)

(* Mutant: the timer is left running. *)
SignedOutTimed(t, ended) ==
  tab' = [tab EXCEPT ![t].status = "out", ![t].own = 0, ![t].ended = ended]

SignedOut(t, ended) ==
  tab' = [tab EXCEPT ![t].status = "out", ![t].own = 0, ![t].timer = FALSE, ![t].ended = ended]

(* A refusal, or any failure, of an exchange signs the tab out. *)
FailExchange(x) ==
  /\ ex[x].pc = "refused"
  /\ SignedOut(x[1], tab[x[1]].ended)
  /\ ex' = [ex EXCEPT ![x] = NoExchange]
  /\ UNCHANGED <<server, cookie, logout, sessionFaults, lost, overlapped>>

(* The request or its answer is lost, or a read of adopt fails. *)
Lose(x) ==
  /\ ex[x].pc \in {"sent", "issued", "adopting"} /\ name + sessionFaults < MaxEvents
  /\ sessionFaults' = sessionFaults + 1
  /\ lost' = (lost \/ ex[x].pc = "issued")
  /\ Refused(x)
  /\ UNCHANGED <<server, cookie, tab, logout, overlapped>>

-----------------------------------------------------------------------------
(* signOut waits for nothing but its own logout. *)
SignOut(t) ==
  /\ tab[t].status = "in" /\ logout[t].pc = "none"
  /\ logout' = [logout EXCEPT ![t] = [pc |-> "sent", cookie |-> cookie]]
  /\ UNCHANGED <<server, cookie, tab, ex, sessionFaults, lost, overlapped>>

(* revoke_refresh_token, whether or not the denylist could be written. *)
Logout(t) ==
  LET n == logout[t].cookie
  IN  /\ logout[t].pc = "sent"
      /\ rows' = IF n = 0 THEN rows ELSE [rows EXCEPT ![n].revoked = TRUE]
      /\ logout' = [logout EXCEPT ![t].pc = "done"]
      /\ UNCHANGED <<members, name, raced, cookie, tab, ex, sessionFaults, lost, overlapped>>

LogoutAnswered(t) ==
  /\ logout[t].pc = "done"
  /\ ClearCookie
  /\ logout' = [logout EXCEPT ![t] = NoLogout]
  /\ SignedOut(t, InFlight(t) = {})
  /\ UNCHANGED <<server, ex, sessionFaults, lost, overlapped>>

(* The local session ends either way. *)
LogoutLost(t) ==
  /\ logout[t].pc \in {"sent", "done"} /\ name + sessionFaults < MaxEvents
  /\ sessionFaults' = sessionFaults + 1
  /\ lost' = (lost \/ logout[t].pc = "done")
  /\ logout' = [logout EXCEPT ![t] = NoLogout]
  /\ SignedOut(t, InFlight(t) = {})
  /\ UNCHANGED <<server, cookie, ex, overlapped>>

(* PATCH /users/me from the settings page, one at a time, and its answer.  *)
(* One that is refused, its name being taken, changes nothing: no step.    *)
Rename(t) ==
  /\ tab[t].status = "in" /\ tab[t].renamed = 0 /\ name + sessionFaults < MaxEvents
  /\ name' = name + 1
  /\ tab' = [tab EXCEPT ![t].renamed = name + 1]
  /\ UNCHANGED <<rows, members, raced, cookie, ex, logout, sessionFaults, lost, overlapped>>

UpdateProfile(t) ==
  /\ tab[t].renamed # 0
  /\ IF tab[t].status = "in"
       THEN tab' = [tab EXCEPT ![t].renamed = 0, ![t].name = tab[t].renamed, ![t].updates = @ + 1,
                               ![t].own = tab[t].renamed]
       ELSE tab' = [tab EXCEPT ![t].renamed = 0]
  /\ UNCHANGED <<server, cookie, ex, logout, sessionFaults, lost, overlapped>>

-----------------------------------------------------------------------------
Browser(t) ==
  \/ Renew(t) \/ ChangeWorkspace(t) \/ CompleteSignIn(t) \/ SignOut(t) \/ Rename(t)

Serve(x) ==
  \/ Spend(x) \/ Grant(x) \/ Rotate(x) \/ Answered(x) \/ ReadProfile(x) \/ Adopt(x) \/ FailExchange(x)

Leave(t) == Logout(t) \/ LogoutAnswered(t)

SessionsNext ==
  \/ \E t \in Tabs : Browser(t) \/ Leave(t) \/ LogoutLost(t) \/ UpdateProfile(t)
  \/ \E x \in Exchanges : Serve(x) \/ Lose(x)
  \/ \E w \in Others : RemoveMember(w)

SessionsSpec == SessionsInit /\ [][SessionsNext]_sessionsVars

-----------------------------------------------------------------------------
SessionsTypeOK ==
  /\ rows \in Seq([root : 1 .. MaxRows, ws : Workspaces, next : 0 .. MaxRows, revoked : BOOLEAN])
  /\ Len(rows) <= MaxRows
  /\ members \subseteq Workspaces /\ raced \subseteq Workspaces
  /\ name \in 0 .. MaxEvents /\ cookie \in 0 .. Len(rows)
  /\ tab \in [Tabs -> [status : {"loading", "in", "out"}, ws : Workspaces, name : 0 .. MaxEvents,
                       updates : 0 .. MaxEvents, renamed : 0 .. MaxEvents, own : 0 .. MaxEvents,
                       timer : BOOLEAN, ended : BOOLEAN]]
  /\ ex \in [Exchanges ->
       [pc : {"idle", "sent", "held", "granted", "issued", "adopting", "read", "refused"},
        kind : {"none", "refresh", "switch", "code"}, to : Workspaces, cookie : 0 .. MaxRows,
        row : 0 .. MaxRows, before : 0 .. MaxEvents, seen : 0 .. MaxEvents]]
  /\ logout \in [Tabs -> [pc : {"none", "sent", "done"}, cookie : 0 .. MaxRows]]
  /\ sessionFaults \in 0 .. MaxEvents /\ lost \in BOOLEAN /\ overlapped \in BOOLEAN

(* sessions.py 1-15, workspaces.py 196-205: a sign-in has one live refresh *)
(* token at a time, each linked to the one it replaced, unless two tabs    *)
(* spent one at once; and leaving a workspace ends every session in it, so *)
(* none goes on minting tokens for it, unless an exchange for that         *)
(* workspace had read the membership and not committed just then.          *)
OneLiveToken ==
  /\ SessionsTypeOK
  /\ overlapped \/ \A m, n \in DOMAIN rows : Live(m) /\ Live(n) /\ rows[m].root = rows[n].root => m = n
  /\ \A n \in DOMAIN rows : Live(n) => rows[n].ws \in members \cup raced

(* The browser is never left with a cookie that cannot renew: when nothing *)
(* is in flight the one it holds is good, unless an answer was lost, two   *)
(* tabs used one at once, or the person left the workspace.                *)
SessionKept ==
  (\A x \in Exchanges : ex[x].pc = "idle") /\ (\A t \in Tabs : logout[t].pc = "none")
    => cookie = 0 \/ Live(cookie) \/ lost \/ overlapped \/ members # Workspaces

(* session.ts 74-106, 259-268: an answer that comes late does not win over *)
(* what the person did meanwhile.  A tab whose person signed out stays     *)
(* signed out, with or without the server, until the next sign-in, unless  *)
(* an exchange was in flight as the sign-out settled; and a renewal or     *)
(* switch answered before a rename never puts the old name back in the tab *)
(* that made it.                                                           *)
LateAnswersLose ==
  \A t \in Tabs : /\ tab[t].ended => tab[t].status = "out"
                  /\ tab[t].status = "in" => tab[t].name >= tab[t].own
=============================================================================
