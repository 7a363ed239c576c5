------------------------- MODULE AccountsProofs -------------------------
(* Theorems of Accounts, for every value of its constants, and of Sessions, *)
(* what a sign-in begins.                                                  *)
EXTENDS Accounts, Sessions, SequenceTheorems, TLAPS

-----------------------------------------------------------------------------
(* The inductive invariant. *)

Pcs == {"idle"} \cup Running \cup Ended

Calls ==
  [pc : Pcs, login : Logins \cup {NoCall.login}, user : Callbacks \cup {Free},
   by : {"none", "identity", "email"}, name : Nat \ {0}, made : BOOLEAN,
   freed : BOOLEAN]

Codes == [call : Callbacks, user : Callbacks \cup {Free}]

LoginRecords == [subject : Subjects, pending : BOOLEAN, codes : SUBSET Codes, sessions : Nat]

Types ==
  /\ TypeOK
  /\ login \in [Logins -> LoginRecords]
  /\ call \in [Callbacks -> Calls]

Begun(c) == call[c].pc \notin {"idle", "invalid_state"}

(* One callback of a login goes on, and only by having claimed it. *)
ClaimInv ==
  \A c \in Callbacks :
    /\ call[c].pc # "idle" => call[c].login \in Logins
    /\ Begun(c) =>
         /\ ~login[call[c].login].pending
         /\ \A d \in Callbacks : Begun(d) /\ call[d].login = call[c].login => d = c

(* Whose account a callback goes on with: one that is there, of its email, *)
(* or the one it makes.                                                    *)
AccountInv ==
  \A c \in Callbacks :
    /\ call[c].pc \in {"idle"} \cup (Running \ {"code", "commit"}) =>
         call[c].by = "none" /\ ~call[c].made
    /\ call[c].pc \in {"look", "insert", "again", "demo", "code", "commit"} /\ call[c].by = "none" =>
         call[c].user = c
    /\ call[c].pc \in {"code", "commit"} /\ call[c].by # "none" =>
         \E u \in users : u.id = call[c].user /\ u.email = Mail(c)
    /\ call[c].pc = "handed" => \E u \in users : u.id = call[c].user

(* What an insert failed on is still there, or has been let go. *)
Stuck(c) == call[c].freed \/ Taken(c, call[c].name) \/ Known(c) # {}

AgainInv == \A c \in Callbacks : call[c].pc = "again" => Stuck(c)

(* What is committed: an account of a callback that is over, a link to an  *)
(* account of that identity's email.                                       *)
CommittedInv ==
  /\ \A u \in users : u.id \in Callbacks /\ call[u.id].pc = "handed"
  /\ \A k \in links : \E u \in users : u.id = k.user /\ u.email = Email[k.subject]

(* Who is to make the demo workspace holds the lock until it has. *)
DemoInv ==
  \A c \in Callbacks : call[c].pc \in {"code", "commit"} /\ call[c].made => lock = c /\ demo = {}

(* A code is of the one callback of its login, and gone once exchanged. *)
CodeInv ==
  \A l \in Logins :
    /\ \A k \in login[l].codes :
         /\ call[k.call].login = l /\ call[k.call].pc \in {"commit", "handed", "failed"}
         /\ k.user = call[k.call].user
    /\ login[l].sessions <= 1
    /\ login[l].sessions = 1 =>
         login[l].codes = {} /\ \E c \in Callbacks : call[c].pc = "handed" /\ call[c].login = l

AccountsInv ==
  /\ Types /\ ClaimInv /\ AccountInv /\ AgainInv /\ CommittedInv /\ DemoInv /\ CodeInv
  /\ ConflictIsTheEmails

-----------------------------------------------------------------------------
USE DEF Running

LEMMA InitHolds == ASSUME Init PROVE AccountsInv
<1>1. /\ users = {} /\ links = {} /\ demo = {} /\ lock = Free /\ renames = 0 /\ faults = 0
      /\ login \in [Logins -> [subject : Subjects, pending : {TRUE}, codes : {{}}, sessions : {0}]]
      /\ call = [c \in Callbacks |-> NoCall]
  BY DEF Init
<1>2. NoCall \in Calls /\ NoCall.pc = "idle" /\ NoCall.by = "none" /\ ~NoCall.made /\ ~NoCall.freed /\ NoCall.name \in Nat \ {0}
  BY DEF NoCall, Calls, Pcs
<1>3. ASSUME NEW l \in Logins
      PROVE  login[l] \in LoginRecords /\ login[l].codes = {} /\ login[l].sessions = 0
             /\ login[l].subject \in Subjects
  <2>1. login[l] \in [subject : Subjects, pending : {TRUE}, codes : {{}}, sessions : {0}]
    BY <1>1
  <2>2. PICK s \in Subjects : login[l] = [subject |-> s, pending |-> TRUE, codes |-> {}, sessions |-> 0]
    BY <2>1
  <2>3. {} \in SUBSET Codes /\ TRUE \in BOOLEAN /\ 0 \in Nat
    OBVIOUS
  <2>4. login[l] \in LoginRecords
    BY <2>2, <2>3 DEF LoginRecords
  <2>5. QED
    BY <2>2, <2>4
<1>4. login \in [Logins -> LoginRecords]
  BY <1>1, <1>3
<1>5. TypeOK
  BY <1>1, <1>2, <1>3, AccountsAssumption DEF TypeOK, Free
<1>6. Types
  BY <1>1, <1>2, <1>4, <1>5 DEF Types
<1>7. \A c \in Callbacks : call[c].pc = "idle"
  BY <1>1, <1>2
<1>8. ClaimInv /\ AccountInv /\ AgainInv /\ DemoInv /\ CommittedInv
  BY <1>1, <1>2, <1>7 DEF ClaimInv, AccountInv, AgainInv, DemoInv, CommittedInv, Begun
<1>9. CodeInv
  <2>1. \A l \in Logins : \A k \in login[l].codes : FALSE
    BY <1>3
  <2>2. ASSUME NEW l \in Logins PROVE login[l].sessions <= 1 /\ login[l].sessions # 1
    <3>1. login[l].sessions = 0
      BY <1>3
    <3>2. QED
      BY <3>1
  <2>3. QED
    BY <2>1, <2>2 DEF CodeInv
<1>10. ConflictIsTheEmails
  BY <1>5, <1>7 DEF ConflictIsTheEmails
<1>11. QED
  BY <1>6, <1>8, <1>9, <1>10 DEF AccountsInv

(* A callback goes on, or ends, with nothing committed. *)
GoesOn(c) ==
  /\ UNCHANGED <<users, links, demo>>
  /\ call' \in [Callbacks -> Calls]
  /\ \A d \in Callbacks \ {c} : call'[d] = call[d]
  /\ call[c].pc \in Running
  /\ call'[c].pc \notin {"idle", "invalid_state", "handed"}
  /\ call'[c].login = call[c].login
  /\ lock' = lock \/ (lock = c /\ lock' = Free) \/ (lock = Free /\ lock' = c)
  /\ renames' = renames /\ faults' \in 0 .. MaxFaults
  /\ call'[c].pc \in Running \ {"code", "commit"} => call'[c].by = "none" /\ ~call'[c].made
  /\ call'[c].pc \in {"look", "insert", "again", "demo", "code", "commit"} /\ call'[c].by = "none" => call'[c].user = c
  /\ call'[c].pc \in {"code", "commit"} /\ call'[c].by # "none" =>
       \E u \in users : u.id = call'[c].user /\ u.email = Mail(c)
  /\ call'[c].pc \in {"code", "commit"} /\ call'[c].made => lock' = c /\ demo = {}
  /\ call'[c].pc = "again" => Stuck(c)'
  /\ call'[c].pc = "conflict" => call'[c].freed \/ \E u \in users : u.id # c /\ u.email = Mail(c)

LEMMA GoingOnKeeps ==
  ASSUME AccountsInv, NEW c \in Callbacks, GoesOn(c), CodeInv',
         login' \in [Logins -> LoginRecords],
         \A l \in Logins : login'[l].subject = login[l].subject /\ login'[l].pending = login[l].pending
  PROVE  AccountsInv'
<1>1. Types /\ ClaimInv /\ AccountInv /\ AgainInv /\ CommittedInv /\ DemoInv /\ CodeInv /\ ConflictIsTheEmails
  BY DEF AccountsInv
<1>2. \A d \in Callbacks : call'[d].login = call[d].login
  BY DEF GoesOn
<1>3. ASSUME NEW d \in Callbacks, call[d].pc # "idle"
      PROVE  Subject(d)' = Subject(d) /\ Mail(d)' = Mail(d) /\ call[d].login \in Logins
  <2>1. call[d].login \in Logins
    BY <1>1, <1>3 DEF ClaimInv
  <2>2. QED
    BY <1>2, <2>1 DEF Mail, Subject
<1>4. TypeOK'
  <2>1. ASSUME NEW d \in Callbacks
        PROVE  /\ call'[d].pc \in {"idle"} \cup Running \cup Ended
               /\ call'[d].name \in Nat \ {0}
    <3>1. call'[d] \in Calls
      BY DEF GoesOn
    <3>2. QED
      BY <3>1 DEF Calls, Pcs
  <2>2. lock' \in Callbacks \cup {Free} /\ faults' \in 0 .. MaxFaults
    BY <1>1 DEF Types, TypeOK, GoesOn
  <2>3. \A l \in Logins : login'[l].subject \in Subjects /\ login'[l].sessions \in Nat
    BY DEF LoginRecords
  <2>4. UNCHANGED <<users, links, demo, renames>>
    BY DEF GoesOn
  <2>5. QED
    BY <1>1, <2>1, <2>2, <2>3, <2>4 DEF Types, TypeOK
<1>5. Types'
  BY <1>4 DEF Types, GoesOn
<1>6. ClaimInv'
  <2>1. \A d \in Callbacks : (Begun(d)' <=> Begun(d)) /\ (call'[d].pc # "idle" <=> call[d].pc # "idle")
    BY DEF Begun, GoesOn
  <2>2. ASSUME NEW d \in Callbacks
        PROVE  /\ call'[d].pc # "idle" => call'[d].login \in Logins
               /\ Begun(d)' =>
                    /\ ~login'[call'[d].login].pending
                    /\ \A e \in Callbacks : Begun(e)' /\ call'[e].login = call'[d].login => e = d
    <3>1. call[d].pc # "idle" => call[d].login \in Logins
      BY <1>1 DEF ClaimInv
    <3>2. Begun(d) => call[d].login \in Logins /\ ~login[call[d].login].pending
      BY <1>1 DEF ClaimInv, Begun
    <3>3. Begun(d) => \A e \in Callbacks : Begun(e) /\ call[e].login = call[d].login => e = d
      BY <1>1 DEF ClaimInv
    <3>4. QED
      BY <1>2, <2>1, <3>1, <3>2, <3>3
  <2>3. QED
    BY <2>2 DEF ClaimInv
<1>7. AccountInv'
  <2>1. ASSUME NEW d \in Callbacks
        PROVE  /\ call'[d].pc \in {"idle"} \cup (Running \ {"code", "commit"}) =>
                    call'[d].by = "none" /\ ~call'[d].made
               /\ call'[d].pc \in {"look", "insert", "again", "demo", "code", "commit"} /\ call'[d].by = "none" =>
                    call'[d].user = d
               /\ call'[d].pc \in {"code", "commit"} /\ call'[d].by # "none" =>
                    \E u \in users' : u.id = call'[d].user /\ u.email = Mail(d)'
               /\ call'[d].pc = "handed" => \E u \in users' : u.id = call'[d].user
    <3>1. CASE d = c
      BY <1>3, <3>1 DEF GoesOn
    <3>2. CASE d # c
      BY <1>1, <1>3, <3>2 DEF AccountInv, GoesOn
    <3>3. QED
      BY <3>1, <3>2
  <2>2. QED
    BY <2>1 DEF AccountInv
<1>8. CommittedInv'
  <2>1. \A u \in users : u.id \in Callbacks /\ u.id # c /\ call[u.id].pc = "handed"
    BY <1>1 DEF CommittedInv, GoesOn
  <2>2. QED
    BY <1>1, <2>1 DEF CommittedInv, GoesOn
<1>9. DemoInv'
  <2>1. ASSUME NEW d \in Callbacks, d # c, call[d].pc \in {"code", "commit"}, call[d].made
        PROVE  lock' = d /\ demo = {}
    <3>1. lock = d /\ demo = {}
      BY <1>1, <2>1 DEF DemoInv
    <3>2. d # Free
      BY AccountsAssumption DEF Free
    <3>3. QED
      BY <2>1, <3>1, <3>2 DEF GoesOn
  <2>2. QED
    BY <2>1 DEF DemoInv, GoesOn
<1>10. ConflictIsTheEmails'
  <2>1. ASSUME NEW d \in Callbacks, call'[d].pc = "conflict"
        PROVE  call'[d].freed \/ \E u \in users : u.id # d /\ u.email = Mail(d)'
    <3>1. CASE d = c
      BY <1>3, <2>1, <3>1 DEF GoesOn
    <3>2. CASE d # c
      BY <1>1, <1>3, <2>1, <3>2 DEF ConflictIsTheEmails, GoesOn
    <3>3. QED
      BY <3>1, <3>2
  <2>2. QED
    BY <1>4, <2>1 DEF ConflictIsTheEmails, GoesOn
<1>11. AgainInv'
  <2>1. ASSUME NEW d \in Callbacks, d # c, call'[d].pc = "again" PROVE Stuck(d)'
    <3>1. call'[d] = call[d] /\ UNCHANGED users /\ Stuck(d)
      BY <1>1, <2>1 DEF AgainInv, GoesOn
    <3>2. Subject(d)' = Subject(d) /\ Mail(d)' = Mail(d)
      BY <1>3, <2>1, <3>1
    <3>3. QED
      BY <3>1, <3>2 DEF Stuck, Taken, Known
  <2>2. QED
    BY <2>1 DEF AgainInv, GoesOn
<1>12. QED
  BY <1>5, <1>6, <1>7, <1>11, <1>8, <1>9, <1>10 DEF AccountsInv

(* ... and no code is minted. *)
LEMMA QuietStepKeeps ==
  ASSUME AccountsInv, NEW c \in Callbacks, GoesOn(c), UNCHANGED login,
         call[c].pc = "commit" => call'[c].pc = "failed" /\ call'[c].user = call[c].user
  PROVE  AccountsInv'
<1>1. Types /\ CodeInv
  BY DEF AccountsInv
<1>2. CodeInv'
  <2>1. ASSUME NEW l \in Logins, NEW k \in login[l].codes
        PROVE  /\ call'[k.call].login = l /\ call'[k.call].pc \in {"commit", "handed", "failed"}
               /\ k.user = call'[k.call].user
    <3>1. login[l] \in LoginRecords
      BY <1>1 DEF Types
    <3>2. k.call \in Callbacks
      BY <3>1 DEF LoginRecords, Codes
    <3>3. /\ call[k.call].login = l /\ call[k.call].pc \in {"commit", "handed", "failed"}
          /\ k.user = call[k.call].user
      BY <1>1 DEF CodeInv
    <3>4. CASE k.call = c
      BY <3>3, <3>4 DEF GoesOn
    <3>5. CASE k.call # c
      BY <3>2, <3>3, <3>5 DEF GoesOn
    <3>6. QED
      BY <3>4, <3>5
  <2>2. \A d \in Callbacks : call[d].pc = "handed" => call'[d] = call[d]
    BY DEF GoesOn
  <2>3. QED
    BY <1>1, <2>1, <2>2 DEF CodeInv
<1>3. /\ login' \in [Logins -> LoginRecords]
      /\ \A l \in Logins : login'[l].subject = login[l].subject /\ login'[l].pending = login[l].pending
  BY <1>1 DEF Types
<1>4. QED
  BY <1>2, <1>3, GoingOnKeeps

-----------------------------------------------------------------------------
(* What changing where a callback stands changes. *)
LEMMA ToMoves ==
  ASSUME Types, NEW c \in Callbacks, NEW pc \in Pcs, To(c, pc)
  PROVE  /\ call' \in [Callbacks -> Calls]
         /\ \A d \in Callbacks \ {c} : call'[d] = call[d]
         /\ call'[c].pc = pc /\ call'[c].login = call[c].login /\ call'[c].user = call[c].user
         /\ call'[c].by = call[c].by /\ call'[c].name = call[c].name /\ call'[c].made = call[c].made
         /\ call'[c].freed = call[c].freed
<1>1. call \in [Callbacks -> Calls] /\ call[c] \in Calls
  BY DEF Types
<1>2. call' = [call EXCEPT ![c] = [call[c] EXCEPT !.pc = pc]]
  BY DEF To
<1>3. [call[c] EXCEPT !.pc = pc] \in Calls
  BY <1>1 DEF Calls
<1>4. QED
  BY <1>1, <1>2, <1>3 DEF Calls

LEMMA AbortKeeps ==
  ASSUME AccountsInv, NEW c \in Callbacks, NEW why \in {"conflict", "failed"}, Aborts(c, why),
         call[c].pc \in Running,
         renames' = renames, faults' \in 0 .. MaxFaults,
         why = "conflict" =>
           call[c].pc # "commit" /\ (call[c].freed \/ \E u \in users : u.id # c /\ u.email = Mail(c))
  PROVE  AccountsInv'
<1>1. Types
  BY DEF AccountsInv
<1>2. why \in Pcs /\ To(c, why)
  BY DEF Pcs, Ended, Aborts
<1>3. /\ call' \in [Callbacks -> Calls]
      /\ \A d \in Callbacks \ {c} : call'[d] = call[d]
      /\ call'[c].pc = why /\ call'[c].login = call[c].login /\ call'[c].user = call[c].user
      /\ call'[c].freed = call[c].freed
  BY <1>1, <1>2, ToMoves
<1>4. lock' = lock \/ (lock = c /\ lock' = Free)
  BY DEF Aborts, Release
<1>5. UNCHANGED <<users, links, demo, renames>> /\ UNCHANGED login
  BY DEF Aborts
<1>6. GoesOn(c)
  BY <1>3, <1>4, <1>5 DEF GoesOn
<1>7. QED
  BY <1>3, <1>5, <1>6, QuietStepKeeps

-----------------------------------------------------------------------------
(* The steps of a callback that commit nothing. *)
LEMMA FoundKeeps ==
  ASSUME AccountsInv, NEW c \in Callbacks, call[c].pc \in {"resolve", "email", "provision"},
         NEW by \in {"identity", "email"}, NEW id \in Callbacks, Found(c, by, id),
         \E u \in users : u.id = id /\ u.email = Mail(c),
         UNCHANGED <<users, links, demo, lock, login, renames, faults>>
  PROVE  AccountsInv'
<1>1. Types /\ call[c] \in Calls /\ ~call[c].made /\ faults' \in 0 .. MaxFaults
  BY DEF AccountsInv, AccountInv, Types, TypeOK, Running
<1>2. call' = [call EXCEPT ![c] = [call[c] EXCEPT !.pc = "code", !.by = by, !.user = id]]
  BY DEF Found
<1>3. [call[c] EXCEPT !.pc = "code", !.by = by, !.user = id] \in Calls
  BY <1>1 DEF Calls, Pcs, Running
<1>4. /\ call' \in [Callbacks -> Calls] /\ \A d \in Callbacks \ {c} : call'[d] = call[d]
      /\ call'[c].pc = "code" /\ call'[c].login = call[c].login /\ call'[c].by = by
      /\ call'[c].user = id /\ call'[c].made = call[c].made
  BY <1>1, <1>2, <1>3 DEF Types, Calls
<1>5. GoesOn(c)
  BY <1>1, <1>4 DEF GoesOn, Running
<1>6. QED
  BY <1>5, QuietStepKeeps

LEMMA MoveKeeps ==
  ASSUME AccountsInv, NEW c \in Callbacks, call[c].pc \in Running \ {"code", "commit"},
         NEW pc \in {"email", "provision", "email_not_verified", "again", "demo"}, To(c, pc),
         pc \in {"again", "demo"} => call[c].user = c, pc = "again" => Stuck(c),
         UNCHANGED <<users, links, demo, lock, login, renames, faults>>
  PROVE  AccountsInv'
<1>1. Types /\ call[c].by = "none" /\ ~call[c].made /\ faults' \in 0 .. MaxFaults
  BY DEF AccountsInv, AccountInv, Types, TypeOK
<1>2. pc \in Pcs
  BY DEF Pcs, Ended, Running
<1>3. /\ call' \in [Callbacks -> Calls] /\ \A d \in Callbacks \ {c} : call'[d] = call[d]
      /\ call'[c].pc = pc /\ call'[c].login = call[c].login /\ call'[c].by = call[c].by
      /\ call'[c].user = call[c].user /\ call'[c].made = call[c].made
  BY <1>1, <1>2, ToMoves
<1>4. pc = "again" => Stuck(c)'
  <2>1. call[c].login \in Logins
    BY DEF AccountsInv, ClaimInv, Running
  <2>2. Subject(c)' = Subject(c) /\ call'[c].name = call[c].name /\ call'[c].freed = call[c].freed
    BY <1>1, <1>2, <1>3, ToMoves DEF Subject
  <2>3. QED
    BY <2>2 DEF Stuck, Taken, Known, Mail
<1>5. GoesOn(c)
  BY <1>1, <1>3, <1>4 DEF GoesOn, Running
<1>6. QED
  BY <1>5, QuietStepKeeps DEF Running

LEMMA ResolveKeeps == ASSUME AccountsInv, NEW c \in Callbacks, Resolve(c) PROVE AccountsInv'
<1> DEFINE linked == {k \in links : k.subject = Subject(c)}
<1>1. /\ Types /\ CommittedInv /\ call[c].pc = "resolve"
      /\ UNCHANGED <<users, links, demo, lock, login, renames, faults>>
  BY DEF AccountsInv, Resolve
<1>2. CASE linked = {}
  <2>1. To(c, "email")
    BY <1>2 DEF Resolve
  <2>2. QED
    BY <1>1, <2>1, MoveKeeps DEF Running
<1>3. CASE linked # {}
  <2>1. PICK k \in linked : k = CHOOSE m \in linked : TRUE
    BY <1>3
  <2>2. Found(c, "identity", k.user)
    BY <1>3, <2>1 DEF Resolve
  <2>3. \E u \in users : u.id = k.user /\ u.email = Mail(c)
    BY <1>1, <2>1 DEF CommittedInv, Mail
  <2>4. k.user \in Callbacks
    BY <1>1, <2>1 DEF Types, TypeOK
  <2>5. QED
    BY <1>1, <2>2, <2>3, <2>4, FoundKeeps
<1>4. QED
  BY <1>2, <1>3

(* The account found by its email, whichever of the two reads found it. *)
LEMMA KnownKeeps ==
  ASSUME AccountsInv, NEW c \in Callbacks, call[c].pc \in {"email", "provision"}, Known(c) # {},
         Found(c, "email", (CHOOSE u \in Known(c) : TRUE).id),
         UNCHANGED <<users, links, demo, lock, login, renames, faults>>
  PROVE  AccountsInv'
<1>1. PICK u \in Known(c) : u = CHOOSE m \in Known(c) : TRUE
  OBVIOUS
<1>2. u \in users /\ u.email = Mail(c) /\ u.id \in Callbacks
  BY <1>1 DEF Known, AccountsInv, Types, TypeOK
<1>3. QED
  BY <1>1, <1>2, FoundKeeps

LEMMA ResolveEmailKeeps == ASSUME AccountsInv, NEW c \in Callbacks, ResolveEmail(c) PROVE AccountsInv'
<1>1. call[c].pc = "email" /\ UNCHANGED <<users, links, demo, lock, login, renames, faults>>
  BY DEF ResolveEmail
<1>2. CASE Known(c) = {}
  <2>1. To(c, "provision")
    BY <1>2 DEF ResolveEmail
  <2>2. QED
    BY <1>1, <2>1, MoveKeeps DEF Running
<1>3. CASE Known(c) # {} /\ Subject(c) \in Verified
  <2>1. Found(c, "email", (CHOOSE u \in Known(c) : TRUE).id)
    BY <1>3 DEF ResolveEmail
  <2>2. QED
    BY <1>1, <1>3, <2>1, KnownKeeps
<1>4. CASE Known(c) # {} /\ Subject(c) \notin Verified
  <2>1. To(c, "email_not_verified")
    BY <1>4 DEF ResolveEmail
  <2>2. QED
    BY <1>1, <2>1, MoveKeeps DEF Running
<1>5. QED
  BY <1>2, <1>3, <1>4

LEMMA ProvisionKeeps == ASSUME AccountsInv, NEW c \in Callbacks, Provision(c) PROVE AccountsInv'
<1>1. call[c].pc = "provision" /\ UNCHANGED <<users, links, demo, lock, login, renames, faults>>
  BY DEF Provision
<1>2. CASE Known(c) # {}
  <2>1. Found(c, "email", (CHOOSE u \in Known(c) : TRUE).id)
    BY <1>2 DEF Provision
  <2>2. QED
    BY <1>1, <1>2, <2>1, KnownKeeps
<1>3. CASE Known(c) = {}
  <2>1. Types /\ call[c] \in Calls /\ call[c].by = "none" /\ ~call[c].made /\ faults' \in 0 .. MaxFaults
    BY <1>1 DEF AccountsInv, AccountInv, Types, TypeOK, Running
  <2>2. call' = [call EXCEPT ![c] = [call[c] EXCEPT !.pc = "look", !.user = c]]
    BY <1>3 DEF Provision
  <2>3. [call[c] EXCEPT !.pc = "look", !.user = c] \in Calls
    BY <2>1 DEF Calls, Pcs, Running
  <2>4. /\ call' \in [Callbacks -> Calls] /\ \A d \in Callbacks \ {c} : call'[d] = call[d]
        /\ call'[c].pc = "look" /\ call'[c].login = call[c].login /\ call'[c].by = call[c].by
        /\ call'[c].user = c /\ call'[c].made = call[c].made
    BY <2>1, <2>2, <2>3 DEF Types, Calls
  <2>5. GoesOn(c)
    BY <1>1, <2>1, <2>4 DEF GoesOn, Running
  <2>6. QED
    BY <1>1, <2>5, QuietStepKeeps
<1>4. QED
  BY <1>2, <1>3

LEMMA LookKeeps == ASSUME AccountsInv, NEW c \in Callbacks, Look(c) PROVE AccountsInv'
<1>1. Types /\ AccountInv
  BY DEF AccountsInv
<1>2. /\ call[c].pc = "look" /\ call[c].by = "none" /\ ~call[c].made /\ call[c].user = c /\ call[c] \in Calls
      /\ UNCHANGED <<users, links, demo, lock, renames>> /\ UNCHANGED login /\ faults' \in 0 .. MaxFaults
  BY <1>1 DEF Look, AccountInv, Types, TypeOK
<1>3. PICK n \in Nat \ {0}, pc \in {"look", "insert"} :
        call' = [call EXCEPT ![c] = [call[c] EXCEPT !.name = n, !.pc = pc]]
  <2>1. call[c].name \in Nat \ {0} /\ call[c].name + 1 \in Nat \ {0}
    BY <1>2 DEF Calls
  <2>2. CASE Taken(c, call[c].name)
    <3>1. call' = [call EXCEPT ![c].name = call[c].name + 1, ![c].pc = "look"]
      BY <2>2 DEF Look
    <3>2. QED
      BY <2>1, <3>1
  <2>3. CASE ~Taken(c, call[c].name)
    <3>1. call' = [call EXCEPT ![c].name = call[c].name, ![c].pc = "insert"]
      BY <2>3 DEF Look
    <3>2. QED
      BY <2>1, <3>1
  <2>4. QED
    BY <2>2, <2>3
<1>4. [call[c] EXCEPT !.name = n, !.pc = pc] \in Calls
  BY <1>2 DEF Calls, Pcs
<1>5. /\ call' \in [Callbacks -> Calls] /\ \A d \in Callbacks \ {c} : call'[d] = call[d]
      /\ call'[c].pc = pc /\ call'[c].login = call[c].login /\ call'[c].by = call[c].by
      /\ call'[c].user = call[c].user /\ call'[c].made = call[c].made
  BY <1>1, <1>2, <1>3, <1>4 DEF Types, Calls
<1>6. GoesOn(c)
  BY <1>2, <1>5 DEF GoesOn
<1>7. QED
  BY <1>2, <1>6, QuietStepKeeps

LEMMA InsertUserKeeps == ASSUME AccountsInv, NEW c \in Callbacks, InsertUser(c) PROVE AccountsInv'
<1>1. /\ call[c].pc = "insert" /\ call[c].user = c
      /\ UNCHANGED <<users, links, demo, lock, login, renames, faults>>
  BY DEF InsertUser, AccountsInv, AccountInv, Running
<1>2. PICK pc \in {"again", "demo"} : To(c, pc) /\ (pc = "again" => Stuck(c))
  BY DEF InsertUser, Stuck
<1>3. QED
  BY <1>1, <1>2, MoveKeeps DEF Running

(* A conflict is raised only where the name is not taken: either it was    *)
(* let go meanwhile, or the email has an account, of another callback.     *)
LEMMA LookAgainKeeps == ASSUME AccountsInv, NEW c \in Callbacks, LookAgain(c) PROVE AccountsInv'
<1>1. Types /\ AccountInv /\ CommittedInv /\ AgainInv
  BY DEF AccountsInv
<1>2. /\ call[c].pc = "again" /\ call[c].by = "none" /\ ~call[c].made /\ call[c].user = c /\ call[c] \in Calls
      /\ UNCHANGED renames /\ UNCHANGED faults /\ faults' \in 0 .. MaxFaults
  BY <1>1 DEF LookAgain, AccountInv, Types, TypeOK, Running
<1>3. CASE Taken(c, call[c].name)
  <2>1. /\ call' = [call EXCEPT ![c].name = call[c].name + 1, ![c].pc = "look", ![c].freed = FALSE]
        /\ UNCHANGED <<users, links, demo, lock>> /\ UNCHANGED login
    BY <1>3 DEF LookAgain
  <2>2. call[c].name + 1 \in Nat \ {0}
    BY <1>2 DEF Calls
  <2>3. PICK n \in Nat \ {0} :
          call' = [call EXCEPT ![c] = [call[c] EXCEPT !.name = n, !.pc = "look", !.freed = FALSE]]
    BY <2>1, <2>2
  <2>4. [call[c] EXCEPT !.name = n, !.pc = "look", !.freed = FALSE] \in Calls
    BY <1>2 DEF Calls, Pcs, Running
  <2>5. /\ call' \in [Callbacks -> Calls] /\ \A d \in Callbacks \ {c} : call'[d] = call[d]
        /\ call'[c].pc = "look" /\ call'[c].login = call[c].login /\ call'[c].by = call[c].by
        /\ call'[c].user = call[c].user /\ call'[c].made = call[c].made
    BY <1>1, <1>2, <2>3, <2>4 DEF Types, Calls
  <2>6. GoesOn(c)
    BY <1>2, <2>1, <2>5 DEF GoesOn, Running
  <2>7. QED
    BY <1>2, <2>1, <2>6, QuietStepKeeps
<1>4. CASE ~Taken(c, call[c].name)
  <2>1. Aborts(c, "conflict")
    BY <1>4 DEF LookAgain
  <2>2. call[c].freed \/ \E u \in users : u.id # c /\ u.email = Mail(c)
    BY <1>1, <1>2, <1>4 DEF CommittedInv, AgainInv, Stuck, Known, Running
  <2>3. QED
    BY <1>2, <2>1, <2>2, AbortKeeps DEF Running
<1>5. QED
  BY <1>3, <1>4

LEMMA EnsureDemoKeeps == ASSUME AccountsInv, NEW c \in Callbacks, EnsureDemo(c) PROVE AccountsInv'
<1>1. Types /\ AccountInv
  BY DEF AccountsInv
<1>2. /\ call[c].pc = "demo" /\ call[c].by = "none" /\ call[c].user = c /\ call[c] \in Calls
      /\ lock = Free /\ lock' = c
      /\ UNCHANGED <<users, links, demo, renames>> /\ UNCHANGED login /\ faults' \in 0 .. MaxFaults
  BY <1>1 DEF EnsureDemo, AccountInv, Types, TypeOK
<1>3. PICK made \in BOOLEAN :
        /\ made = (demo = {})
        /\ call' = [call EXCEPT ![c] = [call[c] EXCEPT !.made = made, !.pc = "code"]]
  BY DEF EnsureDemo
<1>4. [call[c] EXCEPT !.made = made, !.pc = "code"] \in Calls
  BY <1>2 DEF Calls, Pcs
<1>5. /\ call' \in [Callbacks -> Calls] /\ \A d \in Callbacks \ {c} : call'[d] = call[d]
      /\ call'[c].pc = "code" /\ call'[c].login = call[c].login /\ call'[c].by = call[c].by
      /\ call'[c].user = call[c].user /\ call'[c].made = made
  BY <1>1, <1>2, <1>3, <1>4 DEF Types, Calls
<1>6. GoesOn(c)
  BY <1>2, <1>3, <1>5 DEF GoesOn
<1>7. QED
  BY <1>2, <1>6, QuietStepKeeps

LEMMA FailKeeps == ASSUME AccountsInv, NEW c \in Callbacks, Fail(c) PROVE AccountsInv'
<1>1. faults' \in 0 .. MaxFaults /\ renames' = renames
  BY AccountsAssumption DEF Fail, AccountsInv, Types, TypeOK
<1>2. Aborts(c, "failed") /\ call[c].pc \in Running
  BY DEF Fail
<1>3. QED
  BY <1>1, <1>2, AbortKeeps

-----------------------------------------------------------------------------
(* The steps that mint, commit and exchange. *)
LEMMA IssueCodeKeeps == ASSUME AccountsInv, NEW c \in Callbacks, IssueCode(c) PROVE AccountsInv'
<1>1. Types /\ ClaimInv /\ AccountInv /\ CommittedInv /\ DemoInv /\ CodeInv
  BY DEF AccountsInv
<1>2. /\ call[c].pc = "code" /\ call[c] \in Calls /\ faults' \in 0 .. MaxFaults /\ renames' = renames
      /\ call[c].login \in Logins /\ Begun(c)
  BY <1>1 DEF IssueCode, ClaimInv, Types, TypeOK, Begun
<1>3. CASE call[c].by # "identity" /\ \E k \in links : k.subject = Subject(c)
  <2>1. Aborts(c, "conflict")
    BY <1>3 DEF IssueCode
  <2>2. PICK u \in users : u.email = Mail(c)
    BY <1>1, <1>3 DEF CommittedInv, Mail
  <2>3. u.id \in Callbacks /\ call[u.id].pc = "handed"
    BY <1>1, <2>2 DEF CommittedInv
  <2>4. u.id # c
    BY <1>2, <2>3
  <2>5. QED
    BY <1>2, <2>1, <2>2, <2>4, AbortKeeps
<1>4. CASE ~(call[c].by # "identity" /\ \E k \in links : k.subject = Subject(c))
  <2> DEFINE l == call[c].login
             new == [call |-> c, user |-> call[c].user]
  <2>1. /\ To(c, "commit") /\ UNCHANGED <<users, links, demo, lock>>
        /\ login' = [login EXCEPT ![l].codes = @ \cup {new}]
    BY <1>4 DEF IssueCode
  <2>2. "commit" \in Pcs
    BY DEF Pcs
  <2>3. /\ call' \in [Callbacks -> Calls] /\ \A d \in Callbacks \ {c} : call'[d] = call[d]
        /\ call'[c].pc = "commit" /\ call'[c].login = l /\ call'[c].by = call[c].by
        /\ call'[c].user = call[c].user /\ call'[c].made = call[c].made
    BY <1>1, <2>1, <2>2, ToMoves
  <2>4. GoesOn(c)
    BY <1>1, <1>2, <2>1, <2>3 DEF GoesOn, AccountInv, DemoInv
  <2>5. login[l] \in LoginRecords /\ new \in Codes
    BY <1>1, <1>2 DEF Types, Calls, Codes
  <2>6. [login[l] EXCEPT !.codes = @ \cup {new}] \in LoginRecords
    BY <2>5 DEF LoginRecords
  <2>7. /\ login' \in [Logins -> LoginRecords]
        /\ \A m \in Logins \ {l} : login'[m] = login[m]
        /\ login'[l].codes = login[l].codes \cup {new}
        /\ login'[l].subject = login[l].subject /\ login'[l].pending = login[l].pending
        /\ login'[l].sessions = login[l].sessions
    BY <1>1, <1>2, <2>1, <2>5, <2>6 DEF Types, LoginRecords
  <2>8. login[l].sessions # 1
    <3>1. \A d \in Callbacks : call[d].pc = "handed" => Begun(d) /\ d # c
      BY <1>2 DEF Begun
    <3>2. \A d \in Callbacks : call[d].pc = "handed" => call[d].login # l
      BY <1>1, <1>2, <3>1 DEF ClaimInv
    <3>3. QED
      BY <1>1, <1>2, <3>2 DEF CodeInv
  <2>9. CodeInv'
    <3>1. ASSUME NEW m \in Logins, NEW k \in login'[m].codes
          PROVE  /\ call'[k.call].login = m /\ call'[k.call].pc \in {"commit", "handed", "failed"}
                 /\ k.user = call'[k.call].user
      <4>1. CASE k \in login[m].codes
        <5>1. /\ call[k.call].login = m /\ call[k.call].pc \in {"commit", "handed", "failed"}
              /\ k.user = call[k.call].user
          BY <1>1, <4>1 DEF CodeInv
        <5>2. k.call \in Callbacks \ {c}
          BY <1>1, <1>2, <4>1, <5>1 DEF Types, LoginRecords, Codes
        <5>3. QED
          BY <2>3, <5>1, <5>2
      <4>2. CASE k = new /\ m = l
        BY <2>3, <4>2
      <4>3. QED
        BY <2>7, <3>1, <4>1, <4>2
    <3>2. ASSUME NEW m \in Logins
          PROVE  /\ login'[m].sessions <= 1
                 /\ login'[m].sessions = 1 =>
                      /\ login'[m].codes = {}
                      /\ \E d \in Callbacks : call'[d].pc = "handed" /\ call'[d].login = m
      <4>1. CASE m = l
        BY <1>1, <2>7, <2>8, <4>1 DEF CodeInv
      <4>2. CASE m # l
        <5>1. login'[m] = login[m]
          BY <2>7, <4>2
        <5>2. \A d \in Callbacks : call[d].pc = "handed" => call'[d] = call[d]
          BY <1>2, <2>3
        <5>3. QED
          BY <1>1, <5>1, <5>2 DEF CodeInv
      <4>3. QED
        BY <4>1, <4>2
    <3>3. QED
      BY <3>1, <3>2 DEF CodeInv
  <2>10. \A m \in Logins : login'[m].subject = login[m].subject /\ login'[m].pending = login[m].pending
    BY <2>7
  <2>11. QED
    BY <2>4, <2>7, <2>9, <2>10, GoingOnKeeps
<1>5. QED
  BY <1>3, <1>4

(* A login is claimed by one callback, and nobody had claimed it. *)
LEMMA ClaimLoginKeeps == ASSUME AccountsInv, NEW c \in Callbacks, ClaimLogin(c) PROVE AccountsInv'
<1>1. Types /\ ClaimInv /\ AccountInv /\ AgainInv /\ CommittedInv /\ DemoInv /\ CodeInv /\ ConflictIsTheEmails
  BY DEF AccountsInv
<1>2. PICK l \in Logins :
        /\ call' = [call EXCEPT ![c].login = l,
                                ![c].pc = IF login[l].pending THEN "resolve" ELSE "invalid_state"]
        /\ login' = [login EXCEPT ![l].pending = FALSE]
  BY DEF ClaimLogin
<1>3. /\ call[c].pc = "idle" /\ call[c].by = "none" /\ ~call[c].made /\ call[c] \in Calls /\ ~Begun(c)
      /\ UNCHANGED <<users, links, demo, lock, renames, faults>>
  BY <1>1 DEF ClaimLogin, AccountInv, Types, Begun
<1>4. PICK pc \in {"resolve", "invalid_state"} :
        /\ pc = "resolve" <=> login[l].pending
        /\ call' = [call EXCEPT ![c] = [call[c] EXCEPT !.login = l, !.pc = pc]]
  BY <1>2
<1>5. [call[c] EXCEPT !.login = l, !.pc = pc] \in Calls
  BY <1>3 DEF Calls, Pcs, Ended
<1>6. /\ call' \in [Callbacks -> Calls] /\ \A d \in Callbacks \ {c} : call'[d] = call[d]
      /\ call'[c].pc = pc /\ call'[c].login = l /\ call'[c].by = "none" /\ ~call'[c].made
  BY <1>1, <1>3, <1>4, <1>5 DEF Types, Calls
<1>7. /\ login' \in [Logins -> LoginRecords] /\ ~login'[l].pending
      /\ \A m \in Logins \ {l} : login'[m] = login[m]
      /\ \A m \in Logins : /\ login'[m].subject = login[m].subject /\ login'[m].codes = login[m].codes
                           /\ login'[m].sessions = login[m].sessions
  <2>1. login[l] \in LoginRecords /\ FALSE \in BOOLEAN
    BY <1>1 DEF Types
  <2>2. [login[l] EXCEPT !.pending = FALSE] \in LoginRecords
    BY <2>1 DEF LoginRecords
  <2>3. login' = [login EXCEPT ![l] = [login[l] EXCEPT !.pending = FALSE]]
    BY <1>2
  <2>4. QED
    BY <1>1, <2>1, <2>2, <2>3 DEF Types, LoginRecords
<1>8. ASSUME NEW d \in Callbacks \ {c}, call[d].pc # "idle" PROVE Subject(d)' = Subject(d) /\ Mail(d)' = Mail(d)
  <2>1. call[d].login \in Logins
    BY <1>1, <1>8 DEF ClaimInv
  <2>2. QED
    BY <1>6, <1>7, <2>1 DEF Mail, Subject
<1>9. Types'
  <2>1. TypeOK'
    <3>1. ASSUME NEW d \in Callbacks
          PROVE  /\ call'[d].pc \in {"idle"} \cup Running \cup Ended
                 /\ call'[d].name \in Nat \ {0}
      <4>1. call'[d] \in Calls
        BY <1>6
      <4>2. QED
        BY <4>1 DEF Calls, Pcs
    <3>2. \A m \in Logins : login'[m].subject \in Subjects /\ login'[m].sessions \in Nat
      BY <1>7 DEF LoginRecords
    <3>3. QED
      BY <1>1, <1>3, <3>1, <3>2 DEF Types, TypeOK
  <2>2. QED
    BY <1>6, <1>7, <2>1 DEF Types
<1>10. ClaimInv'
  <2>1. Begun(c)' => login[l].pending
    BY <1>4, <1>6 DEF Begun
  <2>2. \A d \in Callbacks \ {c} : (Begun(d)' <=> Begun(d)) /\ call'[d].login = call[d].login
    BY <1>6 DEF Begun
  <2>3. login[l].pending => \A d \in Callbacks : Begun(d) => call[d].login # l
    BY <1>1 DEF ClaimInv
  <2>4. ASSUME NEW d \in Callbacks
        PROVE  /\ call'[d].pc # "idle" => call'[d].login \in Logins
               /\ Begun(d)' =>
                    /\ ~login'[call'[d].login].pending
                    /\ \A e \in Callbacks : Begun(e)' /\ call'[e].login = call'[d].login => e = d
    <3>1. CASE d = c
      BY <1>6, <1>7, <2>1, <2>2, <2>3, <3>1
    <3>2. CASE d # c
      <4>1. call[d].pc # "idle" => call[d].login \in Logins
        BY <1>1 DEF ClaimInv
      <4>2. Begun(d) => call[d].login \in Logins /\ ~login[call[d].login].pending
        BY <1>1 DEF ClaimInv, Begun
      <4>3. Begun(d) => \A e \in Callbacks : Begun(e) /\ call[e].login = call[d].login => e = d
        BY <1>1 DEF ClaimInv
      <4>4. Begun(d) => ~login'[call[d].login].pending
        BY <1>7, <4>2
      <4>5. call'[d] = call[d]
        BY <1>6, <3>2
      <4>6. Begun(d) /\ Begun(c)' => call'[c].login # call[d].login
        BY <1>6, <2>1, <2>3
      <4>7. QED
        BY <2>2, <3>2, <4>1, <4>3, <4>4, <4>5, <4>6
    <3>3. QED
      BY <3>1, <3>2
  <2>5. QED
    BY <2>4 DEF ClaimInv
<1>11. AccountInv'
  <2>1. ASSUME NEW d \in Callbacks
        PROVE  /\ call'[d].pc \in {"idle"} \cup (Running \ {"code", "commit"}) =>
                    call'[d].by = "none" /\ ~call'[d].made
               /\ call'[d].pc \in {"look", "insert", "again", "demo", "code", "commit"} /\ call'[d].by = "none" =>
                    call'[d].user = d
               /\ call'[d].pc \in {"code", "commit"} /\ call'[d].by # "none" =>
                    \E u \in users' : u.id = call'[d].user /\ u.email = Mail(d)'
               /\ call'[d].pc = "handed" => \E u \in users' : u.id = call'[d].user
    <3>1. CASE d = c
      BY <1>6, <3>1
    <3>2. CASE d # c
      BY <1>1, <1>3, <1>6, <1>8, <3>2 DEF AccountInv
    <3>3. QED
      BY <3>1, <3>2
  <2>2. QED
    BY <2>1 DEF AccountInv
<1>12. CommittedInv'
  <2>1. \A u \in users : u.id \in Callbacks /\ u.id # c /\ call[u.id].pc = "handed"
    BY <1>1, <1>3 DEF CommittedInv
  <2>2. QED
    BY <1>1, <1>3, <1>6, <2>1 DEF CommittedInv
<1>13. DemoInv'
  BY <1>1, <1>3, <1>4, <1>6 DEF DemoInv
<1>14. CodeInv'
  <2>1. ASSUME NEW m \in Logins, NEW k \in login[m].codes
        PROVE  /\ call'[k.call].login = m /\ call'[k.call].pc \in {"commit", "handed", "failed"}
               /\ k.user = call'[k.call].user
    <3>1. /\ call[k.call].login = m /\ call[k.call].pc \in {"commit", "handed", "failed"}
          /\ k.user = call[k.call].user
      BY <1>1 DEF CodeInv
    <3>2. k.call \in Callbacks \ {c}
      BY <1>1, <1>3, <3>1 DEF Types, LoginRecords, Codes
    <3>3. QED
      BY <1>6, <3>1, <3>2
  <2>2. \A d \in Callbacks : call[d].pc = "handed" => call'[d] = call[d]
    BY <1>3, <1>6
  <2>3. QED
    BY <1>1, <1>7, <2>1, <2>2 DEF CodeInv
<1>15. ConflictIsTheEmails'
  <2>1. ASSUME NEW d \in Callbacks, call'[d].pc = "conflict"
        PROVE  call'[d].freed \/ \E u \in users' : u.id # d /\ u.email = Mail(d)'
    <3>1. d # c
      BY <1>4, <1>6, <2>1
    <3>2. QED
      BY <1>1, <1>3, <1>6, <1>8, <2>1, <3>1 DEF ConflictIsTheEmails
  <2>2. QED
    BY <1>9, <2>1 DEF ConflictIsTheEmails, Types
<1>16. AgainInv'
  <2>1. ASSUME NEW d \in Callbacks, call'[d].pc = "again" PROVE Stuck(d)'
    <3>1. d # c /\ call'[d] = call[d]
      BY <1>4, <1>6, <2>1
    <3>2. QED
      BY <1>1, <1>3, <1>8, <2>1, <3>1 DEF AgainInv, Stuck, Taken, Known
  <2>2. QED
    BY <2>1 DEF AgainInv
<1>17. QED
  BY <1>9, <1>10, <1>11, <1>12, <1>13, <1>14, <1>15, <1>16 DEF AccountsInv

LEMMA CommitKeeps == ASSUME AccountsInv, NEW c \in Callbacks, Commit(c) PROVE AccountsInv'
<1>1. Types /\ ClaimInv /\ AccountInv /\ AgainInv /\ CommittedInv /\ DemoInv /\ CodeInv /\ ConflictIsTheEmails
  BY DEF AccountsInv
<1>2. /\ call[c].pc = "commit" /\ call[c] \in Calls /\ To(c, "handed") /\ Release(c)
      /\ UNCHANGED login /\ UNCHANGED renames /\ UNCHANGED faults
  BY <1>1 DEF Commit, Types
<1>3. "handed" \in Pcs
  BY DEF Pcs, Ended
<1>4. /\ call' \in [Callbacks -> Calls] /\ \A d \in Callbacks \ {c} : call'[d] = call[d]
      /\ call'[c].pc = "handed" /\ call'[c].login = call[c].login /\ call'[c].user = call[c].user
  BY <1>1, <1>2, <1>3, ToMoves
<1>5. PICK made : made = [id |-> c, email |-> Mail(c), base |-> Base[Subject(c)], name |-> call[c].name]
  OBVIOUS
<1>6. /\ users' = IF call[c].by = "none" THEN users \cup {made} ELSE users
      /\ links' = links \cup {[subject |-> Subject(c), user |-> call[c].user]}
      /\ demo' = IF call[c].made THEN demo \cup {c} ELSE demo
      /\ lock' = IF lock = c THEN Free ELSE lock
  BY <1>2, <1>5 DEF Commit, Release
<1>7. made.id = c /\ made.email = Mail(c) /\ made.name \in Nat \ {0}
  BY <1>2, <1>5 DEF Calls
<1>8. \E u \in users' : u.id = call[c].user /\ u.email = Mail(c)
  <2>1. CASE call[c].by = "none"
    <3>1. call[c].user = c
      BY <1>1, <1>2, <2>1 DEF AccountInv
    <3>2. QED
      BY <1>6, <1>7, <2>1, <3>1
  <2>2. CASE call[c].by # "none"
    BY <1>1, <1>2, <1>6, <2>2 DEF AccountInv
  <2>3. QED
    BY <2>1, <2>2
<1>9. /\ call[c].login \in Logins /\ Subject(c) \in Subjects /\ call[c].user \in Callbacks
  <2>1. call[c].login \in Logins
    BY <1>1, <1>2 DEF ClaimInv
  <2>2. Subject(c) \in Subjects
    BY <1>1, <2>1 DEF Subject, Types, TypeOK
  <2>3. \A u \in users' : u.id \in Callbacks
    BY <1>1, <1>6, <1>7 DEF CommittedInv
  <2>4. QED
    BY <1>8, <2>1, <2>2, <2>3
<1>10. \A d \in Callbacks : Subject(d)' = Subject(d) /\ Mail(d)' = Mail(d)
  <2>1. \A d \in Callbacks : call'[d].login = call[d].login
    BY <1>4
  <2>2. QED
    BY <1>2, <2>1 DEF Mail, Subject
<1>11. Types'
  <2>1. users' \subseteq [id : Callbacks, email : {Email[s] : s \in Subjects},
                          base : {Base[s] : s \in Subjects}, name : Nat \ {0}]
    <3>1. made \in [id : Callbacks, email : {Email[s] : s \in Subjects},
                    base : {Base[s] : s \in Subjects}, name : Nat \ {0}]
      BY <1>5, <1>7, <1>9 DEF Mail
    <3>2. QED
      BY <1>1, <1>6, <3>1 DEF Types, TypeOK
  <2>2. \A k \in links' : k.subject \in Subjects /\ k.user \in Callbacks
    BY <1>1, <1>6, <1>9 DEF Types, TypeOK
  <2>3. demo' \subseteq Callbacks /\ \A d, e \in demo' : d = e
    <3>1. call[c].made => demo = {}
      BY <1>1, <1>2 DEF DemoInv
    <3>2. QED
      BY <1>1, <1>6, <3>1 DEF Types, TypeOK
  <2>4. lock' \in Callbacks \cup {Free}
    BY <1>1, <1>6 DEF Types, TypeOK
  <2>5. ASSUME NEW d \in Callbacks
        PROVE  /\ call'[d].pc \in {"idle"} \cup Running \cup Ended
               /\ call'[d].name \in Nat \ {0}
    <3>1. call'[d] \in Calls
      BY <1>4
    <3>2. QED
      BY <3>1 DEF Calls, Pcs
  <2>6. TypeOK'
    BY <1>1, <1>2, <2>1, <2>2, <2>3, <2>4, <2>5 DEF Types, TypeOK
  <2>7. QED
    BY <1>1, <1>2, <1>4, <2>6 DEF Types
<1>12. ClaimInv'
  <2>1. \A d \in Callbacks : (Begun(d)' <=> Begun(d)) /\ (call'[d].pc # "idle" <=> call[d].pc # "idle")
                             /\ call'[d].login = call[d].login
    BY <1>2, <1>4 DEF Begun
  <2>2. QED
    BY <1>1, <1>2, <2>1 DEF ClaimInv
<1>13. AccountInv'
  <2>1. ASSUME NEW d \in Callbacks
        PROVE  /\ call'[d].pc \in {"idle"} \cup (Running \ {"code", "commit"}) =>
                    call'[d].by = "none" /\ ~call'[d].made
               /\ call'[d].pc \in {"look", "insert", "again", "demo", "code", "commit"} /\ call'[d].by = "none" =>
                    call'[d].user = d
               /\ call'[d].pc \in {"code", "commit"} /\ call'[d].by # "none" =>
                    \E u \in users' : u.id = call'[d].user /\ u.email = Mail(d)'
               /\ call'[d].pc = "handed" => \E u \in users' : u.id = call'[d].user
    <3>1. CASE d = c
      BY <1>4, <1>8, <3>1
    <3>2. CASE d # c
      <4>1. \A u \in users : u \in users'
        BY <1>6
      <4>2. QED
        BY <1>1, <1>4, <1>10, <3>2, <4>1 DEF AccountInv
    <3>3. QED
      BY <3>1, <3>2
  <2>2. QED
    BY <2>1 DEF AccountInv
<1>14. CommittedInv'
  <2>1. \A u \in users : u.id \in Callbacks /\ u.id # c /\ call[u.id].pc = "handed"
    BY <1>1, <1>2 DEF CommittedInv
  <2>2. \A u \in users' : u.id \in Callbacks /\ call'[u.id].pc = "handed"
    BY <1>4, <1>6, <1>7, <2>1
  <2>3. ASSUME NEW k \in links' PROVE \E u \in users' : u.id = k.user /\ u.email = Email[k.subject]
    <3>1. CASE k \in links
      BY <1>1, <1>6, <3>1 DEF CommittedInv
    <3>2. CASE k = [subject |-> Subject(c), user |-> call[c].user]
      BY <1>8, <3>2 DEF Mail
    <3>3. QED
      BY <1>6, <3>1, <3>2
  <2>4. QED
    BY <2>2, <2>3 DEF CommittedInv
<1>15. DemoInv'
  <2>1. ASSUME NEW d \in Callbacks, d # c, call[d].pc \in {"code", "commit"}, call[d].made
        PROVE  lock' = d /\ demo' = {}
    <3>1. lock = d /\ demo = {}
      BY <1>1, <2>1 DEF DemoInv
    <3>2. ~call[c].made
      BY <1>1, <1>2, <2>1, <3>1 DEF DemoInv
    <3>3. QED
      BY <1>6, <2>1, <3>1, <3>2
  <2>2. QED
    BY <1>4, <2>1 DEF DemoInv
<1>16. CodeInv'
  <2>1. ASSUME NEW m \in Logins, NEW k \in login[m].codes
        PROVE  /\ call'[k.call].login = m /\ call'[k.call].pc \in {"commit", "handed", "failed"}
               /\ k.user = call'[k.call].user
    <3>1. /\ call[k.call].login = m /\ call[k.call].pc \in {"commit", "handed", "failed"}
          /\ k.user = call[k.call].user
      BY <1>1 DEF CodeInv
    <3>2. k.call \in Callbacks
      BY <1>1 DEF Types, LoginRecords, Codes
    <3>3. CASE k.call = c
      BY <1>4, <3>1, <3>3
    <3>4. CASE k.call # c
      BY <1>4, <3>1, <3>2, <3>4
    <3>5. QED
      BY <3>3, <3>4
  <2>2. \A d \in Callbacks : call[d].pc = "handed" => call'[d] = call[d]
    BY <1>2, <1>4
  <2>3. QED
    BY <1>1, <1>2, <2>1, <2>2 DEF CodeInv
<1>17. ConflictIsTheEmails'
  <2>1. ASSUME NEW d \in Callbacks, call'[d].pc = "conflict"
        PROVE  call'[d].freed \/ \E u \in users' : u.id # d /\ u.email = Mail(d)'
    <3>1. call'[d] = call[d] /\ \A u \in users : u \in users'
      BY <1>4, <1>6, <2>1
    <3>2. QED
      BY <1>1, <1>10, <2>1, <3>1 DEF ConflictIsTheEmails
  <2>2. QED
    BY <1>11, <2>1 DEF ConflictIsTheEmails, Types
<1>18. AgainInv'
  <2>1. ASSUME NEW d \in Callbacks, call'[d].pc = "again" PROVE Stuck(d)'
    <3>1. call'[d] = call[d] /\ \A u \in users : u \in users'
      BY <1>4, <1>6, <2>1
    <3>2. Stuck(d)
      BY <1>1, <2>1, <3>1 DEF AgainInv
    <3>3. QED
      BY <1>10, <3>1, <3>2 DEF Stuck, Taken, Known
  <2>2. QED
    BY <2>1 DEF AgainInv
<1>19. QED
  BY <1>11, <1>12, <1>13, <1>14, <1>15, <1>16, <1>17, <1>18 DEF AccountsInv

LEMMA ExchangeKeeps == ASSUME AccountsInv, NEW c \in Callbacks, Exchange(c) PROVE AccountsInv'
<1>1. Types /\ ClaimInv /\ AccountInv /\ AgainInv /\ CommittedInv /\ DemoInv /\ CodeInv /\ ConflictIsTheEmails
  BY DEF AccountsInv
<1>2. call[c].pc = "handed" /\ Begun(c) /\ UNCHANGED <<users, links, demo, lock, call, renames, faults>>
  BY DEF Exchange, Begun
<1>3. PICK l \in Logins : l = call[c].login
  BY <1>1, <1>2 DEF ClaimInv
<1>4. PICK k \in login[l].codes :
        /\ k.call = c
        /\ login' = [login EXCEPT ![l].codes = @ \ {k},
             ![l].sessions = IF \E u \in users : u.id = k.user THEN @ + 1 ELSE @]
  BY <1>3 DEF Exchange
<1>5. login[l] \in LoginRecords /\ k \in Codes
  BY <1>1 DEF Types, LoginRecords
<1>6. login[l].sessions = 0
  <2>1. login[l].sessions # 1 /\ login[l].sessions <= 1 /\ login[l].sessions \in Nat
    BY <1>1, <1>4, <1>5 DEF CodeInv, LoginRecords
  <2>2. QED
    BY <2>1
<1>7. \A m \in login[l].codes : m = k
  <2>1. ASSUME NEW m \in login[l].codes PROVE m = k
    <3>1. /\ call[m.call].login = l /\ call[m.call].pc \in {"commit", "handed", "failed"}
          /\ m.user = call[m.call].user /\ k.user = call[k.call].user
      BY <1>1 DEF CodeInv
    <3>2. m \in Codes
      BY <1>5 DEF LoginRecords
    <3>3. m.call \in Callbacks /\ Begun(m.call)
      BY <3>1, <3>2 DEF Codes, Begun
    <3>4. m.call = c
      BY <1>1, <1>2, <1>3, <3>1, <3>3 DEF ClaimInv
    <3>5. QED
      BY <1>4, <1>5, <3>1, <3>2, <3>4 DEF Codes
  <2>2. QED
    BY <2>1
<1>8. PICK n \in {0, 1} : login' = [login EXCEPT ![l] = [login[l] EXCEPT !.codes = {}, !.sessions = n]]
  <2>1. login[l].codes \ {k} = {}
    BY <1>7
  <2>2. CASE \E u \in users : u.id = k.user
    <3>1. login' = [login EXCEPT ![l].codes = login[l].codes \ {k}, ![l].sessions = login[l].sessions + 1]
      BY <1>4, <2>2
    <3>2. login[l].sessions + 1 = 1
      BY <1>6
    <3>3. login' = [login EXCEPT ![l].codes = {}, ![l].sessions = 1]
      BY <2>1, <3>1, <3>2
    <3>4. QED
      BY <3>3
  <2>3. CASE ~\E u \in users : u.id = k.user
    <3>1. login' = [login EXCEPT ![l].codes = {}, ![l].sessions = 0]
      BY <1>4, <1>6, <2>1, <2>3
    <3>2. QED
      BY <3>1
  <2>4. QED
    BY <2>2, <2>3
<1>9. [login[l] EXCEPT !.codes = {}, !.sessions = n] \in LoginRecords
  <2>1. {} \in SUBSET Codes /\ n \in Nat
    OBVIOUS
  <2>2. QED
    BY <1>5, <2>1 DEF LoginRecords
<1>10. /\ login' \in [Logins -> LoginRecords]
       /\ \A m \in Logins \ {l} : login'[m] = login[m]
       /\ login'[l].codes = {} /\ login'[l].sessions = n
       /\ \A m \in Logins : login'[m].subject = login[m].subject /\ login'[m].pending = login[m].pending
  BY <1>1, <1>5, <1>8, <1>9 DEF Types, LoginRecords
<1>11. ASSUME NEW d \in Callbacks, call[d].pc # "idle" PROVE Subject(d)' = Subject(d) /\ Mail(d)' = Mail(d)
  <2>1. call[d].login \in Logins
    BY <1>1, <1>11 DEF ClaimInv
  <2>2. QED
    BY <1>2, <1>10, <2>1 DEF Mail, Subject
<1>12. Types'
  <2>1. \A m \in Logins : login'[m].subject \in Subjects /\ login'[m].sessions \in Nat
    BY <1>10 DEF LoginRecords
  <2>2. QED
    BY <1>1, <1>2, <1>10, <2>1 DEF Types, TypeOK
<1>13. ClaimInv'
  BY <1>1, <1>2, <1>10 DEF ClaimInv, Begun
<1>14. AccountInv'
  BY <1>1, <1>2, <1>11 DEF AccountInv
<1>15. CommittedInv' /\ DemoInv'
  BY <1>1, <1>2 DEF CommittedInv, DemoInv
<1>16. CodeInv'
  <2>1. ASSUME NEW m \in Logins
        PROVE  /\ \A j \in login'[m].codes :
                    /\ call'[j.call].login = m /\ call'[j.call].pc \in {"commit", "handed", "failed"}
                    /\ j.user = call'[j.call].user
               /\ login'[m].sessions <= 1
               /\ login'[m].sessions = 1 =>
                    login'[m].codes = {} /\ \E d \in Callbacks : call'[d].pc = "handed" /\ call'[d].login = m
    <3>1. CASE m = l
      BY <1>2, <1>3, <1>10, <3>1
    <3>2. CASE m # l
      BY <1>1, <1>2, <1>10, <3>2 DEF CodeInv
    <3>3. QED
      BY <3>1, <3>2
  <2>2. QED
    BY <2>1 DEF CodeInv
<1>17. ConflictIsTheEmails'
  <2>1. ASSUME NEW d \in Callbacks, call'[d].pc = "conflict"
        PROVE  call'[d].freed \/ \E u \in users' : u.id # d /\ u.email = Mail(d)'
    BY <1>1, <1>2, <1>11, <2>1 DEF ConflictIsTheEmails
  <2>2. QED
    BY <1>12, <2>1 DEF ConflictIsTheEmails, Types
<1>18. AgainInv'
  <2>1. ASSUME NEW d \in Callbacks, call'[d].pc = "again" PROVE Stuck(d)'
    BY <1>1, <1>2, <1>11, <2>1 DEF AgainInv, Stuck, Taken, Known
  <2>2. QED
    BY <2>1 DEF AgainInv
<1>19. QED
  BY <1>12, <1>13, <1>14, <1>15, <1>16, <1>17, <1>18 DEF AccountsInv

(* Someone with an account takes another name: accounts stay who they are, *)
(* and an insert that failed on the name let go is marked.                 *)
LEMMA UpdateMeKeeps == ASSUME AccountsInv, UpdateMe PROVE AccountsInv'
<1>1. Types /\ ClaimInv /\ AccountInv /\ AgainInv /\ CommittedInv /\ DemoInv /\ CodeInv /\ ConflictIsTheEmails
  BY DEF AccountsInv
<1>2. PICK u \in users, n \in 1 .. MaxName, b \in {Base[s] : s \in Subjects} :
        /\ users' = (users \ {u}) \cup {[u EXCEPT !.base = b, !.name = n]}
        /\ call' = [d \in Callbacks |->
                     [call[d] EXCEPT !.freed = @ \/ (call[d].pc = "again" /\ call[d].name = u.name
                                                       /\ Base[Subject(d)] = u.base)]]
  BY DEF UpdateMe
<1>3. UNCHANGED <<links, demo, lock, login, faults>> /\ renames' \in 0 .. MaxRenames
  BY <1>1, AccountsAssumption DEF UpdateMe, Types, TypeOK
<1>4. ASSUME NEW d \in Callbacks
      PROVE  /\ call'[d] \in Calls
             /\ call'[d].pc = call[d].pc /\ call'[d].login = call[d].login /\ call'[d].by = call[d].by
             /\ call'[d].user = call[d].user /\ call'[d].name = call[d].name /\ call'[d].made = call[d].made
             /\ call[d].freed => call'[d].freed
             /\ call[d].pc = "again" /\ call[d].name = u.name /\ Base[Subject(d)] = u.base => call'[d].freed
             /\ Subject(d)' = Subject(d) /\ Mail(d)' = Mail(d)
  <2>1. PICK freed \in BOOLEAN :
          /\ freed = (call[d].freed \/ (call[d].pc = "again" /\ call[d].name = u.name /\ Base[Subject(d)] = u.base))
          /\ call'[d] = [call[d] EXCEPT !.freed = freed]
    BY <1>2
  <2>2. call[d] \in Calls
    BY <1>1 DEF Types
  <2>3. [call[d] EXCEPT !.freed = freed] \in Calls
    BY <2>2 DEF Calls
  <2>4. call'[d].login = call[d].login
    BY <2>1, <2>2 DEF Calls
  <2>5. Subject(d)' = Subject(d)
    BY <1>3, <2>4 DEF Subject
  <2>6. QED
    BY <2>1, <2>2, <2>3, <2>4, <2>5 DEF Calls, Mail
<1>5. PICK w : w = [u EXCEPT !.base = b, !.name = n]
  OBVIOUS
<1>6. /\ users' = (users \ {u}) \cup {w}
      /\ w.id = u.id /\ w.email = u.email /\ w.name \in Nat \ {0}
  BY <1>1, <1>2, <1>5 DEF Types, TypeOK
<1>7. /\ \A v \in users : \E x \in users' : x.id = v.id /\ x.email = v.email
      /\ \A x \in users' : \E v \in users : x.id = v.id /\ x.email = v.email
  BY <1>6
<1>8. Types'
  <2>1. users' \subseteq [id : Callbacks, email : {Email[s] : s \in Subjects},
                          base : {Base[s] : s \in Subjects}, name : Nat \ {0}]
    <3>1. u \in [id : Callbacks, email : {Email[s] : s \in Subjects},
                 base : {Base[s] : s \in Subjects}, name : Nat \ {0}]
      BY <1>1 DEF Types, TypeOK
    <3>2. b \in {Base[s] : s \in Subjects} /\ n \in Nat \ {0}
      BY <1>2, AccountsAssumption
    <3>3. w \in [id : Callbacks, email : {Email[s] : s \in Subjects},
                 base : {Base[s] : s \in Subjects}, name : Nat \ {0}]
      BY <1>5, <3>1, <3>2
    <3>4. QED
      BY <1>1, <1>6, <3>3 DEF Types, TypeOK
  <2>2. \A d \in Callbacks :
          call'[d].pc \in {"idle"} \cup Running \cup Ended /\ call'[d].name \in Nat \ {0}
    BY <1>4 DEF Calls, Pcs
  <2>3. TypeOK'
    BY <1>1, <1>3, <2>1, <2>2 DEF Types, TypeOK
  <2>4. call' \in [Callbacks -> Calls]
    BY <1>2, <1>4
  <2>5. QED
    BY <1>1, <1>3, <2>3, <2>4 DEF Types
<1>9. ClaimInv'
  BY <1>1, <1>3, <1>4 DEF ClaimInv, Begun
<1>10. AccountInv'
  BY <1>1, <1>4, <1>7 DEF AccountInv
<1>11. AgainInv'
  <2>1. ASSUME NEW d \in Callbacks, call'[d].pc = "again" PROVE Stuck(d)'
    <3>1. Stuck(d)
      BY <1>1, <1>4, <2>1 DEF AgainInv
    <3>2. CASE call[d].freed
      BY <1>4, <3>2 DEF Stuck
    <3>3. CASE Known(d) # {}
      BY <1>4, <1>7, <3>3 DEF Stuck, Known
    <3>4. CASE Taken(d, call[d].name)
      <4>1. PICK v \in users : v.base = Base[Subject(d)] /\ v.name = call[d].name
        BY <3>4 DEF Taken
      <4>2. CASE v = u
        BY <1>4, <2>1, <4>1, <4>2 DEF Stuck
      <4>3. CASE v # u
        BY <1>4, <1>6, <4>1, <4>3 DEF Stuck, Taken
      <4>4. QED
        BY <4>2, <4>3
    <3>5. QED
      BY <3>1, <3>2, <3>3, <3>4 DEF Stuck
  <2>2. QED
    BY <2>1 DEF AgainInv
<1>12. CommittedInv'
  BY <1>1, <1>3, <1>4, <1>7 DEF CommittedInv
<1>13. DemoInv'
  BY <1>1, <1>3, <1>4 DEF DemoInv
<1>14. CodeInv'
  <2>1. \A l \in Logins : \A k \in login[l].codes : k.call \in Callbacks
    BY <1>1 DEF Types, LoginRecords, Codes
  <2>2. QED
    BY <1>1, <1>3, <1>4, <2>1 DEF CodeInv
<1>15. ConflictIsTheEmails'
  <2>1. ASSUME NEW d \in Callbacks, call'[d].pc = "conflict"
        PROVE  call'[d].freed \/ \E v \in users' : v.id # d /\ v.email = Mail(d)'
    BY <1>1, <1>4, <1>7, <2>1 DEF ConflictIsTheEmails
  <2>2. QED
    BY <1>8, <2>1 DEF ConflictIsTheEmails, Types
<1>16. QED
  BY <1>8, <1>9, <1>10, <1>11, <1>12, <1>13, <1>14, <1>15 DEF AccountsInv

-----------------------------------------------------------------------------
LEMMA StutterKeeps == ASSUME AccountsInv, UNCHANGED vars PROVE AccountsInv'
<1>1. UNCHANGED <<users, links, demo, lock, login, call, renames, faults>>
  BY DEF vars
<1>2. QED
  BY <1>1 DEF AccountsInv, Types, TypeOK, ClaimInv, Begun, AccountInv, AgainInv, Stuck, Taken, Known, CommittedInv, DemoInv, CodeInv,
              ConflictIsTheEmails, Mail, Subject

LEMMA NextKeeps == ASSUME AccountsInv, [Next]_vars PROVE AccountsInv'
<1>1. CASE UNCHANGED vars
  BY <1>1, StutterKeeps
<1>2. ASSUME NEW c \in Callbacks, ClaimLogin(c) \/ Step(c) \/ Fail(c) \/ Exchange(c)
      PROVE  AccountsInv'
  <2>1. CASE ClaimLogin(c)
    BY <2>1, ClaimLoginKeeps
  <2>2. CASE Step(c)
    BY <2>2, ResolveKeeps, ResolveEmailKeeps, ProvisionKeeps, LookKeeps, InsertUserKeeps, LookAgainKeeps, EnsureDemoKeeps,
        IssueCodeKeeps, CommitKeeps DEF Step
  <2>3. CASE Fail(c)
    BY <2>3, FailKeeps
  <2>4. CASE Exchange(c)
    BY <2>4, ExchangeKeeps
  <2>5. QED
    BY <1>2, <2>1, <2>2, <2>3, <2>4
<1>3. CASE UpdateMe
  BY <1>3, UpdateMeKeeps
<1>4. QED
  BY <1>1, <1>2, <1>3 DEF Next

LEMMA Invariance == Spec => []AccountsInv
<1>1. Init => AccountsInv
  BY InitHolds
<1>2. AccountsInv /\ [Next]_vars => AccountsInv'
  BY NextKeeps
<1>3. QED
  BY <1>1, <1>2, PTL DEF Spec

(* However many callbacks race, and however people rename meanwhile: a     *)
(* sign-in that ends in a conflict lost to an account of the same email,   *)
(* or failed on a name that a rename let go just then; and the demo        *)
(* workspace is made once.                                                 *)
THEOREM ConflictsAreOverEmails == Spec => []ConflictIsTheEmails
<1>1. AccountsInv => ConflictIsTheEmails
  BY DEF AccountsInv
<1>2. QED
  BY <1>1, Invariance, PTL

(* However often a callback or a code is presented, a login makes one      *)
(* session, and a code a browser was handed is for an account that is      *)
(* committed.                                                              *)
THEOREM LoginsMakeOneSession == Spec => []OneSessionPerLogin
<1>1. ASSUME AccountsInv PROVE OneSessionPerLogin
  <2>1. Types /\ AccountInv /\ CodeInv
    BY <1>1 DEF AccountsInv
  <2>2. ASSUME NEW l \in Logins, NEW k \in login[l].codes, call[k.call].pc = "handed"
        PROVE  \E u \in users : u.id = k.user
    <3>1. k.user = call[k.call].user
      BY <2>1 DEF CodeInv
    <3>2. k.call \in Callbacks
      BY <2>1 DEF Types, LoginRecords, Codes
    <3>3. QED
      BY <2>1, <2>2, <3>1, <3>2 DEF AccountInv
  <2>3. QED
    BY <2>1, <2>2 DEF OneSessionPerLogin, CodeInv
<1>2. QED
  BY <1>1, Invariance, PTL

HIDE DEF Running

-----------------------------------------------------------------------------
(* What comes after the callback: the person's session, for every value of *)
(* the constants of Sessions.                                              *)

RowRecords ==
  [root : 1 .. MaxRows, ws : Workspaces, next : 0 .. MaxRows, revoked : BOOLEAN]

TabRecords ==
  [status : {"loading", "in", "out"}, ws : Workspaces, name : 0 .. MaxEvents,
   updates : 0 .. MaxEvents, renamed : 0 .. MaxEvents, own : 0 .. MaxEvents,
   timer : BOOLEAN, ended : BOOLEAN]

ExRecords ==
  [pc : {"idle", "sent", "held", "granted", "issued", "adopting", "read", "refused"},
   kind : {"none", "refresh", "switch", "code"}, to : Workspaces, cookie : 0 .. MaxRows,
   row : 0 .. MaxRows, before : 0 .. MaxEvents, seen : 0 .. MaxEvents]

LogoutRecords == [pc : {"none", "sent", "done"}, cookie : 0 .. MaxRows]

(* What each record refers to is there: a row by then committed, a name by *)
(* then given; a tab counts each of its renames once; and a row that was   *)
(* replaced, or is of a workspace left, is not live.                       *)
RowBounds ==
  \A n \in DOMAIN rows : /\ rows[n].root <= n /\ rows[n].next <= Len(rows)
                         /\ rows[n].next # 0 => ~Live(n)
                         /\ Live(n) => rows[n].ws \in members \cup raced

ExBounds ==
  \A x \in Exchanges : /\ ex[x].cookie <= Len(rows) /\ ex[x].row <= Len(rows)
                       /\ ex[x].seen <= name
                       /\ ex[x].pc = "idle" => ex[x].kind = "none" /\ ex[x].cookie = 0
                       /\ ex[x].pc # "idle" => ex[x].kind # "none"

TabBounds ==
  \A t \in Tabs : /\ logout[t].cookie <= Len(rows)
                  /\ tab[t].name <= name /\ tab[t].renamed <= name /\ tab[t].own <= name
                  /\ tab[t].updates <= name
                  /\ tab[t].renamed # 0 => tab[t].updates < name

Bounds ==
  /\ Home \in members /\ name + sessionFaults <= MaxEvents
  /\ RowBounds /\ ExBounds /\ TabBounds

(* A token of the browser that Auth has still to take. *)
InHand(x) ==
  ex[x].pc \in {"sent", "held", "granted"} /\ ex[x].kind # "code" /\ ex[x].cookie # 0

HeldInv ==
  \A x \in Exchanges :
    /\ ex[x].pc \in {"held", "granted"} /\ ex[x].kind # "code" => ex[x].cookie # 0
    /\ ex[x].pc = "granted" => ex[x].to \in members \cup raced

(* A tab has one exchange of its cookie at a time. *)
OneSpender ==
  \A x, y \in Exchanges :
    x[1] = y[1] /\ ex[x].kind \in {"refresh", "switch"} /\ ex[y].kind \in {"refresh", "switch"}
      => x = y

(* Nobody has the row of a pair still on its way. *)
Fresh ==
  \A x \in Exchanges : ex[x].pc = "issued" =>
    /\ ex[x].row # 0 /\ ex[x].row # cookie /\ rows[ex[x].row].next = 0
    /\ \A y \in Exchanges : /\ ex[y].cookie # ex[x].row
                            /\ y # x /\ ex[y].pc = "issued" => ex[y].row # ex[x].row
    /\ \A t \in Tabs : logout[t].cookie # ex[x].row

(* Without two tabs spending one cookie at once, one exchange has a token  *)
(* in hand, a family has one row nothing replaced, and an exchange past    *)
(* the check still has the one it checked.                                 *)
OneHand ==
  \A x, y \in Exchanges : InHand(x) /\ InHand(y) /\ ex[x].cookie = ex[y].cookie => x = y

OneTip ==
  \A m, n \in DOMAIN rows :
    rows[m].root = rows[n].root /\ rows[m].next = 0 /\ rows[n].next = 0 => m = n

Checked ==
  \A x \in Exchanges : InHand(x) /\ ex[x].pc # "sent" => rows[ex[x].cookie].next = 0

AloneInv == ~overlapped => OneHand /\ OneTip /\ Checked

(* And if no answer was lost either: the browser's cookie is replaced only *)
(* while the answer with the next one is on its way, and spoiled only by   *)
(* its own sign-out or by leaving a workspace.                             *)
Replaced ==
  cookie # 0 /\ rows[cookie].next # 0 =>
    \E x \in Exchanges : ex[x].pc = "issued" /\ ex[x].kind # "code" /\ ex[x].cookie = cookie

Unspent == \A x \in Exchanges : InHand(x) => rows[ex[x].cookie].next = 0

Spoiled ==
  cookie # 0 /\ rows[cookie].next = 0 /\ ~Live(cookie) =>
    \E t \in Tabs : logout[t].pc = "done" /\ logout[t].cookie = cookie

OnItsWay == \A x \in Exchanges : ex[x].pc = "issued" => Live(ex[x].row)

KeptInv ==
  ~overlapped /\ ~lost =>
    /\ Replaced /\ Unspent
    /\ members = Workspaces => Spoiled /\ OnItsWay

(* A tab signed out with nothing in flight starts nothing by itself, and   *)
(* what a tab knows of its own renames is not newer than what it shows or  *)
(* than what a read that saw no rename will put there.                     *)
TabInv ==
  \A t \in Tabs :
    /\ tab[t].ended => /\ tab[t].status = "out" /\ ~tab[t].timer
                       /\ \A x \in Exchanges : x[1] = t => ex[x].pc = "idle"
    /\ tab[t].status # "in" => tab[t].own = 0
    /\ tab[t].status = "in" => tab[t].own <= tab[t].name

ReadInv ==
  \A x \in Exchanges : ex[x].pc # "idle" =>
    /\ ex[x].before <= tab[x[1]].updates
    /\ ex[x].pc = "read" /\ ex[x].before = tab[x[1]].updates => tab[x[1]].own <= ex[x].seen

SessionsInv ==
  /\ Settings /\ SessionsTypeOK /\ Bounds
  /\ HeldInv /\ OneSpender /\ Fresh /\ AloneInv /\ KeptInv /\ TabInv /\ ReadInv

-----------------------------------------------------------------------------
(* Lemmas about rows, records and exchanges. *)

LEMMA SeqOf ==
  ASSUME NEW R, NEW n \in Nat, NEW f \in [1 .. n -> R]
  PROVE  f \in Seq(R) /\ Len(f) = n
<1>1. f \in Seq(R)
  BY SeqDef
<1> QED
  BY <1>1, LenProperties

LEMMA SessionTypes ==
  ASSUME SessionsInv
  PROVE  /\ MaxRows \in Nat \ {0} /\ MaxEvents \in Nat /\ Home \notin Others
         /\ rows \in Seq(RowRecords) /\ Len(rows) \in Nat /\ Len(rows) <= MaxRows
         /\ rows \in [1 .. Len(rows) -> RowRecords] /\ DOMAIN rows = 1 .. Len(rows)
         /\ members \subseteq Workspaces /\ raced \subseteq Workspaces
         /\ name \in Nat /\ name <= MaxEvents /\ cookie \in Nat /\ cookie <= Len(rows)
         /\ tab \in [Tabs -> TabRecords] /\ ex \in [Exchanges -> ExRecords]
         /\ logout \in [Tabs -> LogoutRecords]
         /\ sessionFaults \in Nat /\ lost \in BOOLEAN /\ overlapped \in BOOLEAN
<1>1. rows \in Seq(RowRecords)
  BY DEF SessionsInv, SessionsTypeOK, RowRecords
<1>2. /\ Len(rows) \in Nat
      /\ rows \in [1 .. Len(rows) -> RowRecords] /\ DOMAIN rows = 1 .. Len(rows)
  BY <1>1, LenProperties
<1> QED
  BY <1>1, <1>2 DEF SessionsInv, Settings, SessionsTypeOK, TabRecords, ExRecords, LogoutRecords

(* The other way round: the types of the next state, from those of its     *)
(* parts.                                                                  *)
LEMMA SessionTypesNext ==
  ASSUME MaxRows \in Nat, MaxEvents \in Nat,
         rows' \in Seq(RowRecords), Len(rows') <= MaxRows,
         members' \subseteq Workspaces, raced' \subseteq Workspaces,
         name' \in Nat, name' <= MaxEvents, cookie' \in Nat, cookie' <= Len(rows'),
         tab' \in [Tabs -> TabRecords], ex' \in [Exchanges -> ExRecords],
         logout' \in [Tabs -> LogoutRecords],
         sessionFaults' \in Nat, sessionFaults' <= MaxEvents,
         lost' \in BOOLEAN, overlapped' \in BOOLEAN
  PROVE  SessionsTypeOK'
<1>1. Len(rows') \in Nat
  BY LenProperties
<1>2. name' \in 0 .. MaxEvents /\ cookie' \in 0 .. Len(rows') /\ sessionFaults' \in 0 .. MaxEvents
  BY <1>1
<1> QED
  BY <1>2 DEF SessionsTypeOK, RowRecords, TabRecords, ExRecords, LogoutRecords, Workspaces, Exchanges

LEMMA ExchangeTab ==
  ASSUME NEW x \in Exchanges
  PROVE  x[1] \in Tabs
BY DEF Exchanges

LEMMA SessionRanges ==
  ASSUME SessionsInv
  PROVE  /\ Len(rows) \in Nat /\ DOMAIN rows = 1 .. Len(rows) /\ cookie \in 0 .. Len(rows)
         /\ \A x \in Exchanges : ex[x].cookie \in 0 .. Len(rows) /\ ex[x].row \in 0 .. Len(rows)
         /\ \A t \in Tabs : logout[t].cookie \in 0 .. Len(rows)
         /\ \A n \in 1 .. Len(rows) : rows[n].next \in 0 .. Len(rows) /\ rows[n].root \in 1 .. n
<1>1. Len(rows) \in Nat /\ DOMAIN rows = 1 .. Len(rows) /\ cookie \in 0 .. Len(rows)
  BY SessionTypes
<1>2. \A x \in Exchanges : ex[x].cookie \in 0 .. Len(rows) /\ ex[x].row \in 0 .. Len(rows)
  BY <1>1, SessionTypes DEF SessionsInv, Bounds, ExBounds, ExRecords
<1>3. \A t \in Tabs : logout[t].cookie \in 0 .. Len(rows)
  BY <1>1, SessionTypes DEF SessionsInv, Bounds, TabBounds, LogoutRecords
<1>4. \A n \in 1 .. Len(rows) : rows[n].next \in 0 .. Len(rows) /\ rows[n].root \in 1 .. n
  BY <1>1, SessionTypes DEF SessionsInv, Bounds, RowBounds, RowRecords
<1> QED
  BY <1>1, <1>2, <1>3, <1>4

(* Rows change by what ends them alone. *)
RowsKept ==
  /\ rows' \in Seq(RowRecords) /\ Len(rows') = Len(rows) /\ DOMAIN rows' = 1 .. Len(rows)
  /\ \A i \in 1 .. Len(rows) :
       /\ rows'[i].root = rows[i].root /\ rows'[i].ws = rows[i].ws
       /\ rows'[i].next = rows[i].next
       /\ rows[i].revoked => rows'[i].revoked

(* One exchange changes. *)
ExMoves(x) ==
  /\ ex' \in [Exchanges -> ExRecords]
  /\ \A y \in Exchanges : y # x => ex'[y] = ex[y]

LEMMA RowsStay ==
  ASSUME SessionsInv, rows' = rows
  PROVE  RowsKept
BY SessionTypes DEF RowsKept

LEMMA RowsRevoked ==
  ASSUME SessionsInv, NEW b \in [1 .. Len(rows) -> BOOLEAN],
         rows' = [i \in 1 .. Len(rows) |-> [rows[i] EXCEPT !.revoked = b[i]]],
         \A i \in 1 .. Len(rows) : rows[i].revoked => b[i]
  PROVE  RowsKept /\ \A i \in 1 .. Len(rows) : rows'[i].revoked = b[i]
<1>1. rows \in [1 .. Len(rows) -> RowRecords] /\ Len(rows) \in Nat
  BY SessionTypes
<1>2. \A i \in 1 .. Len(rows) : [rows[i] EXCEPT !.revoked = b[i]] \in RowRecords
  BY <1>1 DEF RowRecords
<1>3. rows' \in [1 .. Len(rows) -> RowRecords]
  BY <1>2
<1>4. rows' \in Seq(RowRecords) /\ Len(rows') = Len(rows)
  BY <1>1, <1>3, SeqOf
<1>5. DOMAIN rows' = 1 .. Len(rows)
  BY <1>3
<1>6. \A i \in 1 .. Len(rows) :
        /\ rows'[i].root = rows[i].root /\ rows'[i].ws = rows[i].ws
        /\ rows'[i].next = rows[i].next /\ rows'[i].revoked = b[i]
  BY <1>1 DEF RowRecords
<1> QED
  BY <1>4, <1>5, <1>6 DEF RowsKept

(* An exchange on its own moves on, or is over: it takes no token it did   *)
(* not have, and has none issued.                                          *)
QuietMove(x) ==
  /\ RowsKept /\ ExMoves(x)
  /\ members' = members /\ raced' = raced /\ name' = name
  /\ cookie' = cookie /\ logout' = logout /\ overlapped' = overlapped
  /\ ex[x].pc # "idle" /\ ex'[x].pc \notin {"sent", "issued"}
  /\ ex'[x].row \in {ex[x].row, 0} /\ ex'[x].seen \in {ex[x].seen, name, 0}
  /\ \/ /\ ex'[x].pc # "idle" /\ ex'[x].kind = ex[x].kind /\ ex'[x].cookie = ex[x].cookie
        /\ ex'[x].pc \in {"held", "granted"} => ex[x].pc \in {"sent", "held", "granted"}
     \/ ex'[x].pc = "idle" /\ ex'[x].kind = "none" /\ ex'[x].cookie = 0

LEMMA Quiet ==
  ASSUME SessionsInv, NEW x \in Exchanges, QuietMove(x)
  PROVE  /\ RowBounds' /\ ExBounds' /\ OneSpender' /\ Fresh'
         /\ ~overlapped => OneHand' /\ OneTip'
         /\ Unspent => Unspent'
         /\ ex'[x].pc \notin {"held", "granted"} => HeldInv' /\ AloneInv'
         /\ ex[x].pc # "issued" /\ rows' = rows /\ lost' = lost => KeptInv'
<1>1. /\ \A y \in Exchanges : y # x => ex'[y] = ex[y]
      /\ members' = members /\ raced' = raced /\ name' = name
      /\ cookie' = cookie /\ logout' = logout /\ overlapped' = overlapped
      /\ ex'[x].pc \notin {"sent", "issued"}
      /\ ex'[x].kind \in {ex[x].kind, "none"} /\ ex'[x].cookie \in {ex[x].cookie, 0}
      /\ ex'[x].pc = "idle" => ex'[x].kind = "none" /\ ex'[x].cookie = 0
      /\ ex'[x].pc # "idle" => ex'[x].kind # "none"
      /\ InHand(x)' => InHand(x) /\ ex'[x].cookie = ex[x].cookie
  BY DEF ExMoves, QuietMove, InHand, SessionsInv, Bounds, ExBounds
<1>2. /\ DOMAIN rows' = DOMAIN rows /\ Len(rows') = Len(rows)
      /\ \A i \in DOMAIN rows :
           /\ rows'[i].root = rows[i].root /\ rows'[i].ws = rows[i].ws
           /\ rows'[i].next = rows[i].next /\ (rows[i].revoked => rows'[i].revoked)
  <2>1. DOMAIN rows = 1 .. Len(rows)
    BY SessionRanges
  <2> QED
    BY <2>1 DEF RowsKept, QuietMove
<1>3. OneSpender'
  BY <1>1 DEF OneSpender, SessionsInv
<1>4. Fresh'
  <2> SUFFICES ASSUME NEW z \in Exchanges, ex'[z].pc = "issued"
               PROVE  /\ ex'[z].row # 0 /\ ex'[z].row # cookie' /\ rows'[ex'[z].row].next = 0
                      /\ \A y \in Exchanges :
                           /\ ex'[y].cookie # ex'[z].row
                           /\ y # z /\ ex'[y].pc = "issued" => ex'[y].row # ex'[z].row
                      /\ \A t \in Tabs : logout'[t].cookie # ex'[z].row
    BY DEF Fresh
  <2>1. z # x /\ ex'[z] = ex[z]
    BY <1>1
  <2>2. /\ ex[z].row # 0 /\ ex[z].row # cookie /\ rows[ex[z].row].next = 0
        /\ \A y \in Exchanges :
             /\ ex[y].cookie # ex[z].row
             /\ y # z /\ ex[y].pc = "issued" => ex[y].row # ex[z].row
        /\ \A t \in Tabs : logout[t].cookie # ex[z].row
    BY <2>1 DEF Fresh, SessionsInv
  <2>3. ex[z].row \in DOMAIN rows
    BY <2>2, SessionRanges
  <2> QED
    BY <1>1, <1>2, <2>1, <2>2, <2>3
<1>5. ~overlapped => OneHand'
  BY <1>1 DEF OneHand, SessionsInv, AloneInv, InHand
<1>6. ~overlapped => OneTip'
  BY <1>2 DEF OneTip, SessionsInv, AloneInv
<1>7. RowBounds'
  BY <1>1, <1>2 DEF SessionsInv, Bounds, RowBounds, Live
<1>8. ExBounds'
  <2>1. ex'[x].row \in {ex[x].row, 0} /\ ex'[x].seen \in {ex[x].seen, name, 0}
    BY DEF QuietMove
  <2>2. name \in Nat /\ Len(rows) \in Nat
    BY SessionTypes
  <2>3. /\ ex[x].cookie <= Len(rows) /\ ex[x].row <= Len(rows) /\ ex[x].seen <= name
    BY DEF SessionsInv, Bounds, ExBounds
  <2>4. ex'[x].cookie <= Len(rows) /\ ex'[x].row <= Len(rows) /\ ex'[x].seen <= name
    BY <1>1, <2>1, <2>2, <2>3
  <2> QED
    BY <1>1, <1>2, <2>4 DEF SessionsInv, Bounds, ExBounds
<1>9. Unspent => Unspent'
  BY <1>1, <1>2, SessionRanges DEF Unspent, InHand
<1>10. ASSUME ex[x].pc # "issued", rows' = rows, lost' = lost PROVE KeptInv'
  <2>1. Replaced => Replaced'
    BY <1>1, <1>10 DEF Replaced
  <2>2. Spoiled => Spoiled'
    BY <1>1, <1>10 DEF Spoiled, Live
  <2>3. OnItsWay => OnItsWay'
    BY <1>1, <1>10 DEF OnItsWay, Live
  <2> QED
    BY <1>1, <1>9, <1>10, <2>1, <2>2, <2>3 DEF SessionsInv, KeptInv
<1>11. ASSUME ex'[x].pc \notin {"held", "granted"} PROVE HeldInv' /\ AloneInv'
  <2>1. HeldInv'
    BY <1>1, <1>11 DEF HeldInv, SessionsInv
  <2>2. ~overlapped => Checked'
    BY <1>1, <1>2, <1>11, SessionRanges DEF Checked, AloneInv, SessionsInv, InHand
  <2> QED
    BY <1>1, <1>5, <1>6, <2>1, <2>2 DEF AloneInv
<1> QED
  BY <1>3, <1>4, <1>5, <1>6, <1>7, <1>8, <1>9, <1>10, <1>11

(* The records an exchange starts from. *)
LEMMA NoExchangeIs ==
  ASSUME SessionsInv
  PROVE  /\ NoExchange \in ExRecords
         /\ NoExchange.pc = "idle" /\ NoExchange.kind = "none" /\ NoExchange.cookie = 0
         /\ NoExchange.row = 0 /\ NoExchange.before = 0 /\ NoExchange.seen = 0
<1>1. MaxRows \in Nat /\ MaxEvents \in Nat
  BY SessionTypes
<1> QED
  BY <1>1 DEF NoExchange, ExRecords, Workspaces

(* Renew and ChangeWorkspace. *)
LEMMA BeginKeeps ==
  ASSUME SessionsInv, NEW t \in Tabs, NEW kind \in {"refresh", "switch"},
         NEW to \in Workspaces, Begin(t, kind, to), ~Spending(t), ~tab[t].ended
  PROVE  SessionsInv'
<1> USE SessionTypes
<1>1. PICK x \in Exchanges :
        /\ x[1] = t /\ ex[x].pc = "idle"
        /\ ex' = [ex EXCEPT ![x] = [NoExchange EXCEPT !.pc = "sent", !.kind = kind, !.to = to,
                                                      !.cookie = cookie]]
        /\ overlapped' = (overlapped \/
             \E y \in Exchanges : /\ y[1] # t /\ ex[y].pc # "idle"
                                  /\ ex[y].cookie = cookie /\ kind # "code")
  BY DEF Begin
<1>2. /\ rows' = rows /\ members' = members /\ name' = name /\ raced' = raced
      /\ cookie' = cookie /\ tab' = tab /\ logout' = logout
      /\ sessionFaults' = sessionFaults /\ lost' = lost
  BY DEF Begin, server
<1>3. PICK q : q = [NoExchange EXCEPT !.pc = "sent", !.kind = kind, !.to = to,
                                      !.cookie = cookie]
  OBVIOUS
<1>4. /\ q \in ExRecords
      /\ q.pc = "sent" /\ q.kind = kind /\ q.to = to /\ q.cookie = cookie
      /\ q.row = 0 /\ q.before = 0 /\ q.seen = 0
  <2>1. /\ cookie \in 0 .. MaxRows
        /\ NoExchange \in ExRecords /\ NoExchange.row = 0
        /\ NoExchange.before = 0 /\ NoExchange.seen = 0
    BY NoExchangeIs
  <2> HIDE SessionTypes
  <2> QED
    BY <1>3, <2>1 DEF ExRecords
<1>5. /\ ex' \in [Exchanges -> ExRecords]
      /\ \A y \in Exchanges : y # x => ex'[y] = ex[y]
      /\ ex'[x].pc = "sent" /\ ex'[x].kind = kind /\ ex'[x].to = to /\ ex'[x].cookie = cookie
      /\ ex'[x].row = 0 /\ ex'[x].before = 0 /\ ex'[x].seen = 0
  BY <1>1, <1>3, <1>4
<1>6. \A y \in Exchanges : y[1] = t /\ y # x => ex[y].kind \in {"none", "code"}
  BY DEF Spending, InFlight, SessionsInv, Bounds, ExBounds, ExRecords
<1>7. overlapped' \in BOOLEAN /\ (overlapped => overlapped')
  BY <1>1
<1>8. SessionsTypeOK'
  BY <1>2, <1>5, <1>7, SessionTypesNext DEF SessionsInv, Bounds
<1>9. Bounds'
  BY <1>2, <1>5 DEF SessionsInv, Bounds, RowBounds, ExBounds, TabBounds, Live
<1>10. HeldInv'
  BY <1>2, <1>5 DEF SessionsInv, HeldInv
<1>11. OneSpender'
  BY <1>1, <1>5, <1>6 DEF SessionsInv, OneSpender
<1>12. Fresh'
  BY <1>2, <1>5 DEF SessionsInv, Fresh
<1>13. \A y \in Exchanges :
         y # x /\ ex[y].pc # "idle" /\ ex[y].kind # "code" /\ ex[y].cookie = cookie => overlapped'
  BY <1>1, <1>6 DEF SessionsInv, Bounds, ExBounds
<1>14. AloneInv'
  <2>1. ~overlapped' => OneHand'
    BY <1>2, <1>5, <1>7, <1>13 DEF SessionsInv, AloneInv, OneHand, InHand
  <2>2. ~overlapped' => OneTip' /\ Checked'
    BY <1>2, <1>5, <1>7 DEF SessionsInv, AloneInv, OneTip, Checked, InHand
  <2> QED
    BY <2>1, <2>2 DEF AloneInv
<1>15. KeptInv'
  <2> SUFFICES ASSUME ~overlapped', ~lost'
               PROVE  /\ Replaced' /\ Unspent'
                      /\ members' = Workspaces => Spoiled' /\ OnItsWay'
    BY DEF KeptInv, Workspaces
  <2>1. ~overlapped /\ ~lost
    BY <1>2, <1>7
  <2>2. Replaced /\ Unspent /\ (members = Workspaces => Spoiled /\ OnItsWay)
    BY <2>1 DEF SessionsInv, KeptInv
  <2>3. Replaced'
    BY <1>1, <1>2, <1>5, <2>2 DEF Replaced
  <2>4. cookie # 0 => rows[cookie].next = 0
    BY <1>1, <1>13, <2>2 DEF Replaced
  <2>5. Unspent'
    BY <1>2, <1>5, <2>2, <2>4 DEF Unspent, InHand
  <2>6. members' = Workspaces => Spoiled' /\ OnItsWay'
    BY <1>2, <1>5, <2>2 DEF Spoiled, OnItsWay, Live
  <2> QED
    BY <2>3, <2>5, <2>6
<1>16. TabInv'
  BY <1>1, <1>2, <1>5 DEF SessionsInv, TabInv
<1>17. ReadInv'
  BY <1>1, <1>2, <1>5, ExchangeTab DEF SessionsInv, ReadInv, TabRecords
<1> QED
  BY <1>8, <1>9, <1>10, <1>11, <1>12, <1>14, <1>15, <1>16, <1>17
  DEF SessionsInv, Settings


LEMMA CompleteSignInKeeps ==
  ASSUME SessionsInv, NEW t \in Tabs, CompleteSignIn(t)
  PROVE  SessionsInv'
<1> USE SessionTypes
<1>1. PICK x \in Exchanges :
        x[1] = t /\ ex' = [ex EXCEPT ![x] = [NoExchange EXCEPT !.pc = "sent", !.kind = "code"]]
  BY DEF CompleteSignIn
<1>2. /\ rows' = rows /\ members' = members /\ name' = name /\ raced' = raced
      /\ cookie' = cookie /\ logout' = logout /\ overlapped' = overlapped
      /\ sessionFaults' = sessionFaults /\ lost' = lost
      /\ tab' = [tab EXCEPT ![t].status = "loading", ![t].ended = FALSE]
      /\ tab[t].status = "out"
      /\ \A y \in Exchanges : y[1] = t => ex[y].pc = "idle"
  BY DEF CompleteSignIn, server, InFlight
<1>3. PICK q : q = [NoExchange EXCEPT !.pc = "sent", !.kind = "code"]
  OBVIOUS
<1>4. /\ q \in ExRecords /\ q.pc = "sent" /\ q.kind = "code" /\ q.cookie = 0
      /\ q.row = 0 /\ q.before = 0 /\ q.seen = 0
  <2>1. /\ NoExchange \in ExRecords /\ NoExchange.row = 0 /\ NoExchange.cookie = 0
        /\ NoExchange.before = 0 /\ NoExchange.seen = 0
    BY NoExchangeIs
  <2> HIDE SessionTypes
  <2> QED
    BY <1>3, <2>1 DEF ExRecords
<1>5. /\ ex' \in [Exchanges -> ExRecords]
      /\ \A y \in Exchanges : y # x => ex'[y] = ex[y]
      /\ ex'[x] = q
  BY <1>1, <1>3, <1>4
<1>6. /\ tab' \in [Tabs -> TabRecords]
      /\ \A u \in Tabs : u # t => tab'[u] = tab[u]
      /\ tab'[t].status = "loading" /\ ~tab'[t].ended /\ tab'[t].name = tab[t].name
      /\ tab'[t].updates = tab[t].updates /\ tab'[t].renamed = tab[t].renamed
      /\ tab'[t].own = tab[t].own
  BY <1>2 DEF TabRecords
<1>7. SessionsTypeOK'
  BY <1>2, <1>5, <1>6, SessionTypesNext DEF SessionsInv, Bounds
<1>8. Bounds'
  BY <1>2, <1>4, <1>5, <1>6 DEF SessionsInv, Bounds, RowBounds, ExBounds, TabBounds, Live
<1>9. HeldInv'
  BY <1>2, <1>4, <1>5 DEF SessionsInv, HeldInv
<1>10. OneSpender'
  BY <1>4, <1>5 DEF SessionsInv, OneSpender
<1>11. Fresh'
  BY <1>2, <1>4, <1>5 DEF SessionsInv, Fresh
<1>12. AloneInv'
  BY <1>2, <1>4, <1>5 DEF SessionsInv, AloneInv, OneHand, OneTip, Checked, InHand
<1>13. ex[x].pc = "idle"
  BY <1>1, <1>2
<1>14. KeptInv'
  <2>1. Replaced => Replaced'
    BY <1>2, <1>5, <1>13 DEF Replaced
  <2>2. Unspent => Unspent'
    BY <1>2, <1>4, <1>5 DEF Unspent, InHand
  <2>3. Spoiled => Spoiled'
    BY <1>2 DEF Spoiled, Live
  <2>4. OnItsWay => OnItsWay'
    BY <1>2, <1>4, <1>5 DEF OnItsWay, Live
  <2> QED
    BY <1>2, <2>1, <2>2, <2>3, <2>4 DEF SessionsInv, KeptInv
<1>15. TabInv'
  BY <1>1, <1>2, <1>5, <1>6 DEF SessionsInv, TabInv
<1>16. ReadInv'
  <2> SUFFICES ASSUME NEW y \in Exchanges, ex'[y].pc # "idle"
               PROVE  /\ ex'[y].before <= tab'[y[1]].updates
                      /\ ex'[y].pc = "read" /\ ex'[y].before = tab'[y[1]].updates =>
                           tab'[y[1]].own <= ex'[y].seen
    BY DEF ReadInv
  <2>1. y[1] \in Tabs
    BY ExchangeTab
  <2>2. CASE y = x
    <3>1. tab'[t].updates \in Nat
      BY <1>6 DEF TabRecords
    <3>2. ex'[y].before = 0 /\ ex'[y].pc = "sent" /\ y[1] = t
      BY <1>1, <1>4, <1>5, <2>2
    <3> QED
      BY <3>1, <3>2
  <2>3. CASE y # x
    BY <1>2, <1>5, <1>6, <2>1, <2>3 DEF SessionsInv, ReadInv
  <2> QED
    BY <2>2, <2>3
<1> QED
  BY <1>7, <1>8, <1>9, <1>10, <1>11, <1>12, <1>14, <1>15, <1>16 DEF SessionsInv, Settings


LEMMA RefusedIs ==
  ASSUME SessionsInv, NEW x \in Exchanges, Refused(x)
  PROVE  /\ ExMoves(x) /\ ex'[x].pc = "refused"
         /\ ex'[x].kind = ex[x].kind /\ ex'[x].cookie = ex[x].cookie /\ ex'[x].row = ex[x].row
         /\ ex'[x].before = ex[x].before /\ ex'[x].seen = ex[x].seen
BY SessionTypes DEF Refused, ExMoves, ExRecords

LEMMA OverIs ==
  ASSUME SessionsInv, NEW x \in Exchanges, ex' = [ex EXCEPT ![x] = NoExchange]
  PROVE  /\ ExMoves(x) /\ ex'[x].pc = "idle"
         /\ ex'[x].kind = "none" /\ ex'[x].cookie = 0 /\ ex'[x].row = 0
         /\ ex'[x].before = 0 /\ ex'[x].seen = 0
BY SessionTypes, NoExchangeIs DEF ExMoves

LEMMA GrantKeeps ==
  ASSUME SessionsInv, NEW x \in Exchanges, Grant(x)
  PROVE  SessionsInv'
<1>1. /\ rows' = rows /\ members' = members /\ name' = name /\ raced' = raced
      /\ cookie' = cookie /\ tab' = tab /\ logout' = logout /\ overlapped' = overlapped
      /\ sessionFaults' = sessionFaults /\ lost' = lost /\ ex[x].pc = "held"
  BY DEF Grant, server
<1>2. \/ Refused(x)
      \/ \E w \in members : ex' = [ex EXCEPT ![x].pc = "granted", ![x].to = w]
  <2>1. DefaultMembership \in members
    BY DEF DefaultMembership, SessionsInv, Bounds
  <2> QED
    BY <2>1 DEF Grant
<1>3. /\ ExMoves(x) /\ ex'[x].pc \in {"refused", "granted"}
      /\ ex'[x].kind = ex[x].kind /\ ex'[x].cookie = ex[x].cookie /\ ex'[x].row = ex[x].row
      /\ ex'[x].before = ex[x].before /\ ex'[x].seen = ex[x].seen
      /\ ex'[x].pc = "granted" => ex'[x].to \in members
  <2>1. CASE Refused(x)
    BY <2>1, RefusedIs
  <2>2. ASSUME NEW w \in members, ex' = [ex EXCEPT ![x].pc = "granted", ![x].to = w]
        PROVE  /\ ExMoves(x) /\ ex'[x].pc = "granted" /\ ex'[x].to = w
               /\ ex'[x].kind = ex[x].kind /\ ex'[x].cookie = ex[x].cookie
               /\ ex'[x].row = ex[x].row
               /\ ex'[x].before = ex[x].before /\ ex'[x].seen = ex[x].seen
    BY <2>2, SessionTypes DEF ExMoves, ExRecords
  <2> QED
    BY <1>2, <2>1, <2>2
<1>4. QuietMove(x)
  BY <1>1, <1>3, RowsStay DEF QuietMove
<1>5. /\ RowBounds' /\ ExBounds' /\ OneSpender' /\ Fresh' /\ KeptInv'
      /\ ~overlapped => OneHand' /\ OneTip'
  BY <1>1, <1>4, Quiet
<1>6. SessionsTypeOK'
  BY <1>1, <1>3, SessionTypes, SessionTypesNext DEF SessionsInv, Bounds, ExMoves
<1>7. Bounds'
  BY <1>1, <1>5 DEF SessionsInv, Bounds, TabBounds
<1>8. HeldInv'
  BY <1>1, <1>3 DEF SessionsInv, HeldInv, ExMoves
<1>9. AloneInv'
  <2>1. ~overlapped => Checked'
    BY <1>1, <1>3 DEF SessionsInv, AloneInv, Checked, ExMoves, InHand
  <2> QED
    BY <1>1, <1>5, <2>1 DEF AloneInv
<1>10. TabInv'
  BY <1>1, <1>3 DEF SessionsInv, TabInv, ExMoves
<1>11. ReadInv'
  BY <1>1, <1>3 DEF SessionsInv, ReadInv, ExMoves
<1> QED
  BY <1>5, <1>6, <1>7, <1>8, <1>9, <1>10, <1>11 DEF SessionsInv, Settings

LEMMA ReadProfileKeeps ==
  ASSUME SessionsInv, NEW x \in Exchanges, ReadProfile(x)
  PROVE  SessionsInv'
<1>1. /\ rows' = rows /\ members' = members /\ name' = name /\ raced' = raced
      /\ cookie' = cookie /\ tab' = tab /\ logout' = logout /\ overlapped' = overlapped
      /\ sessionFaults' = sessionFaults /\ lost' = lost /\ ex[x].pc = "adopting"
      /\ ex' = [ex EXCEPT ![x].pc = "read", ![x].seen = name]
  BY DEF ReadProfile, server, Me
<1>2. name \in 0 .. MaxEvents /\ ex \in [Exchanges -> ExRecords]
  BY SessionTypes
<1>3. /\ ExMoves(x) /\ ex'[x].pc = "read" /\ ex'[x].seen = name
      /\ ex'[x].kind = ex[x].kind /\ ex'[x].cookie = ex[x].cookie /\ ex'[x].row = ex[x].row
      /\ ex'[x].before = ex[x].before
  BY <1>1, <1>2 DEF ExMoves, ExRecords
<1>4. QuietMove(x)
  BY <1>1, <1>3, RowsStay DEF QuietMove
<1>5. /\ RowBounds' /\ ExBounds' /\ OneSpender' /\ Fresh' /\ KeptInv'
      /\ ~overlapped => OneHand' /\ OneTip'
  BY <1>1, <1>4, Quiet
<1>6. SessionsTypeOK'
  BY <1>1, <1>3, SessionTypes, SessionTypesNext DEF SessionsInv, Bounds, ExMoves
<1>7. Bounds'
  BY <1>1, <1>5 DEF SessionsInv, Bounds, TabBounds
<1>8. HeldInv'
  BY <1>1, <1>3 DEF SessionsInv, HeldInv, ExMoves
<1>9. AloneInv'
  <2>1. ~overlapped => Checked'
    BY <1>1, <1>3 DEF SessionsInv, AloneInv, Checked, ExMoves, InHand
  <2> QED
    BY <1>1, <1>5, <2>1 DEF AloneInv
<1>10. TabInv'
  BY <1>1, <1>3 DEF SessionsInv, TabInv, ExMoves
<1>11. ReadInv'
  <2>1. tab[x[1]].own <= name
    BY ExchangeTab DEF SessionsInv, Bounds, TabBounds
  <2> QED
    BY <1>1, <1>3, <2>1 DEF SessionsInv, ReadInv, ExMoves
<1> QED
  BY <1>5, <1>6, <1>7, <1>8, <1>9, <1>10, <1>11 DEF SessionsInv, Settings


LEMMA AdoptKeeps ==
  ASSUME SessionsInv, NEW x \in Exchanges, Adopt(x)
  PROVE  SessionsInv'
<1> DEFINE t == x[1]
<1>1. PICK shown :
        /\ shown = IF tab[t].updates # ex[x].before /\ tab[t].status = "in" THEN tab[t].name
                   ELSE ex[x].seen
        /\ tab' = [tab EXCEPT ![t].status = "in", ![t].ws = ex[x].to, ![t].timer = TRUE,
                              ![t].name = shown]
  BY DEF Adopt, Adopted
<1>2. /\ rows' = rows /\ members' = members /\ name' = name /\ raced' = raced
      /\ cookie' = cookie /\ logout' = logout /\ overlapped' = overlapped
      /\ sessionFaults' = sessionFaults /\ lost' = lost /\ ex[x].pc = "read"
      /\ ex' = [ex EXCEPT ![x] = NoExchange]
  BY DEF Adopt, Adopted, server
<1>3. t \in Tabs
  BY ExchangeTab
<1>4. /\ shown \in 0 .. MaxEvents /\ shown <= name
      /\ tab[t].own <= shown /\ ~tab[t].ended
  <2>1. /\ tab[t].name \in 0 .. MaxEvents /\ ex[x].seen \in 0 .. MaxEvents
        /\ tab[t].own \in Nat
    BY <1>3, SessionTypes DEF TabRecords, ExRecords
  <2>2. tab[t].name <= name /\ ex[x].seen <= name
    BY <1>3 DEF SessionsInv, Bounds, TabBounds, ExBounds
  <2>3. /\ tab[t].status # "in" => tab[t].own = 0
        /\ tab[t].status = "in" => tab[t].own <= tab[t].name
        /\ tab[t].ended => ex[x].pc = "idle"
    BY <1>3 DEF SessionsInv, TabInv
  <2>4. ex[x].before = tab[t].updates => tab[t].own <= ex[x].seen
    BY <1>2 DEF SessionsInv, ReadInv
  <2> QED
    BY <1>1, <1>2, <2>1, <2>2, <2>3, <2>4
<1>5. /\ tab' \in [Tabs -> TabRecords]
      /\ \A u \in Tabs : u # t => tab'[u] = tab[u]
      /\ tab'[t].status = "in" /\ tab'[t].name = shown /\ tab'[t].updates = tab[t].updates
      /\ tab'[t].renamed = tab[t].renamed /\ tab'[t].own = tab[t].own
      /\ tab'[t].ended = tab[t].ended
  <2>1. tab \in [Tabs -> TabRecords] /\ ex[x].to \in Workspaces
    BY SessionTypes DEF ExRecords
  <2> QED
    BY <1>1, <1>3, <1>4, <2>1 DEF TabRecords
<1> HIDE DEF t
<1>6. /\ ExMoves(x) /\ ex'[x].pc = "idle"
      /\ ex'[x].kind = "none" /\ ex'[x].cookie = 0 /\ ex'[x].row = 0
      /\ ex'[x].before = 0 /\ ex'[x].seen = 0
  BY <1>2, OverIs
<1>7. QuietMove(x)
  BY <1>2, <1>6, RowsStay DEF QuietMove
<1>8. /\ RowBounds' /\ ExBounds' /\ OneSpender' /\ Fresh' /\ KeptInv'
      /\ HeldInv' /\ AloneInv'
  BY <1>2, <1>6, <1>7, Quiet
<1>9. SessionsTypeOK'
  BY <1>2, <1>5, <1>6, SessionTypes, SessionTypesNext DEF SessionsInv, Bounds, ExMoves
<1>10. Bounds'
  BY <1>2, <1>4, <1>5, <1>8 DEF SessionsInv, Bounds, TabBounds
<1>11. TabInv'
  BY <1>4, <1>5, <1>6 DEF SessionsInv, TabInv, ExMoves
<1>12. ReadInv'
  <2> SUFFICES ASSUME NEW y \in Exchanges, ex'[y].pc # "idle"
               PROVE  /\ ex'[y].before <= tab'[y[1]].updates
                      /\ ex'[y].pc = "read" /\ ex'[y].before = tab'[y[1]].updates =>
                           tab'[y[1]].own <= ex'[y].seen
    BY DEF ReadInv
  <2>1. ex'[y] = ex[y] /\ y[1] \in Tabs
    BY <1>6, ExchangeTab DEF ExMoves
  <2>2. tab'[y[1]].updates = tab[y[1]].updates /\ tab'[y[1]].own = tab[y[1]].own
    BY <1>5, <2>1
  <2> QED
    BY <2>1, <2>2 DEF SessionsInv, ReadInv
<1> QED
  BY <1>8, <1>9, <1>10, <1>11, <1>12 DEF SessionsInv, Settings

(* A tab signs out. *)
LEMMA SignedOutIs ==
  ASSUME SessionsInv, NEW t \in Tabs, NEW e \in BOOLEAN, SignedOut(t, e)
  PROVE  /\ tab' \in [Tabs -> TabRecords]
         /\ \A u \in Tabs : u # t => tab'[u] = tab[u]
         /\ tab'[t].status = "out" /\ tab'[t].own = 0 /\ ~tab'[t].timer /\ tab'[t].ended = e
         /\ tab'[t].updates = tab[t].updates /\ tab'[t].name = tab[t].name
         /\ tab'[t].renamed = tab[t].renamed
<1>1. tab \in [Tabs -> TabRecords] /\ MaxEvents \in Nat
  BY SessionTypes
<1>2. PICK r : r = [tab[t] EXCEPT !.status = "out", !.own = 0, !.timer = FALSE, !.ended = e]
  OBVIOUS
<1>3. tab' = [tab EXCEPT ![t] = r]
  BY <1>1, <1>2, Zenon DEF SignedOut
<1>4. tab[t] \in TabRecords
  BY <1>1
<1>5. r \in TabRecords
  <2>1. PICK a \in TabRecords : a = [tab[t] EXCEPT !.status = "out"]
    BY <1>4 DEF TabRecords
  <2>2. PICK b \in TabRecords : b = [a EXCEPT !.own = 0]
    <3>1. 0 \in 0 .. MaxEvents
      BY <1>1
    <3> QED
      BY <3>1 DEF TabRecords
  <2>3. PICK c \in TabRecords : c = [b EXCEPT !.timer = FALSE]
    BY DEF TabRecords
  <2>4. [c EXCEPT !.ended = e] \in TabRecords
    BY DEF TabRecords
  <2> QED
    BY <1>2, <2>1, <2>2, <2>3, <2>4
<1>6. /\ r.status = "out" /\ r.own = 0 /\ ~r.timer /\ r.ended = e
      /\ r.updates = tab[t].updates /\ r.name = tab[t].name /\ r.renamed = tab[t].renamed
  BY <1>2, <1>4 DEF TabRecords
<1> QED
  BY <1>1, <1>3, <1>5, <1>6

LEMMA TabFailKeeps ==
  ASSUME SessionsInv, NEW x \in Exchanges, FailExchange(x)
  PROVE  SessionsInv'
<1> DEFINE t == x[1]
<1>1. t \in Tabs
  BY ExchangeTab
<1>2. /\ rows' = rows /\ members' = members /\ name' = name /\ raced' = raced
      /\ cookie' = cookie /\ logout' = logout /\ overlapped' = overlapped
      /\ sessionFaults' = sessionFaults /\ lost' = lost /\ ex[x].pc = "refused"
      /\ SignedOut(t, tab[t].ended) /\ ex' = [ex EXCEPT ![x] = NoExchange]
  BY DEF FailExchange, server
<1>3. tab[t].ended \in BOOLEAN /\ ~tab[t].ended
  BY <1>1, <1>2, SessionTypes DEF SessionsInv, TabInv, TabRecords
<1>4. /\ tab' \in [Tabs -> TabRecords]
      /\ \A u \in Tabs : u # t => tab'[u] = tab[u]
      /\ tab'[t].status = "out" /\ tab'[t].own = 0 /\ ~tab'[t].timer /\ ~tab'[t].ended
      /\ tab'[t].updates = tab[t].updates /\ tab'[t].name = tab[t].name
      /\ tab'[t].renamed = tab[t].renamed
  BY <1>1, <1>2, <1>3, SignedOutIs
<1> HIDE DEF t
<1>5. /\ ExMoves(x) /\ ex'[x].pc = "idle"
      /\ ex'[x].kind = "none" /\ ex'[x].cookie = 0 /\ ex'[x].row = 0
      /\ ex'[x].before = 0 /\ ex'[x].seen = 0
  BY <1>2, OverIs
<1>6. QuietMove(x)
  BY <1>2, <1>5, RowsStay DEF QuietMove
<1>7. /\ RowBounds' /\ ExBounds' /\ OneSpender' /\ Fresh' /\ KeptInv'
      /\ HeldInv' /\ AloneInv'
  BY <1>2, <1>5, <1>6, Quiet
<1>8. SessionsTypeOK'
  BY <1>2, <1>4, <1>5, SessionTypes, SessionTypesNext DEF SessionsInv, Bounds, ExMoves
<1>9. Bounds'
  BY <1>1, <1>2, <1>4, <1>7, SessionTypes DEF SessionsInv, Bounds, TabBounds
<1>10. TabInv'
  BY <1>4, <1>5 DEF SessionsInv, TabInv, ExMoves
<1>11. ReadInv'
  <2> SUFFICES ASSUME NEW y \in Exchanges, ex'[y].pc # "idle"
               PROVE  /\ ex'[y].before <= tab'[y[1]].updates
                      /\ ex'[y].pc = "read" /\ ex'[y].before = tab'[y[1]].updates =>
                           tab'[y[1]].own <= ex'[y].seen
    BY DEF ReadInv
  <2>1. ex'[y] = ex[y] /\ y[1] \in Tabs
    BY <1>5, ExchangeTab DEF ExMoves
  <2>2. ex[y].seen \in Nat
    BY SessionTypes DEF ExRecords
  <2>3. tab'[y[1]].updates = tab[y[1]].updates /\ tab'[y[1]].own \in {0, tab[y[1]].own}
    BY <1>4, <2>1
  <2> QED
    BY <2>1, <2>2, <2>3 DEF SessionsInv, ReadInv
<1> QED
  BY <1>7, <1>8, <1>9, <1>10, <1>11 DEF SessionsInv, Settings


LEMMA LoseKeeps ==
  ASSUME SessionsInv, NEW x \in Exchanges, Lose(x)
  PROVE  SessionsInv'
<1>1. /\ rows' = rows /\ members' = members /\ name' = name /\ raced' = raced
      /\ cookie' = cookie /\ tab' = tab /\ logout' = logout /\ overlapped' = overlapped
      /\ sessionFaults' = sessionFaults + 1 /\ name + sessionFaults < MaxEvents
      /\ lost' = (lost \/ ex[x].pc = "issued")
      /\ ex[x].pc \in {"sent", "issued", "adopting"} /\ Refused(x)
  BY DEF Lose, server
<1>2. /\ ExMoves(x) /\ ex'[x].pc = "refused"
      /\ ex'[x].kind = ex[x].kind /\ ex'[x].cookie = ex[x].cookie /\ ex'[x].row = ex[x].row
      /\ ex'[x].before = ex[x].before /\ ex'[x].seen = ex[x].seen
  BY <1>1, RefusedIs
<1>3. QuietMove(x)
  BY <1>1, <1>2, RowsStay DEF QuietMove
<1>4. /\ RowBounds' /\ ExBounds' /\ OneSpender' /\ Fresh' /\ HeldInv' /\ AloneInv'
      /\ ex[x].pc # "issued" /\ rows' = rows /\ lost' = lost => KeptInv'
  BY <1>1, <1>2, <1>3, Quiet
<1>5. KeptInv'
  <2>1. CASE ex[x].pc = "issued"
    BY <1>1, <2>1 DEF KeptInv
  <2>2. CASE ex[x].pc # "issued"
    <3>1. lost' = lost
      BY <1>1, <2>2, SessionTypes
    <3> QED
      BY <1>1, <1>4, <2>2, <3>1
  <2> QED
    BY <2>1, <2>2
<1>6. /\ sessionFaults' \in Nat /\ name' + sessionFaults' <= MaxEvents /\ lost' \in BOOLEAN
      /\ sessionFaults' <= MaxEvents
  BY <1>1, SessionTypes
<1>7. SessionsTypeOK'
  BY <1>1, <1>2, <1>6, SessionTypes, SessionTypesNext DEF ExMoves
<1>8. Bounds'
  BY <1>1, <1>4, <1>6 DEF SessionsInv, Bounds, TabBounds
<1>9. TabInv'
  BY <1>1, <1>2 DEF SessionsInv, TabInv, ExMoves
<1>10. ReadInv'
  BY <1>1, <1>2 DEF SessionsInv, ReadInv, ExMoves
<1> QED
  BY <1>4, <1>5, <1>7, <1>8, <1>9, <1>10 DEF SessionsInv, Settings

(* The replay of a spent token, without lost answers and overlaps, cannot  *)
(* happen: the token in hand is unspent.                                   *)
LEMMA SpendKeeps ==
  ASSUME SessionsInv, NEW x \in Exchanges, Spend(x)
  PROVE  SessionsInv'
<1> DEFINE n == ex[x].cookie
<1>1. /\ members' = members /\ name' = name /\ raced' = raced
      /\ cookie' = cookie /\ tab' = tab /\ logout' = logout /\ overlapped' = overlapped
      /\ sessionFaults' = sessionFaults /\ lost' = lost /\ ex[x].pc = "sent"
  BY DEF Spend
<1>2. \/ rows' = rows /\ Refused(x)
      \/ /\ rows' = rows /\ ex' = [ex EXCEPT ![x].pc = "held"]
         /\ ex[x].kind # "code" => n # 0 /\ rows[n].next = 0
      \/ /\ ex[x].kind # "code" /\ n # 0 /\ rows[n].next # 0 /\ Refused(x)
         /\ rows' = [i \in DOMAIN rows |->
                       [rows[i] EXCEPT !.revoked = @ \/ i \in Chain(n)]]
  BY Zenon DEF Spend
<1>3. RowsKept
  <2>1. ASSUME rows' = [i \in DOMAIN rows |->
                          [rows[i] EXCEPT !.revoked = @ \/ i \in Chain(n)]]
        PROVE  RowsKept
    <3> DEFINE b == [i \in 1 .. Len(rows) |-> rows[i].revoked \/ i \in Chain(n)]
    <3>1. DOMAIN rows = 1 .. Len(rows)
      BY SessionTypes
    <3>2. b \in [1 .. Len(rows) -> BOOLEAN]
      OBVIOUS
    <3>3. \A i \in 1 .. Len(rows) : b[i] = (rows[i].revoked \/ i \in Chain(n))
      BY Zenon
    <3>4. \A i \in 1 .. Len(rows) : rows[i].revoked => b[i]
      BY <3>3, Zenon
    <3>5. rows' = [i \in 1 .. Len(rows) |-> [rows[i] EXCEPT !.revoked = b[i]]]
      BY <2>1, <3>1, <3>3, Zenon
    <3> HIDE DEF b
    <3> QED
      BY <3>2, <3>4, <3>5, RowsRevoked
  <2> QED
    BY <1>2, <2>1, RowsStay
<1>4. /\ ExMoves(x) /\ ex'[x].pc \in {"refused", "held"}
      /\ ex'[x].kind = ex[x].kind /\ ex'[x].cookie = ex[x].cookie /\ ex'[x].row = ex[x].row
      /\ ex'[x].before = ex[x].before /\ ex'[x].seen = ex[x].seen
      /\ ex'[x].pc = "held" /\ ex[x].kind # "code" => n # 0 /\ rows[n].next = 0
  <2>1. CASE Refused(x)
    BY <2>1, RefusedIs
  <2>2. ASSUME ex' = [ex EXCEPT ![x].pc = "held"]
        PROVE  /\ ExMoves(x) /\ ex'[x].pc = "held"
               /\ ex'[x].kind = ex[x].kind /\ ex'[x].cookie = ex[x].cookie
               /\ ex'[x].row = ex[x].row
               /\ ex'[x].before = ex[x].before /\ ex'[x].seen = ex[x].seen
    BY <2>2, SessionTypes DEF ExMoves, ExRecords
  <2> QED
    BY <1>2, <2>1, <2>2
<1>5. QuietMove(x)
  BY <1>1, <1>3, <1>4 DEF QuietMove
<1>6. /\ RowBounds' /\ ExBounds' /\ OneSpender' /\ Fresh'
      /\ ~overlapped => OneHand' /\ OneTip'
      /\ Unspent => Unspent'
      /\ rows' = rows => KeptInv'
  BY <1>1, <1>5, Quiet
<1>7. SessionsTypeOK'
  BY <1>1, <1>3, <1>4, SessionTypes, SessionTypesNext DEF SessionsInv, Bounds, ExMoves, RowsKept
<1>8. Bounds'
  BY <1>1, <1>3, <1>6 DEF SessionsInv, Bounds, TabBounds, RowsKept
<1>9. HeldInv'
  BY <1>1, <1>4 DEF SessionsInv, HeldInv, ExMoves
<1>10. AloneInv'
  <2>1. \A i \in 1 .. Len(rows) : rows'[i].next = rows[i].next
    BY <1>3 DEF RowsKept
  <2>2. ~overlapped => Checked'
    BY <1>1, <1>4, <2>1, SessionRanges DEF SessionsInv, AloneInv, Checked, ExMoves, InHand
  <2> QED
    BY <1>1, <1>6, <2>2 DEF AloneInv
<1>11. KeptInv'
  <2>1. CASE rows' = rows
    BY <1>6, <2>1
  <2>2. CASE ex[x].kind # "code" /\ n # 0 /\ rows[n].next # 0
    BY <1>1, <2>2 DEF SessionsInv, KeptInv, Unspent, InHand
  <2> QED
    BY <1>2, <2>1, <2>2
<1>12. TabInv'
  BY <1>1, <1>4 DEF SessionsInv, TabInv, ExMoves
<1>13. ReadInv'
  BY <1>1, <1>4 DEF SessionsInv, ReadInv, ExMoves
<1> QED
  BY <1>6, <1>7, <1>8, <1>9, <1>10, <1>11, <1>12, <1>13 DEF SessionsInv, Settings


LEMMA AnsweredKeeps ==
  ASSUME SessionsInv, NEW x \in Exchanges, Answered(x)
  PROVE  SessionsInv'
<1> DEFINE r == ex[x].row
           t == x[1]
<1>1. /\ rows' = rows /\ members' = members /\ name' = name /\ raced' = raced
      /\ cookie' = r /\ tab' = tab /\ logout' = logout /\ overlapped' = overlapped
      /\ sessionFaults' = sessionFaults /\ lost' = lost /\ ex[x].pc = "issued"
      /\ ex' = [ex EXCEPT ![x].pc = "adopting", ![x].before = tab[t].updates]
  BY DEF Answered, SetCookie, server
<1>2. t \in Tabs /\ tab[t].updates \in 0 .. MaxEvents
  BY ExchangeTab, SessionTypes DEF TabRecords
<1>3. /\ ExMoves(x) /\ ex'[x].pc = "adopting" /\ ex'[x].before = tab[t].updates
      /\ ex'[x].kind = ex[x].kind /\ ex'[x].cookie = ex[x].cookie /\ ex'[x].row = ex[x].row
      /\ ex'[x].seen = ex[x].seen
  <2>1. ex \in [Exchanges -> ExRecords]
    BY SessionTypes
  <2> QED
    BY <1>1, <1>2, <2>1 DEF ExMoves, ExRecords
<1>4. r \in 1 .. Len(rows) /\ rows[r].next = 0
  BY <1>1, SessionRanges DEF SessionsInv, Fresh
<1>5. SessionsTypeOK'
  BY <1>1, <1>3, <1>4, SessionTypes, SessionTypesNext DEF SessionsInv, Bounds, ExMoves
<1>6. Bounds'
  BY <1>1, <1>3 DEF SessionsInv, Bounds, RowBounds, ExBounds, TabBounds, ExMoves, Live
<1>7. HeldInv'
  BY <1>1, <1>3 DEF SessionsInv, HeldInv, ExMoves
<1>8. OneSpender'
  BY <1>3 DEF SessionsInv, OneSpender, ExMoves
<1>9. Fresh'
  <2> SUFFICES ASSUME NEW z \in Exchanges, ex'[z].pc = "issued"
               PROVE  /\ ex'[z].row # 0 /\ ex'[z].row # cookie' /\ rows'[ex'[z].row].next = 0
                      /\ \A y \in Exchanges :
                           /\ ex'[y].cookie # ex'[z].row
                           /\ y # z /\ ex'[y].pc = "issued" => ex'[y].row # ex'[z].row
                      /\ \A u \in Tabs : logout'[u].cookie # ex'[z].row
    BY DEF Fresh
  <2>1. z # x /\ ex'[z] = ex[z]
    BY <1>3 DEF ExMoves
  <2>2. /\ ex[z].row # 0 /\ rows[ex[z].row].next = 0
        /\ \A y \in Exchanges :
             /\ ex[y].cookie # ex[z].row
             /\ y # z /\ ex[y].pc = "issued" => ex[y].row # ex[z].row
        /\ \A u \in Tabs : logout[u].cookie # ex[z].row
    BY <2>1 DEF Fresh, SessionsInv
  <2> QED
    BY <1>1, <1>3, <2>1, <2>2 DEF ExMoves
<1>10. AloneInv'
  BY <1>1, <1>3 DEF SessionsInv, AloneInv, OneHand, OneTip, Checked, InHand, ExMoves
<1>11. KeptInv'
  <2>1. Replaced'
    BY <1>1, <1>4 DEF Replaced
  <2>2. Unspent => Unspent'
    BY <1>1, <1>3 DEF Unspent, InHand, ExMoves
  <2>3. OnItsWay => Spoiled'
    BY <1>1 DEF Spoiled, OnItsWay, Live
  <2>4. OnItsWay => OnItsWay'
    BY <1>1, <1>3 DEF OnItsWay, Live, ExMoves
  <2> QED
    BY <1>1, <2>1, <2>2, <2>3, <2>4 DEF SessionsInv, KeptInv
<1>12. TabInv'
  BY <1>1, <1>3 DEF SessionsInv, TabInv, ExMoves
<1>13. ReadInv'
  BY <1>1, <1>2, <1>3 DEF SessionsInv, ReadInv, ExMoves
<1> QED
  BY <1>5, <1>6, <1>7, <1>8, <1>9, <1>10, <1>11, <1>12, <1>13 DEF SessionsInv, Settings

(* One more row, and the one it replaces, if it does, retired. *)
LEMMA RotateRows ==
  ASSUME SessionsInv, NEW x \in Exchanges, Rotate(x)
  PROVE  /\ rows' \in Seq(RowRecords) /\ Len(rows') = Len(rows) + 1
         /\ DOMAIN rows' = 1 .. Len(rows) + 1 /\ Len(rows) + 1 <= MaxRows
         /\ rows'[Len(rows) + 1].next = 0 /\ ~rows'[Len(rows) + 1].revoked
         /\ rows'[Len(rows) + 1].ws = ex[x].to
         /\ rows'[Len(rows) + 1].root =
              IF ex[x].kind = "code" THEN Len(rows) + 1 ELSE rows[ex[x].cookie].root
         /\ \A i \in 1 .. Len(rows) :
              IF ex[x].kind # "code" /\ i = ex[x].cookie
              THEN /\ rows'[i].root = rows[i].root /\ rows'[i].ws = rows[i].ws
                   /\ rows'[i].next = Len(rows) + 1 /\ rows'[i].revoked
              ELSE rows'[i] = rows[i]
<1> DEFINE n == ex[x].cookie
           new == Len(rows) + 1
           old == IF ex[x].kind = "code" THEN rows
                  ELSE [rows EXCEPT ![n].next = new, ![n].revoked = TRUE]
           root == IF ex[x].kind = "code" THEN new ELSE rows[n].root
           row == Row(root, ex[x].to)
<1>1. /\ rows \in Seq(RowRecords) /\ rows \in [1 .. Len(rows) -> RowRecords]
      /\ Len(rows) \in Nat /\ ex[x] \in ExRecords /\ MaxRows \in Nat
  BY SessionTypes
<1>2. Len(rows) < MaxRows /\ new \in 1 .. MaxRows /\ ex[x].pc = "granted"
  BY <1>1 DEF Rotate
<1>3. ex[x].kind # "code" => n \in 1 .. Len(rows)
  BY <1>2, SessionRanges DEF SessionsInv, HeldInv
<1>4. rows' = Append(old, row)
  BY DEF Rotate, Issue
<1>5. root \in 1 .. MaxRows
  <2>1. CASE ex[x].kind = "code"
    BY <1>2, <2>1
  <2>2. CASE ex[x].kind # "code"
    <3>1. rows[n] \in RowRecords
      BY <1>1, <1>3, <2>2
    <3> QED
      BY <2>2, <3>1 DEF RowRecords
  <2> QED
    BY <2>1, <2>2
<1>6. /\ row \in RowRecords /\ row.next = 0 /\ ~row.revoked /\ row.ws = ex[x].to
      /\ row.root = root
  <2>1. ex[x].to \in Workspaces
    BY <1>1 DEF ExRecords
  <2> HIDE DEF root
  <2> QED
    BY <1>1, <1>5, <2>1 DEF RowRecords, Row
<1>7. /\ old \in Seq(RowRecords) /\ Len(old) = Len(rows)
      /\ \A i \in 1 .. Len(rows) :
           IF ex[x].kind # "code" /\ i = n
           THEN /\ old[i].root = rows[i].root /\ old[i].ws = rows[i].ws
                /\ old[i].next = new /\ old[i].revoked
           ELSE old[i] = rows[i]
  <2>1. CASE ex[x].kind = "code"
    BY <1>1, <2>1
  <2>2. CASE ex[x].kind # "code"
    <3>1. PICK r : r = [rows[n] EXCEPT !.next = new, !.revoked = TRUE]
      OBVIOUS
    <3>2. rows[n] \in RowRecords
      BY <1>1, <1>3, <2>2
    <3>3. r \in RowRecords
      <4>1. new \in 0 .. MaxRows
        BY <1>1, <1>2
      <4> HIDE DEF n, new
      <4>2. PICK a \in RowRecords : a = [rows[n] EXCEPT !.next = new]
        BY <3>2, <4>1 DEF RowRecords
      <4>3. [a EXCEPT !.revoked = TRUE] \in RowRecords
        BY DEF RowRecords
      <4> QED
        BY <3>1, <4>2, <4>3
    <3> HIDE DEF n
    <3>4. r.root = rows[n].root /\ r.ws = rows[n].ws /\ r.next = new /\ r.revoked
      BY <3>1, <3>2 DEF RowRecords
    <3>5. old = [rows EXCEPT ![n] = r]
      <4>1. rows = [i \in 1 .. Len(rows) |-> rows[i]] /\ n \in 1 .. Len(rows)
        BY <1>1, <1>3, <2>2
      <4>2. old = [rows EXCEPT ![n].next = new, ![n].revoked = TRUE]
        BY <2>2
      <4> QED
        BY <3>1, <4>1, <4>2
    <3> HIDE DEF old, new
    <3>6. old \in [1 .. Len(rows) -> RowRecords]
      BY <1>1, <3>3, <3>5
    <3>7. old \in Seq(RowRecords) /\ Len(old) = Len(rows)
      BY <1>1, <3>6, SeqOf
    <3> QED
      BY <1>1, <1>3, <2>2, <3>4, <3>5, <3>7
  <2> QED
    BY <2>1, <2>2
<1> HIDE DEF old, row, root
<1>8. /\ Append(old, row) \in Seq(RowRecords) /\ Len(Append(old, row)) = Len(old) + 1
      /\ \A i \in 1 .. Len(old) : Append(old, row)[i] = old[i]
      /\ Append(old, row)[Len(old) + 1] = row
  BY <1>6, <1>7, AppendProperties
<1>9. /\ rows' \in Seq(RowRecords) /\ Len(rows') = new
      /\ \A i \in 1 .. Len(rows) : rows'[i] = old[i]
      /\ rows'[new] = row
  BY <1>4, <1>7, <1>8
<1>10. DOMAIN rows' = 1 .. new
  BY <1>9, LenProperties
<1> QED
  BY <1>1, <1>2, <1>6, <1>7, <1>9, <1>10 DEF root


LEMMA RotateKeeps ==
  ASSUME SessionsInv, NEW x \in Exchanges, Rotate(x)
  PROVE  SessionsInv'
<1> DEFINE n == ex[x].cookie
           N == Len(rows)
           replaced(i) == ex[x].kind # "code" /\ i = n
<1>1. /\ members' = members /\ name' = name /\ raced' = raced
      /\ cookie' = cookie /\ tab' = tab /\ logout' = logout /\ overlapped' = overlapped
      /\ sessionFaults' = sessionFaults /\ lost' = lost /\ ex[x].pc = "granted"
      /\ ex' = [ex EXCEPT ![x].pc = "issued", ![x].row = N + 1]
  BY DEF Rotate
<1>2. /\ rows' \in Seq(RowRecords) /\ Len(rows') = N + 1
      /\ DOMAIN rows' = 1 .. N + 1 /\ N + 1 <= MaxRows
      /\ rows'[N + 1].next = 0 /\ ~rows'[N + 1].revoked
      /\ rows'[N + 1].ws = ex[x].to
      /\ rows'[N + 1].root = IF ex[x].kind = "code" THEN N + 1 ELSE rows[n].root
  BY RotateRows
<1>3. \A i \in 1 .. N :
        /\ rows'[i].root = rows[i].root /\ rows'[i].ws = rows[i].ws
        /\ replaced(i) => rows'[i].next = N + 1 /\ rows'[i].revoked
        /\ ~replaced(i) => rows'[i] = rows[i]
  BY RotateRows
<1>4. N \in Nat /\ DOMAIN rows = 1 .. N
  BY SessionTypes
<1>5. ex[x].kind # "code" => n \in 1 .. N /\ InHand(x)
  BY <1>1, SessionRanges DEF SessionsInv, HeldInv, InHand
<1>6. /\ ExMoves(x) /\ ex'[x].pc = "issued" /\ ex'[x].row = N + 1
      /\ ex'[x].kind = ex[x].kind /\ ex'[x].cookie = n /\ ex'[x].to = ex[x].to
      /\ ex'[x].before = ex[x].before /\ ex'[x].seen = ex[x].seen
  <2>1. ex \in [Exchanges -> ExRecords] /\ N + 1 \in 0 .. MaxRows
    BY <1>2, <1>4, SessionTypes
  <2> HIDE DEF N
  <2> QED
    BY <1>1, <2>1 DEF ExMoves, ExRecords
<1>7. /\ cookie \in 0 .. N
      /\ \A y \in Exchanges : ex[y].cookie \in 0 .. N /\ ex[y].row \in 0 .. N
      /\ \A u \in Tabs : logout[u].cookie \in 0 .. N
      /\ \A i \in 1 .. N : rows[i].next \in 0 .. N /\ rows[i].root \in 1 .. i
  BY SessionRanges
<1> HIDE DEF N, n, replaced
<1>8. SessionsTypeOK'
  BY <1>1, <1>2, <1>4, <1>6, <1>7, SessionTypes, SessionTypesNext DEF SessionsInv, Bounds, ExMoves
<1>9. RowBounds'
  <2> SUFFICES ASSUME NEW i \in 1 .. N + 1
               PROVE  /\ rows'[i].root <= i /\ rows'[i].next <= Len(rows')
                      /\ rows'[i].next # 0 => rows'[i].revoked
                      /\ ~rows'[i].revoked => rows'[i].ws \in members' \cup raced'
    BY <1>2 DEF RowBounds, Live
  <2>1. CASE i = N + 1
    <3>1. ex[x].to \in members \cup raced
      BY <1>1 DEF SessionsInv, HeldInv
    <3>2. rows'[i].root <= i
      BY <1>2, <1>4, <1>5, <1>7, <2>1
    <3> QED
      BY <1>1, <1>2, <1>4, <2>1, <3>1, <3>2
  <2>2. CASE i \in 1 .. N
    <3>1. /\ rows[i].root <= i /\ rows[i].next <= N
          /\ rows[i].next # 0 => rows[i].revoked
          /\ ~rows[i].revoked => rows[i].ws \in members \cup raced
      BY <1>4, <2>2 DEF SessionsInv, Bounds, RowBounds, Live, N
    <3>2. CASE replaced(i)
      BY <1>1, <1>2, <1>3, <1>4, <2>2, <3>1, <3>2
    <3>3. CASE ~replaced(i)
      BY <1>1, <1>2, <1>3, <1>4, <1>7, <2>2, <3>1, <3>3
    <3> QED
      BY <3>2, <3>3
  <2> QED
    BY <1>4, <2>1, <2>2
<1>10. Bounds'
  <2>1. ExBounds'
    BY <1>1, <1>2, <1>4, <1>6, <1>7 DEF SessionsInv, Bounds, ExBounds, ExMoves, n
  <2>2. TabBounds'
    BY <1>1, <1>2, <1>4, <1>7 DEF SessionsInv, Bounds, TabBounds
  <2> QED
    BY <1>1, <1>9, <2>1, <2>2 DEF SessionsInv, Bounds
<1>11. HeldInv'
  BY <1>1, <1>6 DEF SessionsInv, HeldInv, ExMoves
<1>12. OneSpender'
  BY <1>6 DEF SessionsInv, OneSpender, ExMoves
<1>13. \A z \in Exchanges : ex[z].pc = "issued" =>
         /\ ex[z].row \in 1 .. N /\ ex[z].row # n /\ ex[z].row # cookie
         /\ rows[ex[z].row].next = 0
         /\ \A y \in Exchanges : /\ ex[y].cookie # ex[z].row
                                 /\ y # z /\ ex[y].pc = "issued" => ex[y].row # ex[z].row
         /\ \A u \in Tabs : logout[u].cookie # ex[z].row
  BY <1>7 DEF SessionsInv, Fresh, n
<1>14. Fresh'
  <2> SUFFICES ASSUME NEW z \in Exchanges, ex'[z].pc = "issued"
               PROVE  /\ ex'[z].row # 0 /\ ex'[z].row # cookie' /\ rows'[ex'[z].row].next = 0
                      /\ \A y \in Exchanges :
                           /\ ex'[y].cookie # ex'[z].row
                           /\ y # z /\ ex'[y].pc = "issued" => ex'[y].row # ex'[z].row
                      /\ \A u \in Tabs : logout'[u].cookie # ex'[z].row
    BY DEF Fresh
  <2>1. /\ \A y \in Exchanges : y # x => ex'[y] = ex[y]
        /\ \A y \in Exchanges : ex'[y].cookie = ex[y].cookie
        /\ cookie' = cookie /\ logout' = logout
    BY <1>1, <1>6 DEF ExMoves, n
  <2>2. CASE z = x
    <3>1. ex'[z].row = N + 1 /\ rows'[N + 1].next = 0
      BY <1>2, <1>6, <2>2
    <3>2. \A k \in 0 .. N : k # N + 1
      BY <1>4
    <3> QED
      BY <1>4, <1>7, <2>1, <2>2, <3>1, <3>2
  <2>3. CASE z # x
    <3>1. ex'[z] = ex[z] /\ ~replaced(ex[z].row)
      BY <1>13, <2>1, <2>3 DEF replaced
    <3>2. rows'[ex[z].row] = rows[ex[z].row]
      BY <1>3, <1>13, <3>1
    <3>3. ex'[x].row = N + 1 /\ ex[z].row # N + 1
      BY <1>4, <1>6, <1>13, <3>1
    <3> QED
      BY <1>13, <2>1, <2>3, <3>1, <3>2, <3>3
  <2> QED
    BY <2>2, <2>3
<1>15. ASSUME ~overlapped
       PROVE  /\ ex[x].kind # "code" => rows[n].next = 0
              /\ \A y \in Exchanges : y # x /\ InHand(y) => ~replaced(ex[y].cookie)
  BY <1>1, <1>5, <1>15 DEF SessionsInv, AloneInv, OneHand, Checked, replaced, n
<1>16. \A y \in Exchanges : InHand(y)' =>
         y # x /\ InHand(y) /\ ex'[y] = ex[y] /\ ex[y].cookie \in 1 .. N
  BY <1>6, <1>7 DEF InHand, ExMoves
<1>17. AloneInv'
  <2> SUFFICES ASSUME ~overlapped
               PROVE  OneHand' /\ OneTip' /\ Checked'
    BY <1>1 DEF AloneInv
  <2>1. OneHand'
    BY <1>16 DEF SessionsInv, AloneInv, OneHand
  <2>2. OneTip'
    <3> SUFFICES ASSUME NEW m \in 1 .. N + 1, NEW k \in 1 .. N + 1,
                        rows'[m].root = rows'[k].root, rows'[m].next = 0, rows'[k].next = 0
                 PROVE  m = k
      BY <1>2 DEF OneTip
    <3>1. \A i \in 1 .. N : rows'[i].next = 0 => ~replaced(i) /\ rows[i].next = 0
      BY <1>3, <1>4
    <3>2. \A i, j \in 1 .. N :
            rows[i].root = rows[j].root /\ rows[i].next = 0 /\ rows[j].next = 0 => i = j
      BY <1>4 DEF SessionsInv, AloneInv, OneTip
    <3>3. \A i \in 1 .. N : rows'[i].next = 0 => rows'[i].root # rows'[N + 1].root
      <4> SUFFICES ASSUME NEW i \in 1 .. N, rows'[i].next = 0
                   PROVE  rows'[i].root # rows'[N + 1].root
        OBVIOUS
      <4>1. rows'[i].root = rows[i].root /\ rows[i].root \in 1 .. i
        BY <1>3, <1>7
      <4>2. CASE ex[x].kind = "code"
        BY <1>2, <1>4, <4>1, <4>2
      <4>3. CASE ex[x].kind # "code"
        BY <1>2, <1>5, <1>15, <3>1, <3>2, <4>1, <4>3 DEF replaced
      <4> QED
        BY <4>2, <4>3
    <3> QED
      BY <1>3, <1>4, <3>1, <3>2, <3>3
  <2>3. Checked'
    <3> SUFFICES ASSUME NEW y \in Exchanges, InHand(y)', ex'[y].pc # "sent"
                 PROVE  rows'[ex'[y].cookie].next = 0
      BY DEF Checked
    <3>1. /\ y # x /\ InHand(y) /\ ex'[y] = ex[y] /\ ex[y].cookie \in 1 .. N
          /\ rows[ex[y].cookie].next = 0
      BY <1>16 DEF SessionsInv, AloneInv, Checked
    <3> QED
      BY <1>3, <1>15, <3>1
  <2> QED
    BY <2>1, <2>2, <2>3
<1>18. KeptInv'
  <2> SUFFICES ASSUME ~overlapped, ~lost
               PROVE  /\ Replaced' /\ Unspent'
                      /\ members = Workspaces => Spoiled' /\ OnItsWay'
    BY <1>1 DEF KeptInv, Workspaces
  <2>1. Replaced /\ Unspent /\ (members = Workspaces => Spoiled /\ OnItsWay)
    BY DEF SessionsInv, KeptInv
  <2>2. Replaced'
    <3> SUFFICES ASSUME cookie # 0, rows'[cookie].next # 0
                 PROVE  \E y \in Exchanges :
                          ex'[y].pc = "issued" /\ ex'[y].kind # "code" /\ ex'[y].cookie = cookie
      BY <1>1 DEF Replaced
    <3>1. CASE replaced(cookie)
      BY <1>6, <3>1 DEF replaced
    <3>2. CASE ~replaced(cookie)
      <4>1. rows[cookie].next # 0
        BY <1>3, <1>7, <3>2
      <4>2. PICK y \in Exchanges :
              ex[y].pc = "issued" /\ ex[y].kind # "code" /\ ex[y].cookie = cookie
        BY <2>1, <4>1 DEF Replaced
      <4> QED
        BY <1>1, <1>6, <4>2 DEF ExMoves
    <3> QED
      BY <3>1, <3>2
  <2>3. Unspent'
    BY <1>3, <1>15, <1>16, <2>1 DEF Unspent
  <2>4. ASSUME members = Workspaces PROVE Spoiled' /\ OnItsWay'
    <3>1. Spoiled'
      <4> SUFFICES ASSUME cookie # 0, rows'[cookie].next = 0, rows'[cookie].revoked
                   PROVE  \E u \in Tabs : logout[u].pc = "done" /\ logout[u].cookie = cookie
        BY <1>1 DEF Spoiled, Live
      <4>1. rows'[cookie] = rows[cookie]
        BY <1>3, <1>4, <1>7
      <4> QED
        BY <2>1, <2>4, <4>1 DEF Spoiled, Live
    <3>2. OnItsWay'
      <4> SUFFICES ASSUME NEW z \in Exchanges, ex'[z].pc = "issued"
                   PROVE  ~rows'[ex'[z].row].revoked
        BY DEF OnItsWay, Live
      <4>1. CASE z = x
        BY <1>2, <1>6, <4>1
      <4>2. CASE z # x
        <5>1. ex'[z] = ex[z] /\ ex[z].row \in 1 .. N /\ ~replaced(ex[z].row)
          BY <1>6, <1>13, <4>2 DEF ExMoves, replaced
        <5> QED
          BY <1>3, <2>1, <2>4, <5>1 DEF OnItsWay, Live
      <4> QED
        BY <4>1, <4>2
    <3> QED
      BY <3>1, <3>2
  <2> QED
    BY <2>2, <2>3, <2>4
<1>19. TabInv'
  BY <1>1, <1>6 DEF SessionsInv, TabInv, ExMoves
<1>20. ReadInv'
  BY <1>1, <1>6 DEF SessionsInv, ReadInv, ExMoves
<1> QED
  BY <1>8, <1>10, <1>11, <1>12, <1>14, <1>17, <1>18, <1>19, <1>20 DEF SessionsInv, Settings


LEMMA RemoveMemberKeeps ==
  ASSUME SessionsInv, NEW w \in Others, RemoveMember(w)
  PROVE  SessionsInv'
<1>1. /\ members' = members \ {w} /\ w \in members \ {Home}
      /\ name' = name /\ cookie' = cookie /\ tab' = tab /\ ex' = ex /\ logout' = logout
      /\ sessionFaults' = sessionFaults /\ lost' = lost /\ overlapped' = overlapped
      /\ rows' = [i \in DOMAIN rows |-> [rows[i] EXCEPT !.revoked = @ \/ rows[i].ws = w]]
      /\ raced' = IF \E x \in Exchanges : ex[x].pc = "granted" /\ ex[x].to = w
                  THEN raced \cup {w} ELSE raced
  BY DEF RemoveMember, RevokeSessions
<1>2. RowsKept /\ \A i \in 1 .. Len(rows) : rows'[i].revoked = (rows[i].revoked \/ rows[i].ws = w)
  <2> DEFINE b == [i \in 1 .. Len(rows) |-> rows[i].revoked \/ rows[i].ws = w]
  <2>1. DOMAIN rows = 1 .. Len(rows)
    BY SessionTypes
  <2>2. b \in [1 .. Len(rows) -> BOOLEAN]
    OBVIOUS
  <2>3. \A i \in 1 .. Len(rows) : b[i] = (rows[i].revoked \/ rows[i].ws = w)
    BY Zenon
  <2>4. \A i \in 1 .. Len(rows) : rows[i].revoked => b[i]
    BY <2>3, Zenon
  <2>5. rows' = [i \in 1 .. Len(rows) |-> [rows[i] EXCEPT !.revoked = b[i]]]
    BY <1>1, <2>1, <2>3, Zenon
  <2> HIDE DEF b
  <2>6. RowsKept /\ \A i \in 1 .. Len(rows) : rows'[i].revoked = b[i]
    BY <2>2, <2>4, <2>5, RowsRevoked
  <2> QED
    BY <2>3, <2>6
<1>3. /\ Len(rows') = Len(rows) /\ DOMAIN rows' = 1 .. Len(rows) /\ DOMAIN rows = 1 .. Len(rows)
      /\ \A i \in 1 .. Len(rows) :
           /\ rows'[i].root = rows[i].root /\ rows'[i].ws = rows[i].ws
           /\ rows'[i].next = rows[i].next
           /\ rows'[i].revoked = (rows[i].revoked \/ rows[i].ws = w)
  BY <1>2, SessionTypes DEF RowsKept
<1>4. /\ members' \subseteq Workspaces /\ raced' \subseteq Workspaces
      /\ members' # Workspaces /\ raced \subseteq raced' /\ Home \in members'
  <2>1. w \in Workspaces
    BY DEF Workspaces
  <2>2. Home \in members /\ members \subseteq Workspaces /\ raced \subseteq Workspaces
    BY SessionTypes DEF SessionsInv, Bounds
  <2> QED
    BY <1>1, <2>1, <2>2
<1>5. SessionsTypeOK'
  BY <1>1, <1>2, <1>4, SessionTypes, SessionTypesNext DEF SessionsInv, Bounds, RowsKept
<1>6. Bounds'
  <2>1. RowBounds'
    <3> SUFFICES ASSUME NEW i \in 1 .. Len(rows)
                 PROVE  /\ rows'[i].root <= i /\ rows'[i].next <= Len(rows)
                        /\ rows'[i].next # 0 => rows'[i].revoked
                        /\ ~rows'[i].revoked => rows'[i].ws \in members' \cup raced'
      BY <1>3 DEF RowBounds, Live
    <3>1. /\ rows[i].root <= i /\ rows[i].next <= Len(rows)
          /\ rows[i].next # 0 => rows[i].revoked
          /\ ~rows[i].revoked => rows[i].ws \in members \cup raced
      BY <1>3 DEF SessionsInv, Bounds, RowBounds, Live
    <3>2. /\ rows'[i].root = rows[i].root /\ rows'[i].ws = rows[i].ws
          /\ rows'[i].next = rows[i].next
          /\ rows[i].revoked => rows'[i].revoked
          /\ rows[i].ws = w => rows'[i].revoked
      BY <1>3, Zenon
    <3>3. members' = members \ {w} /\ raced \subseteq raced'
      BY <1>1, <1>4
    <3> QED
      BY <3>1, <3>2, <3>3
  <2>2. ExBounds' /\ TabBounds'
    BY <1>1, <1>3 DEF SessionsInv, Bounds, ExBounds, TabBounds
  <2> QED
    BY <1>1, <1>4, <2>1, <2>2 DEF SessionsInv, Bounds
<1>7. HeldInv'
  <2>1. ASSUME NEW x \in Exchanges, ex[x].pc = "granted" PROVE ex[x].to \in members' \cup raced'
    <3>1. ex[x].to \in members \cup raced
      BY <2>1 DEF SessionsInv, HeldInv
    <3>2. CASE ex[x].to = w
      BY <1>1, <2>1, <3>2
    <3>3. CASE ex[x].to # w
      BY <1>1, <1>4, <3>1, <3>3
    <3> QED
      BY <3>2, <3>3
  <2> QED
    BY <1>1, <2>1 DEF SessionsInv, HeldInv
<1>8. OneSpender' /\ TabInv' /\ ReadInv'
  BY <1>1 DEF SessionsInv, OneSpender, TabInv, ReadInv
<1>9. Fresh'
  <2>1. \A x \in Exchanges : ex[x].pc = "issued" => ex[x].row \in 1 .. Len(rows)
    BY SessionRanges DEF SessionsInv, Fresh
  <2> QED
    BY <1>1, <1>3, <2>1 DEF SessionsInv, Fresh
<1>10. AloneInv'
  <2>1. \A x \in Exchanges : InHand(x) => ex[x].cookie \in 1 .. Len(rows)
    BY SessionRanges DEF InHand
  <2>2. /\ DOMAIN rows' = DOMAIN rows
        /\ \A i \in 1 .. Len(rows) : rows'[i].root = rows[i].root /\ rows'[i].next = rows[i].next
    BY <1>3
  <2>3. OneHand => OneHand'
    BY <1>1 DEF OneHand, InHand
  <2>4. OneTip => OneTip'
    BY <1>3, <2>2 DEF OneTip
  <2>5. Checked => Checked'
    BY <1>1, <2>1, <2>2 DEF Checked, InHand
  <2> QED
    BY <1>1, <2>3, <2>4, <2>5 DEF SessionsInv, AloneInv
<1>11. KeptInv'
  <2>1. Replaced => Replaced'
    BY <1>1, <1>3, SessionRanges DEF Replaced
  <2>2. Unspent => Unspent'
    BY <1>1, <1>3, SessionRanges DEF Unspent, InHand
  <2>3. ~(members = Workspaces)'
    BY <1>4 DEF Workspaces
  <2> QED
    BY <1>1, <2>1, <2>2, <2>3 DEF SessionsInv, KeptInv
<1> QED
  BY <1>5, <1>6, <1>7, <1>8, <1>9, <1>10, <1>11 DEF SessionsInv, Settings

LEMMA SignOutKeeps ==
  ASSUME SessionsInv, NEW t \in Tabs, SignOut(t)
  PROVE  SessionsInv'
<1>1. /\ rows' = rows /\ members' = members /\ name' = name /\ raced' = raced
      /\ cookie' = cookie /\ tab' = tab /\ ex' = ex /\ overlapped' = overlapped
      /\ sessionFaults' = sessionFaults /\ lost' = lost
      /\ logout[t].pc = "none"
      /\ logout' = [logout EXCEPT ![t] = [pc |-> "sent", cookie |-> cookie]]
  BY DEF SignOut, server
<1>2. cookie \in 0 .. Len(rows) /\ cookie \in 0 .. MaxRows
  BY SessionTypes
<1>3. /\ logout' \in [Tabs -> LogoutRecords]
      /\ \A u \in Tabs : u # t => logout'[u] = logout[u]
      /\ logout'[t].pc = "sent" /\ logout'[t].cookie = cookie
  BY <1>1, <1>2, SessionTypes DEF LogoutRecords
<1>4. SessionsTypeOK'
  BY <1>1, <1>3, SessionTypes, SessionTypesNext DEF SessionsInv, Bounds
<1>5. Bounds'
  BY <1>1, <1>2, <1>3 DEF SessionsInv, Bounds, RowBounds, ExBounds, TabBounds, Live
<1>6. HeldInv' /\ OneSpender' /\ TabInv' /\ ReadInv' /\ AloneInv'
  BY <1>1 DEF SessionsInv, HeldInv, OneSpender, TabInv, ReadInv, AloneInv, OneHand, OneTip,
              Checked, InHand
<1>7. Fresh'
  BY <1>1, <1>3 DEF SessionsInv, Fresh
<1>8. KeptInv'
  <2>1. Spoiled => Spoiled'
    BY <1>1, <1>3 DEF Spoiled, Live
  <2> QED
    BY <1>1, <2>1 DEF SessionsInv, KeptInv, Replaced, Unspent, InHand, OnItsWay, Live
<1> QED
  BY <1>4, <1>5, <1>6, <1>7, <1>8 DEF SessionsInv, Settings

LEMMA LogoutKeeps ==
  ASSUME SessionsInv, NEW t \in Tabs, Logout(t)
  PROVE  SessionsInv'
<1> DEFINE n == logout[t].cookie
<1>1. /\ members' = members /\ name' = name /\ raced' = raced
      /\ cookie' = cookie /\ tab' = tab /\ ex' = ex /\ overlapped' = overlapped
      /\ sessionFaults' = sessionFaults /\ lost' = lost
      /\ logout[t].pc = "sent"
      /\ logout' = [logout EXCEPT ![t].pc = "done"]
      /\ rows' = IF n = 0 THEN rows ELSE [rows EXCEPT ![n].revoked = TRUE]
  BY DEF Logout
<1>2. n \in 0 .. Len(rows)
  BY SessionRanges
<1>3. /\ logout' \in [Tabs -> LogoutRecords]
      /\ \A u \in Tabs : u # t => logout'[u] = logout[u]
      /\ logout'[t].pc = "done" /\ logout'[t].cookie = n
  <2>1. logout \in [Tabs -> LogoutRecords]
    BY SessionTypes
  <2> QED
    BY <1>1, <2>1 DEF LogoutRecords
<1>4. RowsKept /\ \A i \in 1 .. Len(rows) : i # n => rows'[i].revoked = rows[i].revoked
  <2>1. CASE n = 0
    BY <1>1, <2>1, RowsStay
  <2>2. CASE n # 0
    <3> DEFINE b == [i \in 1 .. Len(rows) |-> IF i = n THEN TRUE ELSE rows[i].revoked]
    <3>1. rows \in [1 .. Len(rows) -> RowRecords]
      BY SessionTypes
    <3>2. b \in [1 .. Len(rows) -> BOOLEAN]
      BY <3>1 DEF RowRecords
    <3>3. /\ \A i \in 1 .. Len(rows) : rows[i].revoked => b[i]
          /\ \A i \in 1 .. Len(rows) : i # n => b[i] = rows[i].revoked
          /\ b[n] = TRUE
      BY <1>2, <2>2
    <3>4. rows' = [i \in 1 .. Len(rows) |-> [rows[i] EXCEPT !.revoked = b[i]]]
      <4>1. \A i \in 1 .. Len(rows) : i # n => rows[i] = [rows[i] EXCEPT !.revoked = b[i]]
        BY <3>1, <3>3 DEF RowRecords
      <4>2. rows' = [rows EXCEPT ![n] = [rows[n] EXCEPT !.revoked = TRUE]]
        BY <1>1, <2>2
      <4> HIDE DEF b
      <4> QED
        BY <3>1, <3>3, <4>1, <4>2
    <3> HIDE DEF b
    <3>5. RowsKept /\ \A i \in 1 .. Len(rows) : rows'[i].revoked = b[i]
      BY <3>2, <3>3, <3>4, RowsRevoked
    <3> QED
      BY <3>3, <3>5
  <2> QED
    BY <2>1, <2>2
<1>5. /\ Len(rows') = Len(rows) /\ DOMAIN rows' = 1 .. Len(rows) /\ DOMAIN rows = 1 .. Len(rows)
      /\ \A i \in 1 .. Len(rows) :
           /\ rows'[i].root = rows[i].root /\ rows'[i].ws = rows[i].ws
           /\ rows'[i].next = rows[i].next
           /\ rows[i].revoked => rows'[i].revoked
           /\ i # n => rows'[i].revoked = rows[i].revoked
  BY <1>4, SessionTypes DEF RowsKept
<1> HIDE DEF n
<1>6. SessionsTypeOK'
  BY <1>1, <1>3, <1>4, SessionTypes, SessionTypesNext DEF SessionsInv, Bounds, RowsKept
<1>7. Bounds'
  <2>1. RowBounds'
    BY <1>1, <1>5 DEF SessionsInv, Bounds, RowBounds, Live
  <2>2. ExBounds' /\ TabBounds'
    BY <1>1, <1>2, <1>3, <1>5 DEF SessionsInv, Bounds, ExBounds, TabBounds
  <2> QED
    BY <1>1, <2>1, <2>2 DEF SessionsInv, Bounds
<1>8. HeldInv' /\ OneSpender' /\ TabInv' /\ ReadInv'
  BY <1>1 DEF SessionsInv, HeldInv, OneSpender, TabInv, ReadInv
<1>9. \A x \in Exchanges :
        ex[x].pc = "issued" => ex[x].row \in 1 .. Len(rows) /\ ex[x].row # n
  BY SessionRanges DEF SessionsInv, Fresh, n
<1>10. \A u \in Tabs : logout'[u].cookie = logout[u].cookie
  BY <1>3 DEF n
<1>11. Fresh'
  BY <1>1, <1>5, <1>9, <1>10 DEF SessionsInv, Fresh
<1>12. AloneInv'
  <2>1. \A x \in Exchanges : InHand(x) => ex[x].cookie \in 1 .. Len(rows)
    BY SessionRanges DEF InHand
  <2> QED
    BY <1>1, <1>5, <2>1 DEF SessionsInv, AloneInv, OneHand, OneTip, Checked, InHand
<1>13. KeptInv'
  <2>1. Replaced => Replaced'
    BY <1>1, <1>5, SessionRanges DEF Replaced
  <2>2. Unspent => Unspent'
    BY <1>1, <1>5, SessionRanges DEF Unspent, InHand
  <2>3. Spoiled => Spoiled'
    <3>1. cookie \in 0 .. Len(rows)
      BY SessionTypes
    <3>2. \A u \in Tabs : logout[u].pc = "done" => logout'[u] = logout[u]
      BY <1>1, <1>3
    <3> QED
      BY <1>1, <1>3, <1>5, <3>1, <3>2 DEF Spoiled, Live
  <2>4. OnItsWay => OnItsWay'
    BY <1>1, <1>5, <1>9 DEF OnItsWay, Live
  <2> QED
    BY <1>1, <2>1, <2>2, <2>3, <2>4 DEF SessionsInv, KeptInv, Workspaces
<1> QED
  BY <1>6, <1>7, <1>8, <1>11, <1>12, <1>13 DEF SessionsInv, Settings


(* The local session ends, whatever becomes of the logout. *)
LEMMA LeftKeeps ==
  ASSUME SessionsInv, NEW t \in Tabs, SignedOut(t, InFlight(t) = {}),
         logout' = [logout EXCEPT ![t] = NoLogout],
         rows' = rows, members' = members, name' = name, raced' = raced, ex' = ex,
         overlapped' = overlapped, lost' \in BOOLEAN, sessionFaults' \in Nat,
         name + sessionFaults' <= MaxEvents, cookie' \in {0, cookie},
         lost => lost',
         ~lost' => cookie' = 0 \/ logout[t].pc # "done"
  PROVE  SessionsInv'
<1> DEFINE e == InFlight(t) = {}
<1>1. e \in BOOLEAN /\ SignedOut(t, e)
  BY Zenon
<1>2. e => \A x \in Exchanges : x[1] = t => ex[x].pc = "idle"
  BY DEF InFlight
<1> HIDE DEF e
<1>3. /\ tab' \in [Tabs -> TabRecords]
      /\ \A u \in Tabs : u # t => tab'[u] = tab[u]
      /\ tab'[t].status = "out" /\ tab'[t].own = 0 /\ ~tab'[t].timer /\ tab'[t].ended = e
      /\ tab'[t].updates = tab[t].updates /\ tab'[t].name = tab[t].name
      /\ tab'[t].renamed = tab[t].renamed
  BY <1>1, SignedOutIs
<1>4. /\ logout' \in [Tabs -> LogoutRecords]
      /\ \A u \in Tabs : u # t => logout'[u] = logout[u]
      /\ logout'[t].pc = "none" /\ logout'[t].cookie = 0
  BY SessionTypes DEF LogoutRecords, NoLogout
<1>5. /\ name \in Nat /\ Len(rows) \in Nat /\ cookie' \in Nat /\ cookie' <= Len(rows)
      /\ sessionFaults' <= MaxEvents
  BY SessionTypes
<1>6. SessionsTypeOK'
  BY <1>3, <1>4, <1>5, SessionTypes, SessionTypesNext DEF SessionsInv, Bounds
<1>7. Bounds'
  <2>1. RowBounds' /\ ExBounds'
    BY DEF SessionsInv, Bounds, RowBounds, ExBounds, Live
  <2>2. TabBounds'
    BY <1>3, <1>4, <1>5 DEF SessionsInv, Bounds, TabBounds
  <2> QED
    BY <2>1, <2>2 DEF SessionsInv, Bounds
<1>8. HeldInv' /\ OneSpender' /\ AloneInv'
  BY DEF SessionsInv, HeldInv, OneSpender, AloneInv, OneHand, OneTip, Checked, InHand
<1>9. Fresh'
  <2>1. \A x \in Exchanges : ex[x].pc = "issued" => ex[x].row # cookie'
    BY DEF SessionsInv, Fresh
  <2>2. \A x \in Exchanges : ex[x].pc = "issued" => \A u \in Tabs : logout'[u].cookie # ex[x].row
    BY <1>4 DEF SessionsInv, Fresh
  <2> QED
    BY <2>1, <2>2 DEF SessionsInv, Fresh
<1>10. KeptInv'
  <2> SUFFICES ASSUME ~overlapped, ~lost'
               PROVE  /\ Replaced' /\ Unspent'
                      /\ members = Workspaces => Spoiled' /\ OnItsWay'
    BY DEF KeptInv, Workspaces
  <2>1. Replaced /\ Unspent /\ (members = Workspaces => Spoiled /\ OnItsWay)
    BY DEF SessionsInv, KeptInv
  <2>2. Replaced'
    BY <2>1 DEF Replaced
  <2>3. Unspent' /\ (OnItsWay => OnItsWay')
    BY <2>1 DEF Unspent, InHand, OnItsWay, Live
  <2>4. Spoiled => Spoiled'
    <3>1. CASE cookie' = 0
      BY <3>1 DEF Spoiled
    <3>2. CASE logout[t].pc # "done"
      BY <1>4, <3>2 DEF Spoiled, Live
    <3> QED
      BY <3>1, <3>2
  <2> QED
    BY <2>1, <2>2, <2>3, <2>4
<1>11. TabInv'
  <2> SUFFICES ASSUME NEW u \in Tabs
               PROVE  /\ tab'[u].ended =>
                           /\ tab'[u].status = "out" /\ ~tab'[u].timer
                           /\ \A x \in Exchanges : x[1] = u => ex[x].pc = "idle"
                      /\ tab'[u].status # "in" => tab'[u].own = 0
                      /\ tab'[u].status = "in" => tab'[u].own <= tab'[u].name
    BY DEF TabInv
  <2>1. CASE u = t
    BY <1>2, <1>3, <2>1
  <2>2. CASE u # t
    BY <1>3, <2>2 DEF SessionsInv, TabInv
  <2> QED
    BY <2>1, <2>2
<1>12. ReadInv'
  <2> SUFFICES ASSUME NEW y \in Exchanges, ex[y].pc # "idle"
               PROVE  /\ ex[y].before <= tab'[y[1]].updates
                      /\ ex[y].pc = "read" /\ ex[y].before = tab'[y[1]].updates =>
                           tab'[y[1]].own <= ex[y].seen
    BY DEF ReadInv
  <2>1. y[1] \in Tabs
    BY ExchangeTab
  <2>2. ex[y].seen \in Nat
    BY SessionTypes DEF ExRecords
  <2>3. tab'[y[1]].updates = tab[y[1]].updates /\ tab'[y[1]].own \in {0, tab[y[1]].own}
    BY <1>3, <2>1
  <2> QED
    BY <2>2, <2>3 DEF SessionsInv, ReadInv
<1> QED
  BY <1>6, <1>7, <1>8, <1>9, <1>10, <1>11, <1>12 DEF SessionsInv, Settings

LEMMA LogoutAnsweredKeeps ==
  ASSUME SessionsInv, NEW t \in Tabs, LogoutAnswered(t)
  PROVE  SessionsInv'
<1>1. /\ SignedOut(t, InFlight(t) = {}) /\ logout' = [logout EXCEPT ![t] = NoLogout]
      /\ rows' = rows /\ members' = members /\ name' = name /\ raced' = raced /\ ex' = ex
      /\ overlapped' = overlapped /\ lost' = lost /\ sessionFaults' = sessionFaults
      /\ cookie' = 0
  BY DEF LogoutAnswered, ClearCookie, server
<1>2. /\ lost' \in BOOLEAN /\ sessionFaults' \in Nat /\ name + sessionFaults' <= MaxEvents
  BY <1>1, SessionTypes DEF SessionsInv, Bounds
<1>3. cookie' \in {0, cookie} /\ (lost => lost')
  BY <1>1
<1> QED
  BY <1>1, <1>2, <1>3, LeftKeeps

LEMMA LogoutLostKeeps ==
  ASSUME SessionsInv, NEW t \in Tabs, LogoutLost(t)
  PROVE  SessionsInv'
<1>1. /\ SignedOut(t, InFlight(t) = {}) /\ logout' = [logout EXCEPT ![t] = NoLogout]
      /\ rows' = rows /\ members' = members /\ name' = name /\ raced' = raced /\ ex' = ex
      /\ overlapped' = overlapped /\ lost' = (lost \/ logout[t].pc = "done")
      /\ sessionFaults' = sessionFaults + 1 /\ name + sessionFaults < MaxEvents
      /\ cookie' = cookie
  BY DEF LogoutLost, server
<1>2. /\ lost' \in BOOLEAN /\ sessionFaults' \in Nat /\ name + sessionFaults' <= MaxEvents
  BY <1>1, SessionTypes
<1>3. /\ cookie' \in {0, cookie} /\ (lost => lost')
      /\ ~lost' => cookie' = 0 \/ logout[t].pc # "done"
  BY <1>1
<1> QED
  BY <1>1, <1>2, <1>3, LeftKeeps

LEMMA RenameKeeps ==
  ASSUME SessionsInv, NEW t \in Tabs, Rename(t)
  PROVE  SessionsInv'
<1>1. /\ rows' = rows /\ members' = members /\ raced' = raced /\ name' = name + 1
      /\ cookie' = cookie /\ ex' = ex /\ logout' = logout /\ overlapped' = overlapped
      /\ sessionFaults' = sessionFaults /\ lost' = lost
      /\ tab[t].renamed = 0 /\ name + sessionFaults < MaxEvents
      /\ tab' = [tab EXCEPT ![t].renamed = name + 1]
  BY DEF Rename
<1>2. name \in Nat /\ MaxEvents \in Nat /\ sessionFaults \in Nat /\ Len(rows) \in Nat
  BY SessionTypes
<1>3. name + 1 \in 0 .. MaxEvents
  BY <1>1, <1>2
<1>4. /\ tab' \in [Tabs -> TabRecords]
      /\ \A u \in Tabs : u # t => tab'[u] = tab[u]
      /\ tab'[t].status = tab[t].status /\ tab'[t].own = tab[t].own
      /\ tab'[t].timer = tab[t].timer /\ tab'[t].ended = tab[t].ended
      /\ tab'[t].updates = tab[t].updates /\ tab'[t].name = tab[t].name
      /\ tab'[t].renamed = name + 1
  <2>1. tab \in [Tabs -> TabRecords]
    BY SessionTypes
  <2> QED
    BY <1>1, <1>3, <2>1 DEF TabRecords
<1>5. SessionsTypeOK'
  BY <1>1, <1>2, <1>3, <1>4, SessionTypes, SessionTypesNext
<1>6. Bounds'
  <2>1. RowBounds'
    BY <1>1 DEF SessionsInv, Bounds, RowBounds, Live
  <2>2. ExBounds'
    <3>1. \A x \in Exchanges : ex[x].seen \in Nat
      BY SessionTypes DEF ExRecords
    <3> QED
      BY <1>1, <1>2, <3>1 DEF SessionsInv, Bounds, ExBounds
  <2>3. TabBounds'
    <3> SUFFICES ASSUME NEW u \in Tabs
                 PROVE  /\ logout[u].cookie <= Len(rows)
                        /\ tab'[u].name <= name + 1 /\ tab'[u].renamed <= name + 1
                        /\ tab'[u].own <= name + 1 /\ tab'[u].updates <= name + 1
                        /\ tab'[u].renamed # 0 => tab'[u].updates < name + 1
      BY <1>1 DEF TabBounds
    <3>1. /\ logout[u].cookie <= Len(rows)
          /\ tab[u].name <= name /\ tab[u].renamed <= name /\ tab[u].own <= name
          /\ tab[u].updates <= name
          /\ tab[u].renamed # 0 => tab[u].updates < name
      BY DEF SessionsInv, Bounds, TabBounds
    <3>2. /\ tab[u].name \in Nat /\ tab[u].renamed \in Nat /\ tab[u].own \in Nat
          /\ tab[u].updates \in Nat
      BY SessionTypes DEF TabRecords
    <3> QED
      BY <1>2, <1>4, <3>1, <3>2
  <2> QED
    BY <1>1, <1>2, <2>1, <2>2, <2>3 DEF SessionsInv, Bounds
<1>7. HeldInv' /\ OneSpender' /\ AloneInv' /\ Fresh' /\ KeptInv'
  BY <1>1 DEF SessionsInv, HeldInv, OneSpender, AloneInv, OneHand, OneTip, Checked, InHand, Fresh,
              KeptInv, Replaced, Unspent, Spoiled, OnItsWay, Live
<1>8. TabInv'
  BY <1>1, <1>4 DEF SessionsInv, TabInv
<1>9. ReadInv'
  BY <1>1, <1>4, ExchangeTab DEF SessionsInv, ReadInv
<1> QED
  BY <1>5, <1>6, <1>7, <1>8, <1>9 DEF SessionsInv, Settings

LEMMA UpdateProfileKeeps ==
  ASSUME SessionsInv, NEW t \in Tabs, UpdateProfile(t)
  PROVE  SessionsInv'
<1>1. /\ rows' = rows /\ members' = members /\ raced' = raced /\ name' = name
      /\ cookie' = cookie /\ ex' = ex /\ logout' = logout /\ overlapped' = overlapped
      /\ sessionFaults' = sessionFaults /\ lost' = lost
      /\ tab[t].renamed # 0
      /\ IF tab[t].status = "in"
           THEN tab' = [tab EXCEPT ![t].renamed = 0, ![t].name = tab[t].renamed,
                                   ![t].updates = @ + 1, ![t].own = tab[t].renamed]
           ELSE tab' = [tab EXCEPT ![t].renamed = 0]
  BY DEF UpdateProfile, server
<1>2. /\ name \in Nat /\ MaxEvents \in Nat /\ name <= MaxEvents
      /\ tab \in [Tabs -> TabRecords] /\ tab[t] \in TabRecords
  BY SessionTypes
<1>3. /\ tab[t].renamed \in 0 .. MaxEvents /\ tab[t].updates \in 0 .. MaxEvents
      /\ tab[t].name \in 0 .. MaxEvents /\ tab[t].own \in 0 .. MaxEvents
  BY <1>2 DEF TabRecords
<1>4. /\ tab[t].renamed <= name /\ tab[t].updates < name /\ tab[t].name <= name
      /\ tab[t].own <= name /\ logout[t].cookie <= Len(rows)
  BY <1>1 DEF SessionsInv, Bounds, TabBounds
<1>5. PICK k : k = tab[t].updates + 1
  OBVIOUS
<1>6. k \in 0 .. MaxEvents /\ k <= name /\ tab[t].updates < k
  BY <1>2, <1>3, <1>4, <1>5
<1>7. /\ tab' \in [Tabs -> TabRecords]
      /\ \A u \in Tabs : u # t => tab'[u] = tab[u]
      /\ tab'[t].status = tab[t].status
      /\ tab'[t].timer = tab[t].timer /\ tab'[t].ended = tab[t].ended
      /\ tab'[t].renamed = 0
      /\ IF tab[t].status = "in"
           THEN tab'[t].name = tab[t].renamed /\ tab'[t].own = tab[t].renamed /\ tab'[t].updates = k
           ELSE /\ tab'[t].name = tab[t].name /\ tab'[t].own = tab[t].own
                /\ tab'[t].updates = tab[t].updates
  <2>1. CASE tab[t].status = "in"
    <3>1. PICK r : r = [tab[t] EXCEPT !.renamed = 0, !.name = tab[t].renamed, !.updates = k,
                                      !.own = tab[t].renamed]
      OBVIOUS
    <3>2. tab' = [tab EXCEPT ![t] = r]
      BY <1>1, <1>2, <1>5, <2>1, <3>1
    <3>3. /\ r.status = tab[t].status /\ r.timer = tab[t].timer /\ r.ended = tab[t].ended
          /\ r.renamed = 0 /\ r.name = tab[t].renamed /\ r.own = tab[t].renamed /\ r.updates = k
      BY <1>2, <3>1 DEF TabRecords
    <3>4. r \in TabRecords
      <4>1. 0 \in 0 .. MaxEvents
        BY <1>2
      <4>2. PICK m : m = tab[t].renamed
        OBVIOUS
      <4>3. m \in 0 .. MaxEvents
        BY <1>3, <4>2
      <4>4. PICK a \in TabRecords : a = [tab[t] EXCEPT !.renamed = 0]
        BY <1>2, <4>1 DEF TabRecords
      <4>5. PICK b \in TabRecords : b = [a EXCEPT !.name = m]
        BY <4>3 DEF TabRecords
      <4>6. PICK c \in TabRecords : c = [b EXCEPT !.updates = k]
        BY <1>6 DEF TabRecords
      <4>7. [c EXCEPT !.own = m] \in TabRecords
        BY <4>3 DEF TabRecords
      <4> QED
        BY <3>1, <4>2, <4>4, <4>5, <4>6, <4>7
    <3> QED
      BY <1>2, <2>1, <3>2, <3>3, <3>4
  <2>2. CASE tab[t].status # "in"
    <3>1. 0 \in 0 .. MaxEvents
      BY <1>2
    <3> QED
      BY <1>1, <1>2, <2>2, <3>1 DEF TabRecords
  <2> QED
    BY <2>1, <2>2
<1>8. SessionsTypeOK'
  BY <1>1, <1>7, SessionTypes, SessionTypesNext DEF SessionsInv, Bounds
<1>9. Bounds'
  <2>1. RowBounds' /\ ExBounds'
    BY <1>1 DEF SessionsInv, Bounds, RowBounds, ExBounds, Live
  <2>2. /\ tab'[t].name <= name /\ tab'[t].own <= name /\ tab'[t].updates <= name
        /\ tab'[t].renamed = 0 /\ 0 <= name
    BY <1>2, <1>3, <1>4, <1>6, <1>7
  <2>3. TabBounds'
    BY <1>1, <1>4, <1>7, <2>2 DEF SessionsInv, Bounds, TabBounds
  <2> QED
    BY <1>1, <2>1, <2>3 DEF SessionsInv, Bounds
<1>10. HeldInv' /\ OneSpender' /\ AloneInv' /\ Fresh' /\ KeptInv'
  BY <1>1 DEF SessionsInv, HeldInv, OneSpender, AloneInv, OneHand, OneTip, Checked, InHand, Fresh,
              KeptInv, Replaced, Unspent, Spoiled, OnItsWay, Live
<1>11. TabInv'
  <2> SUFFICES ASSUME NEW u \in Tabs
               PROVE  /\ tab'[u].ended =>
                           /\ tab'[u].status = "out" /\ ~tab'[u].timer
                           /\ \A x \in Exchanges : x[1] = u => ex[x].pc = "idle"
                      /\ tab'[u].status # "in" => tab'[u].own = 0
                      /\ tab'[u].status = "in" => tab'[u].own <= tab'[u].name
    BY <1>1 DEF TabInv
  <2>1. /\ tab[u].ended =>
             /\ tab[u].status = "out" /\ ~tab[u].timer
             /\ \A x \in Exchanges : x[1] = u => ex[x].pc = "idle"
        /\ tab[u].status # "in" => tab[u].own = 0
        /\ tab[u].status = "in" => tab[u].own <= tab[u].name
    BY DEF SessionsInv, TabInv
  <2>2. CASE u = t
    <3>1. CASE tab[t].status = "in"
      BY <1>3, <1>7, <2>1, <2>2, <3>1
    <3>2. CASE tab[t].status # "in"
      BY <1>7, <2>1, <2>2, <3>2
    <3> QED
      BY <3>1, <3>2
  <2>3. CASE u # t
    BY <1>7, <2>1, <2>3
  <2> QED
    BY <2>2, <2>3
<1>12. ReadInv'
  <2> SUFFICES ASSUME NEW y \in Exchanges, ex[y].pc # "idle"
               PROVE  /\ ex[y].before <= tab'[y[1]].updates
                      /\ ex[y].pc = "read" /\ ex[y].before = tab'[y[1]].updates =>
                           tab'[y[1]].own <= ex[y].seen
    BY <1>1 DEF ReadInv
  <2>1. y[1] \in Tabs /\ ex[y].before \in Nat
    BY ExchangeTab, SessionTypes DEF ExRecords
  <2>2. /\ ex[y].before <= tab[y[1]].updates
        /\ ex[y].pc = "read" /\ ex[y].before = tab[y[1]].updates => tab[y[1]].own <= ex[y].seen
    BY DEF SessionsInv, ReadInv
  <2>3. CASE y[1] = t /\ tab[t].status = "in"
    BY <1>3, <1>6, <1>7, <2>1, <2>2, <2>3
  <2>4. CASE ~(y[1] = t /\ tab[t].status = "in")
    BY <1>7, <2>1, <2>2, <2>4
  <2> QED
    BY <2>3, <2>4
<1> QED
  BY <1>8, <1>9, <1>10, <1>11, <1>12 DEF SessionsInv, Settings


LEMMA RenewKeeps ==
  ASSUME SessionsInv, NEW t \in Tabs, Renew(t)
  PROVE  SessionsInv'
<1>1. ~Spending(t) /\ Begin(t, "refresh", Home) /\ (tab[t].status = "loading" \/ tab[t].timer)
  BY DEF Renew
<1>2. ~tab[t].ended
  BY <1>1 DEF SessionsInv, TabInv
<1>3. Home \in Workspaces
  BY DEF Workspaces
<1> QED
  BY <1>1, <1>2, <1>3, BeginKeeps

LEMMA ChangeWorkspaceKeeps ==
  ASSUME SessionsInv, NEW t \in Tabs, ChangeWorkspace(t)
  PROVE  SessionsInv'
<1>1. PICK w \in Workspaces : Begin(t, "switch", w)
  BY DEF ChangeWorkspace
<1>2. ~Spending(t) /\ tab[t].status = "in"
  BY DEF ChangeWorkspace
<1>3. ~tab[t].ended
  BY <1>2 DEF SessionsInv, TabInv
<1> QED
  BY <1>1, <1>2, <1>3, BeginKeeps

LEMMA SessionsStart ==
  ASSUME Settings, SessionsInit
  PROVE  SessionsInv
<1>1. /\ rows = <<Row(1, Home)>> /\ members = Workspaces /\ name = 0 /\ cookie = 1
      /\ tab = [t \in Tabs |-> [status |-> "loading", ws |-> Home, name |-> 0, updates |-> 0,
                                renamed |-> 0, own |-> 0, timer |-> FALSE, ended |-> FALSE]]
      /\ ex = [x \in Exchanges |-> NoExchange]
      /\ logout = [t \in Tabs |-> NoLogout]
      /\ sessionFaults = 0 /\ lost = FALSE /\ overlapped = FALSE /\ raced = {}
  BY DEF SessionsInit
<1>2. MaxRows \in Nat \ {0} /\ MaxEvents \in Nat /\ Home \in Workspaces
  BY DEF Settings, Workspaces
<1>3. /\ Row(1, Home) \in RowRecords /\ Row(1, Home).root = 1 /\ Row(1, Home).next = 0
      /\ ~Row(1, Home).revoked /\ Row(1, Home).ws = Home
  BY <1>2 DEF Row, RowRecords
<1>4. /\ rows \in Seq(RowRecords) /\ Len(rows) = 1 /\ DOMAIN rows = {1}
      /\ rows[1].root = 1 /\ rows[1].next = 0 /\ ~rows[1].revoked /\ rows[1].ws = Home
  BY <1>1, <1>3
<1>5. /\ NoExchange \in ExRecords /\ NoExchange.pc = "idle" /\ NoExchange.kind = "none"
      /\ NoExchange.cookie = 0 /\ NoExchange.row = 0 /\ NoExchange.seen = 0
  BY <1>2 DEF NoExchange, ExRecords
<1>6. /\ ex \in [Exchanges -> ExRecords] /\ \A x \in Exchanges : ex[x] = NoExchange
  BY <1>1, <1>5
<1>7. /\ logout \in [Tabs -> LogoutRecords]
      /\ \A t \in Tabs : logout[t].pc = "none" /\ logout[t].cookie = 0
  BY <1>1, <1>2 DEF LogoutRecords, NoLogout
<1>8. /\ tab \in [Tabs -> TabRecords]
      /\ \A t \in Tabs : /\ tab[t].status = "loading" /\ tab[t].name = 0 /\ tab[t].updates = 0
                         /\ tab[t].renamed = 0 /\ tab[t].own = 0 /\ ~tab[t].ended
  <2>1. [status |-> "loading", ws |-> Home, name |-> 0, updates |-> 0, renamed |-> 0, own |-> 0,
         timer |-> FALSE, ended |-> FALSE] \in TabRecords
    BY <1>2 DEF TabRecords
  <2> QED
    BY <1>1, <2>1
<1>9. SessionsTypeOK
  <2>1. cookie \in 0 .. Len(rows) /\ Len(rows) <= MaxRows /\ name \in 0 .. MaxEvents
    BY <1>1, <1>2, <1>4
  <2> QED
    BY <1>1, <1>2, <1>4, <1>6, <1>7, <1>8, <2>1
    DEF SessionsTypeOK, RowRecords, TabRecords, ExRecords, LogoutRecords
<1>10. Bounds
  BY <1>1, <1>2, <1>4, <1>5, <1>6, <1>7, <1>8 DEF Bounds, RowBounds, ExBounds, TabBounds, Live
<1>11. HeldInv /\ OneSpender /\ Fresh /\ TabInv /\ ReadInv
  BY <1>5, <1>6, <1>8 DEF HeldInv, OneSpender, Fresh, TabInv, ReadInv
<1>12. AloneInv
  BY <1>4, <1>5, <1>6 DEF AloneInv, OneHand, OneTip, Checked, InHand
<1>13. KeptInv
  BY <1>1, <1>4, <1>5, <1>6 DEF KeptInv, Replaced, Unspent, Spoiled, OnItsWay, InHand, Live
<1> QED
  BY <1>9, <1>10, <1>11, <1>12, <1>13 DEF SessionsInv

LEMMA SessionsStutter ==
  ASSUME SessionsInv, UNCHANGED sessionsVars
  PROVE  SessionsInv'
<1>1. /\ rows' = rows /\ members' = members /\ name' = name /\ cookie' = cookie /\ tab' = tab
      /\ ex' = ex /\ logout' = logout /\ sessionFaults' = sessionFaults /\ lost' = lost
      /\ overlapped' = overlapped /\ raced' = raced
  BY DEF sessionsVars
<1>2. SessionsTypeOK'
  BY <1>1, SessionTypes, SessionTypesNext DEF SessionsInv, Bounds
<1>3. Bounds'
  BY <1>1 DEF SessionsInv, Bounds, RowBounds, ExBounds, TabBounds, Live
<1>4. HeldInv' /\ OneSpender' /\ Fresh' /\ TabInv' /\ ReadInv'
  BY <1>1 DEF SessionsInv, HeldInv, OneSpender, Fresh, TabInv, ReadInv
<1>5. AloneInv' /\ KeptInv'
  BY <1>1 DEF SessionsInv, AloneInv, OneHand, OneTip, Checked, InHand,
              KeptInv, Replaced, Unspent, Spoiled, OnItsWay, Live
<1> QED
  BY <1>2, <1>3, <1>4, <1>5 DEF SessionsInv, Settings

LEMMA SessionsStep ==
  ASSUME SessionsInv, [SessionsNext]_(sessionsVars)
  PROVE  SessionsInv'
<1>1. ASSUME NEW t \in Tabs, Browser(t)
      PROVE  SessionsInv'
  BY <1>1, RenewKeeps, ChangeWorkspaceKeeps, CompleteSignInKeeps, SignOutKeeps, RenameKeeps
  DEF Browser
<1>2. ASSUME NEW t \in Tabs, Leave(t) \/ LogoutLost(t) \/ UpdateProfile(t)
      PROVE  SessionsInv'
  BY <1>2, LogoutKeeps, LogoutAnsweredKeeps, LogoutLostKeeps, UpdateProfileKeeps DEF Leave
<1>3. ASSUME NEW x \in Exchanges, Serve(x)
      PROVE  SessionsInv'
  BY <1>3, SpendKeeps, GrantKeeps, RotateKeeps, AnsweredKeeps, ReadProfileKeeps, AdoptKeeps,
     TabFailKeeps DEF Serve
<1>4. ASSUME NEW x \in Exchanges, Lose(x)
      PROVE  SessionsInv'
  BY <1>4, LoseKeeps
<1>5. ASSUME NEW w \in Others, RemoveMember(w)
      PROVE  SessionsInv'
  BY <1>5, RemoveMemberKeeps
<1>6. CASE UNCHANGED sessionsVars
  BY <1>6, SessionsStutter
<1> QED
  BY <1>1, <1>2, <1>3, <1>4, <1>5, <1>6 DEF SessionsNext

(* What the inductive invariant of a session says holds of every state.    *)
THEOREM SessionsInvariant == SessionsSpec => []SessionsInv
<1>1. SessionsInit => SessionsInv
  BY SessionsStart, SessionsAssumption
<1>2. SessionsInv /\ [SessionsNext]_(sessionsVars) => SessionsInv'
  BY SessionsStep
<1> QED
  BY <1>1, <1>2, PTL DEF SessionsSpec

(* sessions.py 1-15, workspaces.py 196-205: a sign-in has one live refresh *)
(* token at a time, unless two tabs spent one at once, and leaving a       *)
(* workspace ends every session in it, unless an exchange was being        *)
(* granted just then: for any tabs, requests, workspaces and tokens.       *)
THEOREM SessionsKeepOneToken == SessionsSpec => []OneLiveToken
<1>1. SessionsInv => OneLiveToken
  <2> SUFFICES ASSUME SessionsInv PROVE OneLiveToken
    OBVIOUS
  <2>1. ASSUME NEW n \in DOMAIN rows
        PROVE  /\ rows[n].next # 0 => ~Live(n)
               /\ Live(n) => rows[n].ws \in members \cup raced
    BY DEF SessionsInv, Bounds, RowBounds
  <2>2. ~overlapped => \A m, n \in DOMAIN rows :
          Live(m) /\ Live(n) /\ rows[m].root = rows[n].root => m = n
    BY <2>1 DEF SessionsInv, AloneInv, OneTip
  <2> QED
    BY <2>1, <2>2 DEF SessionsInv, OneLiveToken
<1> QED
  BY <1>1, SessionsInvariant, PTL

(* The browser is never left with a cookie that cannot renew: when nothing *)
(* is in flight the one it holds is good, unless an answer was lost, two   *)
(* tabs used one at once, or the person left a workspace.                  *)
THEOREM SessionsAreKept == SessionsSpec => []SessionKept
<1>1. SessionsInv => SessionKept
  <2> SUFFICES ASSUME SessionsInv, \A x \in Exchanges : ex[x].pc = "idle",
                      \A t \in Tabs : logout[t].pc = "none",
                      cookie # 0, ~Live(cookie), ~lost, ~overlapped
               PROVE  members # Workspaces
    BY DEF SessionKept
  <2>1. Replaced /\ (members = Workspaces => Spoiled)
    BY DEF SessionsInv, KeptInv
  <2>2. rows[cookie].next = 0
    BY <2>1 DEF Replaced
  <2> QED
    BY <2>1, <2>2 DEF Spoiled
<1> QED
  BY <1>1, SessionsInvariant, PTL

(* session.ts 74-106, 259-268: a tab whose person signed out stays signed  *)
(* out, unless an exchange was in flight as the sign-out settled, and a    *)
(* renewal or switch answered before a rename never puts the old name back *)
(* in the tab that made it.                                                *)
THEOREM SessionsLateAnswersLose == SessionsSpec => []LateAnswersLose
<1>1. SessionsInv => LateAnswersLose
  <2> SUFFICES ASSUME SessionsInv, NEW t \in Tabs
               PROVE  /\ tab[t].ended => tab[t].status = "out"
                      /\ tab[t].status = "in" => tab[t].name >= tab[t].own
    BY DEF LateAnswersLose
  <2>1. tab[t].name \in Nat /\ tab[t].own \in Nat
    BY SessionTypes DEF TabRecords
  <2> QED
    BY <2>1 DEF SessionsInv, TabInv
<1> QED
  BY <1>1, SessionsInvariant, PTL

=============================================================================
