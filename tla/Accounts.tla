---------------------------- MODULE Accounts ----------------------------
(***************************************************************************)
(* Signing in, above all for the first time (auth: loginflow.py,           *)
(* routers/federation.py, identities.py, names.py).                        *)
(*                                                                         *)
(* A callback of the identity provider runs in one transaction with other  *)
(* callbacks between its statements: it claims the login, resolves the     *)
(* identity, inserts a user under the first free name, joins the demo      *)
(* workspace, mints a code and commits.  A statement that meets a row      *)
(* another transaction has not committed waits for it, as PostgreSQL does. *)
(* A display name is the one asked for and the number of its candidate;    *)
(* meanwhile people who have an account rename themselves (routers/users.py). *)
(***************************************************************************)
EXTENDS Naturals

CONSTANTS
  Logins,     \* logins begun
  Callbacks,  \* callbacks in flight, more than one for a login that reloads
  Subjects,   \* identities at the providers
  Email,      \* the email of each
  Base,       \* the name each asks for
  Verified,   \* the subjects whose provider says it is verified
  MaxRenames, \* bound on renames
  MaxName,    \* bound on the number of the candidate a rename takes
  MaxFaults   \* bound on failures of the store or of a commit

ASSUME AccountsAssumption ==
  /\ Verified \subseteq Subjects /\ "free" \notin Callbacks
  /\ DOMAIN Email = Subjects /\ DOMAIN Base = Subjects
  /\ MaxFaults \in Nat /\ MaxRenames \in Nat /\ MaxName \in Nat

VARIABLES
  users,    \* accounts committed: [id, email, base, name]
  links,    \* identities linked: [subject, user]
  demo,     \* demo workspaces committed, named by the callback that made them
  lock,     \* who holds the advisory lock
  login,    \* each login: its subject, its pending entry, its codes and sessions
  call,     \* the callbacks; `freed` once the name an insert failed on was let go
  renames,
  faults

vars == <<users, links, demo, lock, login, call, renames, faults>>

Free == "free"

NoCall == [pc |-> "idle", login |-> CHOOSE l \in Logins : TRUE, user |-> Free, by |-> "none",
           name |-> 1, made |-> FALSE, freed |-> FALSE]

Init ==
  /\ users = {} /\ links = {} /\ demo = {} /\ lock = Free
  /\ login \in [Logins -> [subject : Subjects, pending : {TRUE}, codes : {{}}, sessions : {0}]]
  /\ call = [c \in Callbacks |-> NoCall]
  /\ renames = 0 /\ faults = 0

-----------------------------------------------------------------------------
Subject(c) == login[call[c].login].subject

Mail(c) == Email[Subject(c)]

To(c, pc) == call' = [call EXCEPT ![c].pc = pc]

(* Rows a transaction has inserted and not committed. *)
Inserted(c) == call[c].pc \in {"demo", "code", "commit"} /\ call[c].by = "none"

(* Its identity's row. *)
Linking(c) == call[c].pc = "commit" /\ call[c].by # "identity"

(* Mutant: a lock of the session, which no rollback or commit lets go. *)
ReleaseNothing(c) == lock' = lock

(* The transaction ends: its rows, and the advisory lock, are let go. *)
Release(c) == lock' = IF lock = c THEN Free ELSE lock

Aborts(c, why) ==
  /\ To(c, why) /\ Release(c)
  /\ UNCHANGED <<users, links, demo, login>>

(* Mutant: the pending login is read, and left to expire. *)
ClaimRead(c) ==
  /\ call[c].pc = "idle"
  /\ \E l \in Logins :
       /\ login[l].pending
       /\ call' = [call EXCEPT ![c].login = l, ![c].pc = "resolve"]
  /\ UNCHANGED <<users, links, demo, lock, login, renames, faults>>

(* claim_login: read and delete in one command. *)
ClaimLogin(c) ==
  /\ call[c].pc = "idle"
  /\ \E l \in Logins :
       /\ call' = [call EXCEPT ![c].login = l,
                               ![c].pc = IF login[l].pending THEN "resolve" ELSE "invalid_state"]
       /\ login' = [login EXCEPT ![l].pending = FALSE]
  /\ UNCHANGED <<users, links, demo, lock, renames, faults>>

Known(c) == {u \in users : u.email = Mail(c)}

(* The callback goes on with an account that is there. *)
Found(c, by, id) == call' = [call EXCEPT ![c].pc = "code", ![c].by = by, ![c].user = id]

(* link_identity: is the identity known? *)
Resolve(c) ==
  LET linked == {k \in links : k.subject = Subject(c)}
  IN  /\ call[c].pc = "resolve"
      /\ IF linked = {} THEN To(c, "email")
         ELSE Found(c, "identity", (CHOOSE k \in linked : TRUE).user)
      /\ UNCHANGED <<users, links, demo, lock, login, renames, faults>>

(* Is the email?  Then the provider must vouch for it. *)
ResolveEmail(c) ==
  /\ call[c].pc = "email"
  /\ CASE Known(c) = {} -> To(c, "provision")
       [] Known(c) # {} /\ Subject(c) \in Verified ->
            Found(c, "email", (CHOOSE u \in Known(c) : TRUE).id)
       [] OTHER -> To(c, "email_not_verified")
  /\ UNCHANGED <<users, links, demo, lock, login, renames, faults>>

(* provision_user asks for the email once more: an account committed since *)
(* is returned as it is, and linked.                                       *)
Provision(c) ==
  /\ call[c].pc = "provision"
  /\ IF Known(c) # {} THEN Found(c, "email", (CHOOSE u \in Known(c) : TRUE).id)
     ELSE call' = [call EXCEPT ![c].pc = "look", ![c].user = c]
  /\ UNCHANGED <<users, links, demo, lock, login, renames, faults>>

Taken(c, n) == \E u \in users : u.base = Base[Subject(c)] /\ u.name = n

(* _insert_user looks for the first free candidate... *)
Look(c) ==
  /\ call[c].pc = "look"
  /\ call' = [call EXCEPT ![c].name = IF Taken(c, @) THEN @ + 1 ELSE @,
                          ![c].pc = IF Taken(c, call[c].name) THEN "look" ELSE "insert"]
  /\ UNCHANGED <<users, links, demo, lock, login, renames, faults>>

Waits(c) ==
  \E d \in Callbacks \ {c} :
    /\ Inserted(d)
    /\ \/ Mail(d) = Mail(c)
       \/ Base[Subject(d)] = Base[Subject(c)] /\ call[d].name = call[c].name

(* ...and inserts in a savepoint. *)
InsertUser(c) ==
  /\ call[c].pc = "insert" /\ ~Waits(c)
  /\ To(c, IF Taken(c, call[c].name) \/ Known(c) # {} THEN "again" ELSE "demo")
  /\ UNCHANGED <<users, links, demo, lock, login, renames, faults>>

(* Mutant: any conflict of the insert ends the sign-in. *)
RaiseAny(c) ==
  /\ call[c].pc = "again"
  /\ Aborts(c, "conflict")
  /\ UNCHANGED <<renames, faults>>

(* The insert failed: if the name is taken now, the next one is tried; any *)
(* other conflict is raised.                                               *)
LookAgain(c) ==
  /\ call[c].pc = "again"
  /\ IF Taken(c, call[c].name)
       THEN /\ call' = [call EXCEPT ![c].name = @ + 1, ![c].pc = "look", ![c].freed = FALSE]
            /\ UNCHANGED <<users, links, demo, lock, login>>
       ELSE Aborts(c, "conflict")
  /\ UNCHANGED <<renames, faults>>

(* ensure_demo_workspace, under a lock the transaction keeps. *)
EnsureDemo(c) ==
  /\ call[c].pc = "demo" /\ lock = Free
  /\ lock' = c
  /\ call' = [call EXCEPT ![c].made = (demo = {}), ![c].pc = "code"]
  /\ UNCHANGED <<users, links, demo, login, renames, faults>>

(* The identity's row is unique too, and flushed before the code is put in *)
(* the store; the account is committed after.                              *)
IssueCode(c) ==
  /\ call[c].pc = "code"
  /\ call[c].by # "identity" => ~\E d \in Callbacks : Linking(d) /\ Subject(d) = Subject(c)
  /\ IF call[c].by # "identity" /\ \E k \in links : k.subject = Subject(c)
       THEN Aborts(c, "conflict")
       ELSE /\ To(c, "commit")
            /\ login' = [login EXCEPT ![call[c].login].codes = @ \cup {[call |-> c, user |-> call[c].user]}]
            /\ UNCHANGED <<users, links, demo, lock>>
  /\ UNCHANGED <<renames, faults>>

Commit(c) ==
  /\ call[c].pc = "commit"
  /\ users' = IF call[c].by = "none"
                THEN users \cup {[id |-> c, email |-> Mail(c), base |-> Base[Subject(c)], name |-> call[c].name]} ELSE users
  /\ links' = links \cup {[subject |-> Subject(c), user |-> call[c].user]}
  /\ demo' = IF call[c].made THEN demo \cup {c} ELSE demo
  /\ To(c, "handed") /\ Release(c)
  /\ UNCHANGED <<login, renames, faults>>

Running == {"resolve", "email", "provision", "look", "insert", "again", "demo", "code", "commit"}

(* The provider, the store or the database fails: nothing is committed. *)
Fail(c) ==
  /\ call[c].pc \in Running /\ faults < MaxFaults
  /\ faults' = faults + 1
  /\ Aborts(c, "failed")
  /\ UNCHANGED renames

(* The page that was handed a code exchanges it: claim_code consumes it.   *)
(* A page shown twice exchanges it again and finds nothing.                *)
Exchange(c) ==
  LET l == call[c].login
  IN  /\ call[c].pc = "handed"
      /\ \E k \in login[l].codes :
           /\ k.call = c
           /\ login' = [login EXCEPT ![l].codes = @ \ {k},
                ![l].sessions = IF \E u \in users : u.id = k.user THEN @ + 1 ELSE @]
      /\ UNCHANGED <<users, links, demo, lock, call, renames, faults>>

(* PATCH /users/me: a person takes a name nobody holds, and lets theirs go. *)
(* A name that is being inserted is waited for, and then a 409.            *)
UpdateMe ==
  /\ renames < MaxRenames
  /\ \E u \in users, b \in {Base[s] : s \in Subjects}, n \in 1 .. MaxName :
       /\ \E d \in Callbacks : call[d].pc = "handed" /\ call[d].user = u.id
                               /\ login[call[d].login].sessions > 0
       /\ \A v \in users : v.base # b \/ v.name # n
       /\ \A d \in Callbacks : Inserted(d) => Base[Subject(d)] # b \/ call[d].name # n
       /\ users' = (users \ {u}) \cup {[u EXCEPT !.base = b, !.name = n]}
       /\ call' = [d \in Callbacks |->
                    [call[d] EXCEPT !.freed = @ \/ (call[d].pc = "again" /\ call[d].name = u.name
                                                      /\ Base[Subject(d)] = u.base)]]
  /\ renames' = renames + 1
  /\ UNCHANGED <<links, demo, lock, login, faults>>

-----------------------------------------------------------------------------
Step(c) ==
  \/ Resolve(c) \/ ResolveEmail(c) \/ Provision(c) \/ Look(c) \/ InsertUser(c) \/ LookAgain(c)
  \/ EnsureDemo(c) \/ IssueCode(c) \/ Commit(c)

Next ==
  \/ \E c \in Callbacks : ClaimLogin(c) \/ Step(c) \/ Fail(c) \/ Exchange(c)
  \/ UpdateMe

Fairness == \A c \in Callbacks : WF_vars(Step(c))

Spec == Init /\ [][Next]_vars /\ Fairness

-----------------------------------------------------------------------------
Ended == {"invalid_state", "email_not_verified", "conflict", "failed", "handed"}

(* The state is well formed, and two first sign-ins never both make the    *)
(* workspace everyone shares (identities.py 48-50).                        *)
TypeOK ==
  /\ users \subseteq [id : Callbacks, email : {Email[s] : s \in Subjects},
                      base : {Base[s] : s \in Subjects}, name : Nat \ {0}]
  /\ \A k \in links : k.subject \in Subjects /\ k.user \in Callbacks
  /\ demo \subseteq Callbacks /\ \A c, d \in demo : c = d
  /\ lock \in Callbacks \cup {Free}
  /\ \A l \in Logins : login[l].subject \in Subjects /\ login[l].sessions \in Nat
  /\ \A c \in Callbacks :
       /\ call[c].pc \in {"idle"} \cup Running \cup Ended
       /\ call[c].name \in Nat \ {0}
  /\ renames \in 0 .. MaxRenames /\ faults \in 0 .. MaxFaults

(* identities.py 94-103: a sign-in that ends in a conflict lost to someone *)
(* else's account of the same email, never to a name.  The one exception,  *)
(* which the comment there denies: the name its insert failed on was let   *)
(* go by a rename before it looked again.                                  *)
ConflictIsTheEmails ==
  /\ TypeOK
  /\ \A c \in Callbacks : call[c].pc = "conflict" =>
       call[c].freed \/ \E u \in users : u.id # c /\ u.email = Mail(c)

(* federation.py 126-215: a code in a browser's hands is for an account    *)
(* that is there, and a login ends in one session however often its        *)
(* callback or its code is presented.                                      *)
OneSessionPerLogin ==
  \A l \in Logins :
    /\ login[l].sessions <= 1
    /\ \A k \in login[l].codes : call[k.call].pc = "handed" => \E u \in users : u.id = k.user

(* Every callback ends: transactions that wait for each other's names,     *)
(* emails and lock never wait in a circle.                                 *)
SignInsEnd == \A c \in Callbacks : call[c].pc # "idle" ~> call[c].pc \in Ended
=============================================================================
