---------------------------- MODULE Channels ----------------------------
(***************************************************************************)
(* Channels and who administers them (messaging: channels.py, dms.py,      *)
(* routers/channels.py), and the members of a workspace (auth:             *)
(* identities.py, routers/workspaces.py), which follow the same rule: the  *)
(* last admin of a channel, the last owner of a workspace, stays.          *)
(*                                                                         *)
(* A request is a READ COMMITTED transaction: every statement sees what is *)
(* committed when it starts.  A write and its commit are one step, since a *)
(* second write of the row waits for the commit of the first.              *)
(***************************************************************************)
EXTENDS Naturals, FiniteSets

CONSTANTS
  People,     \* two people
  Slots,      \* ids of channels
  Names,      \* what a channel may be called
  Requests,   \* the requests, each served once
  Ops         \* what they may ask for

ASSUME ChannelsAssumption ==
  /\ IsFiniteSet(People) /\ Cardinality(People) = 2
  /\ "workspace" \notin Slots /\ "nobody" \notin People /\ "pair" \notin Names
  /\ Ops \subseteq {"create", "rename", "archive", "add", "set", "remove", "open", "send"}

VARIABLES
  channel,    \* the channels
  role,       \* the role of each person in each channel and the workspace
  claims,     \* the workspace role each person's access token states
  posted,     \* the top-level messages of each channel
  added,      \* the channels whose two people were told of them
  req,        \* the requests
  overlapped  \* the groups two requests took roles away in at once

vars == <<channel, role, claims, posted, added, req, overlapped>>

Workspace == "workspace"

Groups == Slots \cup {Workspace}

Nobody == "nobody"

Pair == "pair"   \* the name of the direct message of the two people

Absent == [kind |-> "none", name |-> Pair, version |-> 0, archived |-> FALSE]

Keeper(g) == IF g = Workspace THEN "owner" ELSE "admin"

Roles(g) == IF g = Workspace THEN {"member", "admin", "owner"} ELSE {"member", "admin"}

Keepers(g) == {p \in People : role[g][p] = Keeper(g)}

Idle == [pc |-> "idle", op |-> "none", who |-> "none", on |-> Workspace, whom |-> Nobody,
         as |-> "none", name |-> Pair, seen |-> [name |-> Pair, version |-> 0], opens |-> FALSE]

(* A workspace with an owner, and channels with an admin, as earlier       *)
(* requests may have left them; a direct message has two members.          *)
Init ==
  /\ \E first, second \in Slots, kind \in {"public", "private"}, n \in Names :
       channel = [c \in Slots |->
         IF c = first THEN [kind |-> kind, name |-> n, version |-> 0, archived |-> FALSE]
         ELSE IF c = second THEN [Absent EXCEPT !.kind = "dm"] ELSE Absent]
  /\ role \in [Groups -> [People -> {"none", "member", "admin", "owner"}]]
  /\ \A g \in Groups :
       \/ g = Workspace /\ Keepers(g) # {}
       \/ /\ g # Workspace /\ \A p \in People : role[g][p] # "owner"
          /\ CASE channel[g].kind = "none" -> \A p \in People : role[g][p] = "none"
               [] channel[g].kind = "dm"   -> \A p \in People : role[g][p] = "member"
               [] OTHER                    -> Keepers(g) # {}
  /\ claims = role[Workspace]
  /\ posted = [c \in Slots |-> 0] /\ added = {}
  /\ req = [r \in Requests |-> Idle]
  /\ overlapped = {}

-----------------------------------------------------------------------------
Forms == [on : Groups, whom : People \cup {Nobody}, as : {"none", "member", "admin", "owner"},
          name : Names \cup {Pair}]

(* What a form says, as far as its operation reads it. *)
FormsOf(op) ==
  {f \in Forms :
    /\ f.whom = Nobody <=> op \notin {"add", "set", "remove"}
    /\ f.name = Pair <=> op \notin {"create", "rename"}
    /\ IF op \in {"add", "set"} THEN f.as \in Roles(f.on) ELSE f.as = "none"
    /\ CASE op \in {"create", "open", "set"} -> f.on = Workspace
         [] op \in {"rename", "archive", "send"} -> f.on # Workspace
         [] OTHER -> TRUE
    /\ f.on # Workspace => channel[f.on].kind # "none"}

(* A form opened shows a channel as it is; its request is sent later. *)
Ask(r) ==
  /\ req[r].pc = "idle"
  /\ \E op \in Ops, who \in People, form \in Forms :
       /\ form \in FormsOf(op)
       /\ req' = [req EXCEPT ![r] = [
            pc |-> IF op \in {"create", "open"} THEN "allowed" ELSE "asked",
            op |-> op, who |-> who, on |-> form.on, whom |-> form.whom, as |-> form.as,
            name |-> form.name, opens |-> FALSE,
            seen |-> IF op # "rename" THEN Idle.seen
                     ELSE [name |-> channel[form.on].name, version |-> channel[form.on].version]]]
  /\ UNCHANGED <<channel, role, claims, posted, added, overlapped>>

Membership(p) == role[Workspace][p]

(* A token is renewed: it states the role of its owner again. *)
Renew(p) ==
  /\ claims[p] # Membership(p) /\ Membership(p) # "none"
  /\ claims' = [claims EXCEPT ![p] = Membership(p)]
  /\ UNCHANGED <<channel, role, posted, added, req, overlapped>>

Visible(p, c) ==
  /\ channel[c].kind # "none" /\ ~channel[c].archived
  /\ channel[c].kind = "public" \/ role[c][p] # "none"

(* A route finds the channel among those its caller may see, or answers    *)
(* that there is none; only then does it look at the role.                 *)
ManagesChannel(p, c) == Visible(p, c) /\ channel[c].kind # "dm" /\ role[c][p] = "admin"

(* A route of the workspace takes the role from the token. *)
ManagesWorkspace(p) == claims[p] \in {"owner", "admin"}

(* Of a request that is over only what it asked for is kept. *)
To(r, pc) == req' = [req EXCEPT ![r] = IF pc = "over" THEN [Idle EXCEPT !.pc = pc, !.op = req[r].op]
                                       ELSE [@ EXCEPT !.pc = pc]]

Authorise(r) ==
  /\ req[r].pc = "asked"
  /\ LET p == req[r].who  g == req[r].on
         may == IF g = Workspace THEN ManagesWorkspace(p)
                ELSE IF req[r].op = "send" THEN Visible(p, g) ELSE ManagesChannel(p, g)
     IN  To(r, IF may THEN "allowed" ELSE "over")
  /\ UNCHANGED <<channel, role, claims, posted, added, overlapped>>

Serving(r, op) == req[r].pc = "allowed" /\ req[r].op = op

-----------------------------------------------------------------------------
(* Channels. *)

(* What the unique index of public names leaves out. *)
NameTaken(c, kind, n) ==
  kind = "public" /\ \E o \in Slots \ {c} : channel[o].kind = "public" /\ channel[o].name = n

Create(r) ==
  /\ Serving(r, "create")
  /\ \E c \in Slots, kind \in {"public", "private"} :
       /\ channel[c].kind = "none"
       /\ IF NameTaken(c, kind, req[r].name)
            THEN UNCHANGED <<channel, role>>
            ELSE /\ channel' = [channel EXCEPT ![c] =
                      [kind |-> kind, name |-> req[r].name, version |-> 0, archived |-> FALSE]]
                 /\ role' = [role EXCEPT ![c][req[r].who] = "admin"]
  /\ To(r, "over")
  /\ UNCHANGED <<claims, posted, added, overlapped>>

(* Mutant: a rename is not guarded by the version its form was filled from. *)
RefusesTaken(c, f) == NameTaken(c, channel[c].kind, f.name)

(* The update finds no row of the version, or breaks the index. *)
RefusesRename(c, f) ==
  channel[c].version # f.seen.version \/ NameTaken(c, channel[c].kind, f.name)

Rename(r) ==
  /\ Serving(r, "rename")
  /\ LET c == req[r].on
     IN  channel' = IF RefusesRename(c, req[r]) THEN channel
                    ELSE [channel EXCEPT ![c].name = req[r].name, ![c].version = @ + 1]
  /\ To(r, "over")
  /\ UNCHANGED <<role, claims, posted, added, overlapped>>

(* Whatever the version is by now. *)
PutAway(c) == [c EXCEPT !.archived = TRUE, !.version = @ + 1]

Archive(r) ==
  /\ Serving(r, "archive")
  /\ channel' = [channel EXCEPT ![req[r].on] = PutAway(@)]
  /\ To(r, "over")
  /\ UNCHANGED <<role, claims, posted, added, overlapped>>

-----------------------------------------------------------------------------
(* Members: of a channel, and of the workspace. *)

Insert(r) ==
  /\ role' = IF role[req[r].on][req[r].whom] # "none" THEN role
             ELSE [role EXCEPT ![req[r].on][req[r].whom] = req[r].as]
  /\ To(r, "over")
  /\ UNCHANGED <<channel, claims, posted, added, overlapped>>

AddToChannel(r) == Serving(r, "add") /\ req[r].on # Workspace /\ Insert(r)

(* add_member of identities: a member already is refused. *)
Enlist(r) ==
  /\ role' = IF Membership(req[r].whom) # "none" THEN role
             ELSE [role EXCEPT ![Workspace][req[r].whom] = req[r].as]
  /\ To(r, "over")
  /\ UNCHANGED <<channel, claims, posted, added, overlapped>>

AddToWorkspace(r) == Serving(r, "add") /\ req[r].on = Workspace /\ Enlist(r)

Takes(q) == q.op = "remove" \/ q.as # "owner"

(* A request that is about to take a role from somebody. *)
Taking(r) == req[r].pc \in {"counting", "settled"} /\ Takes(req[r])

(* A row read: where it is a keeper's that would be lost, a count follows. *)
Decide(r, current) ==
  LET g == req[r].on
  IN  /\ To(r, IF current = "none" THEN "over"
               ELSE IF Takes(req[r]) /\ current = Keeper(g) THEN "counting" ELSE "settled")
      /\ overlapped' = IF Takes(req[r]) /\ \E o \in Requests : req[o].on = g /\ Taking(o)
                         THEN overlapped \cup {g} ELSE overlapped
      /\ UNCHANGED <<channel, role, claims, posted, added>>

ReadChannelRole(r) == Serving(r, "remove") /\ req[r].on # Workspace /\
  Decide(r, role[req[r].on][req[r].whom])

ReadMembership(r) ==
  /\ req[r].on = Workspace /\ (Serving(r, "set") \/ Serving(r, "remove"))
  /\ Decide(r, Membership(req[r].whom))

Count(r, refused) ==
  /\ req[r].pc = "counting"
  /\ To(r, IF refused THEN "over" ELSE "settled")
  /\ UNCHANGED <<channel, role, claims, posted, added, overlapped>>

(* Mutant: the last admin is not refused. *)
CountNobody(r) == req[r].on # Workspace /\ Count(r, FALSE)

CountAdmins(r) == req[r].on # Workspace /\ Count(r, Cardinality(Keepers(req[r].on)) = 1)

CountOwners(r) == req[r].on = Workspace /\ Count(r, Cardinality(Keepers(Workspace)) <= 1)

(* The row goes, or has the new role; one that went is not put back. *)
Write(r, as) ==
  /\ req[r].pc = "settled"
  /\ role' = IF role[req[r].on][req[r].whom] = "none" THEN role
             ELSE [role EXCEPT ![req[r].on][req[r].whom] = as]
  /\ To(r, "over")
  /\ UNCHANGED <<channel, claims, posted, added, overlapped>>

RemoveFromChannel(r) == req[r].on # Workspace /\ Write(r, "none")

RemoveFromWorkspace(r) == req[r].on = Workspace /\ req[r].op = "remove" /\ Write(r, "none")

SetRole(r) == req[r].on = Workspace /\ req[r].op = "set" /\ Write(r, req[r].as)

-----------------------------------------------------------------------------
(* Direct messages. *)

(* Found by the pair of its people, or created with both as members. *)
OpenDm(r) ==
  /\ Serving(r, "open")
  /\ \/ /\ \E c \in Slots : channel[c].kind = "dm"
        /\ UNCHANGED <<channel, role>>
     \/ \E c \in Slots :
          /\ \A o \in Slots : channel[o].kind # "dm"
          /\ channel[c].kind = "none"
          /\ channel' = [channel EXCEPT ![c] = [Absent EXCEPT !.kind = "dm"]]
          /\ role' = [role EXCEPT ![c] = [p \in People |-> "member"]]
  /\ To(r, "over")
  /\ UNCHANGED <<claims, posted, added, overlapped>>

OpensDm(c) == channel[c].kind = "dm" /\ posted[c] = 0

(* Is this the first message of a direct message?  Asked before it is      *)
(* inserted.                                                               *)
CheckOpens(r) ==
  /\ Serving(r, "send")
  /\ req' = [req EXCEPT ![r].pc = "checked", ![r].opens = OpensDm(req[r].on)]
  /\ UNCHANGED <<channel, role, claims, posted, added, overlapped>>

CommitMessage(r) ==
  /\ req[r].pc = "checked"
  /\ posted' = [posted EXCEPT ![req[r].on] = @ + 1]
  /\ To(r, "committed")
  /\ UNCHANGED <<channel, role, claims, added, overlapped>>

(* Mutant: the direct message is announced if it has one message by now. *)
AnnounceFirst(r) ==
  /\ req[r].pc = "committed"
  /\ added' = IF channel[req[r].on].kind = "dm" /\ posted[req[r].on] = 1
                THEN added \cup {req[r].on} ELSE added
  /\ To(r, "over")
  /\ UNCHANGED <<channel, role, claims, posted, overlapped>>

(* channel_added goes to the two people after the commit. *)
Announce(r) ==
  /\ req[r].pc = "committed"
  /\ added' = IF req[r].opens THEN added \cup {req[r].on} ELSE added
  /\ To(r, "over")
  /\ UNCHANGED <<channel, role, claims, posted, overlapped>>

Next ==
  \/ \E r \in Requests :
       \/ Ask(r) \/ Authorise(r) \/ Create(r) \/ Rename(r) \/ Archive(r)
       \/ AddToChannel(r) \/ ReadChannelRole(r) \/ CountAdmins(r) \/ RemoveFromChannel(r)
       \/ AddToWorkspace(r) \/ ReadMembership(r) \/ CountOwners(r)
       \/ RemoveFromWorkspace(r) \/ SetRole(r)
       \/ OpenDm(r) \/ CheckOpens(r) \/ CommitMessage(r) \/ Announce(r)
  \/ \E p \in People : Renew(p)

Spec == Init /\ [][Next]_vars

-----------------------------------------------------------------------------
(* The state is well formed: two people have one direct message, with both *)
(* as members, never renamed or archived (dms.py 1-12, 76-79).             *)
TypeOK ==
  /\ \A c \in Slots :
       /\ channel[c].kind \in {"none", "public", "private", "dm"}
       /\ channel[c].name \in Names \cup {Pair} /\ channel[c].version \in Nat
       /\ channel[c].kind = "dm" => ~channel[c].archived /\ channel[c].name = Pair
                                    /\ \A p \in People : role[c][p] = "member"
  /\ \A c, d \in Slots : channel[c].kind = "dm" /\ channel[d].kind = "dm" => c = d
  /\ \A g \in Groups, p \in People : role[g][p] \in Roles(g) \cup {"none"}
  /\ added \subseteq Slots /\ overlapped \subseteq Groups
  /\ \A r \in Requests : req[r].op \in Ops \cup {"none"}

(* channels.py 93-99, identities.py 316-322: a channel always has an admin *)
(* and a workspace an owner, however removals and changes of a role overlap*)
(* with additions, promotions and each other: unless two took a role away  *)
(* at once, neither of which counts the other.                             *)
KeeperStays ==
  TypeOK /\ \A g \in Groups : Keepers(g) = {} =>
    g \in overlapped \/ (g # Workspace /\ channel[g].kind \in {"none", "dm"})

RenamesSeen ==
  \A r \in Requests :
    /\ req[r].op = "rename" /\ req[r].pc = "allowed" /\ req'[r].pc = "over"
    /\ channel'[req[r].on].name # channel[req[r].on].name
    => channel[req[r].on].name = req[r].seen.name

ArchivedStays ==
  \A c \in Slots : channel[c].archived =>
    channel'[c].archived /\ channel'[c].name = channel[c].name

(* channels.py 193-206, 240-251: whatever form was filled from whatever the*)
(* person saw, nobody renames a channel over a name they have not seen, and*)
(* a channel that was put away changes no more.                            *)
SawWhatItRenames == [][RenamesSeen /\ ArchivedStays]_vars

(* dms.py 111-126: once a direct message has a message, its people are     *)
(* told of it, by whichever send was checked before any had committed.     *)
DmAnnounced ==
  \A c \in Slots : channel[c].kind = "dm" /\ posted[c] > 0 =>
    c \in added \/ \E r \in Requests : req[r].pc = "committed" /\ req[r].on = c /\ req[r].opens
=============================================================================
