------------------------- MODULE ChannelsProofs -------------------------
(* Theorems of Channels, and after them of ThreadPanel, for every value of *)
(* their constants.                                                        *)
EXTENDS Channels, ThreadPanel, FiniteSetTheorems, WellFoundedInduction, TLAPS

-----------------------------------------------------------------------------
(* The inductive invariant. *)

Kinds == {"none", "public", "private", "dm"}

AllRoles == {"none", "member", "admin", "owner"}

ChannelRecords == [kind : Kinds, name : Names \cup {Pair}, version : Nat, archived : BOOLEAN]

RequestRecords ==
  [pc : {"idle", "asked", "allowed", "over", "counting", "settled", "checked", "committed"},
   op : Ops \cup {"none"}, who : People \cup {"none"}, on : Groups, whom : People \cup {Nobody},
   as : AllRoles, name : Names \cup {Pair}, seen : [name : Names \cup {Pair}, version : Nat],
   opens : BOOLEAN]

Types ==
  /\ TypeOK
  /\ channel \in [Slots -> ChannelRecords]
  /\ role \in [Groups -> [People -> AllRoles]]
  /\ posted \in [Slots -> Nat]
  /\ req \in [Requests -> RequestRecords]

(* A channel that is not there yet has nothing in it. *)
AbsentInv ==
  \A c \in Slots : channel[c].kind = "none" =>
    ~channel[c].archived /\ posted[c] = 0 /\ \A p \in People : role[c][p] = "none"

Live(q) == q.pc \notin {"idle", "over"}

(* What the form of a request can say. *)
Formed(q) ==
  /\ q.who \in People /\ q.op \in Ops
  /\ q.op \in {"add", "set", "remove"} => q.whom \in People
  /\ q.op \in {"add", "set"} => q.as \in Roles(q.on)
  /\ q.op \in {"create", "rename"} => q.name \in Names
  /\ q.op \in {"create", "open", "set"} => q.on = Workspace
  /\ q.op \in {"rename", "archive", "send"} => q.on # Workspace
  /\ q.pc \in {"counting", "settled"} => q.op \in {"set", "remove"}
  /\ q.pc = "counting" => Takes(q)
  /\ q.pc \in {"checked", "committed"} => q.op = "send"

(* What it says of the channel it is on: one that is there, no direct      *)
(* message once it may be managed, and, of a rename, the name the channel  *)
(* has for as long as the version is the one that was seen.                *)
Fits(q) ==
  LET c == channel[q.on]
  IN  q.on # Workspace =>
        /\ c.kind # "none"
        /\ q.pc # "asked" /\ q.op # "send" => c.kind # "dm"
        /\ q.op = "rename" =>
             /\ q.seen.version <= c.version
             /\ q.seen.version = c.version => q.seen.name = c.name
             /\ q.pc = "allowed" /\ c.archived => q.seen.version < c.version
        /\ q.pc = "checked" /\ c.kind = "dm" /\ posted[q.on] = 0 => q.opens

RequestInv == \A r \in Requests : Live(req[r]) => Formed(req[r]) /\ Fits(req[r])

(* Of a group that no two requests have taken a role in at once: the one   *)
(* that does now still has the row it read, and would leave a keeper.      *)
Decided(g) ==
  /\ \A r, s \in Requests :
       req[r].on = g /\ Taking(r) /\ req[s].on = g /\ Taking(s) => r = s
  /\ \A r \in Requests : req[r].on = g /\ Taking(r) =>
       /\ role[g][req[r].whom] # "none"
       /\ req[r].pc = "counting" => req[r].whom \in Keepers(g)
       /\ req[r].pc = "settled" /\ req[r].whom \in Keepers(g) =>
            \E p \in Keepers(g) : p # req[r].whom

DecidedInv == \A g \in Groups : g \notin overlapped => Decided(g)

ChannelsInv ==
  /\ Types /\ AbsentInv /\ RequestInv
  /\ DecidedInv /\ KeeperStays
  /\ DmAnnounced

-----------------------------------------------------------------------------
(* What steps have in common *)

OverOf(op) == [Idle EXCEPT !.pc = "over", !.op = op]

LEMMA OverFacts ==
  ASSUME NEW op \in Ops \cup {"none"}
  PROVE  /\ OverOf(op) \in RequestRecords
         /\ OverOf(op).pc = "over"
BY DEF OverOf, Idle, RequestRecords, Groups, AllRoles

LEMMA IdleFacts ==
  /\ Idle \in RequestRecords /\ Idle.pc = "idle"
  /\ Idle.seen \in [name : Names \cup {Pair}, version : Nat]
BY DEF Idle, RequestRecords, Groups, AllRoles

LEMMA ToOver ==
  ASSUME NEW r, To(r, "over")
  PROVE  req' = [req EXCEPT ![r] = OverOf(req[r].op)]
BY DEF To, OverOf

LEMMA ToOther ==
  ASSUME Types, NEW r \in Requests, NEW pc, pc # "over", To(r, pc)
  PROVE  req' = [req EXCEPT ![r] = [req[r] EXCEPT !.pc = pc]]
BY DEF To, Types

(* A channel keeps its kind, and what it says changes with its version. *)
Grow ==
  \A c \in Slots : channel[c].kind # "none" =>
    /\ channel'[c].kind = channel[c].kind
    /\ channel'[c].version >= channel[c].version
    /\ channel'[c].version = channel[c].version =>
         channel'[c].name = channel[c].name /\ channel'[c].archived = channel[c].archived

LEMMA RequestsKept ==
  ASSUME ChannelsInv, NEW r \in Requests, NEW q \in RequestRecords,
         req' = [req EXCEPT ![r] = q],
         channel' \in [Slots -> ChannelRecords], posted' \in [Slots -> Nat],
         Grow, \A c \in Slots : posted'[c] >= posted[c],
         Live(q) => Formed(q) /\ Fits(req[r])'
  PROVE  req' \in [Requests -> RequestRecords] /\ RequestInv'
<1>1. /\ req \in [Requests -> RequestRecords] /\ channel \in [Slots -> ChannelRecords]
      /\ posted \in [Slots -> Nat] /\ RequestInv
  BY DEF ChannelsInv, Types
<1>2. /\ req' \in [Requests -> RequestRecords]
      /\ \A s \in Requests : req'[s] = IF s = r THEN q ELSE req[s]
  BY <1>1
<1>3. ASSUME NEW s \in Requests, s # r, Live(req[s])
      PROVE  Formed(req[s]) /\ Fits(req[s])'
  <2>1. Formed(req[s]) /\ Fits(req[s]) /\ req'[s] = req[s] /\ req[s] \in RequestRecords
    BY <1>1, <1>2, <1>3 DEF RequestInv
  <2>2. CASE req[s].on = Workspace
    BY <2>1, <2>2 DEF Fits
  <2>3. CASE req[s].on # Workspace
    <3> DEFINE c == req[s].on
    <3>1. c \in Slots
      BY <2>1, <2>3 DEF RequestRecords, Groups
    <3>2. /\ channel[c] \in ChannelRecords /\ channel'[c] \in ChannelRecords
          /\ posted[c] \in Nat /\ posted'[c] \in Nat /\ posted'[c] >= posted[c]
      BY <1>1, <3>1
    <3>3. channel[c].kind # "none"
      BY <2>1, <2>3 DEF Fits
    <3>4. /\ channel'[c].kind = channel[c].kind
          /\ channel'[c].version >= channel[c].version
          /\ channel'[c].version = channel[c].version =>
               channel'[c].name = channel[c].name /\ channel'[c].archived = channel[c].archived
      BY <3>1, <3>3 DEF Grow
    <3>5. channel[c].version \in Nat /\ channel'[c].version \in Nat /\ req[s].seen.version \in Nat
      BY <2>1, <3>2 DEF ChannelRecords, RequestRecords
    <3>6. QED
      BY <2>1, <2>3, <3>2, <3>4, <3>5 DEF Fits
  <2>4. QED
    BY <2>1, <2>2, <2>3
<1>4. ASSUME NEW s \in Requests, Live(req[s])' PROVE Formed(req[s])' /\ Fits(req[s])'
  BY <1>2, <1>3, <1>4 DEF Live, Formed
<1>5. QED
  BY <1>2, <1>4 DEF RequestInv

(* Roles that are only given to who had none disturb no decision. *)
LEMMA DecidedKept ==
  ASSUME ChannelsInv, NEW r \in Requests, NEW q \in RequestRecords,
         req' = [req EXCEPT ![r] = q], q.pc \notin {"counting", "settled"},
         overlapped \subseteq overlapped', role' \in [Groups -> [People -> AllRoles]],
         \A g \in Groups, p \in People : role[g][p] # "none" => role'[g][p] = role[g][p]
  PROVE  DecidedInv' /\ \A g \in Groups : Keepers(g) \subseteq Keepers(g)'
<1>1. /\ req \in [Requests -> RequestRecords] /\ RequestInv /\ DecidedInv
      /\ role \in [Groups -> [People -> AllRoles]]
  BY DEF ChannelsInv, Types
<1>2. \A s \in Requests : req'[s] = IF s = r THEN q ELSE req[s]
  BY <1>1
<1>3. \A g \in Groups : Keeper(g) # "none"
  BY DEF Keeper
<1>4. \A g \in Groups : Keepers(g) \subseteq Keepers(g)'
  BY <1>3 DEF Keepers
<1>5. \A g \in Groups, p \in People : role[g][p] # "none" => (p \in Keepers(g)' <=> p \in Keepers(g))
  BY <1>3 DEF Keepers
<1>6. \A s \in Requests : Taking(s)' => s # r /\ Taking(s) /\ req'[s] = req[s]
  BY <1>2 DEF Taking
<1>7. \A s \in Requests : Taking(s) => req[s].whom \in People
  BY <1>1 DEF Taking, RequestInv, Formed, Live
<1>8. ASSUME NEW g \in Groups, g \notin overlapped' PROVE Decided(g)'
  <2>1. Decided(g)
    BY <1>1, <1>8 DEF DecidedInv
  <2>2. ASSUME NEW s \in Requests, NEW t \in Requests,
               (req[s].on = g)', Taking(s)', (req[t].on = g)', Taking(t)'
        PROVE  s = t
    BY <1>6, <2>1, <2>2 DEF Decided
  <2>3. ASSUME NEW s \in Requests, (req[s].on = g)', Taking(s)'
        PROVE  /\ role'[g][req'[s].whom] # "none"
               /\ req'[s].pc = "counting" => req'[s].whom \in Keepers(g)'
               /\ req'[s].pc = "settled" /\ req'[s].whom \in Keepers(g)' =>
                    \E p \in Keepers(g)' : p # req'[s].whom
    <3>1. Taking(s) /\ req'[s] = req[s] /\ req[s].on = g /\ req[s].whom \in People
      BY <1>6, <1>7, <2>3
    <3>2. /\ role[g][req[s].whom] # "none"
          /\ req[s].pc = "counting" => req[s].whom \in Keepers(g)
          /\ req[s].pc = "settled" /\ req[s].whom \in Keepers(g) =>
               \E p \in Keepers(g) : p # req[s].whom
      BY <2>1, <3>1 DEF Decided
    <3>3. QED
      BY <1>4, <1>5, <3>1, <3>2
  <2>4. QED
    BY <2>2, <2>3 DEF Decided
<1>9. QED
  BY <1>4, <1>8 DEF DecidedInv

(* A step that announces nothing, and posts nothing. *)
LEMMA AnnouncedKept ==
  ASSUME ChannelsInv, NEW r \in Requests, NEW q \in RequestRecords,
         req' = [req EXCEPT ![r] = q], req[r].pc # "committed",
         Grow, posted' = posted, added' = added,
         channel' \in [Slots -> ChannelRecords]
  PROVE  DmAnnounced'
<1>1. /\ req \in [Requests -> RequestRecords] /\ DmAnnounced /\ AbsentInv
      /\ posted \in [Slots -> Nat]
  BY DEF ChannelsInv, Types
<1>2. \A s \in Requests : s # r => req'[s] = req[s]
  BY <1>1
<1>3. ASSUME NEW c \in Slots, channel'[c].kind = "dm", posted[c] > 0
      PROVE  c \in added \/ \E s \in Requests : req'[s].pc = "committed" /\ req'[s].on = c /\ req'[s].opens
  <2>1. channel[c].kind = "dm"
    BY <1>1, <1>3 DEF AbsentInv, Grow
  <2>2. c \in added \/ \E s \in Requests : req[s].pc = "committed" /\ req[s].on = c /\ req[s].opens
    BY <1>1, <1>3, <2>1 DEF DmAnnounced
  <2>3. QED
    BY <1>2, <2>2
<1>4. QED
  BY <1>3 DEF DmAnnounced

(* A step of one request that changes nothing but the request. *)
LEMMA Still ==
  ASSUME ChannelsInv, NEW r \in Requests, NEW q \in RequestRecords,
         req' = [req EXCEPT ![r] = q], DecidedInv',
         req[r].pc # "committed",
         UNCHANGED <<channel, role, posted, added>>,
         overlapped \subseteq overlapped', overlapped' \subseteq Groups,
         Live(q) => Formed(q) /\ Fits(req[r])'
  PROVE  ChannelsInv'
<1>1. Types
  BY DEF ChannelsInv
<1>2. Grow /\ \A c \in Slots : posted'[c] >= posted[c]
  <2>1. \A c \in Slots : channel[c].version \in Nat /\ posted[c] \in Nat
    BY <1>1 DEF Types, ChannelRecords
  <2>2. QED
    BY <2>1 DEF Grow
<1>3. req' \in [Requests -> RequestRecords] /\ RequestInv'
  BY <1>1, <1>2, RequestsKept DEF Types
<1>5. DmAnnounced'
  BY <1>1, <1>2, AnnouncedKept DEF Types
<1>6. TypeOK'
  BY <1>1, <1>3 DEF Types, TypeOK, RequestRecords
<1>7. Types' /\ AbsentInv'
  BY <1>1, <1>3, <1>6 DEF Types, AbsentInv, ChannelsInv
<1>8. KeeperStays'
  BY <1>6 DEF ChannelsInv, KeeperStays, Keepers
<1>9. QED
  BY <1>3, <1>5, <1>7, <1>8 DEF ChannelsInv

LEMMA OwnStep ==
  ASSUME ChannelsInv, NEW r \in Requests, NEW q \in RequestRecords,
         req' = [req EXCEPT ![r] = q], q.pc \notin {"counting", "settled"},
         req[r].pc # "committed",
         UNCHANGED <<channel, role, posted, added>>,
         overlapped \subseteq overlapped', overlapped' \subseteq Groups,
         Live(q) => Formed(q) /\ Fits(req[r])'
  PROVE  ChannelsInv'
<1>1. role' \in [Groups -> [People -> AllRoles]]
  BY DEF ChannelsInv, Types
<1>2. DecidedInv'
  BY <1>1, DecidedKept
<1>3. QED
  BY <1>2, Still

LEMMA Ending ==
  ASSUME ChannelsInv, NEW r \in Requests, To(r, "over"), req[r].pc # "committed",
         UNCHANGED <<channel, role, posted, added>>,
         overlapped \subseteq overlapped', overlapped' \subseteq Groups
  PROVE  ChannelsInv'
<1>1. req[r].op \in Ops \cup {"none"}
  BY DEF ChannelsInv, Types, RequestRecords
<1>2. OverOf(req[r].op) \in RequestRecords /\ OverOf(req[r].op).pc = "over"
  BY <1>1, OverFacts
<1>3. QED
  BY <1>2, ToOver, OwnStep DEF Live

-----------------------------------------------------------------------------
(* A request, its permission, and its decision *)

LEMMA AskKeeps == ASSUME ChannelsInv, NEW r \in Requests, Ask(r) PROVE ChannelsInv'
<1>1. PICK op \in Ops, who \in People, form \in Forms :
        /\ form \in FormsOf(op)
        /\ req' = [req EXCEPT ![r] = [
             pc |-> IF op \in {"create", "open"} THEN "allowed" ELSE "asked",
             op |-> op, who |-> who, on |-> form.on, whom |-> form.whom, as |-> form.as,
             name |-> form.name, opens |-> FALSE,
             seen |-> IF op # "rename" THEN Idle.seen
                      ELSE [name |-> channel[form.on].name, version |-> channel[form.on].version]]]
  BY DEF Ask
<1> DEFINE pc == IF op \in {"create", "open"} THEN "allowed" ELSE "asked"
           seen == IF op # "rename" THEN Idle.seen
                   ELSE [name |-> channel[form.on].name, version |-> channel[form.on].version]
           q == [pc |-> pc, op |-> op, who |-> who, on |-> form.on, whom |-> form.whom, as |-> form.as,
                 name |-> form.name, opens |-> FALSE, seen |-> seen]
<1>2. req' = [req EXCEPT ![r] = q] /\ req[r].pc = "idle"
  BY <1>1 DEF Ask
<1>3. /\ form.on \in Groups /\ form.whom \in People \cup {Nobody} /\ form.as \in AllRoles
      /\ form.name \in Names \cup {Pair}
      /\ (form.whom = Nobody <=> op \notin {"add", "set", "remove"})
      /\ (form.name = Pair <=> op \notin {"create", "rename"})
      /\ (op \in {"add", "set"} => form.as \in Roles(form.on))
      /\ (op \in {"create", "open", "set"} => form.on = Workspace)
      /\ (op \in {"rename", "archive", "send"} => form.on # Workspace)
      /\ (form.on # Workspace => channel[form.on].kind # "none")
  BY <1>1 DEF Forms, FormsOf, AllRoles
<1>4. /\ channel \in [Slots -> ChannelRecords] /\ req \in [Requests -> RequestRecords]
      /\ Workspace \notin Slots /\ Pair \notin Names
  BY ChannelsAssumption DEF ChannelsInv, Types, Workspace, Pair
<1>5. seen \in [name : Names \cup {Pair}, version : Nat]
  BY <1>3, <1>4, IdleFacts DEF Groups, ChannelRecords
<1>6. q \in RequestRecords
  <2> HIDE DEF seen
  <2>1. QED
    BY <1>3, <1>5 DEF RequestRecords
<1>7. Formed(q)
  <2> HIDE DEF seen
  <2>1. QED
    BY <1>3 DEF Formed
<1>8. Fits(req[r])'
  <2>1. req'[r] = q /\ channel' = channel /\ posted' = posted
    BY <1>2, <1>4 DEF Ask
  <2>2. CASE op = "rename"
    <3>1. seen = [name |-> channel[form.on].name, version |-> channel[form.on].version]
      BY <2>2
    <3>2. q.on = form.on /\ q.seen = seen /\ q.pc = "asked" /\ form.on \in Slots
      BY <1>3, <2>2 DEF Groups
    <3>3. channel[form.on].version \in Nat
      BY <1>4, <3>2 DEF ChannelRecords
    <3>4. seen.name = channel[form.on].name /\ seen.version = channel[form.on].version
      BY <3>1
    <3> HIDE DEF q, seen
    <3>5. QED
      BY <1>3, <2>1, <3>2, <3>3, <3>4 DEF Fits
  <2>3. CASE op # "rename"
    <3>1. q.on = form.on /\ q.op = op /\ q.pc = pc
      OBVIOUS
    <3>2. q.on # Workspace => q.pc = "asked"
      BY <1>3, <3>1
    <3> HIDE DEF q, pc
    <3>3. QED
      BY <1>3, <2>1, <2>3, <3>1, <3>2 DEF Fits
  <2>4. QED
    BY <2>2, <2>3
<1>9. QED
  <2>1. q.pc \notin {"counting", "settled"} /\ req[r].pc # "committed"
    BY <1>2
  <2>2. UNCHANGED <<channel, role, posted, added, overlapped>> /\ overlapped \subseteq Groups
    BY DEF Ask, ChannelsInv, Types, TypeOK
  <2> HIDE DEF q
  <2>3. QED
    BY <1>2, <1>6, <1>7, <1>8, <2>1, <2>2, OwnStep

(* A request goes on as it is. *)
LEMMA Going ==
  ASSUME ChannelsInv, NEW r \in Requests,
         NEW pc \in {"allowed", "checked", "committed"}, To(r, pc),
         req[r].pc \in {"asked", "allowed", "checked"},
         UNCHANGED <<channel, role, posted, added, overlapped>>,
         pc \in {"checked", "committed"} => req[r].op = "send",
         pc = "allowed" /\ req[r].on # Workspace =>
           /\ req[r].op # "send" => channel[req[r].on].kind # "dm"
           /\ ~channel[req[r].on].archived,
         pc # "checked"
  PROVE  ChannelsInv'
<1> DEFINE q == [req[r] EXCEPT !.pc = pc]
<1>1. Types /\ req[r] \in RequestRecords
  BY DEF ChannelsInv, Types
<1>2. req' = [req EXCEPT ![r] = q]
  BY <1>1, ToOther
<1>3. /\ q \in RequestRecords /\ q.pc = pc /\ q.op = req[r].op /\ q.who = req[r].who
      /\ q.on = req[r].on /\ q.whom = req[r].whom /\ q.as = req[r].as /\ q.name = req[r].name
      /\ q.seen = req[r].seen /\ q.opens = req[r].opens
  BY <1>1 DEF RequestRecords
<1> HIDE DEF q
<1>4. Formed(req[r]) /\ Fits(req[r])
  BY DEF ChannelsInv, RequestInv, Live
<1>5. Formed(q)
  BY <1>3, <1>4 DEF Formed
<1>6. req'[r] = q
  BY <1>1, <1>2 DEF Types
<1>7. Fits(req[r])'
  BY <1>3, <1>4, <1>6 DEF Fits, Formed
<1>8. overlapped \subseteq Groups
  BY <1>1 DEF Types, TypeOK
<1>9. QED
  BY <1>2, <1>3, <1>5, <1>7, <1>8, OwnStep

LEMMA AuthoriseKeeps == ASSUME ChannelsInv, NEW r \in Requests, Authorise(r) PROVE ChannelsInv'
<1> DEFINE p == req[r].who
           g == req[r].on
           may == IF g = Workspace THEN ManagesWorkspace(p)
                  ELSE IF req[r].op = "send" THEN Visible(p, g) ELSE ManagesChannel(p, g)
<1>1. /\ To(r, IF may THEN "allowed" ELSE "over") /\ req[r].pc = "asked"
      /\ UNCHANGED <<channel, role, posted, added, overlapped>>
  BY DEF Authorise
<1>2. CASE may
  <2>1. g # Workspace => ~channel[g].archived /\ (req[r].op # "send" => channel[g].kind # "dm")
    BY <1>2 DEF ManagesChannel, Visible
  <2>2. To(r, "allowed")
    BY <1>1, <1>2
  <2>3. QED
    BY <1>1, <2>1, <2>2, Going
<1>3. CASE ~may
  <2>1. To(r, "over")
    BY <1>1, <1>3
  <2>2. overlapped \subseteq Groups
    BY DEF ChannelsInv, Types, TypeOK
  <2>3. QED
    BY <1>1, <2>1, <2>2, Ending
<1>4. QED
  BY <1>2, <1>3

(* CheckOpens looks for messages before it inserts one. *)
LEMMA CheckOpensKeeps == ASSUME ChannelsInv, NEW r \in Requests, CheckOpens(r) PROVE ChannelsInv'
<1> DEFINE opens == OpensDm(req[r].on)
           q == [req[r] EXCEPT !.pc = "checked", !.opens = opens]
<1>1. Types /\ req[r] \in RequestRecords /\ Formed(req[r]) /\ Fits(req[r])
  BY DEF ChannelsInv, Types, RequestInv, CheckOpens, Serving, Live
<1>2. req' = [req EXCEPT ![r] = q] /\ req[r].pc = "allowed" /\ req[r].op = "send"
  BY DEF CheckOpens, Serving
<1>3. opens \in BOOLEAN
  BY DEF OpensDm
<1>4. /\ q \in RequestRecords /\ q.pc = "checked" /\ q.op = req[r].op /\ q.who = req[r].who
      /\ q.on = req[r].on /\ q.whom = req[r].whom /\ q.as = req[r].as /\ q.name = req[r].name
      /\ q.seen = req[r].seen /\ q.opens = opens
  <2> HIDE DEF opens
  <2>1. QED
    BY <1>1, <1>3 DEF RequestRecords
<1> HIDE DEF q
<1>5. Formed(q)
  BY <1>1, <1>2, <1>4 DEF Formed
<1>6. req'[r] = q
  BY <1>1, <1>2 DEF Types
<1>7. Fits(req[r])'
  <2>1. channel' = channel /\ posted' = posted
    BY DEF CheckOpens
  <2>2. channel[q.on].kind = "dm" /\ posted[q.on] = 0 => q.opens
    BY <1>4 DEF OpensDm
  <2> HIDE DEF opens
  <2>3. QED
    BY <1>1, <1>2, <1>4, <1>6, <2>1, <2>2 DEF Fits
<1>8. overlapped \subseteq Groups
  BY <1>1 DEF Types, TypeOK
<1>9. QED
  BY <1>2, <1>4, <1>5, <1>7, <1>8, OwnStep DEF CheckOpens

(* A row is read, and the request decides by it. *)
LEMMA DecideKeeps ==
  ASSUME ChannelsInv, NEW r \in Requests,
         req[r].pc = "allowed", req[r].op \in {"set", "remove"},
         Decide(r, role[req[r].on][req[r].whom])
  PROVE  ChannelsInv'
<1> DEFINE g == req[r].on
           current == role[g][req[r].whom]
           pc == IF Takes(req[r]) /\ current = Keeper(g) THEN "counting" ELSE "settled"
           q == [req[r] EXCEPT !.pc = pc]
<1>1. /\ Types /\ req[r] \in RequestRecords /\ Formed(req[r]) /\ Fits(req[r])
      /\ g \in Groups /\ DecidedInv /\ RequestInv
  BY DEF ChannelsInv, Types, RequestInv, Live, RequestRecords
<1>2. /\ UNCHANGED <<channel, role, claims, posted, added>>
      /\ overlapped' = IF Takes(req[r]) /\ \E o \in Requests : req[o].on = g /\ Taking(o)
                         THEN overlapped \cup {g} ELSE overlapped
      /\ To(r, IF current = "none" THEN "over" ELSE pc)
  BY DEF Decide
<1>3. overlapped \subseteq overlapped' /\ overlapped' \subseteq Groups
  BY <1>1, <1>2 DEF Types, TypeOK
<1>4. CASE current = "none"
  <2>1. To(r, "over")
    BY <1>2, <1>4
  <2>2. QED
    BY <1>2, <1>3, <2>1, Ending
<1>5. CASE current # "none"
  <2>1. pc \in {"counting", "settled"} /\ To(r, pc)
    BY <1>2, <1>5
  <2>2. req' = [req EXCEPT ![r] = q]
    BY <1>1, <2>1, ToOther
  <2>3. /\ q \in RequestRecords /\ q.pc = pc /\ q.op = req[r].op /\ q.who = req[r].who
        /\ q.on = g /\ q.whom = req[r].whom /\ q.as = req[r].as /\ q.name = req[r].name
        /\ q.seen = req[r].seen /\ q.opens = req[r].opens
    <3> HIDE DEF pc
    <3>1. QED
      BY <1>1, <2>1 DEF RequestRecords
  <2>4. \A s \in Requests : req'[s] = IF s = r THEN q ELSE req[s]
    BY <1>1, <2>2 DEF Types
  <2> HIDE DEF q
  <2>5. Formed(q)
    <3>1. pc = "counting" => Takes(q)
      BY <2>3 DEF Takes
    <3> HIDE DEF pc
    <3>2. QED
      BY <1>1, <2>1, <2>3, <3>1 DEF Formed
  <2>6. Fits(req[r])'
    <3> HIDE DEF pc
    <3>1. QED
      BY <1>1, <1>2, <2>1, <2>3, <2>4 DEF Fits, Formed
  <2>7. req[r].whom \in People
    BY <1>1 DEF Formed
  <2>8. \A h \in Groups : Keepers(h)' = Keepers(h)
    BY <1>2 DEF Keepers
  <2>9. pc = "counting" => req[r].whom \in Keepers(g)
    BY <2>7 DEF Keepers
  <2>10. pc = "settled" /\ Takes(req[r]) => req[r].whom \notin Keepers(g)
    BY DEF Keepers
  <2>11. Takes(q) = Takes(req[r])
    BY <2>3 DEF Takes
  <2>12. /\ \A s \in Requests : s # r => req'[s] = req[s] /\ (Taking(s)' <=> Taking(s))
         /\ Taking(r)' => Takes(req[r])
    BY <2>4, <2>11 DEF Taking
  <2>13. ASSUME NEW h \in Groups, h \notin overlapped' PROVE Decided(h)'
    <3>1. h \notin overlapped /\ Decided(h)
      BY <1>1, <1>3, <2>13 DEF DecidedInv
    <3>2. h = g /\ Takes(req[r]) => \A o \in Requests : ~(req[o].on = g /\ Taking(o))
      BY <1>2, <2>13
    <3>3. ASSUME NEW s \in Requests, NEW t \in Requests,
                 (req[s].on = h)', Taking(s)', (req[t].on = h)', Taking(t)'
          PROVE  s = t
      <4>1. \A o \in Requests : o # r /\ (req[o].on = h)' /\ Taking(o)' => req[o].on = h /\ Taking(o)
        BY <2>12
      <4>2. CASE s # r /\ t # r
        BY <3>1, <3>3, <4>1, <4>2 DEF Decided
      <4>3. CASE s = r /\ t # r
        BY <2>3, <2>4, <2>12, <3>2, <3>3, <4>1, <4>3
      <4>4. CASE s # r /\ t = r
        BY <2>3, <2>4, <2>12, <3>2, <3>3, <4>1, <4>4
      <4>5. QED
        BY <4>2, <4>3, <4>4
    <3>4. ASSUME NEW s \in Requests, (req[s].on = h)', Taking(s)'
          PROVE  /\ role'[h][req'[s].whom] # "none"
                 /\ req'[s].pc = "counting" => req'[s].whom \in Keepers(h)'
                 /\ req'[s].pc = "settled" /\ req'[s].whom \in Keepers(h)' =>
                      \E p \in Keepers(h)' : p # req'[s].whom
      <4>1. CASE s = r
        <5>1. req'[s] = q /\ h = g
          BY <2>3, <2>4, <3>4, <4>1
        <5> HIDE DEF pc
        <5>2. QED
          BY <1>2, <1>5, <2>3, <2>8, <2>9, <2>10, <2>12, <3>4, <4>1, <5>1
      <4>2. CASE s # r
        <5>1. req'[s] = req[s] /\ Taking(s) /\ req[s].on = h /\ role' = role
          BY <1>2, <2>12, <3>4, <4>2
        <5>2. QED
          BY <2>8, <3>1, <5>1 DEF Decided
      <4>3. QED
        BY <4>1, <4>2
    <3>5. QED
      BY <3>3, <3>4 DEF Decided
  <2>14. DecidedInv'
    BY <2>13 DEF DecidedInv
  <2>15. QED
    BY <1>2, <1>3, <2>2, <2>3, <2>5, <2>6, <2>14, Still
<1>6. QED
  BY <1>4, <1>5

LEMMA ReadsKeep ==
  ASSUME ChannelsInv, NEW r \in Requests, ReadChannelRole(r) \/ ReadMembership(r)
  PROVE  ChannelsInv'
BY DecideKeeps DEF ReadChannelRole, ReadMembership, Serving, Membership

LEMMA CountKeeps ==
  ASSUME ChannelsInv, NEW r \in Requests, NEW refused \in BOOLEAN, Count(r, refused),
         ~refused => Cardinality(Keepers(req[r].on)) # 1
  PROVE  ChannelsInv'
<1> DEFINE g == req[r].on
           q == [req[r] EXCEPT !.pc = "settled"]
<1>1. /\ Types /\ req[r] \in RequestRecords /\ Formed(req[r]) /\ Fits(req[r])
      /\ g \in Groups /\ DecidedInv /\ RequestInv
  BY DEF ChannelsInv, Types, RequestInv, Live, RequestRecords, Count
<1>2. /\ UNCHANGED <<channel, role, claims, posted, added, overlapped>>
      /\ To(r, IF refused THEN "over" ELSE "settled") /\ req[r].pc = "counting"
  BY DEF Count
<1>3. overlapped' \subseteq Groups
  BY <1>1, <1>2 DEF Types, TypeOK
<1>4. CASE refused
  <2>1. To(r, "over")
    BY <1>2, <1>4
  <2>2. QED
    BY <1>2, <1>3, <2>1, Ending
<1>5. CASE ~refused
  <2>1. To(r, "settled")
    BY <1>2, <1>5
  <2>2. req' = [req EXCEPT ![r] = q]
    BY <1>1, <2>1, ToOther
  <2>3. /\ q \in RequestRecords /\ q.pc = "settled" /\ q.op = req[r].op /\ q.who = req[r].who
        /\ q.on = g /\ q.whom = req[r].whom /\ q.as = req[r].as /\ q.name = req[r].name
        /\ q.seen = req[r].seen /\ q.opens = req[r].opens
    BY <1>1 DEF RequestRecords
  <2>4. \A s \in Requests : req'[s] = IF s = r THEN q ELSE req[s]
    BY <1>1, <2>2 DEF Types
  <2> HIDE DEF q
  <2>5. Formed(q)
    BY <1>1, <1>2, <2>3 DEF Formed
  <2>6. Fits(req[r])'
    BY <1>1, <1>2, <2>3, <2>4 DEF Fits, Formed
  <2>7. Keepers(g) \subseteq People /\ IsFiniteSet(Keepers(g))
    BY FS_Subset, ChannelsAssumption DEF Keepers
  <2>8. ASSUME req[r].whom \in Keepers(g) PROVE \E p \in Keepers(g) : p # req[r].whom
    <3>1. Keepers(g) # {req[r].whom}
      BY <1>5, FS_Singleton
    <3>2. QED
      BY <2>8, <3>1
  <2>9. \A h \in Groups : Keepers(h)' = Keepers(h)
    BY <1>2 DEF Keepers
  <2>10. ASSUME NEW s \in Requests
         PROVE  req'[s].on = req[s].on /\ (Taking(s)' <=> Taking(s)) /\ req'[s].whom = req[s].whom
    <3>1. CASE s = r
      BY <1>2, <2>3, <2>4, <3>1 DEF Taking, Takes
    <3>2. CASE s # r
      BY <2>4, <3>2 DEF Taking
    <3>3. QED
      BY <3>1, <3>2
  <2>11. ASSUME NEW h \in Groups, h \notin overlapped' PROVE Decided(h)'
    <3>1. Decided(h)
      BY <1>1, <1>2, <2>11 DEF DecidedInv
    <3>2. ASSUME NEW s \in Requests, (req[s].on = h)', Taking(s)'
          PROVE  /\ role'[h][req'[s].whom] # "none"
                 /\ req'[s].pc = "counting" => req'[s].whom \in Keepers(h)'
                 /\ req'[s].pc = "settled" /\ req'[s].whom \in Keepers(h)' =>
                      \E p \in Keepers(h)' : p # req'[s].whom
      <4>1. role' = role /\ Taking(s) /\ req[s].on = h
        BY <1>2, <2>10, <3>2
      <4>2. CASE s = r
        BY <2>3, <2>4, <2>8, <2>9, <3>1, <4>1, <4>2 DEF Decided
      <4>3. CASE s # r
        BY <2>4, <2>9, <3>1, <4>1, <4>3 DEF Decided
      <4>4. QED
        BY <4>2, <4>3
    <3>3. \A s, t \in Requests :
            (req[s].on = h)' /\ Taking(s)' /\ (req[t].on = h)' /\ Taking(t)' => s = t
      BY <2>10, <3>1 DEF Decided
    <3>4. QED
      BY <3>2, <3>3 DEF Decided
  <2>12. DecidedInv'
    BY <2>11 DEF DecidedInv
  <2>13. QED
    BY <1>2, <1>3, <2>2, <2>3, <2>5, <2>6, <2>12, Still
<1>6. QED
  BY <1>4, <1>5

LEMMA CountsKeep ==
  ASSUME ChannelsInv, NEW r \in Requests, CountAdmins(r) \/ CountOwners(r)
  PROVE  ChannelsInv'
<1> DEFINE n == Cardinality(Keepers(req[r].on))
<1>1. n \in Nat
  <2>1. Keepers(req[r].on) \subseteq People
    BY DEF Keepers
  <2>2. QED
    BY <2>1, FS_Subset, FS_CardinalityType, ChannelsAssumption
<1>2. CASE CountAdmins(r)
  <2> DEFINE refused == n = 1
  <2>1. Count(r, refused) /\ (~refused => n # 1)
    BY <1>2 DEF CountAdmins
  <2>2. refused \in BOOLEAN
    OBVIOUS
  <2> HIDE DEF refused
  <2>3. QED
    BY <2>1, <2>2, CountKeeps
<1>3. CASE CountOwners(r)
  <2> DEFINE refused == n <= 1
  <2>1. Count(r, refused)
    BY <1>3 DEF CountOwners
  <2>2. refused \in BOOLEAN /\ (~refused => n # 1)
    BY <1>1
  <2> HIDE DEF refused
  <2>3. QED
    BY <2>1, <2>2, CountKeeps
<1>4. QED
  BY <1>2, <1>3

-----------------------------------------------------------------------------
(* The writes *)

(* A row is removed, or has another role. *)
LEMMA WriteKeeps ==
  ASSUME ChannelsInv, NEW r \in Requests, NEW as, Write(r, as),
         as = "none" \/ (req[r].on = Workspace /\ as \in Roles(Workspace)),
         IF as = "none" THEN req[r].op = "remove" ELSE as = req[r].as,
         NEW g, g = req[r].on, NEW x, x = req[r].whom, NEW q, q = OverOf(req[r].op)
  PROVE  ChannelsInv'
<1>1. /\ Types /\ req[r] \in RequestRecords /\ Formed(req[r]) /\ Fits(req[r])
      /\ g \in Groups /\ DecidedInv /\ RequestInv /\ KeeperStays /\ AbsentInv /\ DmAnnounced
  BY DEF ChannelsInv, Types, RequestInv, Live, RequestRecords, Write
<1>2. /\ UNCHANGED <<channel, claims, posted, added, overlapped>>
      /\ role' = IF role[g][x] = "none" THEN role ELSE [role EXCEPT ![g][x] = as]
      /\ To(r, "over") /\ req[r].pc = "settled"
  BY DEF Write
<1>3. x \in People /\ req[r].op \in {"set", "remove"} /\ (g # Workspace => channel[g].kind # "dm")
  BY <1>1, <1>2 DEF Formed, Fits
<1>4. req' = [req EXCEPT ![r] = q]
  BY <1>2, ToOver
<1>5. q \in RequestRecords /\ q.pc = "over"
  BY <1>1, OverFacts DEF RequestRecords
<1>6. as \in AllRoles /\ (as = "none" \/ as \in Roles(g))
  BY DEF AllRoles, Roles
<1>7. /\ role' \in [Groups -> [People -> AllRoles]]
      /\ \A h \in Groups, p \in People :
           role'[h][p] = IF h = g /\ p = x /\ role[g][x] # "none" THEN as ELSE role[h][p]
  BY <1>1, <1>2, <1>6 DEF Types
<1>8. Grow /\ \A c \in Slots : posted'[c] >= posted[c]
  <2>1. \A c \in Slots : channel[c].version \in Nat /\ posted[c] \in Nat
    BY <1>1 DEF Types, ChannelRecords
  <2>2. QED
    BY <1>2, <2>1 DEF Grow
<1>9. req' \in [Requests -> RequestRecords] /\ RequestInv'
  BY <1>1, <1>2, <1>4, <1>5, <1>8, RequestsKept DEF Types, Live
<1>10. DmAnnounced'
  BY <1>1, <1>2, <1>4, <1>5, <1>8, AnnouncedKept DEF Types
<1>11. TypeOK'
  <2>1. ASSUME NEW h \in Groups, NEW p \in People PROVE role'[h][p] \in Roles(h) \cup {"none"}
    <3>1. role[h][p] \in Roles(h) \cup {"none"}
      BY <1>1 DEF Types, TypeOK
    <3>2. CASE h = g /\ p = x /\ role[g][x] # "none"
      BY <1>6, <1>7, <3>2
    <3>3. QED
      BY <1>7, <3>1, <3>2
  <2>2. ASSUME NEW c \in Slots, NEW p \in People, channel[c].kind = "dm"
        PROVE  role'[c][p] = "member"
    <3>1. c # Workspace /\ c \in Groups
      BY ChannelsAssumption DEF Groups, Workspace
    <3>2. role[c][p] = "member"
      BY <1>1, <2>2 DEF Types, TypeOK
    <3>3. c # g
      BY <1>3, <2>2, <3>1
    <3>4. QED
      BY <1>7, <3>1, <3>2, <3>3
  <2>3. \A s \in Requests : req'[s].op \in Ops \cup {"none"}
    BY <1>9 DEF RequestRecords
  <2>4. /\ \A c \in Slots :
             /\ channel[c].kind \in {"none", "public", "private", "dm"}
             /\ channel[c].name \in Names \cup {Pair} /\ channel[c].version \in Nat
             /\ channel[c].kind = "dm" => ~channel[c].archived /\ channel[c].name = Pair
        /\ \A c, d \in Slots : channel[c].kind = "dm" /\ channel[d].kind = "dm" => c = d
        /\ added \subseteq Slots /\ overlapped \subseteq Groups
    BY <1>1 DEF Types, TypeOK
  <2>5. channel' = channel /\ added' = added /\ overlapped' = overlapped
    BY <1>2
  <2>6. QED
    BY <2>1, <2>2, <2>3, <2>4, <2>5 DEF TypeOK
<1>12. Types' /\ AbsentInv'
  <2>1. Types'
    BY <1>1, <1>2, <1>7, <1>9, <1>11 DEF Types
  <2>2. ASSUME NEW c \in Slots, channel[c].kind = "none", NEW p \in People PROVE role'[c][p] = "none"
    <3>1. role[c][p] = "none" /\ c \in Groups
      BY <1>1, <2>2 DEF AbsentInv, Groups
    <3>2. QED
      BY <1>7, <3>1
  <2>3. QED
    BY <1>1, <1>2, <2>1, <2>2 DEF AbsentInv
<1>13. \A h \in Groups : h # g => Keepers(h)' = Keepers(h)
  BY <1>7 DEF Keepers
<1>14. \A s \in Requests : s # r => req'[s] = req[s] /\ (Taking(s)' <=> Taking(s))
  BY <1>1, <1>4 DEF Types, Taking
<1>15. ~Taking(r)' /\ (Takes(req[r]) => Taking(r))
  BY <1>1, <1>2, <1>4, <1>5 DEF Types, Taking
<1>21. ASSUME ~Takes(req[r]) PROVE Keepers(g) \subseteq Keepers(g)' /\ g = Workspace /\ as = "owner"
  <2>1. req[r].op = "set" /\ req[r].as = "owner" /\ g = Workspace /\ as = "owner"
    BY <1>1, <1>3, <1>21 DEF Takes, Formed
  <2>2. QED
    BY <1>1, <1>7, <2>1 DEF Keepers, Keeper
<1>16. ASSUME NEW h \in Groups, h \notin overlapped' PROVE Decided(h)'
  <2>1. Decided(h)
    BY <1>1, <1>2, <1>16 DEF DecidedInv
  <2>2. \A s \in Requests : (req[s].on = h)' /\ Taking(s)' =>
          /\ s # r /\ req'[s] = req[s] /\ req[s].on = h /\ Taking(s)
          /\ h = g => ~Takes(req[r])
    BY <1>14, <1>15, <2>1 DEF Decided
  <2>3. \A s \in Requests : Taking(s) => req[s].whom \in People
    BY <1>1 DEF RequestInv, Formed, Live, Taking
  <2>4. ASSUME NEW s \in Requests, (req[s].on = h)', Taking(s)'
        PROVE  /\ role'[h][req'[s].whom] # "none"
               /\ req'[s].pc = "counting" => req'[s].whom \in Keepers(h)'
               /\ req'[s].pc = "settled" /\ req'[s].whom \in Keepers(h)' =>
                    \E p \in Keepers(h)' : p # req'[s].whom
    <3>1. /\ req'[s] = req[s] /\ req[s].on = h /\ Taking(s) /\ req[s].whom \in People
          /\ h = g => ~Takes(req[r])
      BY <2>2, <2>3, <2>4
    <3>2. CASE h # g
      <4>1. role'[h][req[s].whom] = role[h][req[s].whom] /\ Keepers(h)' = Keepers(h)
        BY <1>7, <1>13, <3>1, <3>2
      <4>2. QED
        BY <2>1, <3>1, <4>1 DEF Decided
    <3>3. CASE h = g
      <4>1. Keepers(g) \subseteq Keepers(g)' /\ g = Workspace
        BY <1>21, <3>1, <3>3
      <4>2. PICK p \in Keepers(g) : req[s].whom \notin Keepers(g) => p # req[s].whom
        BY <1>1, <1>2, <1>16, <3>3, <4>1 DEF KeeperStays
      <4>3. role'[g][req[s].whom] # "none"
        BY <1>7, <1>21, <2>1, <3>1, <3>3 DEF Decided
      <4>4. QED
        BY <2>1, <3>1, <3>3, <4>1, <4>2, <4>3 DEF Decided
    <3>4. QED
      BY <3>2, <3>3
  <2>5. \A s, t \in Requests :
          (req[s].on = h)' /\ Taking(s)' /\ (req[t].on = h)' /\ Taking(t)' => s = t
    BY <2>1, <2>2 DEF Decided
  <2>6. QED
    BY <2>4, <2>5 DEF Decided
<1>17. DecidedInv'
  BY <1>16 DEF DecidedInv
<1>18. ASSUME g \notin overlapped, Keepers(g) # {} PROVE Keepers(g)' # {}
  <2>1. CASE Takes(req[r])
    <3>1. Decided(g) /\ Taking(r)
      BY <1>1, <1>15, <1>18, <2>1 DEF DecidedInv
    <3>2. PICK p \in Keepers(g) : p # x
      BY <1>2, <1>18, <3>1 DEF Decided
    <3>3. p \in Keepers(g)'
      BY <1>1, <1>7, <3>2 DEF Keepers
    <3>4. QED
      BY <3>3
  <2>2. CASE ~Takes(req[r])
    BY <1>18, <1>21, <2>2
  <2>3. QED
    BY <2>1, <2>2
<1>19. KeeperStays'
  <2>1. ASSUME NEW h \in Groups, Keepers(h)' = {}
        PROVE  h \in overlapped \/ (h # Workspace /\ channel[h].kind \in {"none", "dm"})
    <3>1. h \in overlapped \/ Keepers(h) = {}
      BY <1>13, <1>18, <2>1
    <3>2. QED
      BY <1>1, <2>1, <3>1 DEF KeeperStays
  <2>2. QED
    BY <1>2, <1>11, <2>1 DEF KeeperStays
<1>20. QED
  BY <1>9, <1>10, <1>12, <1>17, <1>19 DEF ChannelsInv

LEMMA WritesKeep ==
  ASSUME ChannelsInv, NEW r \in Requests,
         RemoveFromChannel(r) \/ RemoveFromWorkspace(r) \/ SetRole(r)
  PROVE  ChannelsInv'
<1>1. Formed(req[r])
  BY DEF ChannelsInv, RequestInv, Live, RemoveFromChannel, RemoveFromWorkspace, SetRole, Write
<1>2. CASE RemoveFromChannel(r)
  <2>1. req[r].op = "remove"
    BY <1>1, <1>2 DEF RemoveFromChannel, Write, Formed
  <2>2. QED
    BY <1>2, <2>1, WriteKeeps DEF RemoveFromChannel
<1>3. CASE RemoveFromWorkspace(r)
  BY <1>3, WriteKeeps DEF RemoveFromWorkspace
<1>4. CASE SetRole(r)
  <2>1. req[r].as \in Roles(Workspace) /\ req[r].as # "none" /\ req[r].on = Workspace
    BY <1>1, <1>4 DEF SetRole, Formed, Roles, Write
  <2>2. Write(r, req[r].as)
    BY <1>4 DEF SetRole
  <2>3. QED
    BY <2>1, <2>2, WriteKeeps
<1>5. QED
  BY <1>2, <1>3, <1>4

(* A request ends and takes no role away.  What its step does to channels  *)
(* and roles is all that is left to look at.                               *)
LEMMA GivingKeeps ==
  ASSUME ChannelsInv, NEW r \in Requests, To(r, "over"), req[r].pc # "committed",
         UNCHANGED <<posted, added, overlapped>>,
         Grow, channel' \in [Slots -> ChannelRecords], AbsentInv',
         role' \in [Groups -> [People -> AllRoles]],
         \A g \in Groups, p \in People : role[g][p] # "none" => role'[g][p] = role[g][p],
         \A g \in Groups, p \in People : role'[g][p] \in Roles(g) \cup {"none"},
         \A c \in Slots : channel'[c].kind = "dm" =>
           ~channel'[c].archived /\ channel'[c].name = Pair /\ \A p \in People : role'[c][p] = "member",
         \A c, d \in Slots : channel'[c].kind = "dm" /\ channel'[d].kind = "dm" => c = d,
         \A c \in Slots : channel[c].kind = "none" /\ channel'[c].kind \notin {"none", "dm"} =>
           Keepers(c)' # {}
  PROVE  ChannelsInv'
<1>1. PICK q : q = OverOf(req[r].op)
  OBVIOUS
<1>2. req[r].op \in Ops \cup {"none"} /\ Types /\ KeeperStays
  BY DEF ChannelsInv, Types, RequestRecords
<1>3. q \in RequestRecords /\ q.pc = "over" /\ req' = [req EXCEPT ![r] = q]
  BY <1>1, <1>2, OverFacts, ToOver
<1>4. \A c \in Slots : posted'[c] >= posted[c]
  BY <1>2 DEF Types
<1>5. req' \in [Requests -> RequestRecords] /\ RequestInv'
  BY <1>2, <1>3, <1>4, RequestsKept DEF Types, Live
<1>6. DecidedInv' /\ \A g \in Groups : Keepers(g) \subseteq Keepers(g)'
  BY <1>3, DecidedKept
<1>7. DmAnnounced'
  BY <1>3, AnnouncedKept
<1>8. TypeOK'
  <2>1. \A c \in Slots : /\ channel'[c].kind \in {"none", "public", "private", "dm"}
                         /\ channel'[c].name \in Names \cup {Pair} /\ channel'[c].version \in Nat
    BY DEF ChannelRecords, Kinds
  <2>2. \A s \in Requests : req'[s].op \in Ops \cup {"none"}
    BY <1>5 DEF RequestRecords
  <2>3. added' \subseteq Slots /\ overlapped' \subseteq Groups
    BY <1>2 DEF Types, TypeOK
  <2>4. QED
    BY <2>1, <2>2, <2>3 DEF TypeOK
<1>9. Types'
  BY <1>2, <1>5, <1>8 DEF Types
<1>10. KeeperStays'
  <2>1. ASSUME NEW g \in Groups, Keepers(g)' = {}, g \notin overlapped
        PROVE  g # Workspace /\ channel'[g].kind \in {"none", "dm"}
    <3>1. g \in Slots /\ g # Workspace /\ channel[g].kind \in {"none", "dm"}
      BY <1>2, <1>6, <2>1 DEF KeeperStays, Groups
    <3>2. QED
      BY <2>1, <3>1 DEF Grow
  <2>2. QED
    BY <1>8, <2>1 DEF KeeperStays
<1>11. QED
  BY <1>5, <1>6, <1>7, <1>9, <1>10 DEF ChannelsInv

(* What GivingKeeps asks of the channels, where only roles change. *)
LEMMA RolesGiven ==
  ASSUME ChannelsInv, NEW r \in Requests, To(r, "over"), req[r].pc = "allowed",
         UNCHANGED <<channel, posted, added, overlapped>>,
         NEW g \in Groups, NEW x \in People, NEW as \in Roles(g),
         g # Workspace => channel[g].kind \notin {"none", "dm"},
         role' = IF role[g][x] # "none" THEN role ELSE [role EXCEPT ![g][x] = as]
  PROVE  ChannelsInv'
<1>1. Types /\ AbsentInv /\ as \in AllRoles
  BY DEF ChannelsInv, Roles, AllRoles
<1>2. /\ role' \in [Groups -> [People -> AllRoles]]
      /\ \A h \in Groups, p \in People :
           role'[h][p] = IF h = g /\ p = x /\ role[g][x] = "none" THEN as ELSE role[h][p]
  BY <1>1 DEF Types
<1>3. Grow /\ AbsentInv'
  <2>1. \A c \in Slots : channel[c].version \in Nat /\ c \in Groups /\ c # Workspace
    BY <1>1, ChannelsAssumption DEF Types, ChannelRecords, Groups, Workspace
  <2>2. ASSUME NEW c \in Slots, NEW p \in People, channel[c].kind = "none"
        PROVE  role'[c][p] = role[c][p]
    <3>1. c # g
      BY <2>1, <2>2
    <3>2. QED
      BY <1>2, <2>1, <3>1
  <2>3. channel' = channel /\ posted' = posted
    OBVIOUS
  <2>4. AbsentInv'
    <3>1. ASSUME NEW c \in Slots, channel[c].kind = "none"
          PROVE  /\ ~channel[c].archived /\ posted[c] = 0
                 /\ \A p \in People : role'[c][p] = "none"
      BY <1>1, <2>2, <3>1 DEF AbsentInv
    <3>2. QED
      BY <2>3, <3>1 DEF AbsentInv
  <2>5. QED
    BY <2>1, <2>3, <2>4 DEF Grow
<1>4. \A h \in Groups, p \in People : role[h][p] # "none" => role'[h][p] = role[h][p]
  BY <1>2
<1>5. ASSUME NEW h \in Groups, NEW p \in People PROVE role'[h][p] \in Roles(h) \cup {"none"}
  <2>1. role[h][p] \in Roles(h) \cup {"none"}
    BY <1>1 DEF Types, TypeOK
  <2>2. QED
    BY <1>2, <2>1
<1>6. ASSUME NEW c \in Slots, channel'[c].kind = "dm"
      PROVE  ~channel'[c].archived /\ channel'[c].name = Pair /\ \A p \in People : role'[c][p] = "member"
  <2>1. c \in Groups
    BY DEF Groups
  <2>2. ~channel[c].archived /\ channel[c].name = Pair /\ \A p \in People : role[c][p] = "member"
    BY <1>1, <1>6 DEF Types, TypeOK
  <2>3. QED
    BY <1>4, <2>1, <2>2
<1>7. \A c, d \in Slots : channel'[c].kind = "dm" /\ channel'[d].kind = "dm" => c = d
  BY <1>1 DEF Types, TypeOK
<1>8. channel' \in [Slots -> ChannelRecords]
  BY <1>1 DEF Types
<1>9. \A c \in Slots : ~(channel[c].kind = "none" /\ channel'[c].kind \notin {"none", "dm"})
  OBVIOUS
<1>10. QED
  BY <1>2, <1>3, <1>4, <1>5, <1>6, <1>7, <1>8, <1>9, GivingKeeps

LEMMA AddsKeep ==
  ASSUME ChannelsInv, NEW r \in Requests, AddToChannel(r) \/ AddToWorkspace(r)
  PROVE  ChannelsInv'
<1>1. /\ Formed(req[r]) /\ Fits(req[r]) /\ req[r].pc = "allowed" /\ req[r].op = "add"
      /\ req[r].on \in Groups
  BY DEF ChannelsInv, RequestInv, Live, AddToChannel, AddToWorkspace, Serving, Types, RequestRecords
<1>2. /\ req[r].whom \in People /\ req[r].as \in Roles(req[r].on)
      /\ req[r].on # Workspace => channel[req[r].on].kind \notin {"none", "dm"}
  BY <1>1 DEF Formed, Fits
<1>3. /\ To(r, "over") /\ UNCHANGED <<channel, posted, added, overlapped>>
      /\ role' = IF role[req[r].on][req[r].whom] # "none" THEN role
                 ELSE [role EXCEPT ![req[r].on][req[r].whom] = req[r].as]
  BY DEF AddToChannel, AddToWorkspace, Insert, Enlist, Membership
<1>4. QED
  BY <1>1, <1>2, <1>3, RolesGiven

-----------------------------------------------------------------------------
(* Channels are made, renamed and put away *)

LEMMA CreateKeeps == ASSUME ChannelsInv, NEW r \in Requests, Create(r) PROVE ChannelsInv'
<1>1. PICK c \in Slots, kind \in {"public", "private"} :
        /\ channel[c].kind = "none"
        /\ IF NameTaken(c, kind, req[r].name)
             THEN UNCHANGED <<channel, role>>
             ELSE /\ channel' = [channel EXCEPT ![c] =
                       [kind |-> kind, name |-> req[r].name, version |-> 0, archived |-> FALSE]]
                  /\ role' = [role EXCEPT ![c][req[r].who] = "admin"]
  BY DEF Create
<1>2. /\ Types /\ AbsentInv /\ Formed(req[r]) /\ req[r].pc = "allowed" /\ req[r].op = "create"
      /\ To(r, "over") /\ UNCHANGED <<claims, posted, added, overlapped>>
      /\ overlapped \subseteq Groups
  BY DEF ChannelsInv, RequestInv, Live, Create, Serving, Types, TypeOK
<1>3. CASE UNCHANGED <<channel, role>>
  BY <1>2, <1>3, Ending
<1>4. CASE ~UNCHANGED <<channel, role>>
  <2> DEFINE new == [kind |-> kind, name |-> req[r].name, version |-> 0, archived |-> FALSE]
             x == req[r].who
  <2>1. channel' = [channel EXCEPT ![c] = new] /\ role' = [role EXCEPT ![c][x] = "admin"]
    BY <1>1, <1>4
  <2>2. x \in People /\ new \in ChannelRecords /\ c \in Groups /\ c # Workspace
    BY <1>2, ChannelsAssumption DEF Formed, ChannelRecords, Kinds, Groups, Workspace
  <2>3. new.kind \in {"public", "private"}
    OBVIOUS
  <2> HIDE DEF new
  <2>4. /\ channel' \in [Slots -> ChannelRecords]
        /\ \A d \in Slots : channel'[d] = IF d = c THEN new ELSE channel[d]
    BY <1>2, <2>1, <2>2 DEF Types
  <2>5. /\ role' \in [Groups -> [People -> AllRoles]]
        /\ \A g \in Groups, p \in People :
             role'[g][p] = IF g = c /\ p = x THEN "admin" ELSE role[g][p]
    BY <1>2, <2>1, <2>2 DEF Types, AllRoles
  <2>6. Grow
    <3>1. \A d \in Slots : channel[d].version \in Nat
      BY <1>2 DEF Types, ChannelRecords
    <3>2. QED
      BY <1>1, <2>4, <3>1 DEF Grow
  <2>7. AbsentInv'
    <3>1. \A d \in Slots : d \in Groups
      BY DEF Groups
    <3>2. QED
      BY <1>2, <2>3, <2>4, <2>5, <3>1 DEF AbsentInv
  <2>8. \A p \in People : role[c][p] = "none"
    BY <1>1, <1>2 DEF AbsentInv
  <2>9. \A g \in Groups, p \in People : role[g][p] # "none" => role'[g][p] = role[g][p]
    BY <2>5, <2>8
  <2>10. ASSUME NEW g \in Groups, NEW p \in People PROVE role'[g][p] \in Roles(g) \cup {"none"}
    <3>1. role[g][p] \in Roles(g) \cup {"none"} /\ "admin" \in Roles(g)
      BY <1>2 DEF Types, TypeOK, Roles
    <3>2. QED
      BY <2>5, <3>1
  <2>11. ASSUME NEW d \in Slots, channel'[d].kind = "dm"
         PROVE  ~channel'[d].archived /\ channel'[d].name = Pair /\ \A p \in People : role'[d][p] = "member"
    <3>1. d # c /\ channel'[d] = channel[d] /\ channel[d].kind = "dm" /\ d \in Groups
      BY <2>3, <2>4, <2>11 DEF Groups
    <3>2. ~channel[d].archived /\ channel[d].name = Pair /\ \A p \in People : role[d][p] = "member"
      BY <1>2, <3>1 DEF Types, TypeOK
    <3>3. QED
      BY <2>5, <3>1, <3>2
  <2>12. \A d, e \in Slots : channel'[d].kind = "dm" /\ channel'[e].kind = "dm" => d = e
    <3>1. \A d, e \in Slots : channel[d].kind = "dm" /\ channel[e].kind = "dm" => d = e
      BY <1>2 DEF Types, TypeOK
    <3>2. QED
      BY <2>3, <2>4, <3>1
  <2>13. ASSUME NEW d \in Slots, channel[d].kind = "none", channel'[d].kind \notin {"none", "dm"}
         PROVE  Keepers(d)' # {}
    <3>1. d = c
      BY <2>4, <2>13
    <3>2. role'[c][x] = "admin" /\ Keeper(c) = "admin"
      BY <2>2, <2>5 DEF Keeper
    <3>3. QED
      BY <2>2, <3>1, <3>2 DEF Keepers
  <2>14. QED
    BY <1>2, <2>4, <2>5, <2>6, <2>7, <2>9, <2>10, <2>11, <2>12, <2>13, GivingKeeps
<1>5. QED
  BY <1>3, <1>4

LEMMA OpenKeeps == ASSUME ChannelsInv, NEW r \in Requests, OpenDm(r) PROVE ChannelsInv'
<1>1. /\ Types /\ AbsentInv /\ req[r].pc = "allowed" /\ To(r, "over")
      /\ UNCHANGED <<claims, posted, added, overlapped>> /\ overlapped \subseteq Groups
  BY DEF ChannelsInv, OpenDm, Serving, Types, TypeOK
<1>2. CASE UNCHANGED <<channel, role>>
  BY <1>1, <1>2, Ending
<1>3. CASE ~UNCHANGED <<channel, role>>
  <2>1. PICK c \in Slots :
          /\ \A o \in Slots : channel[o].kind # "dm"
          /\ channel[c].kind = "none"
          /\ channel' = [channel EXCEPT ![c] = [Absent EXCEPT !.kind = "dm"]]
          /\ role' = [role EXCEPT ![c] = [p \in People |-> "member"]]
    BY <1>3 DEF OpenDm
  <2> DEFINE new == [Absent EXCEPT !.kind = "dm"]
  <2>2. new \in ChannelRecords /\ new.kind = "dm" /\ ~new.archived /\ new.name = Pair
    BY DEF Absent, ChannelRecords, Kinds
  <2> HIDE DEF new
  <2>3. /\ channel' \in [Slots -> ChannelRecords]
        /\ \A d \in Slots : channel'[d] = IF d = c THEN new ELSE channel[d]
    <3>1. channel' = [channel EXCEPT ![c] = new]
      BY <2>1 DEF new
    <3>2. QED
      BY <1>1, <2>2, <3>1 DEF Types
  <2>4. c \in Groups /\ \A d \in Slots : d \in Groups
    BY DEF Groups
  <2>5. /\ role' \in [Groups -> [People -> AllRoles]]
        /\ \A g \in Groups, p \in People : role'[g][p] = IF g = c THEN "member" ELSE role[g][p]
    BY <1>1, <2>1, <2>4 DEF Types, AllRoles
  <2>6. Grow
    <3>1. \A d \in Slots : channel[d].version \in Nat
      BY <1>1 DEF Types, ChannelRecords
    <3>2. QED
      BY <2>1, <2>3, <3>1 DEF Grow
  <2>7. AbsentInv'
    BY <1>1, <2>2, <2>3, <2>4, <2>5 DEF AbsentInv
  <2>8. \A p \in People : role[c][p] = "none"
    BY <1>1, <2>1 DEF AbsentInv
  <2>9. \A g \in Groups, p \in People : role[g][p] # "none" => role'[g][p] = role[g][p]
    BY <2>5, <2>8
  <2>10. ASSUME NEW g \in Groups, NEW p \in People PROVE role'[g][p] \in Roles(g) \cup {"none"}
    <3>1. role[g][p] \in Roles(g) \cup {"none"} /\ "member" \in Roles(g)
      BY <1>1 DEF Types, TypeOK, Roles
    <3>2. QED
      BY <2>5, <3>1
  <2>11. \A d \in Slots : channel'[d].kind = "dm" => d = c
    BY <2>1, <2>3
  <2>12. ASSUME NEW d \in Slots, channel'[d].kind = "dm"
         PROVE  ~channel'[d].archived /\ channel'[d].name = Pair /\ \A p \in People : role'[d][p] = "member"
    BY <2>2, <2>3, <2>4, <2>5, <2>11, <2>12
  <2>13. \A d \in Slots : ~(channel[d].kind = "none" /\ channel'[d].kind \notin {"none", "dm"})
    BY <2>2, <2>3
  <2>14. \A d, e \in Slots : channel'[d].kind = "dm" /\ channel'[e].kind = "dm" => d = e
    BY <2>11
  <2>15. QED
    BY <1>1, <2>3, <2>5, <2>6, <2>7, <2>9, <2>10, <2>12, <2>13, <2>14, GivingKeeps
<1>4. QED
  BY <1>2, <1>3

(* What GivingKeeps asks, where one channel that is no direct message      *)
(* changes and gets a higher version.                                      *)
LEMMA OneChannelChanges ==
  ASSUME ChannelsInv, NEW r \in Requests, To(r, "over"), req[r].pc = "allowed",
         UNCHANGED <<role, posted, added, overlapped>>,
         NEW c \in Slots, channel[c].kind \notin {"none", "dm"},
         NEW new \in ChannelRecords, new.kind = channel[c].kind,
         new.version > channel[c].version,
         channel' = [channel EXCEPT ![c] = new]
  PROVE  ChannelsInv'
<1>1. Types /\ AbsentInv
  BY DEF ChannelsInv
<1>2. /\ channel' \in [Slots -> ChannelRecords]
      /\ \A d \in Slots : channel'[d] = IF d = c THEN new ELSE channel[d]
  BY <1>1 DEF Types
<1>3. Grow
  <2>1. new.version \in Nat /\ \A d \in Slots : channel[d].version \in Nat
    BY <1>1 DEF Types, ChannelRecords
  <2>2. QED
    BY <1>2, <2>1 DEF Grow
<1>4. AbsentInv'
  BY <1>1, <1>2 DEF AbsentInv
<1>5. role' \in [Groups -> [People -> AllRoles]]
  BY <1>1 DEF Types
<1>6. \A g \in Groups, p \in People : role'[g][p] \in Roles(g) \cup {"none"}
  BY <1>1 DEF Types, TypeOK
<1>7. ASSUME NEW d \in Slots, channel'[d].kind = "dm"
      PROVE  ~channel'[d].archived /\ channel'[d].name = Pair /\ \A p \in People : role'[d][p] = "member"
  <2>1. channel'[d] = channel[d]
    BY <1>2, <1>7
  <2>2. QED
    BY <1>1, <1>7, <2>1 DEF Types, TypeOK
<1>8. \A d, e \in Slots : channel'[d].kind = "dm" /\ channel'[e].kind = "dm" => d = e
  <2>1. \A d \in Slots : channel'[d].kind = channel[d].kind
    BY <1>2
  <2>2. QED
    BY <1>1, <2>1 DEF Types, TypeOK
<1>9. \A d \in Slots : ~(channel[d].kind = "none" /\ channel'[d].kind \notin {"none", "dm"})
  BY <1>2
<1>10. QED
  BY <1>2, <1>3, <1>4, <1>5, <1>6, <1>7, <1>8, <1>9, GivingKeeps

LEMMA RenameKeeps ==
  ASSUME ChannelsInv, NEW r \in Requests, Rename(r) \/ Archive(r)
  PROVE  ChannelsInv'
<1> DEFINE c == req[r].on
<1>1. /\ Types /\ Formed(req[r]) /\ Fits(req[r]) /\ req[r] \in RequestRecords
      /\ req[r].pc = "allowed" /\ req[r].op \in {"rename", "archive"}
      /\ To(r, "over") /\ UNCHANGED <<role, claims, posted, added, overlapped>>
      /\ overlapped \subseteq Groups
  BY DEF ChannelsInv, RequestInv, Live, Rename, Archive, Serving, Types, TypeOK
<1>2. c \in Slots /\ channel[c].kind \notin {"none", "dm"} /\ channel[c] \in ChannelRecords
  BY <1>1 DEF Formed, Fits, RequestRecords, Groups, Types
<1>3. CASE Rename(r)
  <2> DEFINE new == [channel[c] EXCEPT !.name = req[r].name, !.version = @ + 1]
  <2>1. channel' = channel \/ channel' = [channel EXCEPT ![c] = new]
    BY <1>1, <1>2, <1>3 DEF Rename, Types
  <2>2. new \in ChannelRecords /\ new.kind = channel[c].kind /\ new.version > channel[c].version
    <3>1. channel[c].version \in Nat /\ req[r].name \in Names \cup {Pair}
      BY <1>1, <1>2 DEF ChannelRecords, RequestRecords
    <3>2. channel[c].version + 1 \in Nat /\ channel[c].version + 1 > channel[c].version
      BY <3>1
    <3>3. new \in ChannelRecords
      BY <1>2, <3>1, <3>2 DEF ChannelRecords
    <3>4. new.kind = channel[c].kind /\ new.version = channel[c].version + 1
      BY <1>2 DEF ChannelRecords
    <3>5. QED
      BY <3>2, <3>3, <3>4
  <2> HIDE DEF new
  <2>3. CASE channel' = channel
    BY <1>1, <2>3, Ending
  <2>4. CASE channel' = [channel EXCEPT ![c] = new]
    BY <1>1, <1>2, <2>2, <2>4, OneChannelChanges
  <2>5. QED
    BY <2>1, <2>3, <2>4
<1>4. CASE Archive(r)
  <2> DEFINE new == PutAway(channel[c])
  <2>1. channel' = [channel EXCEPT ![c] = new]
    BY <1>1, <1>2, <1>4 DEF Archive, Types
  <2>2. new \in ChannelRecords /\ new.kind = channel[c].kind /\ new.version > channel[c].version
    <3>1. channel[c].version \in Nat
      BY <1>2 DEF ChannelRecords
    <3>2. channel[c].version + 1 \in Nat /\ channel[c].version + 1 > channel[c].version
      BY <3>1
    <3>3. new \in ChannelRecords
      BY <1>2, <3>1, <3>2 DEF ChannelRecords, PutAway
    <3>4. new.kind = channel[c].kind /\ new.version = channel[c].version + 1
      BY <1>2 DEF ChannelRecords, PutAway
    <3>5. QED
      BY <3>2, <3>3, <3>4
  <2> HIDE DEF new
  <2>3. QED
    BY <1>1, <1>2, <2>1, <2>2, OneChannelChanges
<1>5. QED
  BY <1>3, <1>4

-----------------------------------------------------------------------------
(* A message is sent, and a direct message announced *)

LEMMA CommitKeeps == ASSUME ChannelsInv, NEW r \in Requests, CommitMessage(r) PROVE ChannelsInv'
<1>1. /\ Types /\ AbsentInv /\ DmAnnounced /\ KeeperStays
      /\ Formed(req[r]) /\ Fits(req[r]) /\ req[r] \in RequestRecords
      /\ req[r].pc = "checked" /\ To(r, "committed")
      /\ UNCHANGED <<channel, role, claims, added, overlapped>>
  BY DEF ChannelsInv, RequestInv, Live, CommitMessage, Types
<1>2. PICK q : q = [req[r] EXCEPT !.pc = "committed"]
  OBVIOUS
<1>3. req' = [req EXCEPT ![r] = q]
  BY <1>1, <1>2, ToOther
<1>4. /\ q \in RequestRecords /\ q.pc = "committed" /\ q.op = req[r].op /\ q.who = req[r].who
      /\ q.on = req[r].on /\ q.whom = req[r].whom /\ q.as = req[r].as /\ q.name = req[r].name
      /\ q.seen = req[r].seen /\ q.opens = req[r].opens
  BY <1>1, <1>2 DEF RequestRecords
<1>5. PICK c \in Slots : c = req[r].on /\ channel[c].kind # "none"
  BY <1>1 DEF Formed, Fits, RequestRecords, Groups
<1>6. /\ posted' \in [Slots -> Nat]
      /\ \A d \in Slots : posted'[d] = IF d = c THEN posted[c] + 1 ELSE posted[d]
  BY <1>1, <1>5 DEF CommitMessage, Types
<1>7. Grow /\ \A d \in Slots : posted'[d] >= posted[d]
  <2>1. \A d \in Slots : channel[d].version \in Nat /\ posted[d] \in Nat
    BY <1>1 DEF Types, ChannelRecords
  <2>2. QED
    BY <1>1, <1>6, <2>1 DEF Grow
<1>8. \A s \in Requests : req'[s] = IF s = r THEN q ELSE req[s]
  BY <1>1, <1>3 DEF Types
<1>9. Formed(q)
  BY <1>1, <1>4 DEF Formed
<1>10. Fits(req[r])'
  BY <1>1, <1>4, <1>8 DEF Fits, Formed
<1>11. channel' \in [Slots -> ChannelRecords] /\ role' \in [Groups -> [People -> AllRoles]]
  BY <1>1 DEF Types
<1>12. req' \in [Requests -> RequestRecords] /\ RequestInv'
  BY <1>3, <1>4, <1>6, <1>7, <1>9, <1>10, <1>11, RequestsKept
<1>13. DecidedInv'
  BY <1>1, <1>3, <1>4, <1>11, DecidedKept
<1>14. TypeOK'
  BY <1>1, <1>12 DEF Types, TypeOK, RequestRecords
<1>15. Types'
  BY <1>6, <1>11, <1>12, <1>14 DEF Types
<1>16. AbsentInv'
  BY <1>1, <1>5, <1>6 DEF AbsentInv
<1>17. KeeperStays'
  BY <1>1, <1>14 DEF KeeperStays, Keepers
<1>18. ASSUME NEW d \in Slots, channel[d].kind = "dm", posted'[d] > 0
       PROVE  d \in added \/ \E s \in Requests : req'[s].pc = "committed" /\ req'[s].on = d /\ req'[s].opens
  <2>1. CASE posted[d] > 0
    <3>1. d \in added \/ \E s \in Requests : req[s].pc = "committed" /\ req[s].on = d /\ req[s].opens
      BY <1>1, <1>18, <2>1 DEF DmAnnounced
    <3>2. QED
      BY <1>1, <1>8, <3>1
  <2>2. CASE ~(posted[d] > 0)
    <3>1. d = c /\ posted[d] = 0
      BY <1>1, <1>6, <1>18, <2>2 DEF Types
    <3>2. req[r].opens
      BY <1>1, <1>5, <1>18, <3>1 DEF Fits, Formed
    <3>3. QED
      BY <1>4, <1>5, <1>8, <3>1, <3>2
  <2>3. QED
    BY <2>1, <2>2
<1>19. DmAnnounced'
  BY <1>1, <1>18 DEF DmAnnounced
<1>20. QED
  BY <1>12, <1>13, <1>15, <1>16, <1>17, <1>19 DEF ChannelsInv

LEMMA AnnounceKeeps == ASSUME ChannelsInv, NEW r \in Requests, Announce(r) PROVE ChannelsInv'
<1>1. /\ Types /\ AbsentInv /\ DmAnnounced /\ KeeperStays
      /\ Formed(req[r]) /\ Fits(req[r]) /\ req[r] \in RequestRecords
      /\ req[r].pc = "committed" /\ To(r, "over")
      /\ UNCHANGED <<channel, role, claims, posted, overlapped>>
      /\ added' = IF req[r].opens THEN added \cup {req[r].on} ELSE added
  BY DEF ChannelsInv, RequestInv, Live, Announce, Types
<1>2. PICK q : q = OverOf(req[r].op)
  OBVIOUS
<1>3. req' = [req EXCEPT ![r] = q] /\ q \in RequestRecords /\ q.pc = "over"
  BY <1>1, <1>2, ToOver, OverFacts DEF RequestRecords
<1>4. req[r].on \in Slots
  BY <1>1 DEF Formed, RequestRecords, Groups
<1>5. Grow /\ \A d \in Slots : posted'[d] >= posted[d]
  <2>1. \A d \in Slots : channel[d].version \in Nat /\ posted[d] \in Nat
    BY <1>1 DEF Types, ChannelRecords
  <2>2. QED
    BY <1>1, <2>1 DEF Grow
<1>6. /\ channel' \in [Slots -> ChannelRecords] /\ role' \in [Groups -> [People -> AllRoles]]
      /\ posted' \in [Slots -> Nat]
  BY <1>1 DEF Types
<1>7. req' \in [Requests -> RequestRecords] /\ RequestInv'
  BY <1>3, <1>5, <1>6, RequestsKept DEF Live
<1>8. DecidedInv'
  BY <1>1, <1>3, <1>6, DecidedKept
<1>9. added' \subseteq Slots /\ added \subseteq added'
  BY <1>1, <1>4 DEF Types, TypeOK
<1>10. TypeOK'
  BY <1>1, <1>7, <1>9 DEF Types, TypeOK, RequestRecords
<1>11. Types' /\ AbsentInv'
  BY <1>1, <1>6, <1>7, <1>10 DEF Types, AbsentInv
<1>12. KeeperStays'
  BY <1>1, <1>10 DEF KeeperStays, Keepers
<1>13. ASSUME NEW d \in Slots, channel[d].kind = "dm", posted[d] > 0
       PROVE  d \in added' \/ \E s \in Requests : req'[s].pc = "committed" /\ req'[s].on = d /\ req'[s].opens
  <2>1. d \in added \/ \E s \in Requests : req[s].pc = "committed" /\ req[s].on = d /\ req[s].opens
    BY <1>1, <1>13 DEF DmAnnounced
  <2>2. \A s \in Requests : s # r => req'[s] = req[s]
    BY <1>1, <1>3 DEF Types
  <2>3. QED
    BY <1>1, <1>9, <2>1, <2>2
<1>14. DmAnnounced'
  BY <1>1, <1>13 DEF DmAnnounced
<1>15. QED
  BY <1>7, <1>8, <1>11, <1>12, <1>14 DEF ChannelsInv

LEMMA StutterKeeps ==
  ASSUME ChannelsInv, UNCHANGED <<channel, role, posted, added, req, overlapped>>
  PROVE  ChannelsInv'
<1>1. Types' /\ AbsentInv' /\ RequestInv' /\ KeeperStays' /\ DmAnnounced'
  BY DEF ChannelsInv, Types, TypeOK, AbsentInv, RequestInv, Fits, KeeperStays, Keepers, DmAnnounced
<1>2. DecidedInv'
  BY DEF ChannelsInv, DecidedInv, Decided, Taking, Keepers
<1>3. QED
  BY <1>1, <1>2 DEF ChannelsInv

LEMMA NextKeeps == ASSUME ChannelsInv, [Next]_vars PROVE ChannelsInv'
<1>1. CASE UNCHANGED vars
  BY <1>1, StutterKeeps DEF vars
<1>2. CASE \E p \in People : Renew(p)
  BY <1>2, StutterKeeps DEF Renew
<1>3. ASSUME NEW r \in Requests,
             \/ Ask(r) \/ Authorise(r) \/ Create(r) \/ Rename(r) \/ Archive(r)
             \/ AddToChannel(r) \/ ReadChannelRole(r) \/ CountAdmins(r) \/ RemoveFromChannel(r)
             \/ AddToWorkspace(r) \/ ReadMembership(r) \/ CountOwners(r)
             \/ RemoveFromWorkspace(r) \/ SetRole(r)
             \/ OpenDm(r) \/ CheckOpens(r) \/ CommitMessage(r) \/ Announce(r)
      PROVE  ChannelsInv'
  BY <1>3, AskKeeps, AuthoriseKeeps, CreateKeeps, RenameKeeps, AddsKeep, ReadsKeep, CountsKeep,
     WritesKeep, OpenKeeps, CheckOpensKeeps, CommitKeeps, AnnounceKeeps
<1>4. QED
  BY <1>1, <1>2, <1>3 DEF Next

LEMMA InitHolds == ASSUME Init PROVE ChannelsInv
<1>1. PICK first \in Slots, second \in Slots, kind \in {"public", "private"}, n \in Names :
        channel = [c \in Slots |->
          IF c = first THEN [kind |-> kind, name |-> n, version |-> 0, archived |-> FALSE]
          ELSE IF c = second THEN [Absent EXCEPT !.kind = "dm"] ELSE Absent]
  BY DEF Init
<1>2. /\ role \in [Groups -> [People -> AllRoles]]
      /\ posted = [c \in Slots |-> 0] /\ added = {} /\ overlapped = {}
      /\ req = [r \in Requests |-> Idle]
      /\ \A g \in Groups :
           \/ g = Workspace /\ Keepers(g) # {}
           \/ /\ g # Workspace /\ \A p \in People : role[g][p] # "owner"
              /\ CASE channel[g].kind = "none" -> \A p \in People : role[g][p] = "none"
                   [] channel[g].kind = "dm"   -> \A p \in People : role[g][p] = "member"
                   [] OTHER                    -> Keepers(g) # {}
  BY DEF Init, AllRoles
<1>3. /\ [kind |-> kind, name |-> n, version |-> 0, archived |-> FALSE] \in ChannelRecords
      /\ [Absent EXCEPT !.kind = "dm"] \in ChannelRecords /\ Absent \in ChannelRecords
  BY DEF ChannelRecords, Kinds, Absent
<1>4. channel \in [Slots -> ChannelRecords]
  BY <1>1, <1>3
<1>5. \A c \in Slots : /\ ~channel[c].archived
                       /\ channel[c].kind = "dm" => c = second /\ channel[c].name = Pair
  BY <1>1 DEF Absent
<1>6. ASSUME NEW c \in Slots
      PROVE  /\ c \in Groups /\ c # Workspace /\ \A p \in People : role[c][p] # "owner"
             /\ channel[c].kind = "none" => \A p \in People : role[c][p] = "none"
             /\ channel[c].kind = "dm" => \A p \in People : role[c][p] = "member"
             /\ channel[c].kind \notin {"none", "dm"} => Keepers(c) # {}
  <2>1. c \in Groups /\ c # Workspace
    BY ChannelsAssumption DEF Groups, Workspace
  <2>2. QED
    BY <1>2, <2>1
<1>7. \A g \in Groups, p \in People : role[g][p] \in Roles(g) \cup {"none"}
  BY <1>2, <1>6 DEF Roles, AllRoles, Groups
<1>8. TypeOK
  <2>1. \A c \in Slots : channel[c] \in ChannelRecords
    BY <1>4
  <2>2. \A r \in Requests : req[r].op \in Ops \cup {"none"}
    BY <1>2, IdleFacts DEF RequestRecords
  <2>3. QED
    BY <1>2, <1>5, <1>6, <1>7, <2>1, <2>2 DEF TypeOK, ChannelRecords, Kinds
<1>9. Types
  BY <1>2, <1>4, <1>8, IdleFacts DEF Types
<1>10. AbsentInv
  BY <1>2, <1>5, <1>6 DEF AbsentInv
<1>11. RequestInv /\ DecidedInv
  <2>1. \A r \in Requests : req[r].pc = "idle"
    BY <1>2, IdleFacts
  <2>2. QED
    BY <2>1 DEF RequestInv, DecidedInv, Decided, Taking, Live
<1>12. KeeperStays
  BY <1>2, <1>6, <1>8 DEF KeeperStays, Groups
<1>13. DmAnnounced
  BY <1>2 DEF DmAnnounced
<1>14. QED
  BY <1>9, <1>10, <1>11, <1>12, <1>13 DEF ChannelsInv

LEMMA Invariance == Spec => []ChannelsInv
BY InitHolds, NextKeeps, PTL DEF Spec

(* A channel keeps an admin and the workspace an owner, as long as no two  *)
(* requests change the roles of one group at once (channels.py 93-99,      *)
(* identities.py 316-322).                                                 *)
THEOREM AKeeperStays == Spec => []KeeperStays
<1>1. ChannelsInv => KeeperStays
  BY DEF ChannelsInv
<1>2. QED
  BY <1>1, Invariance, PTL

(* The people of a direct message that has a message are told of it        *)
(* (dms.py 111-126), whichever sends run at once.                          *)
THEOREM DmsAreAnnounced == Spec => []DmAnnounced
<1>1. ChannelsInv => DmAnnounced
  BY DEF ChannelsInv
<1>2. QED
  BY <1>1, Invariance, PTL

-----------------------------------------------------------------------------
(* Names *)

Renaming == RenamesSeen /\ ArchivedStays

LEMMA OtherRequestsStay ==
  ASSUME Types, NEW r \in Requests, NEW pc, To(r, pc), NEW s \in Requests, s # r
  PROVE  req'[s] = req[s]
BY DEF To, Types

LEMMA RenameSees == ASSUME ChannelsInv, NEW r \in Requests, Rename(r) PROVE Renaming
<1> DEFINE c == req[r].on
<1>1. /\ Types /\ Formed(req[r]) /\ Fits(req[r]) /\ req[r] \in RequestRecords
      /\ req[r].pc = "allowed" /\ req[r].op = "rename" /\ To(r, "over")
  BY DEF ChannelsInv, RequestInv, Live, Rename, Serving, Types
<1>2. c \in Slots /\ channel \in [Slots -> ChannelRecords] /\ channel[c] \in ChannelRecords
  BY <1>1 DEF Formed, RequestRecords, Groups, Types
<1>3. CASE RefusesRename(c, req[r])
  BY <1>3 DEF Rename, Renaming, RenamesSeen, ArchivedStays
<1>4. CASE ~RefusesRename(c, req[r])
  <2>1. channel[c].version = req[r].seen.version
    BY <1>4 DEF RefusesRename
  <2>2. channel[c].name = req[r].seen.name /\ ~channel[c].archived
    BY <1>1, <1>2, <2>1 DEF Fits, Formed, ChannelRecords
  <2>3. \A d \in Slots : d # c => channel'[d] = channel[d]
    BY <1>2, <1>4 DEF Rename
  <2>4. ArchivedStays
    BY <2>2, <2>3 DEF ArchivedStays
  <2>5. RenamesSeen
    <3>1. ASSUME NEW s \in Requests, s # r, req[s].pc = "allowed", req'[s].pc = "over" PROVE FALSE
      BY <1>1, <3>1, OtherRequestsStay
    <3>2. QED
      BY <2>2, <3>1 DEF RenamesSeen
  <2>6. QED
    BY <2>4, <2>5 DEF Renaming
<1>5. QED
  BY <1>3, <1>4

LEMMA ArchiveSees == ASSUME ChannelsInv, NEW r \in Requests, Archive(r) PROVE Renaming
<1>1. Types /\ To(r, "over") /\ req[r].op = "archive" /\ channel \in [Slots -> ChannelRecords]
  BY DEF ChannelsInv, Archive, Serving, Types
<1>2. ASSUME NEW c \in Slots PROVE channel'[c].name = channel[c].name
                               /\ (channel[c].archived => channel'[c].archived)
  <2>1. channel[c] \in ChannelRecords
    BY <1>1
  <2>2. channel'[c] = channel[c] \/ channel'[c] = PutAway(channel[c])
    BY <1>1 DEF Archive
  <2>3. QED
    BY <2>1, <2>2 DEF PutAway, ChannelRecords
<1>3. ArchivedStays
  BY <1>2 DEF ArchivedStays
<1>4. RenamesSeen
  BY <1>1, OtherRequestsStay DEF RenamesSeen
<1>5. QED
  BY <1>3, <1>4 DEF Renaming

(* What makes a channel makes it where none is. *)
LEMMA MakingSees ==
  ASSUME ChannelsInv, NEW r \in Requests, Create(r) \/ OpenDm(r)
  PROVE  Renaming
<1>1. /\ Types /\ AbsentInv /\ To(r, "over") /\ req[r].op # "rename"
      /\ channel \in [Slots -> ChannelRecords]
  BY DEF ChannelsInv, Create, OpenDm, Serving, Types
<1>2. \A c \in Slots : channel[c].archived => channel'[c] = channel[c]
  BY <1>1 DEF Create, OpenDm, AbsentInv
<1>3. ArchivedStays
  BY <1>2 DEF ArchivedStays
<1>4. RenamesSeen
  BY <1>1, OtherRequestsStay DEF RenamesSeen
<1>5. QED
  BY <1>3, <1>4 DEF Renaming

LEMMA NextSees == ASSUME ChannelsInv, [Next]_vars PROVE [Renaming]_vars
<1>1. channel' = channel => Renaming
  BY DEF Renaming, RenamesSeen, ArchivedStays
<1>2. CASE \E r \in Requests : Create(r) \/ Rename(r) \/ Archive(r) \/ OpenDm(r)
  BY <1>2, MakingSees, RenameSees, ArchiveSees
<1>3. CASE ~\E r \in Requests : Create(r) \/ Rename(r) \/ Archive(r) \/ OpenDm(r)
  <2>1. channel' = channel
    BY <1>3 DEF Next, vars, Ask, Authorise, AddToChannel, AddToWorkspace, Insert, Enlist,
         ReadChannelRole, ReadMembership, Decide, CountAdmins, CountOwners, Count,
         RemoveFromChannel, RemoveFromWorkspace, SetRole, Write, CheckOpens, CommitMessage,
         Announce, Renew
  <2>2. QED
    BY <1>1, <2>1
<1>4. QED
  BY <1>2, <1>3

(* Nobody renames a channel over a name they have not seen, and a channel  *)
(* that was put away changes no more (channels.py 193-206, 240-251): the   *)
(* version of a channel goes up with every change of it.                   *)
THEOREM RenamesAreSeen == Spec => SawWhatItRenames
<1>1. ChannelsInv /\ [Next]_vars => [Renaming]_vars
  BY NextSees
<1>2. Spec => [][Renaming]_vars
  BY <1>1, Invariance, PTL DEF Spec
<1>3. QED
  BY <1>2 DEF SawWhatItRenames, Renaming

-----------------------------------------------------------------------------
(* The caches of one window: the inductive invariant. *)

RowRecords == [id : Ids, temp : BOOLEAN]

Messages == [kind : {"message"}, id : Ids]

Summaries == [kind : {"summary"}, n : Nat, replies : Nat]

Reactions == [kind : {"reaction"}, n : Nat, count : Int, own : BOOLEAN, reacted : BOOLEAN]

Broadcasts == Messages \cup Summaries \cup Reactions

Roots == [replies : Nat, count : Int, lit : BOOLEAN]

Copies == [loaded : BOOLEAN, rows : Seq(RowRecords), root : Roots]

Readings == [at : {"read"}, root : Roots, rows : SUBSET RowRecords]

Clicks == [at : {"asked"}, from : Caches, add : BOOLEAN, before : Roots,
           received : Nat, stale : BOOLEAN]

Answers == [at : {"served"}, from : Caches, before : Roots, received : Nat,
            stale : BOOLEAN, answer : Roots, made : Nat]

PanelTypes ==
  /\ stored \subseteq Ids
  /\ mine \in BOOLEAN /\ theirs \in BOOLEAN
  /\ made \in Nat /\ received \in 0 .. made
  /\ inbox \in Seq(Broadcasts)
  /\ again \in [Caches -> Seq(Broadcasts)]
  /\ send \in [Sends -> [at : {"no", "waiting", "over"},
                         server : {"no", "asked", "saved", "refused"}]]
  /\ toggle \in {NoToggle} \cup Clicks \cup Answers
  /\ fetch \in [Caches -> {NoFetch, Asked} \cup Readings]
  /\ cache \in [Caches -> Copies]
  /\ late \subseteq Caches

(* The messages of a cache. *)
Belongs(k) == {Real(i) : i \in {j \in stored : Home(j) = k}}

Single(rows) == \A a, b \in DOMAIN rows : rows[a] = rows[b] => a = b

(* Whether a broadcast of message i is among q's. *)
Brings(q, i) == \E a \in DOMAIN q : q[a] = Posted(i)

(* A broadcast is of something committed; what is to be applied again is   *)
(* of that cache.                                                          *)
PostInv ==
  /\ \A i : Brings(inbox, i) => i \in stored
  /\ \A k \in Caches : /\ \A i : Brings(again[k], i) => i \in stored /\ Home(i) = k
                       /\ again[k] # <<>> => Fetching(k)
  /\ \A s \in Sends : send[s].server = "saved" => s \in stored

(* The rows of each cache. *)
RowsInv ==
  \A k \in Caches :
    /\ Single(cache[k].rows)
    /\ cache[k].loaded \/ cache[k].rows = <<>>
    /\ \A r : Holds(cache[k].rows, r) =>
         /\ r.id \in Ids /\ Home(r.id) = k
         /\ \/ r = Real(r.id) /\ r.id \in stored
            \/ r = Pending(r.id) /\ r.id \in Sends /\ send[r.id].at = "waiting"
    /\ fetch[k].at = "read" => fetch[k].rows \subseteq Belongs(k)

(* What was committed is in the cache, or in what its fetch has read, or   *)
(* on its way to it.                                                       *)
ArrivalInv ==
  \A k \in Caches : \A i \in stored : Home(i) = k =>
    /\ cache[k].loaded => Holds(cache[k].rows, Real(i)) \/ Brings(inbox, i)
    /\ fetch[k].at = "read" =>
         Real(i) \in fetch[k].rows \/ Brings(inbox, i) \/ Brings(again[k], i)

-----------------------------------------------------------------------------
(* What the broadcasts say of the root. *)

Fields == {"replies", "count", "lit"}

Tells(e, f) ==
  \/ f = "replies" /\ e.kind = "summary"
  \/ f = "count" /\ e.kind = "reaction"
  \/ f = "lit" /\ e.kind = "reaction" /\ e.own

Value(e, f) == IF f = "replies" THEN e.replies ELSE IF f = "count" THEN e.count ELSE e.reacted

Silent(q, f) == \A a \in DOMAIN q : ~Tells(q[a], f)

(* The last of q that tells of f says v. *)
LastSays(q, f, v) ==
  \A a \in DOMAIN q :
    Tells(q[a], f) /\ (\A b \in DOMAIN q : a < b => ~Tells(q[b], f)) => Value(q[a], f) = v

(* After this person's last own change, no reaction of q empties the chip  *)
(* of somebody who has reacted.                                            *)
KeepsLit(q, me) ==
  \A a \in DOMAIN q :
    q[a].kind = "reaction" /\ (\A b \in DOMAIN q : a < b => ~Tells(q[b], "lit"))
      => (me => q[a].count > 0)

(* The broadcasts about the root come in the order of their changes. *)
Numbered(q, low, high) ==
  /\ \A a \in DOMAIN q : q[a].kind # "message" => q[a].n \in low + 1 .. high
  /\ \A a, b \in DOMAIN q :
       a < b /\ q[a].kind # "message" /\ q[b].kind # "message" => q[a].n < q[b].n

NumberInv == Numbered(inbox, received, made)

(* What of q tells of f was no later than change m. *)
Since(q, f, m) == \A a \in DOMAIN q : Tells(q[a], f) => q[a].n <= m

(* The last broadcast about each field is right, the last to be applied    *)
(* again once no other is on its way.                                      *)
NewsInv ==
  /\ \A f \in Fields : LastSays(inbox, f, Truth[f])
  /\ KeepsLit(inbox, mine)
  /\ \A k \in Caches : /\ \A f \in Fields : Silent(inbox, f) => LastSays(again[k], f, Truth[f])
                       /\ Silent(inbox, "lit") => KeepsLit(again[k], mine)

(* The field shows what was clicked, until the toggle is over. *)
Clicked(k, f) == toggle # NoToggle /\ k \in Reaches(toggle.from) /\ f # "replies"

(* Without news on its way each field is right. *)
CopyInv ==
  \A k \in Caches : cache[k].loaded /\ k \notin late =>
    \A f \in Fields : ~Clicked(k, f) /\ Silent(inbox, f) => cache[k].root[f] = Truth[f]

ReadingInv ==
  \A k \in Caches : fetch[k].at = "read" =>
    \A f \in Fields : Silent(inbox, f) /\ Silent(again[k], f) => fetch[k].root[f] = Truth[f]

(* What a toggle may write, and when it is as good as the broadcasts.      *)
ToggleInv ==
  toggle # NoToggle =>
    /\ toggle.received <= received
    /\ ~toggle.stale /\ toggle.received = received =>
         \A f \in {"count", "lit"} : Silent(inbox, f) => toggle.before[f] = Truth[f]
    /\ toggle.at = "served" =>
         /\ toggle.made <= made
         /\ toggle.made >= received => \A f \in Fields :
              Since(inbox, f, toggle.made) => toggle.answer[f] = Truth[f]

PanelInvariant ==
  /\ PanelTypes /\ PostInv /\ RowsInv /\ ArrivalInv
  /\ NumberInv /\ NewsInv /\ CopyInv /\ ReadingInv /\ ToggleInv

-----------------------------------------------------------------------------
(* Counting up. *)

LEMMA LeastCount ==
  ASSUME NEW T, T \subseteq Nat, T # {}
  PROVE  \E x \in T : \A y \in T : x <= y
<1> DEFINE Less == {p \in Nat \X Nat : p[1] < p[2]}
<1>1. IsWellFoundedOn(Less, Nat)
  BY NatLessThanWellFounded DEF OpToRel
<1>2. \A x, y \in Nat : x < y => <<x, y>> \in Less
  OBVIOUS
<1> HIDE DEF Less
<1>3. \E x \in T : \A y \in T : ~(<<y, x>> \in Less)
  BY <1>1, WFMin
<1>4. PICK x \in T : \A y \in T : ~(<<y, x>> \in Less)
  BY <1>3
<1>5. ASSUME NEW y \in T PROVE x <= y
  <2>1. x \in Nat /\ y \in Nat /\ ~(y < x)
    BY <1>2, <1>4
  <2>2. QED
    BY <2>1
<1>6. QED
  BY <1>5

(* What holds at 0 and is handed on holds at the end. *)
LEMMA CountUp ==
  ASSUME NEW N \in Nat, NEW T, 0 \in T, \A n \in 1 .. N : n - 1 \in T => n \in T
  PROVE  N \in T
<1> SUFFICES ASSUME N \notin T PROVE FALSE
  OBVIOUS
<1> DEFINE Missing == {n \in 0 .. N : n \notin T}
<1>1. PICK n \in Missing : \A l \in Missing : n <= l
  <2>1. Missing \subseteq Nat /\ Missing # {}
    OBVIOUS
  <2> HIDE DEF Missing
  <2> QED
    BY <2>1, LeastCount
<1>2. n \in 1 .. N /\ n - 1 \in 0 .. N /\ ~(n <= n - 1)
  OBVIOUS
<1>3. n - 1 \in T
  BY <1>1, <1>2
<1> QED
  BY <1>1, <1>2, <1>3

(* What a step makes of each n and each value. *)
Steps(N, S) == [1 .. N -> [S -> S]]

Follows(f, N, S, base, step) ==
  f \in [0 .. N -> S] /\ f[0] = base /\ \A n \in 1 .. N : f[n] = step[n][f[n - 1]]

(* A function that is defined step by step exists. *)
LEMMA Recursion ==
  ASSUME NEW N \in Nat, NEW S, NEW base \in S, NEW step \in Steps(N, S)
  PROVE  \E f : Follows(f, N, S, base, step)
<1>0. step \in [1 .. N -> [S -> S]]
  BY DEF Steps
<1> DEFINE Is(f, m) == /\ f \in [0 .. m -> S] /\ f[0] = base
                       /\ \A n \in 1 .. m : f[n] = step[n][f[n - 1]]
<1> DEFINE T == {m \in 0 .. N : \E f : Is(f, m)}
<1>1. 0 \in T
  <2>1. PICK f : f = [n \in 0 .. 0 |-> base]
    OBVIOUS
  <2>2. f \in [0 .. 0 -> S] /\ f[0] = base /\ 1 .. 0 = {}
    BY <2>1
  <2>3. Is(f, 0)
    BY <2>2
  <2> HIDE DEF Is
  <2> QED
    BY <2>3
<1>2. ASSUME NEW m \in 1 .. N, m - 1 \in T PROVE m \in T
  <2>1. PICK g : Is(g, m - 1)
    BY <1>2
  <2>0. m \in Nat /\ m - 1 \in 0 .. m - 1
    OBVIOUS
  <2>2. g[m - 1] \in S /\ step[m] \in [S -> S]
    BY <1>0, <2>0, <2>1
  <2>3. PICK v \in S : v = step[m][g[m - 1]]
    BY <2>2
  <2>4. PICK f : f = [n \in 0 .. m |-> IF n = m THEN v ELSE g[n]]
    OBVIOUS
  <2>5. f \in [0 .. m -> S] /\ f[0] = base
    <3>1. \A n \in 0 .. m : n # m => n \in 0 .. m - 1
      OBVIOUS
    <3>2. \A n \in 0 .. m : f[n] \in S
      BY <2>1, <2>3, <2>4, <3>1
    <3> QED
      BY <2>1, <2>4, <3>2
  <2>6. ASSUME NEW n \in 1 .. m PROVE f[n] = step[n][f[n - 1]]
    <3>1. CASE n = m
      <4>1. f[n] = v /\ f[n - 1] = g[m - 1]
        BY <2>0, <2>4, <3>1
      <4> QED
        BY <2>3, <3>1, <4>1
    <3>2. CASE n # m
      <4>1. n \in 1 .. m - 1 /\ f[n] = g[n] /\ f[n - 1] = g[n - 1]
        BY <2>4, <3>2
      <4> QED
        BY <2>1, <4>1
    <3> QED
      BY <3>1, <3>2
  <2>7. Is(f, m)
    BY <2>5, <2>6
  <2> HIDE DEF Is
  <2> QED
    BY <2>7
<1>3. PICK f : Is(f, N)
  <2> HIDE DEF T
  <2>1. N \in T
    BY <1>1, <1>2, CountUp
  <2>2. \E f : Is(f, N)
    BY <2>1 DEF T
  <2> QED
    BY <2>2
<1> QED
  BY <1>3 DEF Follows

-----------------------------------------------------------------------------
(* Rows. *)

LEMMA AppendRow ==
  ASSUME NEW q \in Seq(RowRecords), NEW r \in RowRecords
  PROVE  /\ Append(q, r) \in Seq(RowRecords)
         /\ \A x : Holds(Append(q, r), x) <=> Holds(q, x) \/ x = r
         /\ Single(q) /\ ~Holds(q, r) => Single(Append(q, r))
<1>1. /\ Append(q, r) \in Seq(RowRecords) /\ DOMAIN q = 1 .. Len(q)
      /\ DOMAIN Append(q, r) = 1 .. Len(q) + 1 /\ Len(q) \in Nat
      /\ \A a \in 1 .. Len(q) : Append(q, r)[a] = q[a]
      /\ Append(q, r)[Len(q) + 1] = r
  OBVIOUS
<1>2. \A a : a \in 1 .. Len(q) + 1 <=> a \in 1 .. Len(q) \/ a = Len(q) + 1
  BY <1>1
<1> QED
  BY <1>1, <1>2 DEF Holds, Single

(* upsertMessage, upsertThreadMessage. *)
LEMMA PutSays ==
  ASSUME NEW q \in Seq(RowRecords), NEW r \in RowRecords
  PROVE  /\ Put(q, r) \in Seq(RowRecords)
         /\ \A x : Holds(Put(q, r), x) <=> Holds(q, x) \/ x = r
         /\ Single(q) => Single(Put(q, r))
<1>1. CASE Holds(q, r)
  BY <1>1 DEF Put
<1>2. CASE ~Holds(q, r)
  <2>1. PICK p : p = <<r>> \o q
    OBVIOUS
  <2>2. /\ p \in Seq(RowRecords) /\ DOMAIN q = 1 .. Len(q) /\ Len(q) \in Nat
        /\ DOMAIN p = 1 .. Len(q) + 1 /\ p[1] = r
        /\ \A a \in 1 .. Len(q) : p[a + 1] = q[a]
    BY <2>1
  <2>3. \A a \in 1 .. Len(q) + 1 : a = 1 \/ (a - 1 \in 1 .. Len(q) /\ p[a] = q[a - 1])
    BY <2>2
  <2>4. \A a \in 1 .. Len(q) : a + 1 \in 1 .. Len(q) + 1
    BY <2>2
  <2>5. Put(q, r) = p
    BY <1>2, <2>1 DEF Put
  <2>6. \A x : Holds(p, x) <=> Holds(q, x) \/ x = r
    <3>1. Holds(p, r)
      BY <2>2 DEF Holds
    <3>2. ASSUME NEW x, Holds(q, x) PROVE Holds(p, x)
      BY <2>2, <2>4, <3>2 DEF Holds
    <3>3. ASSUME NEW x, Holds(p, x) PROVE Holds(q, x) \/ x = r
      BY <2>2, <2>3, <3>3 DEF Holds
    <3> QED
      BY <3>1, <3>2, <3>3
  <2>7. ASSUME Single(q) PROVE Single(p)
    <3> SUFFICES ASSUME NEW a \in DOMAIN p, NEW b \in DOMAIN p, p[a] = p[b] PROVE a = b
      BY DEF Single
    <3>1. /\ a = 1 \/ (a - 1 \in DOMAIN q /\ p[a] = q[a - 1])
          /\ b = 1 \/ (b - 1 \in DOMAIN q /\ p[b] = q[b - 1])
      BY <2>2, <2>3
    <3>2. a = 1 <=> b = 1
      BY <1>2, <2>2, <3>1 DEF Holds
    <3>3. a # 1 => a - 1 = b - 1
      BY <2>7, <3>1, <3>2 DEF Single
    <3> QED
      BY <2>2, <3>2, <3>3
  <2> QED
    BY <2>2, <2>5, <2>6, <2>7
<1> QED
  BY <1>1, <1>2

(* removeMessage, removeThreadMessage. *)
LEMMA WithoutSays ==
  ASSUME NEW q \in Seq(RowRecords), NEW r
  PROVE  /\ Without(q, r) \in Seq(RowRecords)
         /\ \A x : Holds(Without(q, r), x) <=> Holds(q, x) /\ x # r
         /\ Single(q) => Single(Without(q, r))
<1> DEFINE N == Len(q)
           Is(f) == f = [n \in 0 .. N |->
                           IF n = 0 THEN <<>>
                           ELSE IF q[n] = r THEN f[n - 1] ELSE Append(f[n - 1], q[n])]
<1>0. /\ N \in Nat /\ DOMAIN q = 1 .. N /\ <<>> \in Seq(RowRecords)
      /\ \A n \in 1 .. N : q[n] \in RowRecords /\ n - 1 \in 0 .. N /\ n \in 0 .. N /\ n # 0
  OBVIOUS
<1>1. \E f \in [0 .. N -> Seq(RowRecords)] : Is(f)
  <2>1. PICK next : next = [n \in 1 .. N |-> [p \in Seq(RowRecords) |->
                              IF q[n] = r THEN p ELSE Append(p, q[n])]]
    OBVIOUS
  <2>2. next \in Steps(N, Seq(RowRecords))
    BY <1>0, <2>1 DEF Steps
  <2>3. PICK f : Follows(f, N, Seq(RowRecords), <<>>, next)
    BY <1>0, <2>2, Recursion
  <2>8. /\ f \in [0 .. N -> Seq(RowRecords)]
        /\ f[0] = <<>> /\ \A n \in 1 .. N : f[n] = next[n][f[n - 1]]
    BY <2>3 DEF Follows
  <2> HIDE DEF N
  <2>4. \A n \in 0 .. N : n # 0 => n \in 1 .. N /\ f[n - 1] \in Seq(RowRecords)
    BY <1>0, <2>8
  <2>5. \A n \in 0 .. N :
          f[n] = IF n = 0 THEN <<>> ELSE IF q[n] = r THEN f[n - 1] ELSE Append(f[n - 1], q[n])
    BY <2>1, <2>8, <2>4
  <2>6. f = [n \in 0 .. N |-> f[n]]
    BY <2>8
  <2>7. Is(f)
    BY <2>5, <2>6
  <2> HIDE DEF Is
  <2> QED
    BY <2>7, <2>8
<1> DEFINE kept == CHOOSE f : Is(f)
<1>2. Is(kept)
  BY <1>1
<1>3. Without(q, r) = kept[N]
  BY DEF Without
<1> HIDE DEF kept, N
<1>4. kept[0] = <<>> /\ \A n \in 1 .. N :
        kept[n] = IF q[n] = r THEN kept[n - 1] ELSE Append(kept[n - 1], q[n])
  <2>1. \A n \in 0 .. N : kept[n] =
          IF n = 0 THEN <<>> ELSE IF q[n] = r THEN kept[n - 1] ELSE Append(kept[n - 1], q[n])
    <3> PICK g : g = kept
      OBVIOUS
    <3>1. g = [n \in 0 .. N |-> IF n = 0 THEN <<>>
                               ELSE IF q[n] = r THEN g[n - 1] ELSE Append(g[n - 1], q[n])]
      BY <1>2
    <3> QED
      BY <3>1
  <2> QED
    BY <1>0, <2>1
<1> HIDE DEF Is
<1> DEFINE Fine(n) == /\ kept[n] \in Seq(RowRecords)
                      /\ \A x : Holds(kept[n], x) <=> x # r /\ \E a \in 1 .. n : q[a] = x
                      /\ Single(q) => Single(kept[n])
           T == {n \in 0 .. N : Fine(n)}
<1>5. 0 \in T
  <2>1. Fine(0)
    BY <1>4 DEF Holds, Single
  <2> QED
    BY <1>0, <2>1
<1>6. ASSUME NEW n \in 1 .. N, n - 1 \in T PROVE n \in T
  <2>1. Fine(n - 1)
    BY <1>6
  <2>2. /\ q[n] \in RowRecords /\ n \in 0 .. N
        /\ \A a : a \in 1 .. n <=> a \in 1 .. n - 1 \/ a = n
    BY <1>0
  <2>3. CASE q[n] = r
    <3>1. kept[n] = kept[n - 1]
      BY <1>4, <2>3
    <3> QED
      BY <2>1, <2>2, <2>3, <3>1
  <2>4. CASE q[n] # r
    <3>1. PICK p \in Seq(RowRecords) : p = kept[n - 1]
      BY <2>1
    <3>2. kept[n] = Append(p, q[n])
      BY <1>4, <2>4, <3>1
    <3>3. /\ kept[n] \in Seq(RowRecords)
          /\ \A x : Holds(kept[n], x) <=> Holds(p, x) \/ x = q[n]
          /\ Single(p) /\ ~Holds(p, q[n]) => Single(kept[n])
      BY <2>2, <3>2, AppendRow
    <3>4. Single(q) => ~Holds(p, q[n])
      <4>1. \A a \in 1 .. n - 1 : a \in DOMAIN q /\ n \in DOMAIN q /\ a # n
        BY <1>0
      <4> QED
        BY <2>1, <3>1, <4>1 DEF Single
    <3>5. \A x : Holds(kept[n], x) <=> x # r /\ \E a \in 1 .. n : q[a] = x
      BY <2>1, <2>2, <2>4, <3>1, <3>3
    <3> QED
      BY <2>1, <2>2, <3>1, <3>3, <3>4, <3>5
  <2> QED
    BY <2>3, <2>4
<1>7. N \in T
  <2> HIDE DEF T
  <2> QED
    BY <1>0, <1>5, <1>6, CountUp
<1>8. Fine(N)
  BY <1>7
<1> QED
  BY <1>0, <1>3, <1>8 DEF Holds

(* The rows a fetch brings are listed once each. *)
LEMMA ListSays ==
  ASSUME NEW S \in SUBSET RowRecords, \A x \in S : x = Real(x.id)
  PROVE  /\ SetToSeq(S) \in Seq(RowRecords) /\ Single(SetToSeq(S))
         /\ \A x : Holds(SetToSeq(S), x) <=> x \in S
<1>1. IsFiniteSet(S)
  <2>1. PICK f : f = [i \in Ids |-> Real(i)]
    OBVIOUS
  <2>2. PICK R : R = {f[i] : i \in Ids}
    OBVIOUS
  <2>3. f \in Surjection(Ids, R)
    BY <2>1, <2>2 DEF Surjection
  <2>4. IsFiniteSet(Ids)
    BY PanelAssumption
  <2>5. IsFiniteSet(R)
    BY <2>3, <2>4, FS_Surjection
  <2>6. S \subseteq R
    BY <2>1, <2>2 DEF RowRecords
  <2> QED
    BY <2>5, <2>6, FS_Subset
<1>2. Cardinality(S) \in Nat /\ ExistsBijection(1 .. Cardinality(S), S)
  BY <1>1, FS_CardinalityType
<1>3. \E f \in [1 .. Cardinality(S) -> S] : IsInjective(f)
  BY <1>2 DEF ExistsBijection, Bijection, Injection
<1>4. PICK q : q = SetToSeq(S)
  OBVIOUS
<1>5. q \in [1 .. Cardinality(S) -> S] /\ IsInjective(q)
  BY <1>3, <1>4 DEF SetToSeq
<1>6. q \in Injection(1 .. Cardinality(S), S)
  BY <1>5 DEF Injection
<1>7. Cardinality(1 .. Cardinality(S)) = Cardinality(S) /\ IsFiniteSet(1 .. Cardinality(S))
  BY <1>2, FS_Interval
<1>8. q \in Surjection(1 .. Cardinality(S), S)
  BY <1>1, <1>6, <1>7, FS_Injection
<1>9. \A x \in S : \E a \in 1 .. Cardinality(S) : q[a] = x
  BY <1>8 DEF Surjection
<1>10. q \in Seq(RowRecords) /\ DOMAIN q = 1 .. Cardinality(S)
  BY <1>2, <1>5
<1>11. Single(q) /\ \A x : Holds(q, x) <=> x \in S
  BY <1>5, <1>9, <1>10 DEF Single, Holds, IsInjective
<1> QED
  BY <1>4, <1>10, <1>11

-----------------------------------------------------------------------------
(* Broadcasts. *)

LEMMA BroadcastSays ==
  ASSUME NEW e \in Broadcasts
  PROVE  /\ e.kind \in {"message", "summary", "reaction"}
         /\ e.kind = "message" => e.id \in Ids /\ e = Posted(e.id)
         /\ e.kind = "summary" => e.n \in Nat /\ e.replies \in Nat
         /\ e.kind = "reaction" => /\ e.n \in Nat /\ e.count \in Int
                                   /\ e.own \in BOOLEAN /\ e.reacted \in BOOLEAN
         /\ \A f : Tells(e, f) => e.kind # "message"
BY DEF Broadcasts, Messages, Summaries, Reactions, Posted, Tells

LEMMA AppendSays ==
  ASSUME NEW q \in Seq(Broadcasts), NEW e \in Broadcasts
  PROVE  /\ Append(q, e) \in Seq(Broadcasts) /\ Append(q, e) # <<>>
         /\ \A i : Brings(Append(q, e), i) <=> Brings(q, i) \/ e = Posted(i)
         /\ \A f : Silent(Append(q, e), f) <=> Silent(q, f) /\ ~Tells(e, f)
         /\ \A f, v : Tells(e, f) => (LastSays(Append(q, e), f, v) <=> Value(e, f) = v)
         /\ \A f, v : ~Tells(e, f) => (LastSays(Append(q, e), f, v) <=> LastSays(q, f, v))
         /\ \A me \in BOOLEAN :
              KeepsLit(Append(q, e), me) <=> /\ e.kind = "reaction" => (me => e.count > 0)
                                             /\ Tells(e, "lit") \/ KeepsLit(q, me)
<1>1. PICK p : p = Append(q, e)
  OBVIOUS
<1>2. /\ p \in Seq(Broadcasts) /\ p # <<>> /\ DOMAIN q = 1 .. Len(q) /\ Len(q) \in Nat
      /\ DOMAIN p = 1 .. Len(q) + 1 /\ p[Len(q) + 1] = e
      /\ \A a \in 1 .. Len(q) : p[a] = q[a]
  BY <1>1
<1>3. PICK z : z = Len(q) + 1
  OBVIOUS
<1>4. /\ p[z] = e /\ z \in DOMAIN p /\ z \notin DOMAIN q
      /\ \A a : a \in DOMAIN p <=> a \in DOMAIN q \/ a = z
      /\ \A a \in DOMAIN q : p[a] = q[a] /\ a < z /\ ~(z < a)
      /\ ~(z < z)
  BY <1>2, <1>3
<1> HIDE DEF Tells, Value
<1>5. \A i : Brings(p, i) <=> Brings(q, i) \/ e = Posted(i)
  BY <1>4 DEF Brings
<1>6. \A f : Silent(p, f) <=> Silent(q, f) /\ ~Tells(e, f)
  BY <1>4 DEF Silent
<1>7. ASSUME NEW f, NEW v, Tells(e, f) PROVE LastSays(p, f, v) <=> Value(e, f) = v
  BY <1>4, <1>7 DEF LastSays
<1>8. ASSUME NEW f, NEW v, ~Tells(e, f) PROVE LastSays(p, f, v) <=> LastSays(q, f, v)
  BY <1>4, <1>8 DEF LastSays
<1>9. ASSUME NEW me \in BOOLEAN
      PROVE  KeepsLit(p, me) <=> /\ e.kind = "reaction" => (me => e.count > 0)
                                 /\ Tells(e, "lit") \/ KeepsLit(q, me)
  <2>1. CASE Tells(e, "lit")
    BY <1>4, <2>1 DEF KeepsLit
  <2>2. CASE ~Tells(e, "lit")
    <3>1. \A a \in DOMAIN q : (\A b \in DOMAIN p : a < b => ~Tells(p[b], "lit"))
                                <=> (\A b \in DOMAIN q : a < b => ~Tells(q[b], "lit"))
      BY <1>4, <2>2
    <3>2. \A b \in DOMAIN p : z < b => ~Tells(p[b], "lit")
      BY <1>4
    <3> QED
      BY <1>4, <2>2, <3>1, <3>2 DEF KeepsLit
  <2> QED
    BY <2>1, <2>2
<1> QED
  BY <1>1, <1>2, <1>5, <1>6, <1>7, <1>8, <1>9

LEMMA TailSays ==
  ASSUME NEW q \in Seq(Broadcasts), q # <<>>
  PROVE  /\ Head(q) \in Broadcasts /\ Tail(q) \in Seq(Broadcasts)
         /\ \A i : Brings(q, i) <=> Brings(Tail(q), i) \/ Head(q) = Posted(i)
         /\ \A f : Silent(q, f) <=> Silent(Tail(q), f) /\ ~Tells(Head(q), f)
         /\ \A f, v : LastSays(q, f, v) => LastSays(Tail(q), f, v)
         /\ \A f, v : LastSays(q, f, v) /\ Tells(Head(q), f) /\ Silent(Tail(q), f)
                        => Value(Head(q), f) = v
         /\ \A me \in BOOLEAN : KeepsLit(q, me) => KeepsLit(Tail(q), me)
         /\ \A me \in BOOLEAN :
              KeepsLit(q, me) /\ Head(q).kind = "reaction" /\ Silent(Tail(q), "lit")
                => (me => Head(q).count > 0)
<1>1. PICK p, e : p = Tail(q) /\ e = Head(q)
  OBVIOUS
<1>2. /\ p \in Seq(Broadcasts) /\ e \in Broadcasts /\ Len(q) \in Nat /\ Len(q) > 0
      /\ DOMAIN q = 1 .. Len(q) /\ DOMAIN p = 1 .. Len(q) - 1
      /\ q[1] = e /\ \A a \in 1 .. Len(q) - 1 : p[a] = q[a + 1]
  BY <1>1
<1>3. /\ 1 \in DOMAIN q /\ \A b \in DOMAIN q : b = 1 \/ (1 < b /\ b - 1 \in DOMAIN p /\ q[b] = p[b - 1])
      /\ \A a \in DOMAIN p : a + 1 \in DOMAIN q /\ q[a + 1] = p[a]
      /\ \A a \in DOMAIN p, b \in DOMAIN q : a + 1 < b => b - 1 \in DOMAIN p /\ a < b - 1 /\ q[b] = p[b - 1]
  BY <1>2
<1> HIDE DEF Tells, Value
<1>4. \A i : Brings(q, i) <=> Brings(p, i) \/ e = Posted(i)
  BY <1>2, <1>3 DEF Brings
<1>5. \A f : Silent(q, f) <=> Silent(p, f) /\ ~Tells(e, f)
  BY <1>2, <1>3 DEF Silent
<1>6. ASSUME NEW f, NEW v, LastSays(q, f, v) PROVE LastSays(p, f, v)
  <2> SUFFICES ASSUME NEW a \in DOMAIN p, Tells(p[a], f),
                      \A b \in DOMAIN p : a < b => ~Tells(p[b], f)
               PROVE  Value(p[a], f) = v
    BY DEF LastSays
  <2>1. \A b \in DOMAIN q : a + 1 < b => ~Tells(q[b], f)
    BY <1>3
  <2> QED
    BY <1>3, <1>6, <2>1 DEF LastSays
<1>7. ASSUME NEW f, NEW v, LastSays(q, f, v), Tells(e, f), Silent(p, f) PROVE Value(e, f) = v
  <2>1. \A b \in DOMAIN q : 1 < b => ~Tells(q[b], f)
    BY <1>3, <1>7 DEF Silent
  <2> QED
    BY <1>2, <1>3, <1>7, <2>1 DEF LastSays
<1>8. ASSUME NEW me \in BOOLEAN, KeepsLit(q, me) PROVE KeepsLit(p, me)
  <2> SUFFICES ASSUME NEW a \in DOMAIN p, p[a].kind = "reaction",
                      \A b \in DOMAIN p : a < b => ~Tells(p[b], "lit")
               PROVE  me => p[a].count > 0
    BY DEF KeepsLit
  <2>1. \A b \in DOMAIN q : a + 1 < b => ~Tells(q[b], "lit")
    BY <1>3
  <2> QED
    BY <1>3, <1>8, <2>1 DEF KeepsLit
<1>9. ASSUME NEW me \in BOOLEAN, KeepsLit(q, me), e.kind = "reaction", Silent(p, "lit")
      PROVE  me => e.count > 0
  <2>1. \A b \in DOMAIN q : 1 < b => ~Tells(q[b], "lit")
    BY <1>3, <1>9 DEF Silent
  <2> QED
    BY <1>2, <1>3, <1>9, <2>1 DEF KeepsLit
<1> QED
  BY <1>1, <1>2, <1>4, <1>5, <1>6, <1>7, <1>8, <1>9

-----------------------------------------------------------------------------
(* Broadcasts written into a cache. *)

LEMMA RowIs ==
  /\ \A i : Real(i).id = i /\ Pending(i).id = i /\ \A j : Real(i) # Pending(j)
  /\ \A i, j : (Real(i) = Real(j) => i = j) /\ (Pending(i) = Pending(j) => i = j)
  /\ \A i \in Ids : Real(i) \in RowRecords /\ Pending(i) \in RowRecords
  /\ \A i, j : Posted(i) = Posted(j) => i = j
  /\ \A i : Posted(i).kind = "message" /\ Posted(i).id = i
  /\ \A i : Home(i) \in Caches
  /\ \A i \in Ids : Posted(i) \in Broadcasts
BY DEF Real, Pending, RowRecords, Posted, Home, Caches, Broadcasts, Messages

(* A broadcast leaves a chip as it should be. *)
Lights(e, lit, me) ==
  /\ e.kind = "reaction" => (me => e.count > 0)
  /\ Tells(e, "lit") => e.reacted = me
  /\ ~Tells(e, "lit") => lit = me

LEMMA WrittenSays ==
  ASSUME NEW c \in Copies, NEW k \in Caches, NEW e \in Broadcasts
  PROVE  LET new == Written(c, k, e) IN
         /\ new \in Copies /\ new.loaded = c.loaded
         /\ ~c.loaded => new = c
         /\ e.kind # "message" => new.rows = c.rows
         /\ Single(c.rows) => Single(new.rows)
         /\ \A x : Holds(new.rows, x) <=>
              \/ Holds(c.rows, x)
              \/ c.loaded /\ \E i : e = Posted(i) /\ Home(i) = k /\ x = Real(i)
         /\ \A f \in {"replies", "count"} :
              /\ c.loaded /\ Tells(e, f) => new.root[f] = Value(e, f)
              /\ ~Tells(e, f) => new.root[f] = c.root[f]
         /\ \A me \in BOOLEAN : c.loaded /\ Lights(e, c.root.lit, me) => new.root.lit = me
<1>0. PICK w : w = Written(c, k, e)
  OBVIOUS
<1>1. /\ c.loaded \in BOOLEAN /\ c.rows \in Seq(RowRecords) /\ c.root \in Roots
      /\ c = [loaded |-> c.loaded, rows |-> c.rows, root |-> c.root]
  BY DEF Copies
<1>2. CASE ~c.loaded
  <2>1. w = c
    BY <1>0, <1>2 DEF Written
  <2>2. w.root = c.root /\ w.rows = c.rows /\ w.loaded = c.loaded /\ w \in Copies
    BY <2>1
  <2> QED
    BY <1>0, <1>2, <2>1, <2>2
<1>3. CASE c.loaded /\ e.kind = "message"
  <2>1. \A f : ~Tells(e, f)
    BY <1>3 DEF Tells
  <2>2. PICK i \in Ids : e = Posted(i)
    BY <1>3, BroadcastSays
  <2>3. CASE Home(i) = k
    <3>1. PICK rows : rows = Put(c.rows, Real(i))
      OBVIOUS
    <3>2. /\ rows \in Seq(RowRecords)
          /\ Single(c.rows) => Single(rows)
          /\ \A x : Holds(rows, x) <=> Holds(c.rows, x) \/ x = Real(i)
      BY <1>1, <3>1, PutSays, RowIs
    <3>3. w = [c EXCEPT !.rows = rows]
      <4>1. e.kind = "message" /\ e.id = i
        BY <2>2, RowIs
      <4>2. w = [c EXCEPT !.rows = Put(c.rows, Real(i))]
        BY <1>0, <1>1, <1>3, <2>3, <4>1 DEF Written, Copies
      <4> QED
        BY <3>1, <4>2
    <3>4. w \in Copies /\ w.loaded = c.loaded /\ w.rows = rows /\ w.root = c.root
      BY <1>1, <3>2, <3>3 DEF Copies
    <3>5. \A x : (\E j : e = Posted(j) /\ Home(j) = k /\ x = Real(j)) <=> x = Real(i)
      BY <2>2, <2>3, RowIs
    <3> QED
      BY <1>0, <1>3, <2>1, <3>2, <3>4, <3>5 DEF Lights
  <2>4. CASE Home(i) # k
    <3>1. w = c
      BY <1>0, <1>3, <2>2, <2>4, RowIs DEF Written
    <3>2. \A x : ~\E j : e = Posted(j) /\ Home(j) = k /\ x = Real(j)
      BY <2>2, <2>4, RowIs
    <3> QED
      BY <1>0, <1>3, <2>1, <3>1, <3>2 DEF Lights
  <2> QED
    BY <1>0, <2>3, <2>4
<1>4. ASSUME e.kind # "message" PROVE \A x : ~\E j : e = Posted(j) /\ Home(j) = k /\ x = Real(j)
  BY <1>4, RowIs
<1>5. CASE c.loaded /\ e.kind = "summary"
  <2>1. w = [c EXCEPT !.root = [c.root EXCEPT !.replies = e.replies]]
    BY <1>0, <1>5, <1>1 DEF Written, Copies
  <2>2. e.replies \in Nat
    BY <1>5, BroadcastSays
  <2>3. PICK root : root = [c.root EXCEPT !.replies = e.replies]
    OBVIOUS
  <2>4. root \in Roots /\ root.replies = e.replies /\ root.count = c.root.count /\ root.lit = c.root.lit
    BY <1>1, <2>2, <2>3 DEF Roots
  <2>5. w = [c EXCEPT !.root = root]
    BY <2>1, <2>3
  <2>6. w \in Copies /\ w.loaded = c.loaded /\ w.rows = c.rows /\ w.root = root
    BY <1>1, <2>4, <2>5 DEF Copies
  <2>7. \A f : Tells(e, f) <=> f = "replies"
    BY <1>5 DEF Tells
  <2>8. \A f \in {"replies", "count"} : /\ Tells(e, f) => root[f] = Value(e, f)
                                        /\ ~Tells(e, f) => root[f] = c.root[f]
    BY <2>4, <2>7 DEF Value
  <2> QED
    BY <1>0, <1>4, <1>5, <2>4, <2>6, <2>7, <2>8 DEF Lights
<1>6. CASE c.loaded /\ e.kind = "reaction"
  <2>1. PICK root : root = Merge(c.root, e)
    OBVIOUS
  <2>2. e.count \in Int /\ e.own \in BOOLEAN /\ e.reacted \in BOOLEAN
    BY <1>6, BroadcastSays
  <2>3. PICK b \in BOOLEAN : b = (e.count > 0 /\ (IF e.own THEN e.reacted ELSE c.root.lit))
    OBVIOUS
  <2>4. root = [c.root EXCEPT !.count = e.count, !.lit = b]
    BY <1>1, <2>1, <2>3, Zenon DEF Merge, Roots
  <2>5. root \in Roots /\ root.replies = c.root.replies /\ root.count = e.count /\ root.lit = b
    BY <1>1, <2>2, <2>4 DEF Roots
  <2>6. w = [c EXCEPT !.root = root]
    BY <1>0, <1>1, <1>6, <2>1 DEF Written, Copies
  <2>7. w \in Copies /\ w.loaded = c.loaded /\ w.rows = c.rows /\ w.root = root
    BY <1>1, <2>5, <2>6 DEF Copies
  <2>8. \A f : Tells(e, f) <=> f = "count" \/ (f = "lit" /\ e.own)
    BY <1>6 DEF Tells
  <2>9. \A f \in {"replies", "count"} : /\ Tells(e, f) => root[f] = Value(e, f)
                                        /\ ~Tells(e, f) => root[f] = c.root[f]
    BY <2>5, <2>8 DEF Value
  <2>10. ASSUME NEW me \in BOOLEAN, Lights(e, c.root.lit, me) PROVE b = me
    <3>1. Tells(e, "lit") <=> e.own
      BY <2>8
    <3>2. (IF e.own THEN e.reacted ELSE c.root.lit) = me
      BY <2>10, <3>1 DEF Lights
    <3> QED
      BY <1>6, <2>3, <2>10, <3>2 DEF Lights
  <2> QED
    BY <1>0, <1>4, <1>6, <2>5, <2>7, <2>9, <2>10
<1> QED
  BY <1>0, <1>1, <1>2, <1>3, <1>5, <1>6, BroadcastSays

(* Broadcasts are applied again one at a time. *)
LEMMA ReappliedStep ==
  ASSUME NEW caches \in [Caches -> Copies], NEW q \in Seq(Broadcasts)
  PROVE  \E g : /\ g \in [0 .. Len(q) -> [Caches -> Copies]]
                /\ g[0] = caches /\ Reapplied(caches, q) = g[Len(q)]
                /\ \A n \in 1 .. Len(q), k \in Caches : g[n][k] = Written(g[n - 1][k], k, q[n])
<1> DEFINE N == Len(q)
           S == [Caches -> Copies]
           Is(g) == g = [n \in 0 .. N |-> IF n = 0 THEN caches ELSE Apply(g[n - 1], q[n])]
<1>0. N \in Nat /\ \A n \in 1 .. N : q[n] \in Broadcasts
  OBVIOUS
<1>1. \A c \in S, e \in Broadcasts : Apply(c, e) \in S
  <2> SUFFICES ASSUME NEW c \in S, NEW e \in Broadcasts PROVE Apply(c, e) \in S
    OBVIOUS
  <2>1. \A k \in Caches : Written(c[k], k, e) \in Copies
    BY WrittenSays
  <2> QED
    BY <2>1 DEF Apply
<1>2. \E g : g \in [0 .. N -> S] /\ Is(g)
  <2>1. PICK next : next = [n \in 1 .. N |-> [c \in S |-> Apply(c, q[n])]]
    OBVIOUS
  <2> HIDE DEF N, S
  <2>2. next \in Steps(N, S)
    <3>1. \A n \in 1 .. N : [c \in S |-> Apply(c, q[n])] \in [S -> S]
      BY <1>0, <1>1
    <3> QED
      BY <2>1, <3>1 DEF Steps
  <2>3. PICK g : Follows(g, N, S, caches, next)
    <3>1. caches \in S
      BY DEF S
    <3> QED
      BY <1>0, <2>2, <3>1, Recursion
  <2>4. /\ g \in [0 .. N -> S]
        /\ g[0] = caches /\ \A n \in 1 .. N : g[n] = next[n][g[n - 1]]
    BY <2>3 DEF Follows
  <2>5. \A n \in 0 .. N : n # 0 => n \in 1 .. N /\ g[n - 1] \in S
    BY <1>0, <2>4
  <2>6. \A n \in 0 .. N : g[n] = IF n = 0 THEN caches ELSE Apply(g[n - 1], q[n])
    BY <2>1, <2>4, <2>5
  <2>7. g = [n \in 0 .. N |-> g[n]]
    BY <2>4
  <2>8. Is(g)
    BY <2>6, <2>7
  <2> HIDE DEF Is
  <2> QED
    BY <2>4, <2>8
<1> DEFINE after == CHOOSE g : Is(g)
<1>3. Is(after)
  <2> HIDE DEF Is
  <2> QED
    BY <1>2
<1>4. Reapplied(caches, q) = after[N]
  BY DEF Reapplied
<1> HIDE DEF after, N
<1>5. PICK g : g = after
  OBVIOUS
<1>6. \A n \in 0 .. N : g[n] = IF n = 0 THEN caches ELSE Apply(g[n - 1], q[n])
  <2>1. g = [n \in 0 .. N |-> IF n = 0 THEN caches ELSE Apply(g[n - 1], q[n])]
    BY <1>3, <1>5
  <2> QED
    BY <2>1
<1>7. g[0] = caches /\ \A n \in 1 .. N : g[n] = Apply(g[n - 1], q[n]) /\ n - 1 \in 0 .. N
  BY <1>0, <1>6
<1>8. \A n \in 0 .. N : g[n] \in S
  <2> SUFFICES ASSUME NEW m \in 0 .. N PROVE g[m] \in S
    OBVIOUS
  <2> DEFINE T == {n \in 0 .. N : g[n] \in S}
  <2>1. 0 \in T
    BY <1>0, <1>7
  <2>2. ASSUME NEW n \in 1 .. m, n - 1 \in T PROVE n \in T
    <3>1. n \in 1 .. N /\ n \in 0 .. N /\ g[n - 1] \in S
      BY <1>0, <2>2
    <3> HIDE DEF S
    <3>2. g[n] \in S
      BY <1>0, <1>1, <1>7, <3>1
    <3> QED
      BY <3>1, <3>2
  <2> HIDE DEF T
  <2>3. m \in T
    BY <1>0, <2>1, <2>2, CountUp
  <2> QED
    BY <2>3 DEF T
<1>9. g \in [0 .. N -> S]
  <2>1. g = [n \in 0 .. N |-> IF n = 0 THEN caches ELSE Apply(g[n - 1], q[n])]
    BY <1>3, <1>5
  <2> HIDE DEF S
  <2>2. g = [n \in 0 .. N |-> g[n]]
    BY <1>6, <2>1
  <2> QED
    BY <1>8, <2>2
<1>10. ASSUME NEW n \in 1 .. N, NEW k \in Caches PROVE g[n][k] = Written(g[n - 1][k], k, q[n])
  BY <1>7 DEF Apply
<1> QED
  BY <1>4, <1>5, <1>7, <1>9, <1>10 DEF N

(* What was applied again is in the rows, and nothing else is new. *)
Reapplies(old, q, k, new) ==
  /\ new.loaded = old.loaded
  /\ ~old.loaded => new = old
  /\ Single(old.rows) => Single(new.rows)
  /\ \A x : Holds(new.rows, x) <=>
       \/ Holds(old.rows, x)
       \/ old.loaded /\ \E i : Brings(q, i) /\ Home(i) = k /\ x = Real(i)

LEMMA ReappliedRows ==
  ASSUME NEW caches \in [Caches -> Copies], NEW q \in Seq(Broadcasts), NEW k \in Caches
  PROVE  /\ Reapplied(caches, q) \in [Caches -> Copies]
         /\ Reapplies(caches[k], q, k, Reapplied(caches, q)[k])
<1>1. PICK g : /\ g \in [0 .. Len(q) -> [Caches -> Copies]]
               /\ g[0] = caches /\ Reapplied(caches, q) = g[Len(q)]
               /\ \A n \in 1 .. Len(q), l \in Caches : g[n][l] = Written(g[n - 1][l], l, q[n])
  BY ReappliedStep
<1>2. PICK N \in Nat : N = Len(q) /\ DOMAIN q = 1 .. N
  OBVIOUS
<1> DEFINE Came(n, x) == \E a \in 1 .. n : \E i : q[a] = Posted(i) /\ Home(i) = k /\ x = Real(i)
           Fine(n) == /\ g[n][k].loaded = caches[k].loaded
                      /\ ~caches[k].loaded => g[n][k] = caches[k]
                      /\ Single(caches[k].rows) => Single(g[n][k].rows)
                      /\ \A x : Holds(g[n][k].rows, x) <=>
                           Holds(caches[k].rows, x) \/ (caches[k].loaded /\ Came(n, x))
           T == {n \in 0 .. N : Fine(n)}
<1>3. 0 \in T
  <2>1. 1 .. 0 = {}
    OBVIOUS
  <2> QED
    BY <1>1, <1>2, <2>1
<1>4. ASSUME NEW n \in 1 .. N, n - 1 \in T PROVE n \in T
  <2>1. Fine(n - 1) /\ n - 1 \in 0 .. N /\ q[n] \in Broadcasts
    BY <1>2, <1>4
  <2>2. PICK c \in Copies : c = g[n - 1][k]
    BY <1>1, <1>2, <2>1
  <2>3. PICK w, e : w = g[n][k] /\ e = q[n] /\ w = Written(c, k, e) /\ e \in Broadcasts
    BY <1>1, <1>2, <2>1, <2>2
  <2>4. /\ w.loaded = c.loaded
        /\ ~c.loaded => w = c
        /\ Single(c.rows) => Single(w.rows)
        /\ \A x : Holds(w.rows, x) <=>
             \/ Holds(c.rows, x)
             \/ c.loaded /\ \E i : e = Posted(i) /\ Home(i) = k /\ x = Real(i)
    <3>1. LET z == Written(c, k, e) IN
          /\ z \in Copies /\ z.loaded = c.loaded
          /\ ~c.loaded => z = c
          /\ e.kind # "message" => z.rows = c.rows
          /\ Single(c.rows) => Single(z.rows)
          /\ \A x : Holds(z.rows, x) <=>
               \/ Holds(c.rows, x)
               \/ c.loaded /\ \E i : e = Posted(i) /\ Home(i) = k /\ x = Real(i)
          /\ \A f \in {"replies", "count"} :
               /\ c.loaded /\ Tells(e, f) => z.root[f] = Value(e, f)
               /\ ~Tells(e, f) => z.root[f] = c.root[f]
          /\ \A me \in BOOLEAN : c.loaded /\ Lights(e, c.root.lit, me) => z.root.lit = me
      BY <2>3, WrittenSays, Zenon
    <3> QED
      BY <2>3, <3>1, Zenon
  <2>5. \A a : a \in 1 .. n <=> a \in 1 .. n - 1 \/ a = n
    BY <1>2
  <2>6. \A x : Came(n, x) <=> Came(n - 1, x) \/ \E i : e = Posted(i) /\ Home(i) = k /\ x = Real(i)
    BY <2>3, <2>5
  <2> HIDE DEF Came
  <2>7. Fine(n)
    BY <2>1, <2>2, <2>3, <2>4, <2>6
  <2> QED
    BY <1>2, <2>7
<1>5. N \in T
  <2> HIDE DEF T
  <2> QED
    BY <1>3, <1>4, CountUp
<1>6. Fine(N)
  BY <1>5
<1>7. \A x : Came(N, x) <=> \E i : Brings(q, i) /\ Home(i) = k /\ x = Real(i)
  BY <1>2 DEF Brings
<1>8. Reapplied(caches, q) \in [Caches -> Copies] /\ Reapplied(caches, q) = g[N]
  BY <1>1, <1>2
<1> HIDE DEF Came
<1>9. Reapplies(caches[k], q, k, g[N][k])
  BY <1>6, <1>7 DEF Reapplies
<1> HIDE DEF Fine
<1> QED
  BY <1>8, <1>9

(* What was applied again last is what the root says. *)
LEMMA ReappliedRoot ==
  ASSUME NEW caches \in [Caches -> Copies], NEW q \in Seq(Broadcasts), NEW k \in Caches,
         caches[k].loaded, NEW f \in {"replies", "count"}, NEW v, LastSays(q, f, v),
         Silent(q, f) => caches[k].root[f] = v
  PROVE  Reapplied(caches, q)[k].root[f] = v
<1>1. PICK g : /\ g \in [0 .. Len(q) -> [Caches -> Copies]]
               /\ g[0] = caches /\ Reapplied(caches, q) = g[Len(q)]
               /\ \A n \in 1 .. Len(q), l \in Caches : g[n][l] = Written(g[n - 1][l], l, q[n])
  BY ReappliedStep
<1>2. PICK N \in Nat : N = Len(q) /\ DOMAIN q = 1 .. N
  OBVIOUS
<1> HIDE DEF Tells, Value
<1> DEFINE Before(n) == \E a \in 1 .. n : Tells(q[a], f)
           After(n) == \E a \in n + 1 .. N : Tells(q[a], f)
           Fine(n) == /\ g[n][k].loaded
                      /\ ~After(n) /\ Before(n) => g[n][k].root[f] = v
                      /\ ~After(n) /\ ~Before(n) => g[n][k].root[f] = caches[k].root[f]
           T == {n \in 0 .. N : Fine(n)}
<1>3. 0 \in T
  <2>1. 1 .. 0 = {}
    OBVIOUS
  <2> QED
    BY <1>1, <1>2, <2>1
<1>4. ASSUME NEW n \in 1 .. N, n - 1 \in T PROVE n \in T
  <2>1. Fine(n - 1) /\ n - 1 \in 0 .. N /\ q[n] \in Broadcasts
    BY <1>2, <1>4
  <2>2. PICK c \in Copies : c = g[n - 1][k]
    BY <1>1, <1>2, <2>1
  <2>3. PICK w, e : w = g[n][k] /\ e = q[n] /\ w = Written(c, k, e) /\ e \in Broadcasts
    BY <1>1, <1>2, <2>1, <2>2
  <2>4. /\ w.loaded = c.loaded
        /\ c.loaded /\ Tells(e, f) => w.root[f] = Value(e, f)
        /\ ~Tells(e, f) => w.root[f] = c.root[f]
    BY <2>3, WrittenSays
  <2>5. /\ \A a : a \in 1 .. n <=> a \in 1 .. n - 1 \/ a = n
        /\ \A a : a \in (n - 1) + 1 .. N <=> a \in n + 1 .. N \/ a = n
        /\ \A a \in 1 .. N : n < a => a \in n + 1 .. N
    BY <1>2
  <2>6. /\ Before(n) <=> Before(n - 1) \/ Tells(e, f)
        /\ After(n - 1) <=> After(n) \/ Tells(e, f)
    BY <2>3, <2>5
  <2>7. ~After(n) /\ Tells(e, f) => Value(e, f) = v
    BY <1>2, <2>3, <2>5 DEF LastSays
  <2> HIDE DEF Before, After
  <2>8. Fine(n)
    BY <2>1, <2>2, <2>3, <2>4, <2>6, <2>7
  <2> QED
    BY <1>2, <2>8
<1>5. N \in T
  <2> HIDE DEF T
  <2> QED
    BY <1>3, <1>4, CountUp
<1>6. Fine(N) /\ ~After(N)
  BY <1>2, <1>5
<1>7. ~Before(N) => Silent(q, f)
  BY <1>2 DEF Silent
<1> HIDE DEF Before, After
<1>8. g[N][k].root[f] = v
  BY <1>6, <1>7
<1> QED
  BY <1>1, <1>2, <1>8

(* The chip is lit by one's own last change, or stays as it was. *)
LEMMA ReappliedLit ==
  ASSUME NEW caches \in [Caches -> Copies], NEW q \in Seq(Broadcasts), NEW k \in Caches,
         caches[k].loaded, NEW me \in BOOLEAN, LastSays(q, "lit", me), KeepsLit(q, me),
         Silent(q, "lit") => caches[k].root.lit = me
  PROVE  Reapplied(caches, q)[k].root.lit = me
<1>1. PICK g : /\ g \in [0 .. Len(q) -> [Caches -> Copies]]
               /\ g[0] = caches /\ Reapplied(caches, q) = g[Len(q)]
               /\ \A n \in 1 .. Len(q), l \in Caches : g[n][l] = Written(g[n - 1][l], l, q[n])
  BY ReappliedStep
<1>2. PICK N \in Nat : N = Len(q) /\ DOMAIN q = 1 .. N
  OBVIOUS
<1>0. \A e : Value(e, "lit") = e.reacted
  BY DEF Value
<1> HIDE DEF Tells, Value
<1> DEFINE Before(n) == \E a \in 1 .. n : Tells(q[a], "lit")
           After(n) == \E a \in n + 1 .. N : Tells(q[a], "lit")
           Fine(n) == /\ g[n][k].loaded
                      /\ ~After(n) /\ (Before(n) \/ caches[k].root.lit = me) => g[n][k].root.lit = me
           T == {n \in 0 .. N : Fine(n)}
<1>3. 0 \in T
  <2>1. 1 .. 0 = {}
    OBVIOUS
  <2> QED
    BY <1>1, <1>2, <2>1
<1>4. ASSUME NEW n \in 1 .. N, n - 1 \in T PROVE n \in T
  <2>1. Fine(n - 1) /\ n - 1 \in 0 .. N /\ q[n] \in Broadcasts
    BY <1>2, <1>4
  <2>2. PICK c \in Copies : c = g[n - 1][k]
    BY <1>1, <1>2, <2>1
  <2>3. PICK w, e : w = g[n][k] /\ e = q[n] /\ w = Written(c, k, e) /\ e \in Broadcasts
    BY <1>1, <1>2, <2>1, <2>2
  <2>4. /\ w.loaded = c.loaded
        /\ c.loaded /\ Lights(e, c.root.lit, me) => w.root.lit = me
    BY <2>3, WrittenSays
  <2>5. /\ \A a : a \in 1 .. n <=> a \in 1 .. n - 1 \/ a = n
        /\ \A a : a \in (n - 1) + 1 .. N <=> a \in n + 1 .. N \/ a = n
        /\ \A a \in 1 .. N : n < a => a \in n + 1 .. N
    BY <1>2
  <2>6. /\ Before(n) <=> Before(n - 1) \/ Tells(e, "lit")
        /\ After(n - 1) <=> After(n) \/ Tells(e, "lit")
    BY <2>3, <2>5
  <2>7. ~After(n) /\ Tells(e, "lit") => e.reacted = me
    BY <1>0, <1>2, <2>3, <2>5 DEF LastSays
  <2>8. ~After(n) /\ e.kind = "reaction" => (me => e.count > 0)
    BY <1>2, <2>3, <2>5 DEF KeepsLit
  <2> HIDE DEF Before, After
  <2>9. ASSUME ~After(n), Before(n) \/ caches[k].root.lit = me PROVE w.root.lit = me
    <3>1. ~Tells(e, "lit") => c.root.lit = me
      BY <2>1, <2>2, <2>6, <2>9
    <3>2. Lights(e, c.root.lit, me)
      BY <2>7, <2>8, <2>9, <3>1 DEF Lights
    <3> QED
      BY <2>1, <2>2, <2>4, <3>2
  <2>10. Fine(n)
    BY <2>1, <2>2, <2>3, <2>4, <2>9
  <2> QED
    BY <1>2, <2>10
<1>5. N \in T
  <2> HIDE DEF T
  <2> QED
    BY <1>3, <1>4, CountUp
<1>6. Fine(N) /\ ~After(N)
  BY <1>2, <1>5
<1>7. ~Before(N) => Silent(q, "lit")
  BY <1>2 DEF Silent
<1> HIDE DEF Before, After
<1>8. g[N][k].root.lit = me
  BY <1>6, <1>7
<1> QED
  BY <1>1, <1>2, <1>8

-----------------------------------------------------------------------------
(* The server. *)

LEMMA TruthSays ==
  ASSUME NEW ids \in SUBSET Ids, NEW me \in BOOLEAN, NEW them \in BOOLEAN
  PROVE  /\ Root(ids, me, them) \in Roots
         /\ Root(ids, me, them)["replies"] = Cardinality(ids \cap Replies)
         /\ Root(ids, me, them)["count"] = ReactionCount(me, them)
         /\ Root(ids, me, them)["lit"] = me /\ Root(ids, me, them).lit = me
         /\ ReactionCount(me, them) \in Nat
         /\ me => ReactionCount(me, them) > 0
         /\ Cardinality(ids \cap Replies) \in Nat
<1>1. Cardinality(ids \cap Replies) \in Nat
  <2>1. IsFiniteSet(Ids) /\ ids \cap Replies \in SUBSET Ids
    BY PanelAssumption
  <2>2. IsFiniteSet(ids \cap Replies)
    BY <2>1, FS_Subset
  <2> QED
    BY <2>2, FS_CardinalityType
<1>2. ReactionCount(me, them) \in Nat /\ (me => ReactionCount(me, them) > 0)
  BY DEF ReactionCount
<1> QED
  BY <1>1, <1>2 DEF Root, Roots

(* What one more broadcast about the root does to what is on its way. *)
LEMMA AnnouncedSays ==
  ASSUME NEW q \in Seq(Broadcasts), NEW e \in Broadcasts, e.kind # "message",
         NEW low \in Nat, NEW high \in Nat, low <= high, e.n = high + 1, Numbered(q, low, high)
  PROVE  /\ Numbered(Append(q, e), low, high + 1)
         /\ \A f, m : m \in Nat /\ m <= high /\ Since(Append(q, e), f, m) =>
                        Since(q, f, m) /\ ~Tells(e, f)
<1>1. PICK p : p = Append(q, e)
  OBVIOUS
<1>2. PICK z : z = Len(q) + 1
  OBVIOUS
<1>3. /\ p[z] = e /\ z \in DOMAIN p /\ z \notin DOMAIN q
      /\ \A a : a \in DOMAIN p <=> a \in DOMAIN q \/ a = z
      /\ \A a \in DOMAIN q : p[a] = q[a] /\ a < z /\ ~(z < a)
      /\ ~(z < z)
  BY <1>1, <1>2
<1>4. \A a \in DOMAIN q : q[a].kind # "message" =>
        q[a].n \in low + 1 .. high + 1 /\ q[a].n < e.n
  BY DEF Numbered
<1>5. e.n \in low + 1 .. high + 1
  OBVIOUS
<1>6. Numbered(p, low, high + 1)
  BY <1>3, <1>4, <1>5 DEF Numbered
<1>7. ASSUME NEW f, NEW m \in Nat, m <= high, Since(p, f, m) PROVE Since(q, f, m) /\ ~Tells(e, f)
  BY <1>3, <1>7 DEF Since
<1> QED
  BY <1>1, <1>6, <1>7

(* A broadcast of a message says nothing of the root. *)
LEMMA PostedSays ==
  ASSUME NEW q \in Seq(Broadcasts), NEW e \in Broadcasts, e.kind = "message",
         NEW low \in Nat, NEW high \in Nat, Numbered(q, low, high)
  PROVE  /\ Numbered(Append(q, e), low, high)
         /\ \A f, m : Since(Append(q, e), f, m) <=> Since(q, f, m)
<1>1. PICK p : p = Append(q, e)
  OBVIOUS
<1>2. PICK z : z = Len(q) + 1
  OBVIOUS
<1>3. /\ p[z] = e /\ z \in DOMAIN p /\ z \notin DOMAIN q
      /\ \A a : a \in DOMAIN p <=> a \in DOMAIN q \/ a = z
      /\ \A a \in DOMAIN q : p[a] = q[a] /\ a < z /\ ~(z < a)
      /\ ~(z < z)
  BY <1>1, <1>2
<1>4. Numbered(p, low, high)
  BY <1>3 DEF Numbered
<1>5. \A f : ~Tells(e, f)
  BY DEF Tells
<1>6. \A f, m : Since(p, f, m) <=> Since(q, f, m)
  BY <1>3, <1>5 DEF Since
<1> QED
  BY <1>1, <1>4, <1>6

(* The first of what is on its way is received. *)
LEMMA NextSays ==
  ASSUME NEW q \in Seq(Broadcasts), q # <<>>, NEW low \in Nat, NEW high \in Nat,
         Numbered(q, low, high)
  PROVE  LET e == Head(q) IN
         /\ e.kind = "message" => Numbered(Tail(q), low, high)
         /\ e.kind # "message" => e.n \in low + 1 .. high /\ Numbered(Tail(q), e.n, high)
         /\ \A f, m : Since(q, f, m) <=> Since(Tail(q), f, m) /\ (Tells(e, f) => e.n <= m)
<1>1. PICK p, e : p = Tail(q) /\ e = Head(q)
  OBVIOUS
<1>2. /\ p \in Seq(Broadcasts) /\ e \in Broadcasts /\ Len(q) \in Nat /\ Len(q) > 0
      /\ DOMAIN q = 1 .. Len(q) /\ DOMAIN p = 1 .. Len(q) - 1
      /\ q[1] = e /\ \A a \in 1 .. Len(q) - 1 : p[a] = q[a + 1]
  BY <1>1
<1>3. /\ 1 \in DOMAIN q /\ \A b \in DOMAIN q : b = 1 \/ (1 < b /\ b - 1 \in DOMAIN p /\ q[b] = p[b - 1])
      /\ \A a \in DOMAIN p : a + 1 \in DOMAIN q /\ q[a + 1] = p[a] /\ 1 < a + 1
      /\ \A a, b \in DOMAIN p : a < b => a + 1 < b + 1
  BY <1>2
<1>4. Numbered(p, low, high)
  BY <1>3 DEF Numbered
<1>5. ASSUME e.kind # "message" PROVE e.n \in low + 1 .. high /\ Numbered(p, e.n, high)
  <2>1. e.n \in low + 1 .. high
    BY <1>2, <1>3, <1>5 DEF Numbered
  <2>2. \A a \in DOMAIN p : p[a].kind # "message" => e.n < p[a].n
    BY <1>2, <1>3, <1>5 DEF Numbered
  <2>3. \A a \in DOMAIN p : p[a].kind # "message" => p[a].n \in e.n + 1 .. high
    BY <1>4, <2>1, <2>2 DEF Numbered
  <2> QED
    BY <1>4, <2>1, <2>3 DEF Numbered
<1> HIDE DEF Tells
<1>6. \A f, m : Since(q, f, m) <=> Since(p, f, m) /\ (Tells(e, f) => e.n <= m)
  BY <1>2, <1>3 DEF Since
<1> QED
  BY <1>1, <1>4, <1>5, <1>6

-----------------------------------------------------------------------------
(* What a step that changes the root leaves true of the broadcasts. *)

Announced ==
  /\ stored' \subseteq Ids /\ mine' \in BOOLEAN /\ theirs' \in BOOLEAN
  /\ made' \in Nat /\ made <= made'
  /\ inbox' \in Seq(Broadcasts) /\ Numbered(inbox', received, made')
  /\ \A f \in Fields : LastSays(inbox', f, Truth'[f])
  /\ KeepsLit(inbox', mine')
  /\ \A f \in Fields : Silent(inbox', f) => Silent(inbox, f) /\ Truth'[f] = Truth[f]
  /\ \A f \in Fields, m \in Nat :
       m <= made /\ Since(inbox', f, m) => Since(inbox, f, m) /\ Truth'[f] = Truth[f]

(* A message that is committed. *)
LEMMA CommitAnnounces ==
  ASSUME PanelTypes, NumberInv, NewsInv, NEW i \in Ids, Commit(i)
  PROVE  Announced /\ \A j : Brings(inbox', j) <=> Brings(inbox, j) \/ j = i
<1>0. /\ stored \in SUBSET Ids /\ stored' \in SUBSET Ids /\ mine \in BOOLEAN /\ theirs \in BOOLEAN
      /\ mine' = mine /\ theirs' = theirs /\ stored' = stored \cup {i}
      /\ made \in Nat /\ received \in Nat /\ received <= made /\ inbox \in Seq(Broadcasts)
  BY DEF PanelTypes, Commit
<1>1. /\ Truth["replies"] = Cardinality(stored \cap Replies)
      /\ Truth["count"] = ReactionCount(mine, theirs) /\ Truth["lit"] = mine
      /\ Truth'["replies"] = Cardinality(stored' \cap Replies)
      /\ Truth'["count"] = ReactionCount(mine, theirs) /\ Truth'["lit"] = mine
      /\ Cardinality(stored' \cap Replies) \in Nat
  BY <1>0, TruthSays DEF Truth
<1>2. PICK e : e = Posted(i)
  OBVIOUS
<1>3. PICK q : q = Append(inbox, e)
  OBVIOUS
<1>4. e \in Broadcasts /\ e.kind = "message" /\ (\A f : ~Tells(e, f)) /\ e.kind # "reaction"
  BY <1>2, RowIs DEF Tells
<1>5. /\ q \in Seq(Broadcasts) /\ Numbered(q, received, made)
      /\ \A f, m : Since(q, f, m) <=> Since(inbox, f, m)
      /\ \A j : Brings(q, j) <=> Brings(inbox, j) \/ e = Posted(j)
      /\ \A f : Silent(q, f) <=> Silent(inbox, f)
      /\ \A f, v : LastSays(q, f, v) <=> LastSays(inbox, f, v)
      /\ KeepsLit(q, mine) <=> KeepsLit(inbox, mine)
  BY <1>0, <1>3, <1>4, AppendSays, PostedSays DEF NumberInv
<1>6. \A j : e = Posted(j) <=> j = i
  BY <1>2, RowIs
<1>7. (\A f \in Fields : LastSays(inbox, f, Truth[f])) /\ KeepsLit(inbox, mine)
  BY DEF NewsInv
<1>8. CASE i \notin Replies
  <2>1. inbox' = q /\ made' = made
    BY <1>2, <1>3, <1>8 DEF Commit
  <2>2. stored' \cap Replies = stored \cap Replies
    BY <1>0, <1>8
  <2>3. \A f \in Fields : Truth'[f] = Truth[f]
    BY <1>1, <2>2 DEF Fields
  <2> HIDE DEF Truth
  <2> QED
    BY <1>0, <1>5, <1>6, <1>7, <2>1, <2>3 DEF Announced
<1>9. CASE i \in Replies
  <2>1. PICK total \in Nat : total = Cardinality(stored' \cap Replies)
    BY <1>1
  <2>2. PICK s : s = Summary(made + 1, total)
    OBVIOUS
  <2>3. made' = made + 1 /\ inbox' = inbox \o <<e, s>>
    BY <1>2, <1>9, <2>1, <2>2 DEF Commit
  <2>4. inbox' = Append(q, s)
    BY <1>0, <1>3, <2>3
  <2>5. /\ s \in Broadcasts /\ s.kind = "summary" /\ s.n = made + 1 /\ s.replies = total
        /\ \A f \in Fields : Tells(s, f) <=> f = "replies"
        /\ Value(s, "replies") = total /\ \A j : s # Posted(j)
    BY <1>0, <2>2 DEF Summary, Broadcasts, Summaries, Tells, Value, Posted
  <2>6. /\ inbox' \in Seq(Broadcasts)
        /\ \A j : Brings(inbox', j) <=> Brings(q, j)
        /\ \A f : Silent(inbox', f) <=> Silent(q, f) /\ ~Tells(s, f)
        /\ \A f, v : Tells(s, f) => (LastSays(inbox', f, v) <=> Value(s, f) = v)
        /\ \A f, v : ~Tells(s, f) => (LastSays(inbox', f, v) <=> LastSays(q, f, v))
        /\ KeepsLit(inbox', mine) <=> Tells(s, "lit") \/ KeepsLit(q, mine)
    BY <1>0, <1>5, <2>4, <2>5, AppendSays
  <2>7. /\ Numbered(inbox', received, made + 1)
        /\ \A f, m : m \in Nat /\ m <= made /\ Since(inbox', f, m) => Since(q, f, m) /\ ~Tells(s, f)
    BY <1>0, <1>5, <2>4, <2>5, AnnouncedSays
  <2>8. \A f \in Fields : f # "replies" => Truth'[f] = Truth[f]
    BY <1>1 DEF Fields
  <2>9. Truth'["replies"] = total /\ "replies" \in Fields
    BY <1>1, <2>1 DEF Fields
  <2> HIDE DEF Truth, Tells, Value
  <2>10. \A f \in Fields : LastSays(inbox', f, Truth'[f])
    BY <1>5, <1>7, <2>5, <2>6, <2>8, <2>9
  <2>11. KeepsLit(inbox', mine')
    BY <1>0, <1>5, <1>7, <2>6
  <2>12. \A f \in Fields : Silent(inbox', f) => Silent(inbox, f) /\ Truth'[f] = Truth[f]
    BY <1>5, <2>5, <2>6, <2>8
  <2>13. \A f \in Fields, m \in Nat :
           m <= made /\ Since(inbox', f, m) => Since(inbox, f, m) /\ Truth'[f] = Truth[f]
    BY <1>5, <2>5, <2>7, <2>8
  <2>14. \A j : Brings(inbox', j) <=> Brings(inbox, j) \/ j = i
    BY <1>5, <1>6, <2>6
  <2>15. made' = made + 1
    BY <2>3
  <2>16. made' \in Nat /\ made <= made' /\ Numbered(inbox', received, made')
    BY <1>0, <2>7, <2>15
  <2>17. stored' \subseteq Ids /\ mine' \in BOOLEAN /\ theirs' \in BOOLEAN
    BY <1>0
  <2>18. inbox' \in Seq(Broadcasts)
    BY <2>6
  <2> QED
    BY <2>10, <2>11, <2>12, <2>13, <2>14, <2>16, <2>17, <2>18 DEF Announced
<1> QED
  BY <1>8, <1>9

(* A reaction that is committed. *)
LEMMA ReactionAnnounces ==
  ASSUME PanelTypes, NumberInv, NewsInv, NEW own \in BOOLEAN, NEW on \in BOOLEAN,
         stored' = stored, mine' \in BOOLEAN, theirs' \in BOOLEAN, made' = made + 1,
         inbox' = Append(inbox, Reaction(made', ReactionCount(mine', theirs'), own, on)),
         own => on = mine', ~own => mine' = mine
  PROVE  Announced /\ \A j : Brings(inbox', j) <=> Brings(inbox, j)
<1>0. /\ stored \in SUBSET Ids /\ stored' \in SUBSET Ids /\ mine \in BOOLEAN /\ theirs \in BOOLEAN
      /\ made \in Nat /\ received \in Nat /\ received <= made /\ inbox \in Seq(Broadcasts)
  BY DEF PanelTypes
<1>1. /\ Truth["replies"] = Cardinality(stored \cap Replies)
      /\ Truth["lit"] = mine
      /\ Truth'["replies"] = Cardinality(stored \cap Replies)
      /\ Truth'["count"] = ReactionCount(mine', theirs') /\ Truth'["lit"] = mine'
      /\ ReactionCount(mine', theirs') \in Nat /\ (mine' => ReactionCount(mine', theirs') > 0)
  BY <1>0, TruthSays DEF Truth
<1>2. PICK total \in Nat : total = ReactionCount(mine', theirs')
  BY <1>1
<1>3. PICK e : e = Reaction(made + 1, total, own, on)
  OBVIOUS
<1>4. inbox' = Append(inbox, e)
  BY <1>2, <1>3
<1>5. /\ e \in Broadcasts /\ e.kind = "reaction" /\ e.n = made + 1 /\ e.count = total
      /\ \A f \in Fields : Tells(e, f) <=> f = "count" \/ (f = "lit" /\ own)
      /\ Value(e, "count") = total /\ Value(e, "lit") = on /\ \A j : e # Posted(j)
  BY <1>0, <1>2, <1>3 DEF Reaction, Broadcasts, Reactions, Tells, Value, Posted
<1>6. /\ inbox' \in Seq(Broadcasts)
      /\ \A j : Brings(inbox', j) <=> Brings(inbox, j)
      /\ \A f : Silent(inbox', f) <=> Silent(inbox, f) /\ ~Tells(e, f)
      /\ \A f, v : Tells(e, f) => (LastSays(inbox', f, v) <=> Value(e, f) = v)
      /\ \A f, v : ~Tells(e, f) => (LastSays(inbox', f, v) <=> LastSays(inbox, f, v))
      /\ \A me \in BOOLEAN : KeepsLit(inbox', me) <=>
           (me => e.count > 0) /\ (Tells(e, "lit") \/ KeepsLit(inbox, me))
  BY <1>0, <1>4, <1>5, AppendSays
<1>7. /\ Numbered(inbox', received, made + 1)
      /\ \A f, m : m \in Nat /\ m <= made /\ Since(inbox', f, m) => Since(inbox, f, m) /\ ~Tells(e, f)
  BY <1>0, <1>4, <1>5, AnnouncedSays DEF NumberInv
<1>8. (\A f \in Fields : LastSays(inbox, f, Truth[f])) /\ KeepsLit(inbox, mine)
  BY DEF NewsInv
<1>9. /\ \A f \in Fields : ~Tells(e, f) => Truth'[f] = Truth[f]
      /\ \A f \in Fields : Tells(e, f) => Value(e, f) = Truth'[f]
  BY <1>1, <1>2, <1>5 DEF Fields
<1> HIDE DEF Truth, Tells, Value
<1>10. \A f \in Fields : LastSays(inbox', f, Truth'[f])
  BY <1>6, <1>8, <1>9
<1>11. KeepsLit(inbox', mine')
  <2>1. mine' => e.count > 0
    BY <1>1, <1>2, <1>5
  <2>2. "lit" \in Fields /\ (Tells(e, "lit") \/ (mine' = mine))
    BY <1>5 DEF Fields
  <2> QED
    BY <1>6, <1>8, <2>1, <2>2
<1>12. made' \in Nat /\ made <= made'
  BY <1>0
<1> QED
  BY <1>0, <1>6, <1>7, <1>9, <1>10, <1>11, <1>12 DEF Announced

-----------------------------------------------------------------------------
(* What a step need not touch. *)

(* Every row stays; what is new is on its way. *)
LEMMA RowsGrow ==
  ASSUME PostInv, RowsInv, ArrivalInv, again' = again, fetch' = fetch, stored \subseteq stored',
         \A i : Brings(inbox, i) => Brings(inbox', i),
         \A i : Brings(inbox', i) => i \in stored',
         \A i \in stored' : i \in stored \/ Brings(inbox', i),
         \A k \in Caches : cache'[k].rows = cache[k].rows /\ cache'[k].loaded = cache[k].loaded,
         \A s \in Sends : send'[s].server = "saved" => s \in stored',
         \A s \in Sends : send[s].at = "waiting" => send'[s].at = "waiting"
  PROVE  PostInv' /\ RowsInv' /\ ArrivalInv'
<1> HIDE DEF Brings, Holds, Home, Real, Pending, Single, Belongs, Caches, Fetching
<1>1. \A k : Fetching(k)' <=> Fetching(k)
  BY DEF Fetching
<1>2. PostInv'
  BY <1>1 DEF PostInv
<1>3. \A k \in Caches : Belongs(k) \subseteq Belongs(k)'
  BY DEF Belongs
<1>4. ASSUME NEW k \in Caches
      PROVE  /\ Single(cache'[k].rows)
             /\ cache'[k].loaded \/ cache'[k].rows = <<>>
             /\ \A r : Holds(cache'[k].rows, r) =>
                  /\ r.id \in Ids /\ Home(r.id) = k
                  /\ \/ r = Real(r.id) /\ r.id \in stored'
                     \/ r = Pending(r.id) /\ r.id \in Sends /\ send'[r.id].at = "waiting"
             /\ fetch'[k].at = "read" => fetch'[k].rows \subseteq Belongs(k)'
  <2>1. fetch[k].at = "read" => fetch[k].rows \subseteq Belongs(k)
    BY DEF RowsInv
  <2>2. fetch'[k].at = "read" => fetch'[k].rows \subseteq Belongs(k)'
    BY <1>3, <2>1
  <2>3. Single(cache'[k].rows) /\ (cache'[k].loaded \/ cache'[k].rows = <<>>)
    BY DEF RowsInv
  <2>4. ASSUME NEW r, Holds(cache'[k].rows, r)
        PROVE  /\ r.id \in Ids /\ Home(r.id) = k
               /\ \/ r = Real(r.id) /\ r.id \in stored'
                  \/ r = Pending(r.id) /\ r.id \in Sends /\ send'[r.id].at = "waiting"
    BY <2>4 DEF RowsInv
  <2> QED
    BY <2>2, <2>3, <2>4
<1>5. RowsInv'
  BY <1>4 DEF RowsInv
<1>6. ArrivalInv'
  <2> SUFFICES ASSUME NEW k \in Caches, NEW i \in stored', Home(i) = k
               PROVE  /\ cache'[k].loaded => Holds(cache'[k].rows, Real(i)) \/ Brings(inbox', i)
                      /\ fetch'[k].at = "read" => \/ Real(i) \in fetch'[k].rows
                                                  \/ Brings(inbox', i) \/ Brings(again'[k], i)
    BY DEF ArrivalInv
  <2>1. CASE i \in stored
    BY <2>1 DEF ArrivalInv
  <2>2. CASE i \notin stored
    BY <2>2
  <2> QED
    BY <2>1, <2>2
<1> QED
  BY <1>2, <1>5, <1>6

(* Every row stays, and what is to come of messages. *)
LEMMA RowsStay ==
  ASSUME PostInv, RowsInv, ArrivalInv, stored' = stored, again' = again, fetch' = fetch,
         \A i : Brings(inbox', i) <=> Brings(inbox, i),
         \A k \in Caches : cache'[k].rows = cache[k].rows /\ cache'[k].loaded = cache[k].loaded,
         \A s \in Sends : send'[s].server = "saved" => send[s].server = "saved",
         \A s \in Sends : send[s].at = "waiting" => send'[s].at = "waiting"
  PROVE  PostInv' /\ RowsInv' /\ ArrivalInv'
<1>1. /\ \A i : Brings(inbox', i) => i \in stored'
      /\ \A s \in Sends : send'[s].server = "saved" => s \in stored'
  BY DEF PostInv
<1> HIDE DEF Brings
<1> QED
  BY <1>1, RowsGrow

(* The rows of one cache are written by one send. *)
LEMMA RowsWritten ==
  ASSUME PanelTypes, PostInv, RowsInv, ArrivalInv, NEW s \in Sends, NEW rows \in Seq(RowRecords),
         UNCHANGED <<stored, inbox, again, fetch>>, SetRows(Home(s), rows),
         Single(cache[Home(s)].rows) => Single(rows),
         \A r : Holds(rows, r) =>
           \/ Holds(cache[Home(s)].rows, r)
           \/ r = Real(s) /\ s \in stored
           \/ r = Pending(s) /\ send'[s].at = "waiting",
         \A i : Holds(cache[Home(s)].rows, Real(i)) => Holds(rows, Real(i)),
         send'[s].at = "waiting" \/ ~Holds(rows, Pending(s)),
         \A t \in Sends : send'[t].server = "saved" => send[t].server = "saved",
         \A t \in Sends : t # s => send'[t].at = send[t].at
  PROVE  /\ PostInv' /\ RowsInv' /\ ArrivalInv' /\ cache' \in [Caches -> Copies]
         /\ \A k \in Caches : cache'[k].loaded = cache[k].loaded /\ cache'[k].root = cache[k].root
<1>1. PICK h \in Caches : h = Home(s)
  BY RowIs
<1>0. cache[h] \in Copies /\ cache \in [Caches -> Copies]
  BY <1>1 DEF PanelTypes
<1>2. /\ cache' \in [Caches -> Copies]
      /\ \A k \in Caches : /\ cache'[k].loaded = cache[k].loaded /\ cache'[k].root = cache[k].root
                           /\ k # h => cache'[k] = cache[k]
      /\ cache'[h].rows = IF cache[h].loaded THEN rows ELSE cache[h].rows
  <2>1. CASE cache[h].loaded
    <3>1. cache' = [cache EXCEPT ![h] = [cache[h] EXCEPT !.rows = rows]]
      BY <1>0, <1>1, <2>1 DEF SetRows
    <3>2. PICK c : c = [cache[h] EXCEPT !.rows = rows]
      OBVIOUS
    <3>3. c \in Copies /\ c.loaded = cache[h].loaded /\ c.root = cache[h].root /\ c.rows = rows
      BY <1>0, <3>2 DEF Copies
    <3>4. cache' = [cache EXCEPT ![h] = c]
      BY <3>1, <3>2
    <3>5. cache' \in [Caches -> Copies] /\ cache'[h] = c /\ \A k \in Caches : k # h => cache'[k] = cache[k]
      BY <1>0, <3>3, <3>4
    <3> QED
      BY <2>1, <3>3, <3>5
  <2>2. CASE ~cache[h].loaded
    <3>1. cache' = cache
      BY <1>1, <2>2 DEF SetRows
    <3> QED
      BY <1>0, <2>2, <3>1
  <2> QED
    BY <2>1, <2>2
<1> HIDE DEF Brings, Holds, Home, Real, Pending, Single, Belongs, Caches, Fetching, SetRows
<1>3. PostInv'
  <2>1. \A k : Fetching(k)' <=> Fetching(k)
    BY DEF Fetching
  <2> QED
    BY <2>1 DEF PostInv
<1>4. \A k \in Caches : Belongs(k)' = Belongs(k)
  BY DEF Belongs
<1>5. s \in Ids
  BY DEF Ids
<1>6. ASSUME NEW k \in Caches
      PROVE  /\ Single(cache'[k].rows)
             /\ cache'[k].loaded \/ cache'[k].rows = <<>>
  BY <1>1, <1>2 DEF RowsInv
<1>7. ASSUME NEW k \in Caches, NEW r, Holds(cache'[k].rows, r)
      PROVE  /\ r.id \in Ids /\ Home(r.id) = k
             /\ \/ r = Real(r.id) /\ r.id \in stored
                \/ r = Pending(r.id) /\ r.id \in Sends /\ send'[r.id].at = "waiting"
  <2>1. CASE r = Real(s) /\ s \in stored /\ k = h
    BY <1>1, <1>5, <2>1, RowIs
  <2>2. CASE r = Pending(s) /\ send'[s].at = "waiting" /\ k = h
    BY <1>1, <1>5, <2>2, RowIs
  <2>3. CASE Holds(cache[k].rows, r) /\ r # Pending(s)
    <3>1. /\ r.id \in Ids /\ Home(r.id) = k
          /\ \/ r = Real(r.id) /\ r.id \in stored
             \/ r = Pending(r.id) /\ r.id \in Sends /\ send[r.id].at = "waiting"
      BY <2>3 DEF RowsInv
    <3> QED
      BY <2>3, <3>1
  <2>4. CASE Holds(cache[k].rows, r) /\ r = Pending(s)
    <3>1. Home(s) = k /\ send[s].at = "waiting"
      BY <2>4, RowIs DEF RowsInv
    <3>2. cache[h].loaded
      <4>1. cache[k].rows = <<>> => ~Holds(cache[k].rows, r)
        BY DEF Holds
      <4> QED
        BY <1>1, <2>4, <3>1, <4>1 DEF RowsInv
    <3>3. send'[s].at = "waiting"
      BY <1>1, <1>2, <1>7, <2>4, <3>1, <3>2
    <3> QED
      BY <1>1, <1>5, <2>4, <3>1, <3>3, RowIs
  <2>5. CASE k # h
    <3>1. Holds(cache[k].rows, r)
      BY <1>2, <1>7, <2>5
    <3> QED
      BY <2>3, <2>4, <3>1
  <2> QED
    BY <1>1, <1>2, <1>7, <2>1, <2>2, <2>3, <2>4, <2>5
<1>8. RowsInv'
  <2>1. \A k \in Caches : fetch'[k].at = "read" => fetch'[k].rows \subseteq Belongs(k)'
    BY <1>4 DEF RowsInv
  <2> QED
    BY <1>6, <1>7, <2>1 DEF RowsInv
<1>9. ArrivalInv'
  <2>1. \A k \in Caches : \A i :
          cache[k].loaded /\ Holds(cache[k].rows, Real(i)) => Holds(cache'[k].rows, Real(i))
    BY <1>1, <1>2
  <2>2. \A k \in Caches : cache'[k].loaded = cache[k].loaded
    BY <1>2
  <2> QED
    BY <2>1, <2>2 DEF ArrivalInv
<1> QED
  BY <1>2, <1>3, <1>8, <1>9

(* What was read of the root, and is to be applied again, is as good as before. *)
LEMMA NewsStay ==
  ASSUME NewsInv, ReadingInv, again' = again, fetch' = fetch,
         \A f \in Fields : LastSays(inbox', f, Truth'[f]), KeepsLit(inbox', mine'),
         \A f \in Fields : Silent(inbox', f) => Silent(inbox, f) /\ Truth'[f] = Truth[f],
         Silent(inbox', "lit") => mine' = mine
  PROVE  NewsInv' /\ ReadingInv'
<1> HIDE DEF Silent, LastSays, KeepsLit, Truth, Clicked, Caches
<1>0. "lit" \in Fields
  BY DEF Fields
<1>1. ASSUME NEW k \in Caches, NEW f \in Fields, Silent(inbox', f)
      PROVE  LastSays(again'[k], f, Truth'[f])
  BY <1>1 DEF NewsInv
<1>2. ASSUME NEW k \in Caches, Silent(inbox', "lit") PROVE KeepsLit(again'[k], mine')
  BY <1>0, <1>2 DEF NewsInv
<1>3. NewsInv'
  BY <1>1, <1>2 DEF NewsInv
<1>4. ReadingInv'
  BY DEF ReadingInv
<1> QED
  BY <1>3, <1>4

(* The copies of the root stay, and each field's news is as before or on   *)
(* its way.                                                                *)
LEMMA CopiesStay ==
  ASSUME CopyInv, late \subseteq late',
         \A f \in Fields : Silent(inbox', f) => Silent(inbox, f) /\ Truth'[f] = Truth[f],
         \A k \in Caches : cache'[k].loaded = cache[k].loaded,
         \A k \in Caches, f \in Fields : ~Clicked(k, f)' =>
           /\ ~Clicked(k, f)
           /\ cache'[k].root[f] = cache[k].root[f]
  PROVE  CopyInv'
<1> HIDE DEF Silent, Truth, Clicked, Caches
<1> QED
  BY DEF CopyInv

(* A toggle in flight stays as good as it was. *)
LEMMA ToggleStays ==
  ASSUME PanelTypes, ToggleInv, toggle' = toggle, received' = received,
         made' \in Nat, made <= made',
         \A f \in Fields : Silent(inbox', f) => Silent(inbox, f) /\ Truth'[f] = Truth[f],
         \A f \in Fields, m \in Nat :
           m <= made /\ Since(inbox', f, m) => Since(inbox, f, m) /\ Truth'[f] = Truth[f]
  PROVE  ToggleInv'
<1> SUFFICES ASSUME toggle # NoToggle PROVE ToggleInv'
  BY DEF ToggleInv
<1> HIDE DEF Silent, Since, Truth
<1>1. toggle.received <= received /\ toggle'.received <= received'
  BY DEF ToggleInv
<1>2. ASSUME ~toggle.stale, toggle.received = received, NEW f \in {"count", "lit"}, Silent(inbox', f)
      PROVE  toggle.before[f] = Truth'[f]
  BY <1>2 DEF ToggleInv, Fields
<1>3. CASE toggle.at = "served"
  <2>1. toggle.made \in Nat /\ made \in Nat
    BY <1>3 DEF PanelTypes, Clicks, Answers, NoToggle
  <2>2. toggle.made <= made'
    BY <1>3, <2>1 DEF ToggleInv
  <2>3. ASSUME toggle.made >= received, NEW f \in Fields, Since(inbox', f, toggle.made)
        PROVE  toggle.answer[f] = Truth'[f]
    BY <1>3, <2>1, <2>3 DEF ToggleInv
  <2> QED
    BY <1>1, <1>2, <2>2, <2>3 DEF ToggleInv
<1>4. CASE toggle.at # "served"
  BY <1>1, <1>2, <1>4 DEF ToggleInv
<1> QED
  BY <1>3, <1>4

(* The news of an announced step. *)
LEMMA NewsAnnounced ==
  ASSUME PanelInvariant, Announced, UNCHANGED <<fetch, again, received>>
  PROVE  NumberInv' /\ NewsInv' /\ ReadingInv'
<1>1. NumberInv'
  BY DEF NumberInv, Announced
<1>2. mine \in BOOLEAN /\ stored \in SUBSET Ids /\ theirs \in BOOLEAN
  BY DEF PanelInvariant, PanelTypes
<1>3. mine' \in BOOLEAN /\ stored' \in SUBSET Ids /\ theirs' \in BOOLEAN
  BY DEF Announced
<1>4. Truth["lit"] = mine /\ Truth'["lit"] = mine'
  BY <1>2, <1>3, TruthSays DEF Truth
<1>5. "lit" \in Fields
  BY DEF Fields
<1>6. Silent(inbox', "lit") => mine' = mine
  BY <1>4, <1>5 DEF Announced
<1> HIDE DEF Truth
<1>7. NewsInv' /\ ReadingInv'
  BY <1>6, NewsStay DEF PanelInvariant, Announced
<1> QED
  BY <1>1, <1>7

(* The root's side of a step of the server or of the rows. *)
LEMMA RootStays ==
  ASSUME PanelInvariant, Announced, UNCHANGED <<toggle, fetch, again, late, received>>,
         \A k \in Caches : cache'[k].loaded = cache[k].loaded /\ cache'[k].root = cache[k].root
  PROVE  NumberInv' /\ NewsInv' /\ CopyInv' /\ ReadingInv' /\ ToggleInv'
<1>1. NumberInv' /\ NewsInv' /\ ReadingInv'
  BY NewsAnnounced
<1>2. CopyInv'
  <2>1. \A k, f : Clicked(k, f)' <=> Clicked(k, f)
    BY DEF Clicked
  <2> HIDE DEF Truth
  <2> QED
    BY <2>1, CopiesStay DEF PanelInvariant, Announced
<1>3. ToggleInv'
  BY ToggleStays DEF PanelInvariant, Announced
<1> QED
  BY <1>1, <1>2, <1>3

(* Nothing is announced. *)
LEMMA NothingAnnounced ==
  ASSUME PanelInvariant, UNCHANGED <<serverVars, inbox>>
  PROVE  Announced /\ (\A i : Brings(inbox', i) <=> Brings(inbox, i))
<1>1. Truth' = Truth
  BY DEF Truth, serverVars
<1>2. /\ stored \subseteq Ids /\ mine \in BOOLEAN /\ theirs \in BOOLEAN
      /\ made \in Nat /\ inbox \in Seq(Broadcasts)
  BY DEF PanelInvariant, PanelTypes
<1>3. /\ stored' \subseteq Ids /\ mine' \in BOOLEAN /\ theirs' \in BOOLEAN
      /\ made' \in Nat /\ made <= made' /\ inbox' \in Seq(Broadcasts) /\ mine' = mine /\ made' = made
      /\ inbox' = inbox
  BY <1>2 DEF serverVars
<1>4. Numbered(inbox', received, made')
  BY <1>3 DEF PanelInvariant, NumberInv
<1>5. (\A f \in Fields : LastSays(inbox', f, Truth'[f])) /\ KeepsLit(inbox', mine')
  BY <1>1, <1>3 DEF PanelInvariant, NewsInv
<1> HIDE DEF Truth
<1> QED
  BY <1>1, <1>3, <1>4, <1>5 DEF Announced

-----------------------------------------------------------------------------
(* The server's steps, and the sends. *)

LEMMA PostKeeps ==
  ASSUME PanelInvariant, NEW i \in Others, Post(i)
  PROVE  PanelInvariant'
<1>1. /\ PanelTypes /\ PostInv /\ RowsInv /\ ArrivalInv /\ NumberInv /\ NewsInv
      /\ i \in Ids /\ Commit(i) /\ stored' = stored \cup {i}
      /\ UNCHANGED <<send, toggle, fetch, cache, again, late, received>>
  BY DEF PanelInvariant, Post, Commit, Ids
<1>2. Announced /\ \A j : Brings(inbox', j) <=> Brings(inbox, j) \/ j = i
  BY <1>1, CommitAnnounces
<1>3. /\ \A j : Brings(inbox', j) => j \in stored'
      /\ \A s \in Sends : send'[s].server = "saved" => s \in stored'
  BY <1>1, <1>2 DEF PostInv
<1> HIDE DEF Brings
<1>4. PostInv' /\ RowsInv' /\ ArrivalInv'
  BY <1>1, <1>2, <1>3, RowsGrow
<1>5. PanelTypes'
  BY <1>1, <1>2 DEF PanelTypes, Announced
<1>6. NumberInv' /\ NewsInv' /\ CopyInv' /\ ReadingInv' /\ ToggleInv'
  BY <1>1, <1>2, RootStays
<1> QED
  BY <1>4, <1>5, <1>6 DEF PanelInvariant

LEMMA ReactKeeps ==
  ASSUME PanelInvariant, React
  PROVE  PanelInvariant'
<1>1. /\ PanelTypes /\ PostInv /\ RowsInv /\ ArrivalInv /\ NumberInv /\ NewsInv
      /\ stored' = stored /\ mine' = mine /\ theirs' \in BOOLEAN /\ mine \in BOOLEAN
      /\ theirs' = ~theirs /\ made' = made + 1
      /\ UNCHANGED <<send, toggle, fetch, cache, again, late, received>>
  BY DEF PanelInvariant, PanelTypes, React
<1>2. inbox' = Append(inbox, Reaction(made', ReactionCount(mine', theirs'), FALSE, theirs'))
  BY <1>1 DEF React
<1>3. Announced /\ \A j : Brings(inbox', j) <=> Brings(inbox, j)
  BY <1>1, <1>2, ReactionAnnounces
<1> HIDE DEF Brings
<1>4. PostInv' /\ RowsInv' /\ ArrivalInv'
  BY <1>1, <1>3, RowsStay
<1>5. PanelTypes'
  BY <1>1, <1>3 DEF PanelTypes, Announced
<1>6. NumberInv' /\ NewsInv' /\ CopyInv' /\ ReadingInv' /\ ToggleInv'
  BY <1>1, <1>3, RootStays
<1> QED
  BY <1>4, <1>5, <1>6 DEF PanelInvariant

LEMMA SaveKeeps ==
  ASSUME PanelInvariant, NEW s \in Sends, Save(s)
  PROVE  PanelInvariant'
<1>1. /\ PanelTypes /\ PostInv /\ RowsInv /\ ArrivalInv /\ NumberInv /\ NewsInv
      /\ s \in Ids /\ Commit(s) /\ stored' = stored \cup {s}
      /\ send' = [send EXCEPT ![s].server = "saved"]
      /\ UNCHANGED <<toggle, fetch, cache, again, late, received>>
  BY DEF PanelInvariant, Save, Commit, Ids
<1>2. Announced /\ \A j : Brings(inbox', j) <=> Brings(inbox, j) \/ j = s
  BY <1>1, CommitAnnounces
<1>3. send \in [Sends -> [at : {"no", "waiting", "over"}, server : {"no", "asked", "saved", "refused"}]]
  BY <1>1 DEF PanelTypes
<1>4. /\ send' \in [Sends -> [at : {"no", "waiting", "over"},
                              server : {"no", "asked", "saved", "refused"}]]
      /\ \A t \in Sends : send'[t].at = send[t].at
      /\ \A t \in Sends : t # s => send'[t].server = send[t].server
  BY <1>1, <1>3
<1>5. /\ \A j : Brings(inbox', j) => j \in stored'
      /\ \A t \in Sends : send'[t].server = "saved" => t \in stored'
  BY <1>1, <1>2, <1>4 DEF PostInv
<1> HIDE DEF Brings
<1>6. PostInv' /\ RowsInv' /\ ArrivalInv'
  <2>1. /\ stored \subseteq stored' /\ again' = again /\ fetch' = fetch /\ cache' = cache
        /\ \A j \in stored' : j \in stored \/ Brings(inbox', j)
    BY <1>1, <1>2
  <2> QED
    BY <1>1, <1>2, <1>4, <1>5, <2>1, RowsGrow
<1>7. PanelTypes'
  BY <1>1, <1>2, <1>4 DEF PanelTypes, Announced
<1>8. NumberInv' /\ NewsInv' /\ CopyInv' /\ ReadingInv' /\ ToggleInv'
  BY <1>1, <1>2, RootStays
<1> QED
  BY <1>6, <1>7, <1>8 DEF PanelInvariant

LEMMA RefuseKeeps ==
  ASSUME PanelInvariant, NEW s \in Sends, Refuse(s)
  PROVE  PanelInvariant'
<1>1. /\ PanelTypes /\ PostInv /\ RowsInv /\ ArrivalInv
      /\ UNCHANGED <<serverVars, inbox, stored, mine, theirs, made>>
      /\ send' = [send EXCEPT ![s].server = "refused"]
      /\ UNCHANGED <<toggle, fetch, cache, again, late, received>>
  BY DEF PanelInvariant, Refuse, serverVars
<1>2. Announced /\ \A j : Brings(inbox', j) <=> Brings(inbox, j)
  BY <1>1, NothingAnnounced
<1>3. send \in [Sends -> [at : {"no", "waiting", "over"}, server : {"no", "asked", "saved", "refused"}]]
  BY <1>1 DEF PanelTypes
<1>4. /\ send' \in [Sends -> [at : {"no", "waiting", "over"},
                              server : {"no", "asked", "saved", "refused"}]]
      /\ \A t \in Sends : send'[t].at = send[t].at
      /\ \A t \in Sends : send'[t].server = "saved" => send[t].server = "saved"
  BY <1>1, <1>3
<1> HIDE DEF Brings
<1>5. PostInv' /\ RowsInv' /\ ArrivalInv'
  BY <1>1, <1>2, <1>4, RowsStay
<1>6. PanelTypes'
  BY <1>1, <1>2, <1>4 DEF PanelTypes, Announced
<1>7. NumberInv' /\ NewsInv' /\ CopyInv' /\ ReadingInv' /\ ToggleInv'
  BY <1>1, <1>2, RootStays
<1> QED
  BY <1>5, <1>6, <1>7 DEF PanelInvariant

(* A send writes the rows of its cache. *)
LEMMA WritingKeeps ==
  ASSUME PanelInvariant, NEW s \in Sends, NEW rows \in Seq(RowRecords),
         UNCHANGED <<serverVars, inbox, toggle, fetch, again, late, received>>,
         SetRows(Home(s), rows),
         NEW mark \in [at : {"waiting", "over"}, server : {"asked", "saved", "refused", "no"}],
         send' = [send EXCEPT ![s] = mark], mark.server = "saved" => send[s].server = "saved",
         Single(cache[Home(s)].rows) => Single(rows),
         \A r : Holds(rows, r) =>
           \/ Holds(cache[Home(s)].rows, r)
           \/ r = Real(s) /\ s \in stored
           \/ r = Pending(s) /\ mark.at = "waiting",
         \A i : Holds(cache[Home(s)].rows, Real(i)) => Holds(rows, Real(i)),
         mark.at = "waiting" \/ ~Holds(rows, Pending(s))
  PROVE  PanelInvariant'
<1>1. PanelTypes /\ PostInv /\ RowsInv /\ ArrivalInv /\ UNCHANGED <<stored, inbox, again, fetch>>
  BY DEF PanelInvariant, serverVars
<1>2. Announced
  BY NothingAnnounced
<1>3. send \in [Sends -> [at : {"no", "waiting", "over"}, server : {"no", "asked", "saved", "refused"}]]
  BY <1>1 DEF PanelTypes
<1>4. /\ send' \in [Sends -> [at : {"no", "waiting", "over"},
                              server : {"no", "asked", "saved", "refused"}]]
      /\ send'[s] = mark /\ \A t \in Sends : t # s => send'[t] = send[t]
  BY <1>3
<1>5. /\ \A t \in Sends : send'[t].server = "saved" => send[t].server = "saved"
      /\ \A t \in Sends : t # s => send'[t].at = send[t].at
      /\ send'[s].at = mark.at
  BY <1>4
<1> HIDE DEF SetRows, Home, Holds, Real, Pending, Single
<1>6. /\ PostInv' /\ RowsInv' /\ ArrivalInv' /\ cache' \in [Caches -> Copies]
      /\ \A k \in Caches : cache'[k].loaded = cache[k].loaded /\ cache'[k].root = cache[k].root
  BY <1>1, <1>5, RowsWritten
<1>7. PanelTypes'
  BY <1>1, <1>2, <1>4, <1>6 DEF PanelTypes, Announced
<1>8. NumberInv' /\ NewsInv' /\ CopyInv' /\ ReadingInv' /\ ToggleInv'
  BY <1>2, <1>6, RootStays
<1> QED
  BY <1>6, <1>7, <1>8 DEF PanelInvariant

LEMMA RowsTyped ==
  ASSUME PanelTypes, NEW s \in Sends
  PROVE  /\ cache[Home(s)].rows \in Seq(RowRecords)
         /\ Real(s) \in RowRecords /\ Pending(s) \in RowRecords
         /\ send[s] \in [at : {"no", "waiting", "over"}, server : {"no", "asked", "saved", "refused"}]
<1>1. s \in Ids /\ Home(s) \in Caches /\ cache[Home(s)] \in Copies
  BY RowIs DEF Ids, PanelTypes
<1>2. cache[Home(s)].rows \in Seq(RowRecords)
  BY <1>1 DEF Copies
<1> QED
  BY <1>1, <1>2, RowIs DEF PanelTypes

LEMMA SendKeeps ==
  ASSUME PanelInvariant, NEW s \in Sends, Send(s)
  PROVE  PanelInvariant'
<1>1. PICK mark : mark = [at |-> "waiting", server |-> "asked"]
  OBVIOUS
<1>2. PICK old : old = cache[Home(s)].rows
  OBVIOUS
<1>3. PICK rows : rows = Put(old, Pending(s))
  OBVIOUS
<1>4. old \in Seq(RowRecords) /\ Pending(s) \in RowRecords
  BY <1>2, RowsTyped DEF PanelInvariant
<1>5. /\ rows \in Seq(RowRecords) /\ (Single(old) => Single(rows))
      /\ \A x : Holds(rows, x) <=> Holds(old, x) \/ x = Pending(s)
  BY <1>3, <1>4, PutSays
<1>6. /\ SetRows(Home(s), rows) /\ send' = [send EXCEPT ![s] = mark]
      /\ UNCHANGED <<serverVars, inbox, toggle, fetch, again, late, received>>
  BY <1>1, <1>2, <1>3 DEF Send
<1>7. /\ mark \in [at : {"waiting", "over"}, server : {"asked", "saved", "refused", "no"}]
      /\ mark.at = "waiting" /\ mark.server # "saved"
  BY <1>1
<1> HIDE DEF SetRows, Home, Holds, Real, Pending, Single
<1> QED
  BY <1>2, <1>5, <1>6, <1>7, WritingKeeps

LEMMA AckedKeeps ==
  ASSUME PanelInvariant, NEW s \in Sends, Acked(s)
  PROVE  PanelInvariant'
<1>1. PICK mark : mark = [send[s] EXCEPT !.at = "over"]
  OBVIOUS
<1>2. PICK old : old = cache[Home(s)].rows
  OBVIOUS
<1>3. PICK less : less = Without(old, Pending(s))
  OBVIOUS
<1>4. PICK rows : rows = Put(less, Real(s))
  OBVIOUS
<1>5. old \in Seq(RowRecords) /\ Real(s) \in RowRecords
  BY <1>2, RowsTyped DEF PanelInvariant
<1>6. /\ less \in Seq(RowRecords) /\ (Single(old) => Single(less))
      /\ \A x : Holds(less, x) <=> Holds(old, x) /\ x # Pending(s)
  BY <1>3, <1>5, WithoutSays
<1>7. /\ rows \in Seq(RowRecords) /\ (Single(less) => Single(rows))
      /\ \A x : Holds(rows, x) <=> Holds(less, x) \/ x = Real(s)
  BY <1>4, <1>5, <1>6, PutSays
<1>8. /\ SetRows(Home(s), rows)
      /\ UNCHANGED <<serverVars, inbox, toggle, fetch, again, late, received>>
      /\ send[s] = [at |-> "waiting", server |-> "saved"] /\ send' = [send EXCEPT ![s].at = "over"]
  BY <1>2, <1>3, <1>4 DEF Acked, Confirmed
<1>9. send' = [send EXCEPT ![s] = mark]
  BY <1>1, <1>8, RowsTyped DEF PanelInvariant, PanelTypes
<1>10. /\ mark \in [at : {"waiting", "over"}, server : {"asked", "saved", "refused", "no"}]
       /\ mark.at = "over" /\ mark.server = send[s].server
  BY <1>1, <1>8
<1>11. s \in stored
  BY <1>8 DEF PanelInvariant, PostInv
<1>12. \A i : Real(i) # Pending(s)
  BY RowIs
<1> HIDE DEF SetRows, Home, Holds, Real, Pending, Single
<1> QED
  BY <1>2, <1>6, <1>7, <1>8, <1>9, <1>10, <1>11, <1>12, WritingKeeps

LEMMA RollBackKeeps ==
  ASSUME PanelInvariant, NEW s \in Sends, RollBack(s)
  PROVE  PanelInvariant'
<1>1. PICK mark : mark = [send[s] EXCEPT !.at = "over"]
  OBVIOUS
<1>2. PICK old : old = cache[Home(s)].rows
  OBVIOUS
<1>3. PICK rows : rows = Without(old, Pending(s))
  OBVIOUS
<1>4. old \in Seq(RowRecords)
  BY <1>2, RowsTyped DEF PanelInvariant
<1>5. /\ rows \in Seq(RowRecords) /\ (Single(old) => Single(rows))
      /\ \A x : Holds(rows, x) <=> Holds(old, x) /\ x # Pending(s)
  BY <1>3, <1>4, WithoutSays
<1>6. /\ SetRows(Home(s), rows)
      /\ UNCHANGED <<serverVars, inbox, toggle, fetch, again, late, received>>
      /\ send' = [send EXCEPT ![s].at = "over"]
  BY <1>2, <1>3 DEF RollBack
<1>7. send' = [send EXCEPT ![s] = mark]
  BY <1>1, <1>6, RowsTyped DEF PanelInvariant, PanelTypes
<1>8. /\ mark \in [at : {"waiting", "over"}, server : {"asked", "saved", "refused", "no"}]
      /\ mark.at = "over" /\ mark.server = send[s].server
  BY <1>1, RowsTyped DEF PanelInvariant
<1>9. \A i : Real(i) # Pending(s)
  BY RowIs
<1> HIDE DEF SetRows, Home, Holds, Real, Pending, Single
<1> QED
  BY <1>2, <1>5, <1>6, <1>7, <1>8, <1>9, WritingKeeps

-----------------------------------------------------------------------------
(* The toggle. *)

LEMMA ClickKeeps ==
  ASSUME PanelInvariant, NEW from \in Caches, Click(from)
  PROVE  PanelInvariant'
<1>1. /\ PanelTypes /\ PostInv /\ RowsInv /\ ArrivalInv /\ CopyInv /\ toggle = NoToggle
      /\ cache[from].loaded
      /\ UNCHANGED <<serverVars, inbox, stored, mine, theirs, made>>
      /\ UNCHANGED <<send, fetch, again, late, received>>
  BY DEF PanelInvariant, Click, serverVars
<1>2. PICK root : root = cache[from].root
  OBVIOUS
<1>3. PICK e : e = Predicted(root)
  OBVIOUS
<1>4. /\ toggle' = [at |-> "asked", from |-> from, add |-> ~root.lit, before |-> root,
                    received |-> received, stale |-> from \in late]
      /\ cache' = [k \in Caches |-> IF k \in Reaches(from) THEN Written(cache[k], k, e) ELSE cache[k]]
  BY <1>2, <1>3 DEF Click
<1>5. root \in Roots
  BY <1>1, <1>2 DEF PanelTypes, Copies
<1>6. e \in Broadcasts /\ e.kind = "reaction" /\ ~Tells(e, "replies")
  BY <1>3, <1>5 DEF Predicted, Reaction, Broadcasts, Reactions, Roots, Tells
<1>7. ASSUME NEW k \in Caches
      PROVE  /\ cache'[k] \in Copies /\ cache'[k].loaded = cache[k].loaded
             /\ cache'[k].rows = cache[k].rows
             /\ cache'[k].root["replies"] = cache[k].root["replies"]
             /\ k \notin Reaches(from) => cache'[k] = cache[k]
  <2>1. PICK w : w = Written(cache[k], k, e)
    OBVIOUS
  <2>2. cache'[k] = IF k \in Reaches(from) THEN w ELSE cache[k]
    BY <1>4, <2>1
  <2>3. cache[k] \in Copies
    BY <1>1 DEF PanelTypes
  <2>4. w \in Copies /\ w.loaded = cache[k].loaded /\ w.rows = cache[k].rows
        /\ w.root["replies"] = cache[k].root["replies"]
    BY <1>6, <2>1, <2>3, WrittenSays
  <2> QED
    BY <2>2, <2>3, <2>4
<1>8. Announced /\ \A i : Brings(inbox', i) <=> Brings(inbox, i)
  BY <1>1, NothingAnnounced
<1>9. PICK b \in BOOLEAN : b <=> from \in late
  <2>1. from \in late => TRUE \in BOOLEAN /\ (TRUE <=> from \in late)
    OBVIOUS
  <2>2. from \notin late => FALSE \in BOOLEAN /\ (FALSE <=> from \in late)
    OBVIOUS
  <2> QED
    BY <2>1, <2>2
<1>10. /\ toggle' \in Clicks /\ toggle' # NoToggle /\ toggle'.at = "asked" /\ toggle'.from = from
       /\ toggle'.before = root /\ toggle'.received = received /\ (toggle'.stale <=> from \in late)
  <2>1. PICK a \in BOOLEAN : a = ~root.lit
    BY <1>5 DEF Roots
  <2>2. toggle' = [at |-> "asked", from |-> from, add |-> a, before |-> root,
                   received |-> received, stale |-> b]
    BY <1>4, <1>9, <2>1, Zenon
  <2>3. received \in Nat
    BY <1>1 DEF PanelTypes
  <2>4. /\ toggle' \in Clicks /\ toggle' # NoToggle /\ toggle'.at = "asked" /\ toggle'.from = from
        /\ toggle'.before = root /\ toggle'.received = received /\ toggle'.stale = b
    BY <1>5, <2>2, <2>3 DEF Clicks, NoToggle
  <2> QED
    BY <1>9, <2>4
<1> HIDE DEF Written, Brings
<1>11. PostInv' /\ RowsInv' /\ ArrivalInv'
  BY <1>1, <1>7, <1>8, RowsStay
<1>12. PanelTypes'
  <2>1. cache' \in [Caches -> Copies]
    BY <1>4, <1>7
  <2> QED
    BY <1>1, <1>8, <1>10, <2>1 DEF PanelTypes, Announced
<1>13. NumberInv' /\ NewsInv' /\ ReadingInv'
  BY <1>1, <1>8, NewsAnnounced
<1>14. CopyInv'
  <2>1. ASSUME NEW k \in Caches, NEW f \in Fields, ~Clicked(k, f)'
        PROVE  ~Clicked(k, f) /\ cache'[k].root[f] = cache[k].root[f]
    <3>1. k \notin Reaches(from) \/ f = "replies"
      BY <1>10, <2>1 DEF Clicked
    <3> QED
      BY <1>1, <1>7, <3>1 DEF Clicked
  <2> HIDE DEF Truth, Clicked
  <2> QED
    BY <1>1, <1>7, <1>8, <2>1, CopiesStay DEF Announced
<1>15. ToggleInv'
  <2>1. received \in Nat /\ received' = received /\ inbox' = inbox /\ Truth' = Truth
    BY <1>1 DEF PanelTypes, Truth
  <2> HIDE DEF Truth
  <2>2. ASSUME from \notin late, NEW f \in {"count", "lit"}, Silent(inbox, f)
        PROVE  root[f] = Truth[f]
    <3>1. ~Clicked(from, f)
      BY <1>1 DEF Clicked
    <3> QED
      BY <1>1, <1>2, <2>2, <3>1 DEF CopyInv, Fields
  <2>3. /\ toggle'.received <= received' /\ toggle'.at # "served"
        /\ ~toggle'.stale /\ toggle'.received = received' =>
             \A f \in {"count", "lit"} : Silent(inbox', f) => toggle'.before[f] = Truth'[f]
    BY <1>10, <2>1, <2>2
  <2> QED
    BY <2>3 DEF ToggleInv
<1> QED
  BY <1>11, <1>12, <1>13, <1>14, <1>15 DEF PanelInvariant

LEMMA ServeToggleKeeps ==
  ASSUME PanelInvariant, ServeToggle
  PROVE  PanelInvariant'
<1>1. /\ PanelTypes /\ PostInv /\ RowsInv /\ ArrivalInv /\ NumberInv /\ NewsInv /\ CopyInv /\ ToggleInv
      /\ UNCHANGED <<stored, theirs, send, fetch, cache, again, late, received>>
      /\ toggle.at = "asked" /\ mine' = toggle.add /\ made' = made + 1 /\ theirs \in BOOLEAN
      /\ stored \in SUBSET Ids
  BY DEF PanelInvariant, PanelTypes, ServeToggle
<1>2. /\ toggle \in Clicks /\ mine' \in BOOLEAN /\ made \in Nat /\ received \in Nat
      /\ toggle.from \in Caches /\ toggle.before \in Roots /\ toggle.received \in Nat
      /\ toggle.stale \in BOOLEAN
  BY <1>1 DEF PanelTypes, Clicks, Answers, NoToggle
<1>3. inbox' = Append(inbox, Reaction(made', ReactionCount(mine', theirs'), TRUE, mine'))
  BY <1>1 DEF ServeToggle
<1>4. Announced /\ \A j : Brings(inbox', j) <=> Brings(inbox, j)
  BY <1>1, <1>2, <1>3, ReactionAnnounces
<1>5. PICK root : root = Root(stored, mine', theirs)
  OBVIOUS
<1>6. root \in Roots /\ root = Truth'
  BY <1>1, <1>2, <1>5, TruthSays DEF Truth
<1>7. toggle' = [at |-> "served", from |-> toggle.from, before |-> toggle.before,
                 received |-> toggle.received, stale |-> toggle.stale,
                 answer |-> root, made |-> made + 1]
  BY <1>5 DEF ServeToggle
<1>8. /\ toggle' \in Answers /\ toggle' # NoToggle /\ toggle'.at = "served"
      /\ toggle'.from = toggle.from /\ toggle'.before = toggle.before
      /\ toggle'.received = toggle.received /\ toggle'.stale = toggle.stale
      /\ toggle'.answer = root /\ toggle'.made = made + 1
  BY <1>2, <1>6, <1>7 DEF Answers, NoToggle
<1>9. toggle # NoToggle
  BY <1>1 DEF NoToggle
<1> HIDE DEF Brings
<1>10. PostInv' /\ RowsInv' /\ ArrivalInv'
  BY <1>1, <1>4, RowsStay
<1>11. PanelTypes'
  BY <1>1, <1>4, <1>8 DEF PanelTypes, Announced
<1>12. NumberInv' /\ NewsInv' /\ ReadingInv'
  BY <1>1, <1>4, NewsAnnounced
<1>13. CopyInv'
  <2>1. \A k, f : Clicked(k, f)' <=> Clicked(k, f)
    BY <1>8, <1>9 DEF Clicked
  <2> HIDE DEF Truth
  <2> QED
    BY <1>1, <1>4, <2>1, CopiesStay DEF Announced
<1>14. ToggleInv'
  <2>1. toggle.received <= received
    BY <1>1, <1>9 DEF ToggleInv
  <2> HIDE DEF Truth
  <2>2. ASSUME ~toggle.stale, toggle.received = received, NEW f \in {"count", "lit"}, Silent(inbox', f)
        PROVE  toggle.before[f] = Truth'[f]
    <3>1. f \in Fields
      BY DEF Fields
    <3>2. Silent(inbox, f) /\ Truth'[f] = Truth[f]
      BY <1>4, <2>2, <3>1 DEF Announced
    <3> QED
      BY <1>1, <1>9, <2>2, <3>2 DEF ToggleInv
  <2>3. made + 1 <= made'
    BY <1>1, <1>2
  <2> QED
    BY <1>1, <1>6, <1>8, <2>1, <2>2, <2>3 DEF ToggleInv
<1> QED
  BY <1>10, <1>11, <1>12, <1>13, <1>14 DEF PanelInvariant

(* A toggle is over once the copies are right again. *)
LEMMA OverKeeps ==
  ASSUME PanelInvariant, UNCHANGED <<serverVars, inbox, send, fetch, again, received>>,
         toggle' = NoToggle, late' \subseteq Caches, CopyInv',
         cache' = [k \in Caches |-> cache'[k]],
         \A k \in Caches : /\ cache'[k] \in Copies /\ cache'[k].loaded = cache[k].loaded
                           /\ cache'[k].rows = cache[k].rows
  PROVE  PanelInvariant'
<1>1. Announced /\ \A j : Brings(inbox', j) <=> Brings(inbox, j)
  BY NothingAnnounced
<1>2. PanelTypes /\ PostInv /\ RowsInv /\ ArrivalInv /\ stored' = stored
  BY DEF PanelInvariant, serverVars
<1> HIDE DEF Brings
<1>3. PostInv' /\ RowsInv' /\ ArrivalInv'
  BY <1>1, <1>2, RowsStay
<1>4. PanelTypes'
  <2>1. cache' \in [Caches -> Copies]
    OBVIOUS
  <2> QED
    BY <1>1, <1>2, <2>1 DEF PanelTypes, Announced
<1>5. NumberInv' /\ NewsInv' /\ ReadingInv'
  BY <1>1, NewsAnnounced
<1>6. ToggleInv'
  BY DEF ToggleInv
<1> QED
  BY <1>3, <1>4, <1>5, <1>6 DEF PanelInvariant

LEMMA AnsweredKeeps ==
  ASSUME PanelInvariant, Answered
  PROVE  PanelInvariant'
<1>1. /\ PanelTypes /\ CopyInv /\ ToggleInv /\ toggle.at = "served" /\ toggle' = NoToggle
      /\ UNCHANGED <<serverVars, inbox, stored, mine, theirs, made>>
      /\ UNCHANGED <<send, fetch, again, received>>
  BY DEF PanelInvariant, Answered, serverVars
<1>2. /\ toggle \in Answers /\ toggle.made \in Nat /\ made \in Nat /\ received \in Nat
      /\ toggle.answer \in Roots /\ late \subseteq Caches /\ toggle # NoToggle
  BY <1>1 DEF PanelTypes, Clicks, Answers, NoToggle
<1>3. PICK to : to = {k \in Reaches(toggle.from) : cache[k].loaded}
  OBVIOUS
<1>4. PICK root : root = toggle.answer
  OBVIOUS
<1>5. /\ cache' = [k \in Caches |-> IF k \in to THEN [cache[k] EXCEPT !.root = root] ELSE cache[k]]
      /\ late' = IF toggle.made < received THEN late \cup to ELSE late \ to
  BY <1>3, <1>4 DEF Answered
<1>6. to \subseteq Caches
  BY <1>3 DEF Reaches, Caches
<1>7. ASSUME NEW k \in Caches
      PROVE  /\ cache'[k] \in Copies /\ cache'[k].loaded = cache[k].loaded
             /\ cache'[k].rows = cache[k].rows
             /\ k \in to => cache'[k].root = root
             /\ k \notin to => cache'[k].root = cache[k].root
  <2>1. cache[k] \in Copies
    BY <1>1 DEF PanelTypes
  <2>2. PICK w : w = [cache[k] EXCEPT !.root = root]
    OBVIOUS
  <2>3. w \in Copies /\ w.loaded = cache[k].loaded /\ w.rows = cache[k].rows /\ w.root = root
    BY <1>2, <1>4, <2>1, <2>2 DEF Copies
  <2>4. cache'[k] = IF k \in to THEN w ELSE cache[k]
    BY <1>5, <2>2
  <2> QED
    BY <2>1, <2>3, <2>4
<1>8. Truth' = Truth
  BY <1>1 DEF Truth
<1>9. CopyInv'
  <2> SUFFICES ASSUME NEW k \in Caches, cache'[k].loaded, k \notin late', NEW f \in Fields,
                      Silent(inbox, f)
               PROVE  cache'[k].root[f] = Truth[f]
    BY <1>1, <1>8 DEF CopyInv
  <2> HIDE DEF Truth
  <2>1. CASE k \in to
    <3>1. toggle.made >= received
      BY <1>2, <1>5, <2>1
    <3>2. Since(inbox, f, toggle.made)
      BY DEF Silent, Since
    <3>3. root[f] = Truth[f]
      BY <1>1, <1>2, <1>4, <3>1, <3>2 DEF ToggleInv
    <3> QED
      BY <1>7, <2>1, <3>3
  <2>2. CASE k \notin to
    <3>1. cache[k].loaded /\ k \notin late
      BY <1>5, <1>7, <2>2
    <3>2. ~Clicked(k, f)
      BY <1>3, <2>2, <3>1 DEF Clicked
    <3> QED
      BY <1>1, <1>7, <2>2, <3>1, <3>2 DEF CopyInv
  <2> QED
    BY <2>1, <2>2
<1>10. cache' = [k \in Caches |-> cache'[k]]
  BY <1>5
<1>11. late' \subseteq Caches
  BY <1>2, <1>5, <1>6
<1> QED
  BY <1>1, <1>7, <1>9, <1>10, <1>11, OverKeeps

LEMMA ToggleFailsKeeps ==
  ASSUME PanelInvariant, ToggleFails
  PROVE  PanelInvariant'
<1>1. /\ PanelTypes /\ CopyInv /\ ToggleInv /\ toggle # NoToggle /\ toggle' = NoToggle
      /\ UNCHANGED <<serverVars, inbox, stored, mine, theirs, made>>
      /\ UNCHANGED <<send, fetch, again, received>>
  BY DEF PanelInvariant, ToggleFails, serverVars
<1>2. /\ toggle.received \in Nat /\ received \in Nat
      /\ toggle.before \in Roots /\ late \subseteq Caches /\ toggle.stale \in BOOLEAN
  BY <1>1 DEF PanelTypes, Clicks, Answers, NoToggle
<1>3. PICK to : to = {k \in Reaches(toggle.from) : cache[k].loaded}
  OBVIOUS
<1>4. PICK old : old = toggle.before
  OBVIOUS
<1>5. /\ cache' = [k \in Caches |-> IF k \in to
                     THEN [cache[k] EXCEPT !.root.count = old.count, !.root.lit = old.lit]
                     ELSE cache[k]]
      /\ late' = IF toggle.stale \/ toggle.received < received THEN late \cup to ELSE late
  BY <1>3, <1>4 DEF ToggleFails
<1>6. to \subseteq Caches
  BY <1>3 DEF Reaches, Caches
<1>7. ASSUME NEW k \in Caches
      PROVE  /\ cache'[k] \in Copies /\ cache'[k].loaded = cache[k].loaded
             /\ cache'[k].rows = cache[k].rows
             /\ cache'[k].root["replies"] = cache[k].root["replies"]
             /\ k \in to => cache'[k].root["count"] = old["count"] /\ cache'[k].root["lit"] = old["lit"]
             /\ k \notin to => cache'[k] = cache[k]
  <2>1. cache[k] \in Copies /\ cache[k].root \in Roots /\ old \in Roots
    BY <1>1, <1>2, <1>4 DEF PanelTypes, Copies
  <2>2. PICK root : root = [cache[k].root EXCEPT !.count = old.count, !.lit = old.lit]
    OBVIOUS
  <2>3. /\ root \in Roots /\ root["replies"] = cache[k].root["replies"]
        /\ root["count"] = old["count"] /\ root["lit"] = old["lit"]
    BY <2>1, <2>2 DEF Roots
  <2>4. PICK w : w = [cache[k] EXCEPT !.root = root]
    OBVIOUS
  <2>5. w \in Copies /\ w.loaded = cache[k].loaded /\ w.rows = cache[k].rows /\ w.root = root
    BY <2>1, <2>3, <2>4 DEF Copies
  <2>6. [cache[k] EXCEPT !.root.count = old.count, !.root.lit = old.lit] = w
    BY <2>1, <2>2, <2>4 DEF Copies, Roots
  <2>7. cache'[k] = IF k \in to THEN w ELSE cache[k]
    BY <1>5, <2>6
  <2> QED
    BY <2>1, <2>3, <2>5, <2>7
<1>8. Truth' = Truth
  BY <1>1 DEF Truth
<1>9. CopyInv'
  <2> SUFFICES ASSUME NEW k \in Caches, cache'[k].loaded, k \notin late', NEW f \in Fields,
                      Silent(inbox, f)
               PROVE  cache'[k].root[f] = Truth[f]
    BY <1>1, <1>8 DEF CopyInv
  <2> HIDE DEF Truth
  <2>1. cache[k].loaded /\ k \notin late
    BY <1>5, <1>7
  <2>2. CASE k \in to /\ f # "replies"
    <3>1. ~toggle.stale /\ toggle.received = received
      <4>1. toggle.received <= received
        BY <1>1 DEF ToggleInv
      <4>2. toggle.stale \/ toggle.received < received => k \in late'
        BY <1>5, <2>2
      <4>3. ~toggle.stale /\ ~(toggle.received < received)
        BY <4>2
      <4> QED
        BY <1>2, <4>1, <4>3
    <3>2. old[f] = Truth[f]
      BY <1>1, <1>4, <2>2, <3>1 DEF ToggleInv, Fields
    <3> QED
      BY <1>7, <2>2, <3>2 DEF Fields
  <2>3. CASE k \notin to \/ f = "replies"
    <3>1. ~Clicked(k, f)
      BY <1>3, <2>1, <2>3 DEF Clicked
    <3>2. cache'[k].root[f] = cache[k].root[f]
      BY <1>7, <2>3
    <3> QED
      BY <1>1, <2>1, <3>1, <3>2 DEF CopyInv
  <2> QED
    BY <2>2, <2>3
<1>10. cache' = [k \in Caches |-> cache'[k]]
  BY <1>5
<1>11. late' \subseteq Caches
  BY <1>2, <1>5, <1>6
<1> QED
  BY <1>1, <1>7, <1>9, <1>10, <1>11, OverKeeps

-----------------------------------------------------------------------------
(* Broadcasts received, and fetches. *)

LEMMA ReceiveKeeps ==
  ASSUME PanelInvariant, Receive
  PROVE  PanelInvariant'
<1>1. /\ PanelTypes /\ PostInv /\ RowsInv /\ ArrivalInv /\ NumberInv /\ NewsInv /\ CopyInv
      /\ ReadingInv /\ ToggleInv /\ inbox # <<>>
      /\ UNCHANGED <<stored, mine, theirs, made, send, toggle, fetch, late>>
      /\ inbox \in Seq(Broadcasts) /\ received \in Nat /\ made \in Nat /\ received <= made
      /\ mine \in BOOLEAN /\ inbox' = Tail(inbox)
  BY DEF PanelInvariant, Receive, serverVars, PanelTypes
<1>2. PICK e : e = Head(inbox)
  OBVIOUS
<1>3. PICK q : q = Tail(inbox)
  OBVIOUS
<1>4. /\ inbox' = q
      /\ cache' = [k \in Caches |-> Written(cache[k], k, e)]
      /\ again' = [k \in Caches |-> IF k \in Concerns(e) /\ Fetching(k)
                                      THEN Append(again[k], e) ELSE again[k]]
      /\ received' = IF e.kind = "message" THEN received ELSE e.n
  BY <1>1, <1>2, <1>3 DEF Receive, Apply
<1>5. /\ e \in Broadcasts /\ q \in Seq(Broadcasts)
      /\ \A i : Brings(inbox, i) <=> Brings(q, i) \/ e = Posted(i)
      /\ \A f : Silent(inbox, f) <=> Silent(q, f) /\ ~Tells(e, f)
      /\ \A f, v : LastSays(inbox, f, v) => LastSays(q, f, v)
      /\ \A f, v : LastSays(inbox, f, v) /\ Tells(e, f) /\ Silent(q, f) => Value(e, f) = v
      /\ KeepsLit(inbox, mine) => KeepsLit(q, mine)
      /\ KeepsLit(inbox, mine) /\ e.kind = "reaction" /\ Silent(q, "lit") => (mine => e.count > 0)
  BY <1>1, <1>2, <1>3, TailSays
<1>6. /\ e.kind = "message" => Numbered(q, received, made)
      /\ e.kind # "message" => e.n \in received + 1 .. made /\ Numbered(q, e.n, made)
      /\ \A f, m : Since(inbox, f, m) <=> Since(q, f, m) /\ (Tells(e, f) => e.n <= m)
  BY <1>1, <1>2, <1>3, NextSays DEF NumberInv
<1>7. received' \in 0 .. made /\ received' \in Nat /\ received <= received'
      /\ NumberInv'
  <2>1. /\ received' = IF e.kind = "message" THEN received ELSE e.n
        /\ inbox' = q /\ made' = made
    BY <1>1, <1>4
  <2>2. received \in Nat /\ made \in Nat /\ received <= made
    BY <1>1
  <2>3. CASE e.kind = "message"
    <3>1. received' = received /\ Numbered(q, received, made)
      BY <1>6, <2>1, <2>3
    <3> QED
      BY <2>1, <2>2, <3>1 DEF NumberInv
  <2>4. CASE e.kind # "message"
    <3>1. received' = e.n /\ e.n \in received + 1 .. made /\ Numbered(q, e.n, made)
      BY <1>6, <2>1, <2>4
    <3> QED
      BY <2>1, <2>2, <3>1 DEF NumberInv
  <2> QED
    BY <2>3, <2>4
<1>8. \A f : Tells(e, f) => e.kind # "message"
  BY <1>5, BroadcastSays
<1>9. Truth' = Truth
  BY <1>1 DEF Truth
<1>10. mine = Truth["lit"] /\ Truth.lit = mine
  BY <1>1, TruthSays DEF Truth, PanelTypes
<1> HIDE DEF Truth, Tells, Value, Written, Silent, LastSays, KeepsLit, Brings, Since
<1>11. ASSUME NEW k \in Caches
       PROVE  /\ cache'[k] \in Copies /\ cache'[k].loaded = cache[k].loaded
              /\ ~cache[k].loaded => cache'[k] = cache[k]
              /\ Single(cache[k].rows) => Single(cache'[k].rows)
              /\ \A x : Holds(cache'[k].rows, x) <=>
                   \/ Holds(cache[k].rows, x)
                   \/ cache[k].loaded /\ \E i : e = Posted(i) /\ Home(i) = k /\ x = Real(i)
              /\ \A f \in {"replies", "count"} :
                   /\ cache[k].loaded /\ Tells(e, f) => cache'[k].root[f] = Value(e, f)
                   /\ ~Tells(e, f) => cache'[k].root[f] = cache[k].root[f]
              /\ cache[k].loaded /\ Lights(e, cache[k].root.lit, mine) => cache'[k].root.lit = mine
  <2>1. cache[k] \in Copies /\ cache'[k] = Written(cache[k], k, e) /\ e \in Broadcasts
    BY <1>1, <1>4, <1>5 DEF PanelTypes
  <2>2. PICK c : c = cache[k]
    OBVIOUS
  <2>3. PICK w : w = Written(c, k, e)
    OBVIOUS
  <2>4. c \in Copies /\ cache'[k] = w
    BY <2>1, <2>2, <2>3
  <2>5. /\ w \in Copies /\ w.loaded = c.loaded
        /\ ~c.loaded => w = c
        /\ Single(c.rows) => Single(w.rows)
        /\ \A x : Holds(w.rows, x) <=>
             \/ Holds(c.rows, x)
             \/ c.loaded /\ \E i : e = Posted(i) /\ Home(i) = k /\ x = Real(i)
        /\ \A f \in {"replies", "count"} :
             /\ c.loaded /\ Tells(e, f) => w.root[f] = Value(e, f)
             /\ ~Tells(e, f) => w.root[f] = c.root[f]
        /\ \A me \in BOOLEAN : c.loaded /\ Lights(e, c.root.lit, me) => w.root.lit = me
    BY <2>1, <2>3, <2>4, WrittenSays
  <2> HIDE DEF Single, Holds, Posted, Home, Real, Lights
  <2> QED
    BY <1>1, <2>2, <2>4, <2>5
<1>12. ASSUME NEW k \in Caches
       PROVE  again'[k] = IF k \in Concerns(e) /\ Fetching(k) THEN Append(again[k], e) ELSE again[k]
  BY <1>4
<1>13. ASSUME NEW k \in Caches
       PROVE  /\ again'[k] \in Seq(Broadcasts)
              /\ \A i : Brings(again'[k], i) <=>
                   Brings(again[k], i) \/ (k \in Concerns(e) /\ Fetching(k) /\ e = Posted(i))
              /\ again'[k] # <<>> => Fetching(k)
              /\ \A f : Silent(again'[k], f) <=>
                   Silent(again[k], f) /\ ~(k \in Concerns(e) /\ Fetching(k) /\ Tells(e, f))
  <2>1. again[k] \in Seq(Broadcasts) /\ (again[k] # <<>> => Fetching(k))
    BY <1>1 DEF PanelTypes, PostInv
  <2>2. CASE k \in Concerns(e) /\ Fetching(k)
    <3>1. again'[k] = Append(again[k], e)
      BY <1>12, <2>2
    <3> QED
      BY <1>5, <2>1, <2>2, <3>1, AppendSays
  <2>3. CASE ~(k \in Concerns(e) /\ Fetching(k))
    <3>1. again'[k] = again[k]
      BY <1>12, <2>3
    <3> QED
      BY <2>1, <2>3, <3>1
  <2> QED
    BY <2>2, <2>3
<1>14. PanelTypes'
  <2>1. cache' \in [Caches -> Copies]
    BY <1>4, <1>11
  <2>2. again' \in [Caches -> Seq(Broadcasts)]
    BY <1>4, <1>13
  <2> QED
    BY <1>1, <1>4, <1>5, <1>7, <2>1, <2>2 DEF PanelTypes
<1>15. \A i : e = Posted(i) => i \in stored /\ \A k : k \in Concerns(e) <=> Home(i) = k
  <2>1. \A i : e = Posted(i) => i \in stored
    BY <1>1, <1>5 DEF PostInv
  <2>2. ASSUME NEW i, e = Posted(i) PROVE \A k : k \in Concerns(e) <=> Home(i) = k
    BY <2>2, RowIs DEF Concerns
  <2> QED
    BY <2>1, <2>2
<1>16. PostInv'
  <2>1. \A i : Brings(inbox', i) => i \in stored'
    BY <1>1, <1>4, <1>5 DEF PostInv
  <2>2. \A k \in Caches : /\ \A i : Brings(again'[k], i) => i \in stored' /\ Home(i) = k
                          /\ again'[k] # <<>> => Fetching(k)'
    <3>1. \A k : Fetching(k)' <=> Fetching(k)
      BY <1>1 DEF Fetching
    <3>2. \A k \in Caches : \A i : Brings(again[k], i) => i \in stored /\ Home(i) = k
      BY <1>1 DEF PostInv
    <3> HIDE DEF Fetching, Home
    <3> QED
      BY <1>1, <1>13, <1>15, <3>1, <3>2
  <2> QED
    BY <1>1, <2>1, <2>2 DEF PostInv
<1>17. RowsInv'
  <2> SUFFICES ASSUME NEW k \in Caches
               PROVE  /\ Single(cache'[k].rows)
                      /\ cache'[k].loaded \/ cache'[k].rows = <<>>
                      /\ \A r : Holds(cache'[k].rows, r) =>
                           /\ r.id \in Ids /\ Home(r.id) = k
                           /\ \/ r = Real(r.id) /\ r.id \in stored
                              \/ r = Pending(r.id) /\ r.id \in Sends /\ send[r.id].at = "waiting"
                      /\ fetch[k].at = "read" => fetch[k].rows \subseteq Belongs(k)
    BY <1>1 DEF RowsInv, Belongs
  <2> HIDE DEF Single, Holds, Home, Real, Pending, Belongs
  <2>1. Single(cache'[k].rows) /\ (fetch[k].at = "read" => fetch[k].rows \subseteq Belongs(k))
    BY <1>1, <1>11 DEF RowsInv
  <2>2. cache'[k].loaded \/ cache'[k].rows = <<>>
    BY <1>1, <1>11 DEF RowsInv
  <2>3. ASSUME NEW r, Holds(cache'[k].rows, r)
        PROVE  /\ r.id \in Ids /\ Home(r.id) = k
               /\ \/ r = Real(r.id) /\ r.id \in stored
                  \/ r = Pending(r.id) /\ r.id \in Sends /\ send[r.id].at = "waiting"
    <3>1. CASE Holds(cache[k].rows, r)
      BY <1>1, <3>1 DEF RowsInv
    <3>2. CASE ~Holds(cache[k].rows, r)
      <4>1. PICK i : e = Posted(i) /\ Home(i) = k /\ r = Real(i)
        BY <1>11, <2>3, <3>2
      <4>2. i \in stored /\ i \in Ids
        BY <1>1, <1>15, <4>1 DEF PanelTypes
      <4> QED
        BY <4>1, <4>2, RowIs
    <3> QED
      BY <3>1, <3>2
  <2> QED
    BY <2>1, <2>2, <2>3
<1>18. ArrivalInv'
  <2> HIDE DEF Home, Real, Holds
  <2> SUFFICES ASSUME NEW k \in Caches, NEW i \in stored, Home(i) = k
               PROVE  /\ cache'[k].loaded => Holds(cache'[k].rows, Real(i)) \/ Brings(q, i)
                      /\ fetch[k].at = "read" =>
                           Real(i) \in fetch[k].rows \/ Brings(q, i) \/ Brings(again'[k], i)
    BY <1>1, <1>4 DEF ArrivalInv
  <2>1. /\ cache[k].loaded => Holds(cache[k].rows, Real(i)) \/ Brings(inbox, i)
        /\ fetch[k].at = "read" =>
             Real(i) \in fetch[k].rows \/ Brings(inbox, i) \/ Brings(again[k], i)
    BY <1>1 DEF ArrivalInv
  <2>2. e = Posted(i) => k \in Concerns(e)
    BY <1>15
  <2>3. fetch[k].at = "read" => Fetching(k)
    BY DEF Fetching
  <2>4. cache'[k].loaded => Holds(cache'[k].rows, Real(i)) \/ Brings(q, i)
    <3>1. Brings(inbox, i) => Brings(q, i) \/ e = Posted(i)
      BY <1>5
    <3>2. /\ cache'[k].loaded = cache[k].loaded
          /\ Holds(cache[k].rows, Real(i)) => Holds(cache'[k].rows, Real(i))
          /\ cache[k].loaded /\ e = Posted(i) => Holds(cache'[k].rows, Real(i))
      BY <1>11
    <3> QED
      BY <2>1, <3>1, <3>2
  <2>5. fetch[k].at = "read" =>
          Real(i) \in fetch[k].rows \/ Brings(q, i) \/ Brings(again'[k], i)
    BY <1>5, <1>13, <2>1, <2>2, <2>3
  <2> QED
    BY <2>4, <2>5
<1>19. ASSUME NEW f \in Fields, Silent(q, f) PROVE ~Tells(e, f) => Silent(inbox, f)
  BY <1>5, <1>19
<1>20. ASSUME NEW f \in Fields, Silent(q, f), Tells(e, f) PROVE Value(e, f) = Truth[f]
  BY <1>1, <1>5, <1>20 DEF NewsInv
<1>21. ASSUME Silent(q, "lit"), e.kind = "reaction" PROVE mine => e.count > 0
  BY <1>1, <1>5, <1>21 DEF NewsInv
<1>22. \A k \in Caches : Fetching(k) => k \in Concerns(e) \/ e.kind = "message"
  BY DEF Concerns
<1>23. NewsInv'
  <2>1. \A f \in Fields : LastSays(q, f, Truth[f])
    BY <1>1, <1>5 DEF NewsInv
  <2>2. KeepsLit(q, mine)
    BY <1>1, <1>5 DEF NewsInv
  <2>3. ASSUME NEW k \in Caches, ~Fetching(k)
        PROVE  /\ \A f, v : LastSays(again'[k], f, v)
               /\ KeepsLit(again'[k], mine)
    <3>1. again'[k] = <<>>
      BY <1>13, <2>3
    <3> QED
      BY <3>1 DEF LastSays, KeepsLit
  <2>4. ASSUME NEW k \in Caches, Fetching(k), NEW f \in Fields, Silent(q, f)
        PROVE  LastSays(again'[k], f, Truth[f])
    <3>1. again[k] \in Seq(Broadcasts)
      BY <1>1 DEF PanelTypes
    <3>2. CASE Tells(e, f)
      <4>1. again'[k] = Append(again[k], e)
        BY <1>8, <1>12, <1>22, <2>4, <3>2
      <4> QED
        BY <1>5, <1>20, <2>4, <3>1, <3>2, <4>1, AppendSays
    <3>3. CASE ~Tells(e, f)
      <4>1. LastSays(again[k], f, Truth[f])
        BY <1>1, <1>19, <2>4, <3>3 DEF NewsInv
      <4>2. again'[k] = again[k] \/ again'[k] = Append(again[k], e)
        BY <1>12
      <4>3. LastSays(Append(again[k], e), f, Truth[f])
        BY <1>5, <3>1, <3>3, <4>1, AppendSays
      <4> QED
        BY <4>1, <4>2, <4>3
    <3> QED
      BY <3>2, <3>3
  <2>5. ASSUME NEW k \in Caches, Fetching(k), Silent(q, "lit")
        PROVE  KeepsLit(again'[k], mine)
    <3>0. "lit" \in Fields
      BY DEF Fields
    <3>1. again[k] \in Seq(Broadcasts)
      BY <1>1 DEF PanelTypes
    <3>2. Tells(e, "lit") \/ KeepsLit(again[k], mine)
      BY <1>1, <1>19, <2>5, <3>0 DEF NewsInv
    <3>3. CASE again'[k] = Append(again[k], e)
      BY <1>1, <1>5, <1>21, <2>5, <3>1, <3>2, <3>3, AppendSays
    <3>4. CASE again'[k] # Append(again[k], e)
      <4>1. again'[k] = again[k] /\ ~(k \in Concerns(e) /\ Fetching(k))
        BY <1>12, <3>4
      <4> QED
        BY <1>8, <1>22, <2>5, <3>2, <4>1
    <3> QED
      BY <3>3, <3>4
  <2>6. inbox' = q /\ mine' = mine
    BY <1>1, <1>4
  <2>7. ASSUME NEW k \in Caches
        PROVE  /\ \A f \in Fields : Silent(inbox', f) => LastSays(again'[k], f, Truth'[f])
               /\ Silent(inbox', "lit") => KeepsLit(again'[k], mine')
    BY <1>9, <2>3, <2>4, <2>5, <2>6
  <2> QED
    BY <1>9, <2>1, <2>2, <2>6, <2>7 DEF NewsInv
<1>24. CopyInv'
  <2> SUFFICES ASSUME NEW k \in Caches, cache'[k].loaded, k \notin late, NEW f \in Fields,
                      ~Clicked(k, f), Silent(q, f)
               PROVE  cache'[k].root[f] = Truth[f]
    BY <1>1, <1>4, <1>9 DEF CopyInv, Clicked
  <2>1. cache[k].loaded
    BY <1>11
  <2>2. ~Tells(e, f) => cache[k].root[f] = Truth[f]
    BY <1>1, <1>19, <2>1 DEF CopyInv
  <2>3. CASE f # "lit"
    BY <1>11, <1>20, <2>1, <2>2, <2>3 DEF Fields
  <2>4. CASE f = "lit"
    <3>1. Tells(e, "lit") => e.reacted = mine
      BY <1>10, <1>20, <2>4 DEF Value
    <3>2. ~Tells(e, "lit") => cache[k].root.lit = mine
      BY <1>10, <2>2, <2>4
    <3>3. Lights(e, cache[k].root.lit, mine)
      BY <1>21, <2>4, <3>1, <3>2 DEF Lights
    <3> QED
      BY <1>10, <1>11, <2>1, <2>4, <3>3
  <2> QED
    BY <2>3, <2>4
<1>25. ReadingInv'
  <2> SUFFICES ASSUME NEW k \in Caches, fetch[k].at = "read", NEW f \in Fields,
                      Silent(q, f), Silent(again'[k], f)
               PROVE  fetch[k].root[f] = Truth[f]
    BY <1>1, <1>4, <1>9 DEF ReadingInv
  <2>1. Fetching(k)
    BY DEF Fetching
  <2>2. ~Tells(e, f) /\ Silent(again[k], f)
    BY <1>8, <1>13, <1>22, <2>1
  <2> QED
    BY <1>1, <1>19, <2>2 DEF ReadingInv
<1>26. ToggleInv'
  <2> SUFFICES ASSUME toggle # NoToggle
               PROVE  /\ toggle.received <= received'
                      /\ ~toggle.stale /\ toggle.received = received' =>
                           \A f \in {"count", "lit"} : Silent(q, f) => toggle.before[f] = Truth[f]
                      /\ toggle.at = "served" =>
                           /\ toggle.made <= made
                           /\ toggle.made >= received' => \A f \in Fields :
                                Since(q, f, toggle.made) => toggle.answer[f] = Truth[f]
    BY <1>1, <1>4, <1>9 DEF ToggleInv
  <2>1. toggle.received <= received /\ toggle.received \in Nat
        /\ (toggle.at = "served" => toggle.made \in Nat /\ toggle.made <= made)
    BY <1>1 DEF ToggleInv, PanelTypes, Clicks, Answers, NoToggle
  <2>2. toggle.received <= received'
    BY <1>1, <1>7, <2>1
  <2>3. ASSUME ~toggle.stale, toggle.received = received', NEW f \in {"count", "lit"}, Silent(q, f)
        PROVE  toggle.before[f] = Truth[f]
    <3>1. received' = received
      BY <1>1, <1>7, <2>1, <2>3
    <3>2. e.kind = "message"
      <4>1. e.kind # "message" => received' = e.n /\ e.n \in received + 1 .. made
        BY <1>4, <1>6
      <4> QED
        BY <1>1, <3>1, <4>1
    <3>3. Silent(inbox, f)
      BY <1>5, <1>8, <2>3, <3>2
    <3> QED
      BY <1>1, <2>3, <3>1, <3>3 DEF ToggleInv
  <2>4. ASSUME toggle.at = "served", toggle.made >= received', NEW f \in Fields,
               Since(q, f, toggle.made)
        PROVE  toggle.answer[f] = Truth[f]
    <3>1. toggle.made >= received
      BY <1>1, <1>7, <2>1, <2>4
    <3>2. Tells(e, f) => e.n <= toggle.made
      <4>1. Tells(e, f) => received' = e.n
        BY <1>4, <1>8
      <4> QED
        BY <2>4, <4>1
    <3>3. Since(inbox, f, toggle.made)
      BY <1>6, <2>4, <3>2
    <3> QED
      BY <1>1, <2>4, <3>1, <3>3 DEF ToggleInv
  <2> QED
    BY <2>1, <2>2, <2>3, <2>4
<1> QED
  BY <1>7, <1>14, <1>16, <1>17, <1>18, <1>23, <1>24, <1>25, <1>26 DEF PanelInvariant

(* A fetch that is asked for, is read or fails. *)
LEMMA FetchKeeps ==
  ASSUME PanelInvariant, UNCHANGED <<serverVars, inbox, send, toggle, cache, late, received>>,
         fetch' \in [Caches -> {NoFetch, Asked} \cup Readings],
         again' \in [Caches -> Seq(Broadcasts)],
         \A k \in Caches : /\ again'[k] = again[k] \/ again'[k] = <<>>
                           /\ again'[k] # <<>> => fetch'[k].at # "no"
                           /\ fetch'[k].at = "read" =>
                                \/ fetch'[k] = fetch[k] /\ again'[k] = again[k]
                                \/ fetch'[k].rows = Belongs(k) /\ fetch'[k].root = Truth
  PROVE  PanelInvariant'
<1>1. /\ PanelTypes /\ PostInv /\ RowsInv /\ ArrivalInv /\ NewsInv /\ ReadingInv /\ CopyInv
      /\ ToggleInv /\ NumberInv
      /\ UNCHANGED <<stored, mine, theirs, made, inbox, send, toggle, cache, late, received>>
  BY DEF PanelInvariant, serverVars
<1>2. Truth' = Truth /\ (\A k : Belongs(k)' = Belongs(k)) /\ (\A k, f : Clicked(k, f)' <=> Clicked(k, f))
  BY <1>1 DEF Truth, Belongs, Clicked
<1>3. (\A i : ~Brings(<<>>, i)) /\ (\A f, v : LastSays(<<>>, f, v)) /\ (\A me : KeepsLit(<<>>, me))
  BY DEF Brings, LastSays, KeepsLit
<1> HIDE DEF Truth, Clicked, Brings, LastSays, KeepsLit, Silent
<1>4. PanelTypes'
  BY <1>1 DEF PanelTypes
<1>5. PostInv'
  <2>1. \A k \in Caches : /\ \A i : Brings(again'[k], i) => i \in stored /\ Home(i) = k
                          /\ again'[k] # <<>> => Fetching(k)'
    BY <1>1, <1>3 DEF PostInv, Fetching
  <2> QED
    BY <1>1, <2>1 DEF PostInv
<1>6. RowsInv'
  <2>1. \A k \in Caches : fetch'[k].at = "read" => fetch'[k].rows \subseteq Belongs(k)
    BY <1>1 DEF RowsInv
  <2> HIDE DEF Belongs, Home, Holds, Single, Real, Pending
  <2> QED
    BY <1>1, <1>2, <2>1 DEF RowsInv
<1>7. ArrivalInv'
  <2>1. \A k \in Caches, i \in stored : Home(i) = k => Real(i) \in Belongs(k)
    BY DEF Belongs
  <2>2. ASSUME NEW k \in Caches, NEW i \in stored, Home(i) = k, fetch'[k].at = "read"
        PROVE  Real(i) \in fetch'[k].rows \/ Brings(inbox, i) \/ Brings(again'[k], i)
    <3> HIDE DEF Home, Real, Belongs
    <3>1. CASE fetch'[k] = fetch[k] /\ again'[k] = again[k]
      BY <1>1, <2>2, <3>1 DEF ArrivalInv
    <3>2. CASE fetch'[k].rows = Belongs(k)
      BY <2>1, <2>2, <3>2
    <3> QED
      BY <2>2, <3>1, <3>2
  <2> HIDE DEF Home, Real, Holds
  <2> QED
    BY <1>1, <2>2 DEF ArrivalInv
<1>8. NumberInv'
  BY <1>1 DEF NumberInv
<1>9. NewsInv'
  <2>1. ASSUME NEW k \in Caches
        PROVE  /\ \A f \in Fields : Silent(inbox, f) => LastSays(again'[k], f, Truth[f])
               /\ Silent(inbox, "lit") => KeepsLit(again'[k], mine)
    BY <1>1, <1>3 DEF NewsInv
  <2> QED
    BY <1>1, <1>2, <2>1 DEF NewsInv
<1>10. CopyInv'
  BY <1>1, <1>2 DEF CopyInv
<1>11. ReadingInv'
  BY <1>1, <1>2 DEF ReadingInv
<1>12. ToggleInv'
  BY <1>1, <1>2 DEF ToggleInv
<1> QED
  BY <1>4, <1>5, <1>6, <1>7, <1>8, <1>9, <1>10, <1>11, <1>12 DEF PanelInvariant

LEMMA FetchTyped ==
  ASSUME PanelInvariant
  PROVE  /\ fetch \in [Caches -> {NoFetch, Asked} \cup Readings]
         /\ again \in [Caches -> Seq(Broadcasts)] /\ cache \in [Caches -> Copies]
         /\ \A k \in Caches : again[k] # <<>> => fetch[k].at # "no"
BY DEF PanelInvariant, PanelTypes, PostInv, Fetching

LEMMA RefetchKeeps ==
  ASSUME PanelInvariant, NEW k \in Caches, Refetch(k)
  PROVE  PanelInvariant'
<1>1. /\ UNCHANGED <<serverVars, inbox, send, toggle, cache, again, late, received>>
      /\ fetch' = fetch \/ fetch' = [fetch EXCEPT ![k] = Asked]
  BY DEF Refetch
<1>2. Asked.at = "asked"
  BY DEF Asked
<1>3. \A l \in Caches : fetch'[l] = fetch[l] \/ fetch'[l] = Asked
  BY <1>1, FetchTyped
<1>4. fetch' \in [Caches -> {NoFetch, Asked} \cup Readings]
  BY <1>1, FetchTyped
<1> HIDE DEF Asked
<1> QED
  BY <1>1, <1>2, <1>3, <1>4, FetchTyped, FetchKeeps

LEMMA ServeKeeps ==
  ASSUME PanelInvariant, NEW k \in Caches, Serve(k)
  PROVE  PanelInvariant'
<1>1. /\ UNCHANGED <<serverVars, inbox, send, toggle, cache, again, late, received>>
      /\ fetch[k].at = "asked"
  BY DEF Serve
<1>2. PICK r : r = [at |-> "read", root |-> Truth, rows |-> Belongs(k)]
  OBVIOUS
<1>3. fetch' = [fetch EXCEPT ![k] = r]
  BY <1>2 DEF Serve, Belongs
<1>4. r \in Readings /\ r.at = "read" /\ r.rows = Belongs(k) /\ r.root = Truth
  <2>1. Truth \in Roots
    BY TruthSays DEF Truth, PanelInvariant, PanelTypes
  <2>2. Belongs(k) \subseteq RowRecords
    BY RowIs DEF Belongs, PanelInvariant, PanelTypes
  <2> HIDE DEF Truth, Belongs
  <2> QED
    BY <1>2, <2>1, <2>2 DEF Readings
<1>5. /\ \A l \in Caches : l # k => fetch'[l] = fetch[l]
      /\ fetch'[k] = r /\ fetch' \in [Caches -> {NoFetch, Asked} \cup Readings]
  BY <1>3, <1>4, FetchTyped
<1> HIDE DEF Truth, Belongs
<1> QED
  BY <1>1, <1>4, <1>5, FetchTyped, FetchKeeps

LEMMA FetchFailsKeeps ==
  ASSUME PanelInvariant, NEW k \in Caches, FetchFails(k)
  PROVE  PanelInvariant'
<1>1. /\ UNCHANGED <<serverVars, inbox, send, toggle, cache, late, received>>
      /\ fetch' = [fetch EXCEPT ![k] = NoFetch] /\ again' = [again EXCEPT ![k] = <<>>]
  BY DEF FetchFails
<1>2. NoFetch.at = "no"
  BY DEF NoFetch
<1>3. /\ \A l \in Caches : l # k => fetch'[l] = fetch[l] /\ again'[l] = again[l]
      /\ fetch'[k] = NoFetch /\ again'[k] = <<>>
      /\ fetch' \in [Caches -> {NoFetch, Asked} \cup Readings]
      /\ again' \in [Caches -> Seq(Broadcasts)]
  BY <1>1, FetchTyped
<1> HIDE DEF NoFetch
<1> QED
  BY <1>1, <1>2, <1>3, FetchTyped, FetchKeeps

LEMMA LandKeeps ==
  ASSUME PanelInvariant, NEW k \in Caches, Land(k)
  PROVE  PanelInvariant'
<1>1. /\ PanelTypes /\ PostInv /\ RowsInv /\ ArrivalInv /\ NewsInv /\ ReadingInv /\ CopyInv
      /\ ToggleInv /\ NumberInv /\ fetch[k].at = "read" /\ mine \in BOOLEAN
      /\ UNCHANGED <<stored, mine, theirs, made, inbox, send, toggle, received>>
      /\ late' = late \ {k}
  BY DEF PanelInvariant, Land, serverVars, PanelTypes
<1>2. PICK q : q = again[k]
  OBVIOUS
<1>3. PICK rows : rows = SetToSeq(fetch[k].rows)
  OBVIOUS
<1>4. PICK c : c = [loaded |-> TRUE, root |-> fetch[k].root, rows |-> rows]
  OBVIOUS
<1>5. PICK landed : landed = [cache EXCEPT ![k] = c]
  OBVIOUS
<1>6. PICK new : new = Reapplied(landed, q)
  OBVIOUS
<1>7. /\ cache' = new /\ again' = [again EXCEPT ![k] = <<>>] /\ fetch' = [fetch EXCEPT ![k] = NoFetch]
  BY <1>2, <1>3, <1>4, <1>5, <1>6 DEF Land
<1>8. NoFetch.at = "no"
  BY DEF NoFetch
<1>9. /\ \A l \in Caches : l # k => fetch'[l] = fetch[l] /\ again'[l] = again[l]
      /\ fetch'[k].at = "no" /\ again'[k] = <<>>
      /\ fetch' \in [Caches -> {NoFetch, Asked} \cup Readings]
      /\ again' \in [Caches -> Seq(Broadcasts)] /\ q \in Seq(Broadcasts)
  BY <1>2, <1>7, <1>8, FetchTyped
<1>10. fetch[k].root \in Roots /\ fetch[k].rows \in SUBSET RowRecords
  <2>1. fetch[k] \in Readings
    BY <1>1, FetchTyped DEF NoFetch, Asked
  <2> QED
    BY <2>1 DEF Readings
<1>11. fetch[k].rows \subseteq Belongs(k)
  BY <1>1 DEF RowsInv
<1>12. /\ rows \in Seq(RowRecords) /\ Single(rows)
       /\ \A x : Holds(rows, x) <=> x \in fetch[k].rows
  <2>1. \A x \in fetch[k].rows : x = Real(x.id)
    BY <1>11, RowIs DEF Belongs
  <2> QED
    BY <1>3, <1>10, <2>1, ListSays
<1>13. c \in Copies /\ c.loaded /\ c.rows = rows /\ c.root = fetch[k].root
  BY <1>4, <1>10, <1>12 DEF Copies
<1>14. landed \in [Caches -> Copies] /\ landed[k] = c /\ \A l \in Caches : l # k => landed[l] = cache[l]
  BY <1>5, <1>13, FetchTyped
<1> HIDE DEF Brings, Holds, Single, Home, Real, Pending, Silent, LastSays, KeepsLit, Truth, Clicked, Belongs
<1>15. new \in [Caches -> Copies]
  BY <1>6, <1>9, <1>14, ReappliedRows
<1>16. ASSUME NEW l \in Caches
       PROVE  /\ new[l].loaded = landed[l].loaded
              /\ ~landed[l].loaded => new[l] = landed[l]
              /\ Single(landed[l].rows) => Single(new[l].rows)
              /\ \A x : Holds(new[l].rows, x) <=>
                   \/ Holds(landed[l].rows, x)
                   \/ landed[l].loaded /\ \E i : Brings(q, i) /\ Home(i) = l /\ x = Real(i)
  <2>1. Reapplies(landed[l], q, l, Reapplied(landed, q)[l])
    BY <1>9, <1>14, ReappliedRows
  <2> QED
    BY <1>6, <2>1 DEF Reapplies
<1>17. \A i : Brings(q, i) => i \in stored /\ Home(i) = k
  BY <1>1, <1>2 DEF PostInv
<1>18. /\ Truth' = Truth /\ \A l : Belongs(l)' = Belongs(l)
       /\ \A l, f : Clicked(l, f)' <=> Clicked(l, f)
  BY <1>1 DEF Truth, Belongs, Clicked
<1>19. (\A i : ~Brings(<<>>, i)) /\ (\A f, v : LastSays(<<>>, f, v)) /\ (\A me : KeepsLit(<<>>, me))
  BY DEF Brings, LastSays, KeepsLit
<1>20. PanelTypes'
  BY <1>1, <1>7, <1>9, <1>15 DEF PanelTypes
<1>21. PostInv'
  <2>1. \A l \in Caches : /\ \A i : Brings(again'[l], i) => i \in stored /\ Home(i) = l
                          /\ again'[l] # <<>> => Fetching(l)'
    BY <1>1, <1>9, <1>19 DEF PostInv, Fetching
  <2> QED
    BY <1>1, <2>1 DEF PostInv
<1>22. RowsInv'
  <2> SUFFICES ASSUME NEW l \in Caches
               PROVE  /\ Single(new[l].rows)
                      /\ new[l].loaded \/ new[l].rows = <<>>
                      /\ \A r : Holds(new[l].rows, r) =>
                           /\ r.id \in Ids /\ Home(r.id) = l
                           /\ \/ r = Real(r.id) /\ r.id \in stored
                              \/ r = Pending(r.id) /\ r.id \in Sends /\ send[r.id].at = "waiting"
                      /\ fetch'[l].at = "read" => fetch'[l].rows \subseteq Belongs(l)
    BY <1>1, <1>7, <1>18 DEF RowsInv
  <2>1. fetch'[l].at = "read" => fetch'[l].rows \subseteq Belongs(l)
    BY <1>1, <1>9 DEF RowsInv
  <2>2. Single(new[l].rows) /\ (new[l].loaded \/ new[l].rows = <<>>)
    BY <1>1, <1>12, <1>13, <1>14, <1>16 DEF RowsInv
  <2>3. ASSUME NEW r, Holds(new[l].rows, r)
        PROVE  /\ r.id \in Ids /\ Home(r.id) = l
               /\ \/ r = Real(r.id) /\ r.id \in stored
                  \/ r = Pending(r.id) /\ r.id \in Sends /\ send[r.id].at = "waiting"
    <3>1. CASE l # k
      <4>1. Holds(cache[l].rows, r)
        BY <1>14, <1>16, <1>17, <2>3, <3>1
      <4> QED
        BY <1>1, <4>1 DEF RowsInv
    <3>2. CASE l = k
      <4>1. \E i \in stored : Home(i) = k /\ r = Real(i)
        <5>1. CASE r \in fetch[k].rows
          BY <1>11, <5>1 DEF Belongs
        <5>2. CASE r \notin fetch[k].rows
          BY <1>12, <1>13, <1>14, <1>16, <1>17, <2>3, <3>2, <5>2
        <5> QED
          BY <5>1, <5>2
      <4>2. PICK i \in stored : Home(i) = k /\ r = Real(i)
        BY <4>1
      <4>3. i \in Ids /\ r.id = i
        BY <1>1, <4>2, RowIs DEF PanelTypes
      <4> QED
        BY <3>2, <4>2, <4>3
    <3> QED
      BY <3>1, <3>2
  <2> QED
    BY <2>1, <2>2, <2>3
<1>23. ArrivalInv'
  <2> SUFFICES ASSUME NEW l \in Caches, NEW i \in stored, Home(i) = l
               PROVE  /\ new[l].loaded => Holds(new[l].rows, Real(i)) \/ Brings(inbox, i)
                      /\ fetch'[l].at = "read" =>
                           Real(i) \in fetch'[l].rows \/ Brings(inbox, i) \/ Brings(again'[l], i)
    BY <1>1, <1>7 DEF ArrivalInv
  <2>1. CASE l # k
    <3>1. /\ cache[l].loaded => Holds(cache[l].rows, Real(i)) \/ Brings(inbox, i)
          /\ fetch[l].at = "read" =>
               Real(i) \in fetch[l].rows \/ Brings(inbox, i) \/ Brings(again[l], i)
      BY <1>1 DEF ArrivalInv
    <3> QED
      BY <1>9, <1>14, <1>16, <2>1, <3>1
  <2>2. CASE l = k
    <3>1. Real(i) \in fetch[k].rows \/ Brings(inbox, i) \/ Brings(q, i)
      BY <1>1, <1>2, <2>2 DEF ArrivalInv
    <3>2. Holds(new[k].rows, Real(i)) \/ Brings(inbox, i)
      BY <1>12, <1>13, <1>14, <1>16, <2>2, <3>1
    <3> QED
      BY <1>9, <2>2, <3>2
  <2> QED
    BY <2>1, <2>2
<1>24. NumberInv'
  BY <1>1 DEF NumberInv
<1>25. NewsInv'
  <2>1. ASSUME NEW l \in Caches
        PROVE  /\ \A f \in Fields : Silent(inbox, f) => LastSays(again'[l], f, Truth[f])
               /\ Silent(inbox, "lit") => KeepsLit(again'[l], mine)
    BY <1>1, <1>9, <1>19 DEF NewsInv
  <2> QED
    BY <1>1, <1>18, <2>1 DEF NewsInv
<1>26. ASSUME NEW l \in Caches, new[l].loaded, l \notin late \ {k}, NEW f \in Fields,
              ~Clicked(l, f), Silent(inbox, f)
       PROVE  new[l].root[f] = Truth[f]
  <2>1. landed[l].loaded
    BY <1>16, <1>26
  <2>2. Silent(q, f) => landed[l].root[f] = Truth[f]
    <3>1. CASE l = k
      BY <1>1, <1>2, <1>13, <1>14, <1>26, <3>1 DEF ReadingInv
    <3>2. CASE l # k
      BY <1>1, <1>14, <1>26, <2>1, <3>2 DEF CopyInv
    <3> QED
      BY <3>1, <3>2
  <2>3. LastSays(q, f, Truth[f])
    BY <1>1, <1>2, <1>26 DEF NewsInv
  <2>4. CASE f # "lit"
    <3>1. f \in {"replies", "count"}
      BY <2>4 DEF Fields
    <3> QED
      BY <1>6, <1>9, <1>14, <2>1, <2>2, <2>3, <3>1, ReappliedRoot
  <2>5. CASE f = "lit"
    <3>1. Truth["lit"] = mine
      BY <1>1, TruthSays DEF Truth, PanelTypes
    <3>2. KeepsLit(q, mine) /\ LastSays(q, "lit", mine)
      BY <1>1, <1>2, <1>26, <2>3, <2>5, <3>1 DEF NewsInv
    <3>3. Silent(q, "lit") => landed[l].root.lit = mine
      BY <2>2, <2>5, <3>1
    <3>4. Reapplied(landed, q)[l].root.lit = mine
      BY <1>1, <1>9, <1>14, <2>1, <3>2, <3>3, ReappliedLit
    <3> QED
      BY <1>6, <2>5, <3>1, <3>4
  <2> QED
    BY <2>4, <2>5
<1>27. CopyInv'
  BY <1>1, <1>7, <1>18, <1>26 DEF CopyInv
<1>28. ReadingInv'
  <2>1. ASSUME NEW l \in Caches, fetch'[l].at = "read" PROVE fetch'[l] = fetch[l] /\ again'[l] = again[l]
    BY <1>9, <2>1
  <2> QED
    BY <1>1, <1>18, <2>1 DEF ReadingInv
<1>29. ToggleInv'
  BY <1>1, <1>18 DEF ToggleInv
<1> QED
  BY <1>20, <1>21, <1>22, <1>23, <1>24, <1>25, <1>27, <1>28, <1>29 DEF PanelInvariant

-----------------------------------------------------------------------------
(* The invariant, and what follows. *)

LEMMA PanelStarts ==
  ASSUME PanelInit
  PROVE  PanelInvariant
<1>1. /\ stored = {} /\ mine = FALSE /\ theirs = FALSE /\ made = 0 /\ inbox = <<>>
      /\ send = [s \in Sends |-> [at |-> "no", server |-> "no"]]
      /\ toggle = NoToggle /\ late = {} /\ received = 0
      /\ again = [k \in Caches |-> <<>>]
  BY DEF PanelInit
<1>2. PICK root : root = Root({}, FALSE, FALSE)
  OBVIOUS
<1>3. root \in Roots /\ root = Truth
  BY <1>1, <1>2, TruthSays DEF Truth
<1>4. /\ fetch = [k \in Caches |-> IF k = "thread" THEN Asked ELSE NoFetch]
      /\ cache = [k \in Caches |-> [loaded |-> k = "history", rows |-> <<>>, root |-> root]]
  BY <1>2 DEF PanelInit
<1>5. ASSUME NEW k \in Caches
      PROVE  /\ cache[k] \in Copies /\ cache[k].rows = <<>> /\ cache[k].root = Truth
             /\ fetch[k] \in {NoFetch, Asked} /\ fetch[k].at # "read" /\ again[k] = <<>>
  <2>1. CASE k = "thread"
    <3>1. cache[k] = [loaded |-> FALSE, rows |-> <<>>, root |-> root]
      BY <1>4, <2>1
    <3>2. fetch[k] = Asked
      BY <1>4, <2>1
    <3> QED
      BY <1>1, <1>3, <3>1, <3>2 DEF Copies, Asked
  <2>2. CASE k = "history"
    <3>1. cache[k] = [loaded |-> TRUE, rows |-> <<>>, root |-> root]
      BY <1>4, <2>2
    <3>2. fetch[k] = NoFetch
      BY <1>4, <2>2
    <3> QED
      BY <1>1, <1>3, <3>1, <3>2 DEF Copies, NoFetch
  <2> QED
    BY <2>1, <2>2 DEF Caches
<1>6. DOMAIN <<>> = {} /\ <<>> \in Seq(Broadcasts)
  OBVIOUS
<1>7. /\ \A i : ~Brings(<<>>, i)
      /\ \A f, v : LastSays(<<>>, f, v)
      /\ \A me : KeepsLit(<<>>, me)
      /\ Numbered(<<>>, 0, 0) /\ Single(<<>>) /\ \A x : ~Holds(<<>>, x)
  BY <1>6 DEF Brings, LastSays, KeepsLit, Numbered, Single, Holds
<1>8. PanelTypes
  <2>1. cache \in [Caches -> Copies]
    BY <1>4, <1>5
  <2>2. fetch \in [Caches -> {NoFetch, Asked} \cup Readings]
    BY <1>4, <1>5
  <2>3. again \in [Caches -> Seq(Broadcasts)]
    BY <1>1, <1>6
  <2>4. send \in [Sends -> [at : {"no", "waiting", "over"},
                            server : {"no", "asked", "saved", "refused"}]]
    BY <1>1
  <2>5. received \in 0 .. made /\ made \in Nat
    BY <1>1
  <2> QED
    BY <1>1, <1>6, <2>1, <2>2, <2>3, <2>4, <2>5 DEF PanelTypes
<1> HIDE DEF Truth, Brings, LastSays, KeepsLit, Numbered, Single, Holds
<1>9. PostInv
  <2>1. \A s \in Sends : send[s].server # "saved"
    BY <1>1
  <2> QED
    BY <1>1, <1>5, <1>7, <2>1 DEF PostInv
<1>10. RowsInv
  BY <1>5, <1>7 DEF RowsInv
<1>11. ArrivalInv
  BY <1>1 DEF ArrivalInv
<1>12. NumberInv
  BY <1>1, <1>7 DEF NumberInv
<1>13. NewsInv
  BY <1>1, <1>5, <1>7 DEF NewsInv
<1>14. CopyInv
  BY <1>5 DEF CopyInv
<1>15. ReadingInv
  BY <1>5 DEF ReadingInv
<1>16. ToggleInv
  BY <1>1 DEF ToggleInv
<1> QED
  BY <1>8, <1>9, <1>10, <1>11, <1>12, <1>13, <1>14, <1>15, <1>16 DEF PanelInvariant

LEMMA PanelStutters ==
  ASSUME PanelInvariant, UNCHANGED panelVars
  PROVE  PanelInvariant'
<1> USE DEF panelVars, serverVars
<1>1. Truth' = Truth
  BY DEF Truth
<1> HIDE DEF Truth
<1>2. PanelTypes' /\ PostInv' /\ RowsInv' /\ ArrivalInv'
  BY DEF PanelInvariant, PanelTypes, PostInv, RowsInv, ArrivalInv, Belongs, Fetching
<1>3. NumberInv' /\ NewsInv' /\ CopyInv' /\ ReadingInv' /\ ToggleInv'
  BY <1>1 DEF PanelInvariant, NumberInv, NewsInv, CopyInv, Clicked, ReadingInv, ToggleInv
<1> QED
  BY <1>2, <1>3 DEF PanelInvariant

(* Every row is a message's, committed, or a send's, waiting, once and in  *)
(* its own cache; what a cache does not show is on its way to it.  Each    *)
(* copy of the root that is not late shows, field by field, what the       *)
(* server has, or the last broadcast about that field is on its way and    *)
(* right.                                                                  *)
THEOREM PanelIsInvariant == PanelSpec => []PanelInvariant
<1>1. PanelInit => PanelInvariant
  BY PanelStarts
<1>2. PanelInvariant /\ [PanelNext]_panelVars => PanelInvariant'
  <2> SUFFICES ASSUME PanelInvariant, PanelNext PROVE PanelInvariant'
    BY PanelStutters
  <2>1. ASSUME NEW i \in Others, Post(i) PROVE PanelInvariant'
    BY <2>1, PostKeeps
  <2>2. CASE React
    BY <2>2, ReactKeeps
  <2>3. ASSUME NEW s \in Sends, Send(s) \/ Save(s) \/ Refuse(s) \/ Acked(s) \/ RollBack(s)
        PROVE  PanelInvariant'
    BY <2>3, SendKeeps, SaveKeeps, RefuseKeeps, AckedKeeps, RollBackKeeps
  <2>4. ASSUME NEW from \in Caches, Click(from) PROVE PanelInvariant'
    BY <2>4, ClickKeeps
  <2>5. CASE ServeToggle \/ Answered \/ ToggleFails
    BY <2>5, ServeToggleKeeps, AnsweredKeeps, ToggleFailsKeeps
  <2>6. CASE Receive
    BY <2>6, ReceiveKeeps
  <2>7. ASSUME NEW k \in Caches, Refetch(k) \/ Serve(k) \/ Land(k) \/ FetchFails(k)
        PROVE  PanelInvariant'
    BY <2>7, RefetchKeeps, ServeKeeps, LandKeeps, FetchFailsKeeps
  <2> QED
    BY <2>1, <2>2, <2>3, <2>4, <2>5, <2>6, <2>7 DEF PanelNext
<1> QED
  BY <1>1, <1>2, PTL DEF PanelSpec

(* useMessages.ts, threadCache.ts: a send is one row whichever of the      *)
(* placeholder, the ack, the broadcast and a refetch brings it, and its    *)
(* placeholder goes as it is over.                                         *)
THEOREM SendsShowOnce == PanelSpec => []OnceEach
<1>1. PanelInvariant => OnceEach
  <2> SUFFICES ASSUME PanelInvariant PROVE OnceEach
    OBVIOUS
  <2>1. PanelTypes /\ PostInv /\ RowsInv
    BY DEF PanelInvariant
  <2>2. PanelTypeOK
    <3>1. ASSUME NEW k \in Caches
          PROVE  /\ fetch[k].at \in {"no", "asked", "read"}
                 /\ again[k] # <<>> => Fetching(k)
                 /\ cache[k].loaded \in BOOLEAN
      BY <2>1 DEF PanelTypes, PostInv, NoFetch, Asked, Readings, Copies
    <3>2. toggle.at \in {"no", "asked", "served"}
      BY <2>1 DEF PanelTypes, NoToggle, Clicks, Answers
    <3>3. \A s \in Sends : /\ send[s].at \in {"no", "waiting", "over"}
                           /\ send[s].server \in {"no", "asked", "saved", "refused"}
      BY <2>1 DEF PanelTypes
    <3>4. /\ stored \subseteq Ids /\ {mine, theirs} \subseteq BOOLEAN
          /\ made \in Nat /\ received \in 0 .. made /\ late \subseteq Caches
      BY <2>1 DEF PanelTypes
    <3> QED
      BY <3>1, <3>2, <3>3, <3>4 DEF PanelTypeOK
  <2>3. ASSUME NEW k \in Caches, NEW a \in DOMAIN cache[k].rows
        PROVE  LET r == cache[k].rows[a] IN
               Home(r.id) = k /\ IF r.temp THEN send[r.id].at = "waiting" ELSE r.id \in stored
    <3>1. PICK r : r = cache[k].rows[a]
      OBVIOUS
    <3>2. Holds(cache[k].rows, r)
      BY <3>1 DEF Holds
    <3>3. /\ Home(r.id) = k
          /\ \/ r = Real(r.id) /\ r.id \in stored
             \/ r = Pending(r.id) /\ send[r.id].at = "waiting"
      BY <2>1, <3>2 DEF RowsInv
    <3>4. (r = Real(r.id) => ~r.temp) /\ (r = Pending(r.id) => r.temp)
      BY DEF Real, Pending
    <3> HIDE DEF Home, Real, Pending
    <3>5. Home(r.id) = k /\ IF r.temp THEN send[r.id].at = "waiting" ELSE r.id \in stored
      BY <3>3, <3>4
    <3> QED
      BY <3>1, <3>5
  <2>4. \A k \in Caches : Single(cache[k].rows)
    BY <2>1 DEF RowsInv
  <2> QED
    BY <2>2, <2>3, <2>4 DEF OnceEach, Single
<1> QED
  BY <1>1, PanelIsInvariant, PTL

(* Once nothing is on its way, each cache shows exactly what was saved.    *)
THEOREM RowsAreSettled == PanelSpec => []RowsSettle
<1>1. PanelInvariant => RowsSettle
  <2> SUFFICES ASSUME PanelInvariant, Quiet, NEW k \in Caches, cache[k].loaded
               PROVE  {cache[k].rows[a] : a \in DOMAIN cache[k].rows} = Belongs(k)
    BY DEF RowsSettle, Belongs
  <2>1. inbox = <<>> /\ (\A s \in Sends : send[s].at # "waiting") /\ RowsInv /\ ArrivalInv
    BY DEF Quiet, PanelInvariant
  <2>2. \A i : ~Brings(inbox, i)
    BY <2>1 DEF Brings
  <2>3. ASSUME NEW x, Holds(cache[k].rows, x) PROVE x \in Belongs(k)
    <3>1. x = Real(x.id) /\ x.id \in stored /\ Home(x.id) = k
      BY <2>1, <2>3 DEF RowsInv
    <3> QED
      BY <3>1 DEF Belongs
  <2>4. ASSUME NEW i \in stored, Home(i) = k PROVE Holds(cache[k].rows, Real(i))
    BY <2>1, <2>2, <2>4 DEF ArrivalInv
  <2>5. \A x : Holds(cache[k].rows, x) <=> x \in {cache[k].rows[a] : a \in DOMAIN cache[k].rows}
    BY DEF Holds
  <2>6. \A x \in Belongs(k) : Holds(cache[k].rows, x)
    BY <2>4 DEF Belongs
  <2> QED
    BY <2>3, <2>5, <2>6
<1> QED
  BY <1>1, PanelIsInvariant, PTL

(* Both copies of the root settle on what the server has, unless the last  *)
(* writer was older than a broadcast already received.                     *)
THEOREM RootsAreSettled == PanelSpec => []RootSettles
<1>1. PanelInvariant => RootSettles
  <2> SUFFICES ASSUME PanelInvariant, Quiet, NEW k \in Caches \ late, cache[k].loaded
               PROVE  cache[k].root = Truth
    BY DEF RootSettles
  <2>1. PanelTypes /\ CopyInv /\ toggle = NoToggle /\ inbox = <<>>
    BY DEF Quiet, PanelInvariant
  <2>2. \A f : ~Clicked(k, f) /\ Silent(inbox, f)
    BY <2>1 DEF Clicked, Silent
  <2>3. PICK root : root = Truth
    OBVIOUS
  <2>4. root \in Roots
    BY <2>1, <2>3, TruthSays DEF Truth, PanelTypes
  <2> HIDE DEF Truth, Silent, Clicked
  <2>5. \A f \in Fields : cache[k].root[f] = root[f]
    BY <2>1, <2>2, <2>3 DEF CopyInv
  <2>6. cache[k].root \in Roots
    BY <2>1 DEF PanelTypes, Copies
  <2>7. cache[k].root = root
    BY <2>4, <2>5, <2>6 DEF Roots, Fields
  <2> QED
    BY <2>3, <2>7
<1> QED
  BY <1>1, PanelIsInvariant, PTL
=============================================================================
