------------------------------ MODULE RoomCounts ------------------------------
(***************************************************************************)
(* What the Messaging service broadcasts about one message besides its     *)
(* text: how many people reacted to it with one emoji (reactions.py,       *)
(* routers/reactions.py) and how many replies its thread has (threads.py,  *)
(* routers/messages.py).                                                   *)
(*                                                                         *)
(* Each request runs in a READ COMMITTED transaction of its own: what it   *)
(* reads is what is committed at that statement and what it wrote itself,  *)
(* and a statement that writes a row another transaction has written waits *)
(* for that transaction.  The message's counts are read before the commit  *)
(* and broadcast after it; only a reply's summary is read after the commit.*)
(***************************************************************************)
EXTENDS Naturals, FiniteSets

CONSTANTS
  Users,      \* who may react
  Author,     \* who may edit the message
  Replies,    \* ids of replies, bounds how many there are at once
  Handlers,   \* request handlers that may be running at once
  MayDie      \* whether one may die between its commit and its broadcast

ASSUME RoomAssumption ==
  /\ IsFiniteSet(Users) /\ IsFiniteSet(Replies)
  /\ Author \in Users
  /\ MayDie \in BOOLEAN

VARIABLES
  (* committed *)
  deleted,      \* whether the message is a tombstone
  reactions,    \* the people with a reaction row
  replies,      \* its thread's replies that are not deleted
  (* the request handlers *)
  at, op,
  adds, removals,  \* reaction rows inserted and deleted, not yet committed
  seen,         \* the counts read to be broadcast: reacted people, number of replies
  (* what the windows of the channel show *)
  shown,        \* the number of reactions and of replies
  lit,          \* in whose window the chip is lit
  (* history, not in the code *)
  passed,       \* the counts each handler read that a commit has changed since
  disturbed,    \* the counts last broadcast so, or never, their handler having died
  racing,       \* whose reaction was being added as the message was deleted
  owed          \* whether no broadcast has carried the thread's count yet

committed == <<deleted, reactions, replies>>
running   == <<at, op, adds, removals, seen>>
windows   == <<shown, lit>>
history   == <<passed, disturbed, racing, owed>>
roomVars == <<committed, running, windows, history>>

-----------------------------------------------------------------------------
Op(kind, who) == [kind |-> kind, who |-> who]

NoOp == Op("none", Author)

Nothing == [reactions |-> {}, replies |-> 0]

RoomInit ==
  /\ deleted = FALSE
  /\ reactions = {}
  /\ replies = {}
  /\ at = [h \in Handlers |-> "idle"]
  /\ op = [h \in Handlers |-> NoOp]
  /\ adds = [h \in Handlers |-> {}]
  /\ removals = [h \in Handlers |-> {}]
  /\ seen = [h \in Handlers |-> Nothing]
  /\ shown = [reactions |-> 0, replies |-> 0]
  /\ lit = {}
  /\ passed = [h \in Handlers |-> {}]
  /\ disturbed = {}
  /\ racing = {}
  /\ owed = FALSE

Quiet == \A h \in Handlers : at[h] = "idle"

Running(h, label, kinds) == at[h] = label /\ op[h].kind \in kinds

GoTo(h, label) == at' = [at EXCEPT ![h] = label]

(* Reaction rows other transactions have deleted, or have written at all,  *)
(* and not yet committed.                                                  *)
Dropped(h) == UNION {removals[g] : g \in Handlers \ {h}}

Written(h) == Dropped(h) \cup UNION {adds[g] : g \in Handlers \ {h}}

(* Another transaction has updated the message's row. *)
RowHeld(h) ==
  \E g \in Handlers \ {h} :
    Running(g, "wrote", {"edit", "erase"}) \/ Running(g, "counted", {"edit", "erase"})

(* A delete has written its tombstone and not committed it. *)
Tombstoned == \E g \in Handlers : Running(g, "wrote", {"erase"}) \/ Running(g, "counted", {"erase"})

Begin(h, o) ==
  /\ at[h] = "idle"
  /\ GoTo(h, "loaded")
  /\ op' = [op EXCEPT ![h] = o]
  /\ racing' = IF o.kind = "react" /\ Tombstoned THEN racing \cup {o.who} ELSE racing
  /\ UNCHANGED <<committed, adds, removals, seen, windows, passed, disturbed, owed>>

Finish(h) ==
  /\ GoTo(h, "idle")
  /\ op' = [op EXCEPT ![h] = NoOp]
  /\ adds' = [adds EXCEPT ![h] = {}]
  /\ removals' = [removals EXCEPT ![h] = {}]
  /\ seen' = [seen EXCEPT ![h] = Nothing]
  /\ passed' = [passed EXCEPT ![h] = {}]

(* The counts a request of a kind broadcasts, and whether it has read     *)
(* them: a reply's summary is read after its commit.                       *)
Carried(o) == CASE o.kind \in {"react", "unreact"} -> {"reactions"}
                [] o.kind \in {"reply", "retract"} -> {"replies"}
                [] OTHER                           -> {"reactions", "replies"}

HasRead(h) == at[h] \in {"counted", "read"} \/ (at[h] = "committed" /\ "reactions" \in Carried(op[h]))

(* A commit of h changes a count that other handlers have read.            *)
Passes(h, count) ==
  passed' = [g \in Handlers |->
    IF g # h /\ HasRead(g) THEN passed[g] \cup ({count} \cap Carried(op[g])) ELSE passed[g]]

-----------------------------------------------------------------------------
(* A request up to its first write. *)

(* Mutant: the tombstone check is left out. *)
LoadReactUnchecked(h, u) == Begin(h, Op("react", u))

MayReact == ~deleted

(* add_reaction: may_react refuses a tombstone. *)
LoadReact(h, u) == MayReact /\ Begin(h, Op("react", u))

(* remove_reaction: no tombstone check. *)
LoadUnreact(h, u) == Begin(h, Op("unreact", u))

(* edit: check_editable refuses a tombstone. *)
LoadEdit(h) == ~deleted /\ Begin(h, Op("edit", Author))

(* delete: a tombstone is answered as it is, "again". *)
LoadErase(h) == Begin(h, Op(IF deleted THEN "again" ELSE "erase", Author))

LoadRetract(h, p) == p \in replies /\ Begin(h, Op("retract", p))

-----------------------------------------------------------------------------
(* Reactions, edits and the delete of the message. *)

(* add: INSERT ... ON CONFLICT DO NOTHING. *)
Insert(h) ==
  /\ Running(h, "loaded", {"react"})
  /\ op[h].who \notin Written(h)
  /\ adds' = [adds EXCEPT ![h] = {op[h].who} \ reactions]
  /\ GoTo(h, "wrote")
  /\ UNCHANGED <<committed, op, removals, seen, windows, history>>

(* remove: a row another transaction has inserted is not there to delete.  *)
Drop(h) ==
  /\ Running(h, "loaded", {"unreact"})
  /\ op[h].who \notin Dropped(h)
  /\ removals' = [removals EXCEPT ![h] = {op[h].who} \cap reactions]
  /\ GoTo(h, "wrote")
  /\ UNCHANGED <<committed, op, adds, seen, windows, history>>

(* UPDATE ... WHERE version = expected: a delete committed since the load  *)
(* has moved the version; another edit may have, and is a Refused.         *)
Rewrite(h) ==
  /\ Running(h, "loaded", {"edit"})
  /\ ~RowHeld(h) /\ ~deleted
  /\ GoTo(h, "wrote")
  /\ UNCHANGED <<committed, op, adds, removals, seen, windows, history>>

Adding == {op[g].who : g \in {g \in Handlers : op[g].kind = "react" /\ at[g] # "committed"}}

(* UPDATE ... WHERE deleted_at IS NULL, whose rowcount is not looked at,   *)
(* then clear_for_message, which sees the rows committed as it starts.     *)
Tombstone(h) ==
  /\ Running(h, "loaded", {"erase"})
  /\ ~RowHeld(h)
  /\ removals' = [removals EXCEPT ![h] = reactions]
  /\ racing' = IF deleted THEN racing ELSE Adding
  /\ GoTo(h, "wrote")
  /\ UNCHANGED <<committed, op, adds, seen, windows, passed, disturbed, owed>>

(* Mutant: the count leaves out what this transaction wrote. *)
SummariesCommittedOnly(h) == reactions

(* summaries_for: what is committed and what this transaction wrote. *)
Summaries(h) == (reactions \cup adds[h]) \ removals[h]

(* _respond, _one_with_reactions: the response and with it the broadcast   *)
(* are built from what is read here.  A delete first waits for the rows it *)
(* clears, and broadcasts no reactions; a repeat has written nothing.      *)
Summarise(h) ==
  /\ \/ Running(h, "wrote", {"react", "unreact", "edit"})
     \/ Running(h, "wrote", {"erase"}) /\ removals[h] \cap Dropped(h) = {}
     \/ Running(h, "loaded", {"again"})
  /\ seen' = [seen EXCEPT ![h] =
       [reactions |-> IF op[h].kind \in {"erase", "again"} THEN {} ELSE Summaries(h),
        replies   |-> IF "replies" \in Carried(op[h]) THEN Cardinality(replies) ELSE 0]]
  /\ GoTo(h, "counted")
  /\ UNCHANGED <<committed, op, adds, removals, windows, history>>

(* The rows of a transaction become everyone's. *)
Kept(h) == (reactions \cup adds[h]) \ removals[h]

Commit(h) ==
  /\ at[h] = "counted"
  /\ reactions' = Kept(h)
  /\ deleted' = (deleted \/ op[h].kind = "erase")
  /\ adds' = [adds EXCEPT ![h] = {}]
  /\ removals' = [removals EXCEPT ![h] = {}]
  /\ GoTo(h, "committed")
  /\ IF Kept(h) = reactions THEN UNCHANGED passed ELSE Passes(h, "reactions")
  /\ UNCHANGED <<replies, op, seen, windows, disturbed, racing, owed>>

Tells(h) ==
  /\ disturbed' = (disturbed \ Carried(op[h])) \cup passed[h]
  /\ owed' = (owed /\ ~("replies" \in Carried(op[h]) /\ seen[h].replies = Cardinality(replies)))
  /\ UNCHANGED racing

(* publish_reaction_changed: a count, set and never added, and the state   *)
(* of the one person who clicked; a chip at zero goes out everywhere.      *)
PublishReaction(h) ==
  /\ Running(h, "committed", {"react", "unreact"})
  /\ shown' = [shown EXCEPT !.reactions = Cardinality(seen[h].reactions)]
  /\ lit' = CASE seen[h].reactions = {}             -> {}
              [] seen[h].reactions # {} /\ op[h].who \in seen[h].reactions
                                                    -> lit \cup {op[h].who}
              [] OTHER                              -> lit \ {op[h].who}
  /\ Tells(h)
  /\ Finish(h)
  /\ UNCHANGED committed

(* publish_message_edited and publish_message_deleted send the response,   *)
(* which replaces the message in every window: its counts, and whether the *)
(* person the response is for had reacted.                                 *)
PublishMessage(h) ==
  /\ Running(h, "committed", {"edit", "erase", "again"})
  /\ shown' = [reactions |-> Cardinality(seen[h].reactions), replies |-> seen[h].replies]
  /\ lit' = IF Author \in seen[h].reactions THEN Users ELSE {}
  /\ Tells(h)
  /\ Finish(h)
  /\ UNCHANGED committed

-----------------------------------------------------------------------------
(* Replies *)

(* resolve_root, which takes a tombstone too, create, and the commit: the  *)
(* new row is nobody else's until then.  An id stands for another reply    *)
(* once its own is deleted and nobody works on it.                         *)
PostReply(h, p) ==
  /\ at[h] = "idle"
  /\ p \notin replies /\ \A g \in Handlers : op[g].who # p
  /\ replies' = replies \cup {p}
  /\ GoTo(h, "committed")
  /\ op' = [op EXCEPT ![h] = Op("reply", p)]
  /\ Passes(h, "replies")
  /\ owed' = TRUE
  /\ UNCHANGED <<deleted, reactions, adds, removals, seen, windows, disturbed, racing>>

(* delete of a reply: its guarded UPDATE and the commit. *)
Retract(h) ==
  /\ Running(h, "loaded", {"retract"})
  /\ replies' = replies \ {op[h].who}
  /\ owed' = TRUE
  /\ GoTo(h, "committed")
  /\ IF op[h].who \in replies THEN Passes(h, "replies") ELSE UNCHANGED passed
  /\ UNCHANGED <<deleted, reactions, op, adds, removals, seen, windows, disturbed, racing>>

(* Mutant: the count is worked out from the one last broadcast. *)
CountOn(h) ==
  /\ Running(h, "committed", {"reply", "retract"})
  /\ seen' = [seen EXCEPT ![h].replies =
       IF op[h].kind = "reply" THEN shown.replies + 1 ELSE shown.replies - 1]
  /\ GoTo(h, "read")
  /\ UNCHANGED <<committed, op, adds, removals, windows, history>>

(* publish_reply_summary reads in the session's next transaction. *)
ReadSummary(h) ==
  /\ Running(h, "committed", {"reply", "retract"})
  /\ seen' = [seen EXCEPT ![h].replies = Cardinality(replies)]
  /\ GoTo(h, "read")
  /\ UNCHANGED <<committed, op, adds, removals, windows, history>>

(* publish_thread_summary_changed. *)
PublishSummary(h) ==
  /\ at[h] = "read"
  /\ shown' = [shown EXCEPT !.replies = seen[h].replies]
  /\ Tells(h)
  /\ Finish(h)
  /\ UNCHANGED <<committed, lit>>

-----------------------------------------------------------------------------
(* The request is refused after its load, or its session fails: nothing of *)
(* it is committed.                                                        *)
Refused(h) ==
  /\ at[h] \in {"loaded", "wrote", "counted"}
  /\ Finish(h)
  /\ UNCHANGED <<committed, windows, disturbed, racing, owed>>

(* The process dies, or the emit raises, after the commit. *)
Dies(h) ==
  /\ MayDie
  /\ at[h] \in {"committed", "read"}
  /\ disturbed' = disturbed \cup
       (IF op[h].kind \in {"edit", "erase", "again"} THEN {} ELSE Carried(op[h]))
  /\ owed' = (owed /\ op[h].kind \notin {"reply", "retract"})
  /\ Finish(h)
  /\ UNCHANGED <<committed, windows, racing>>

RoomNext ==
  \E h \in Handlers :
    \/ \E u \in Users : LoadReact(h, u) \/ LoadUnreact(h, u)
    \/ \E p \in Replies : PostReply(h, p) \/ LoadRetract(h, p)
    \/ LoadEdit(h) \/ LoadErase(h)
    \/ Insert(h) \/ Drop(h) \/ Rewrite(h) \/ Tombstone(h)
    \/ Summarise(h) \/ Commit(h) \/ PublishReaction(h) \/ PublishMessage(h)
    \/ Retract(h) \/ ReadSummary(h) \/ PublishSummary(h)
    \/ Refused(h) \/ Dies(h)

RoomSpec == RoomInit /\ [][RoomNext]_roomVars

-----------------------------------------------------------------------------
(* Properties *)

Kinds == {"none", "react", "unreact", "edit", "erase", "again", "reply", "retract"}

(* Type invariant; a transaction's own rows are what its request asks for, *)
(* and no two transactions have written one reaction row.                  *)
RoomTypeOK ==
  /\ deleted \in BOOLEAN
  /\ reactions \subseteq Users
  /\ replies \subseteq Replies
  /\ at \in [Handlers -> {"idle", "loaded", "wrote", "counted", "committed", "read"}]
  /\ op \in [Handlers -> [kind : Kinds, who : Users \cup Replies]]
  /\ adds \in [Handlers -> SUBSET Users]
  /\ removals \in [Handlers -> SUBSET Users]
  /\ seen \in [Handlers -> [reactions : SUBSET Users, replies : 0 .. Cardinality(Replies)]]
  /\ shown \in [reactions : 0 .. Cardinality(Users), replies : 0 .. Cardinality(Replies)]
  /\ lit \subseteq Users
  /\ passed \in [Handlers -> SUBSET {"reactions", "replies"}]
  /\ disturbed \subseteq {"reactions", "replies"}
  /\ racing \subseteq Users
  /\ owed \in BOOLEAN
  /\ \A h \in Handlers : adds[h] \cap (reactions \cup Written(h)) = {}

(* routers/messages.py:555-557: deleting a message clears its reactions in *)
(* the same transaction, so the only reactions a tombstone can be left with*)
(* are those whose add was in flight as it was deleted.                    *)
TombstoneCleared == deleted => reactions \subseteq racing

(* However requests overlap, the windows show the committed counts once    *)
(* they are over.  Excepted is a count whose last broadcast was by a       *)
(* handler that read it before another's commit changed it, or that a dead *)
(* handler owed: reactions.py and routers/messages.py read before their    *)
(* commit and broadcast after it, and the next broadcast puts it right.    *)
UndisturbedCounts ==
  Quiet =>
    /\ "reactions" \notin disturbed /\ ~deleted => shown.reactions = Cardinality(reactions)
    /\ "replies" \notin disturbed => shown.replies = Cardinality(replies)

(* realtime.py:457-459, the last writer to commit counts everyone committed*)
(* before it: whatever raced, some broadcast since the last change of a    *)
(* thread carried its count, unless the handler of one died before that.   *)
LastWriterCountsAll == Quiet => ~owed
============================================================================
