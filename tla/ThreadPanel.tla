---------------------------- MODULE ThreadPanel ----------------------------
(***************************************************************************)
(* What one browser writes into its own caches (frontend: useMessages.ts,  *)
(* useThread.ts, threadCache.ts) while the room's broadcasts and fetches   *)
(* write them too.  Two caches are open, the channel's history and the     *)
(* panel of one thread, and both hold a copy of the thread's root: a send  *)
(* shows a row before the server has it, a toggled reaction shows a count  *)
(* before the server has counted, and each is reconciled with an answer    *)
(* and a broadcast that come in either order, late or not at all.          *)
(*                                                                         *)
(* The socket stays in the room and broadcasts come in the order of the    *)
(* commits they report: RoomCounts and HistoryCache have the rest.         *)
(***************************************************************************)
EXTENDS Naturals, Sequences, FiniteSets, SequencesExt

CONSTANTS
  Sends,        \* what this browser may send
  Others,       \* what the others in the channel may post
  Replies,      \* those of them that are replies in the thread
  MaxReactions, \* bound on the others' changes of their reaction
  MaxToggles,   \* bound on this browser's toggles, one at a time
  MaxFetches,   \* bound on refetches: a join's ack, a reopened panel
  MaxFaults     \* bound on failed fetches and failed toggles

Ids == Sends \cup Others

ASSUME PanelAssumption ==
  /\ IsFiniteSet(Ids) /\ Replies \subseteq Ids /\ Sends \cap Others = {}
  /\ {MaxReactions, MaxToggles, MaxFetches, MaxFaults} \subseteq Nat

Caches == {"history", "thread"}

VARIABLES
  (* the Messaging service *)
  stored,    \* messages committed
  mine,      \* whether this person has reacted to the root
  theirs,    \* whether somebody else has
  made,      \* changes of the root committed, each with one broadcast (history)
  (* on the wire *)
  inbox,     \* broadcasts on their way to this socket
  send,      \* each own send: in the browser, and at the server
  toggle,    \* the toggle in flight, with what its onError would restore
  fetch,     \* the fetch of each cache, and what it read
  (* the browser *)
  cache,     \* each cache: whether it has data, its rows, its copy of the root
  again,     \* broadcasts to apply again as a cache's fetch settles
  (* history, not in the code *)
  late,      \* caches with a copy of the root older than a broadcast received
  received,  \* the last change of the root whose broadcast was received
  reactions, toggles, fetches, faults

serverVars == <<stored, mine, theirs, made>>
bounds     == <<reactions, toggles, fetches, faults>>
panelVars == <<serverVars, inbox, send, toggle, fetch, cache, again, late, received, bounds>>

-----------------------------------------------------------------------------
Home(i) == IF i \in Replies THEN "thread" ELSE "history"

ReactionCount(a, b) == (IF a THEN 1 ELSE 0) + (IF b THEN 1 ELSE 0)

(* The root as the server answers it to this person. *)
Root(ids, me, them) ==
  [replies |-> Cardinality(ids \cap Replies), count |-> ReactionCount(me, them), lit |-> me]

Truth == Root(stored, mine, theirs)

(* A row is a message's, or the placeholder of a send (a `temp:` id). *)
Real(i) == [id |-> i, temp |-> FALSE]
Pending(i) == [id |-> i, temp |-> TRUE]

Holds(rows, row) == \E k \in DOMAIN rows : rows[k] = row

(* Mutant: a blind append. *)
PutAppends(rows, row) == <<row>> \o rows

(* upsertMessage, upsertThreadMessage: a row already there is replaced. *)
Put(rows, row) == IF Holds(rows, row) THEN rows ELSE <<row>> \o rows

(* removeMessage, removeThreadMessage. *)
Without(rows, row) ==
  LET kept[n \in 0 .. Len(rows)] ==
        IF n = 0 THEN <<>>
        ELSE IF rows[n] = row THEN kept[n - 1] ELSE Append(kept[n - 1], rows[n])
  IN  kept[Len(rows)]

-----------------------------------------------------------------------------
(* Broadcasts: facts, never deltas.  One about the root has the number of  *)
(* the change it reports (history).                                        *)
Posted(i) == [kind |-> "message", id |-> i]
Summary(n, total) == [kind |-> "summary", n |-> n, replies |-> total]
Reaction(n, total, own, on) ==
  [kind |-> "reaction", n |-> n, count |-> total, own |-> own, reacted |-> on]

(* Mutant: whoever reacted lights the chip in every window. *)
MergeForAll(root, e) ==
  [root EXCEPT !.count = e.count, !.lit = e.count > 0 /\ e.reacted]

(* mergeReaction: at zero the chip is gone; `reacted` is the actor's only. *)
Merge(root, e) ==
  [root EXCEPT !.count = e.count,
               !.lit = e.count > 0 /\ (IF e.own THEN e.reacted ELSE @)]

(* One broadcast written into one cache; nothing is written into an absent *)
(* one.                                                                    *)
Written(c, k, e) ==
  IF ~c.loaded THEN c
  ELSE CASE e.kind = "message"  -> IF Home(e.id) = k
                                     THEN [c EXCEPT !.rows = Put(@, Real(e.id))] ELSE c
         [] e.kind = "summary"  -> [c EXCEPT !.root.replies = e.replies]
         [] e.kind = "reaction" -> [c EXCEPT !.root = Merge(@, e)]

Apply(caches, e) == [k \in Caches |-> Written(caches[k], k, e)]

(* The caches whose fetch in flight a broadcast has to outlast. *)
Concerns(e) == IF e.kind = "message" THEN {Home(e.id)} ELSE Caches

Fetching(k) == fetch[k].at # "no"

NoToggle == [at |-> "no"]

NoFetch == [at |-> "no"]

Asked == [at |-> "asked"]

-----------------------------------------------------------------------------
(* The history is loaded; the panel opens. *)
PanelInit ==
  /\ stored = {} /\ mine = FALSE /\ theirs = FALSE /\ made = 0
  /\ inbox = <<>>
  /\ send = [s \in Sends |-> [at |-> "no", server |-> "no"]]
  /\ toggle = NoToggle
  /\ fetch = [k \in Caches |-> IF k = "thread" THEN Asked ELSE NoFetch]
  /\ cache = [k \in Caches |-> [loaded |-> k = "history", rows |-> <<>>,
                                root |-> Root({}, FALSE, FALSE)]]
  /\ again = [k \in Caches |-> <<>>]
  /\ late = {} /\ received = 0
  /\ reactions = 0 /\ toggles = 0 /\ fetches = 0 /\ faults = 0

Fault == faults < MaxFaults /\ faults' = faults + 1 /\ UNCHANGED <<reactions, toggles, fetches>>

(* A message is committed and broadcast, a reply's thread summary after it.*)
Commit(i) ==
  /\ stored' = stored \cup {i}
  /\ IF i \in Replies
       THEN /\ made' = made + 1
            /\ inbox' = inbox \o <<Posted(i), Summary(made', Cardinality(stored' \cap Replies))>>
       ELSE /\ inbox' = Append(inbox, Posted(i))
            /\ UNCHANGED made
  /\ UNCHANGED <<mine, theirs>>

Post(i) ==
  /\ i \in Others \ stored
  /\ Commit(i)
  /\ UNCHANGED <<send, toggle, fetch, cache, again, late, received, bounds>>

(* Somebody else adds or takes back their reaction. *)
React ==
  /\ reactions < MaxReactions
  /\ theirs' = ~theirs
  /\ made' = made + 1
  /\ inbox' = Append(inbox, Reaction(made', ReactionCount(mine, theirs'), FALSE, theirs'))
  /\ reactions' = reactions + 1
  /\ UNCHANGED <<stored, mine, send, toggle, fetch, cache, again, late, received,
                 toggles, fetches, faults>>

-----------------------------------------------------------------------------
(* useSendMessage and useSendReply. *)

SetRows(k, rows) ==
  cache' = IF cache[k].loaded THEN [cache EXCEPT ![k].rows = rows] ELSE cache

(* onMutate: the placeholder, and the emit. *)
Send(s) ==
  /\ send[s].at = "no"
  /\ send' = [send EXCEPT ![s] = [at |-> "waiting", server |-> "asked"]]
  /\ SetRows(Home(s), Put(cache[Home(s)].rows, Pending(s)))
  /\ UNCHANGED <<serverVars, inbox, toggle, fetch, again, late, received, bounds>>

(* send_message at the server: saved or refused, however late. *)
Save(s) ==
  /\ send[s].server = "asked"
  /\ send' = [send EXCEPT ![s].server = "saved"]
  /\ Commit(s)
  /\ UNCHANGED <<toggle, fetch, cache, again, late, received, bounds>>

Refuse(s) ==
  /\ send[s].server = "asked"
  /\ send' = [send EXCEPT ![s].server = "refused"]
  /\ UNCHANGED <<serverVars, inbox, toggle, fetch, cache, again, late, received, bounds>>

(* Remove the placeholder, then upsert by the real id. *)
Confirmed(rows, s) == Put(Without(rows, Pending(s)), Real(s))

(* onSuccess. *)
Acked(s) ==
  /\ send[s] = [at |-> "waiting", server |-> "saved"]
  /\ send' = [send EXCEPT ![s].at = "over"]
  /\ SetRows(Home(s), Confirmed(cache[Home(s)].rows, s))
  /\ UNCHANGED <<serverVars, inbox, toggle, fetch, again, late, received, bounds>>

(* onError: refused, or no ack in time; an ack after that is not heard. *)
RollBack(s) ==
  /\ send[s].at = "waiting"
  /\ send' = [send EXCEPT ![s].at = "over"]
  /\ SetRows(Home(s), Without(cache[Home(s)].rows, Pending(s)))
  /\ UNCHANGED <<serverVars, inbox, toggle, fetch, again, late, received, bounds>>

-----------------------------------------------------------------------------
(* useToggleReaction (history) and useThreadActions (the panel). *)

(* The caches a toggle writes: the panel's result for a root goes to both. *)
Reaches(from) == IF from = "thread" THEN Caches ELSE {"history"}

(* predictReaction, from the copy that was clicked. *)
Predicted(root) ==
  Reaction(0, IF root.lit THEN root.count - 1 ELSE root.count + 1, TRUE, ~root.lit)

(* onMutate. *)
Click(from) ==
  /\ toggle = NoToggle /\ toggles < MaxToggles
  /\ cache[from].loaded
  /\ LET root == cache[from].root IN
       /\ toggle' = [at |-> "asked", from |-> from, add |-> ~root.lit, before |-> root,
                     received |-> received, stale |-> from \in late]
       /\ cache' = [k \in Caches |-> IF k \in Reaches(from)
                                       THEN Written(cache[k], k, Predicted(root))
                                       ELSE cache[k]]
  /\ toggles' = toggles + 1
  /\ UNCHANGED <<serverVars, inbox, send, fetch, again, late, received, reactions, fetches, faults>>

(* The request commits, broadcasts, and answers the whole message. *)
ServeToggle ==
  /\ toggle.at = "asked"
  /\ mine' = toggle.add
  /\ made' = made + 1
  /\ inbox' = Append(inbox, Reaction(made', ReactionCount(mine', theirs), TRUE, mine'))
  /\ toggle' = [at |-> "served", from |-> toggle.from, before |-> toggle.before,
                received |-> toggle.received, stale |-> toggle.stale,
                answer |-> Root(stored, mine', theirs), made |-> made + 1]
  /\ UNCHANGED <<stored, theirs, send, fetch, cache, again, late, received, bounds>>

(* onSuccess, settle: the answer replaces each copy. *)
Answered ==
  /\ toggle.at = "served"
  /\ LET to == {k \in Reaches(toggle.from) : cache[k].loaded} IN
       /\ cache' = [k \in Caches |-> IF k \in to
                                       THEN [cache[k] EXCEPT !.root = toggle.answer]
                                       ELSE cache[k]]
       /\ late' = IF toggle.made < received THEN late \cup to ELSE late \ to
  /\ toggle' = NoToggle
  /\ UNCHANGED <<serverVars, inbox, send, fetch, again, received, bounds>>

(* onError: refused, or the answer is lost; the snapshot is restored. *)
ToggleFails ==
  /\ toggle # NoToggle
  /\ Fault
  /\ LET to == {k \in Reaches(toggle.from) : cache[k].loaded} IN
       /\ cache' = [k \in Caches |-> IF k \in to
                      THEN [cache[k] EXCEPT !.root.count = toggle.before.count,
                                            !.root.lit = toggle.before.lit]
                      ELSE cache[k]]
       /\ late' = IF toggle.stale \/ toggle.received < received THEN late \cup to ELSE late
  /\ toggle' = NoToggle
  /\ UNCHANGED <<serverVars, inbox, send, fetch, again, received>>

-----------------------------------------------------------------------------
(* applyAndReapply: a broadcast is applied now, and once more when a fetch *)
(* in flight lands.                                                        *)
Receive ==
  /\ inbox # <<>>
  /\ LET e == Head(inbox) IN
       /\ cache' = Apply(cache, e)
       /\ again' = [k \in Caches |-> IF k \in Concerns(e) /\ Fetching(k)
                                       THEN Append(again[k], e) ELSE again[k]]
       /\ received' = IF e.kind = "message" THEN received ELSE e.n
  /\ inbox' = Tail(inbox)
  /\ UNCHANGED <<serverVars, send, toggle, fetch, late, bounds>>

(* A refetch: one in flight is cancelled, unless nothing is cached yet. *)
Refetch(k) ==
  /\ fetches < MaxFetches
  /\ fetches' = fetches + 1
  /\ fetch' = IF Fetching(k) /\ ~cache[k].loaded THEN fetch ELSE [fetch EXCEPT ![k] = Asked]
  /\ UNCHANGED <<serverVars, inbox, send, toggle, cache, again, late, received,
                 reactions, toggles, faults>>

(* The server reads the rows and the root. *)
Serve(k) ==
  /\ fetch[k].at = "asked"
  /\ fetch' = [fetch EXCEPT ![k] =
       [at |-> "read", root |-> Truth,
        rows |-> {Real(i) : i \in {j \in stored : Home(j) = k}}]]
  /\ UNCHANGED <<serverVars, inbox, send, toggle, cache, again, late, received, bounds>>

(* Mutant: a fetch that lands has the last word. *)
ReappliedNot(caches, events) == caches

Reapplied(caches, events) ==
  LET after[n \in 0 .. Len(events)] ==
        IF n = 0 THEN caches ELSE Apply(after[n - 1], events[n])
  IN  after[Len(events)]

(* The answer replaces the cache, placeholders included; what came in the  *)
(* meantime is applied again, to every cache it concerns.                  *)
Land(k) ==
  /\ fetch[k].at = "read"
  /\ LET landed == [cache EXCEPT ![k] = [loaded |-> TRUE, root |-> fetch[k].root,
                                         rows |-> SetToSeq(fetch[k].rows)]]
     IN  cache' = Reapplied(landed, again[k])
  /\ again' = [again EXCEPT ![k] = <<>>]
  /\ fetch' = [fetch EXCEPT ![k] = NoFetch]
  /\ late' = late \ {k}
  /\ UNCHANGED <<serverVars, inbox, send, toggle, received, bounds>>

(* The fetch fails; reapplyAfterFetch applies nothing. *)
FetchFails(k) ==
  /\ Fetching(k)
  /\ Fault
  /\ again' = [again EXCEPT ![k] = <<>>]
  /\ fetch' = [fetch EXCEPT ![k] = NoFetch]
  /\ UNCHANGED <<serverVars, inbox, send, toggle, cache, late, received>>

-----------------------------------------------------------------------------
PanelNext ==
  \/ \E i \in Others : Post(i)
  \/ React
  \/ \E s \in Sends : Send(s) \/ Save(s) \/ Refuse(s) \/ Acked(s) \/ RollBack(s)
  \/ \E from \in Caches : Click(from)
  \/ ServeToggle \/ Answered \/ ToggleFails
  \/ Receive
  \/ \E k \in Caches : Refetch(k) \/ Serve(k) \/ Land(k) \/ FetchFails(k)

PanelSpec == PanelInit /\ [][PanelNext]_panelVars

-----------------------------------------------------------------------------
(* Properties *)

PanelTypeOK ==
  /\ stored \subseteq Ids
  /\ {mine, theirs} \subseteq BOOLEAN
  /\ made \in Nat /\ received \in 0 .. made
  /\ late \subseteq Caches
  /\ \A s \in Sends : /\ send[s].at \in {"no", "waiting", "over"}
                      /\ send[s].server \in {"no", "asked", "saved", "refused"}
  /\ toggle.at \in {"no", "asked", "served"}
  /\ \A k \in Caches : /\ fetch[k].at \in {"no", "asked", "read"}
                       /\ again[k] # <<>> => Fetching(k)
                       /\ cache[k].loaded \in BOOLEAN

(* useMessages.ts:314-319 and threadCache.ts:55-56: the placeholder, the   *)
(* ack, the broadcast, the broadcast applied again and a refetch all bring *)
(* one send, in any order, and it is one row, in its own cache only; its   *)
(* placeholder is gone once the send is over.                              *)
OnceEach ==
  /\ PanelTypeOK
  /\ \A k \in Caches : LET rows == cache[k].rows IN
       /\ \A a, b \in DOMAIN rows : rows[a] = rows[b] => a = b
       /\ \A a \in DOMAIN rows :
            /\ Home(rows[a].id) = k
            /\ IF rows[a].temp THEN send[rows[a].id].at = "waiting"
                               ELSE rows[a].id \in stored

(* Nothing is on its way to the browser. *)
Quiet ==
  /\ inbox = <<>> /\ toggle = NoToggle
  /\ \A k \in Caches : ~Fetching(k)
  /\ \A s \in Sends : send[s].at # "waiting"

(* useMessages.ts:321-332, "it may still arrive": once nothing is on its   *)
(* way, each cache shows exactly what was saved: a send rolled back and    *)
(* saved after all is there, a refused one is not, and no fetch that was   *)
(* in flight took one away.                                                *)
RowsSettle ==
  Quiet => \A k \in Caches : cache[k].loaded =>
             {cache[k].rows[a] : a \in DOMAIN cache[k].rows}
               = {Real(i) : i \in {j \in stored : Home(j) = k}}

(* useMessages.ts:499-503, "whichever runs last is still right", and       *)
(* threadCache.ts:154-155: the two copies of the root settle on the        *)
(* server's counts and this person's own reaction, unless the last writer  *)
(* was an answer or a snapshot older than a broadcast already received.    *)
RootSettles ==
  Quiet => \A k \in Caches \ late : cache[k].loaded => cache[k].root = Truth
============================================================================
