---------------------------- MODULE HistoryCache ----------------------------
(***************************************************************************)
(* One browser's cached history of one channel (frontend: useMessages.ts,  *)
(* useChannelSocket.ts), kept up to date by three things that race: the    *)
(* room's broadcasts, which come through the socket in the order they were *)
(* sent while it is in the room; fetches over HTTP, whose answer replaces  *)
(* the cached rows; and the acknowledgement of a join, which asks for a    *)
(* refetch because what was said while away is not replayed.               *)
(*                                                                         *)
(* Messages are numbered in id order (UUID v7, newest last).  A message's  *)
(* handler commits it and then broadcasts it, so two handlers can do the   *)
(* two in different orders.  An edit and a delete are a new version of     *)
(* the row.  The messages in Older are the second page of the history;     *)
(* the others all fit on the first.                                        *)
(***************************************************************************)
EXTENDS Naturals, Sequences, FiniteSets

CONSTANTS
  MaxMessages,      \* bound on the messages of the channel
  Older,            \* those on the older page, there from the start
  MaxChanges,       \* bound on the edits and deletes
  MaxFaults         \* bound on disconnects, failed fetches, lost broadcasts

Ids == 1 .. MaxMessages

ASSUME HistoryAssumption ==
  /\ MaxMessages \in Nat /\ MaxChanges \in Nat /\ MaxFaults \in Nat
  /\ Older \subseteq Ids
  /\ \A i \in Older, j \in Ids \ Older : i < j

VARIABLES
  (* the Messaging service *)
  stored,      \* messages committed
  version,     \* the version each has
  unpublished, \* events committed and not yet broadcast
  answer,      \* the answer to this window's own edit or delete, or Ack for none
  member,      \* whether the socket is in the channel's room
  (* the connection *)
  link,        \* "up" or "down"
  join,        \* how far join_channel has come: "no", "asked", "entered", "acked"
  inbox,       \* what the server has sent and the client has not handled
  (* the query cache *)
  loaded,      \* whether the query has data
  cache,       \* its rows, newest first
  paged,       \* whether the older page is loaded
  fetch,       \* the fetch in flight: kind, whether the server answered, rows
  listeners,   \* what waits for the fetch to settle, in subscription order
  (* history, not in the code *)
  dropped,     \* messages a broadcast of which was never sent
  overtaken,   \* messages broadcast or answered at a version after a newer one
  held,        \* messages with an event to apply again as the connection dropped
  gaveUp,      \* whether the last history fetch failed for good
  unasked,     \* whether a join was acknowledged that asked for no fetch of its own
  changes, faults

serverVars == <<stored, version, unpublished, answer, dropped, overtaken, changes>>
linkVars   == <<member, link, join, inbox, held>>
cacheVars  == <<loaded, cache, paged, fetch, listeners, gaveUp, unasked>>
historyVars == <<serverVars, linkVars, cacheVars, faults>>

-----------------------------------------------------------------------------
(* What the server sends: a message as one of its versions, which a client *)
(* may add (message_received) or only replace, and the ack of a join.      *)
Event(i, v, adds) == [id |-> i, version |-> v, adds |-> adds]

Ack == Event(0, 0, FALSE)

(* Rows as the server answers them: id DESC. *)
Rows(ids) ==
  LET order == CHOOSE s \in [1 .. Cardinality(ids) -> ids] :
                 \A k, l \in DOMAIN s : k < l => s[k] > s[l]
  IN  [k \in DOMAIN order |-> [id |-> order[k], version |-> version[order[k]]]]

Has(rows, i) == \E k \in DOMAIN rows : rows[k].id = i

NoFetch == [kind |-> "none", answered |-> FALSE, rows |-> <<>>]

Fetch(kind, rows) == [kind |-> kind, answered |-> FALSE, rows |-> rows]

Fetching == fetch.kind # "none"

(* upsertMessage and replaceMessage: replace the row where it sits; only a *)
(* message_received adds one, at the head.                                 *)
Upsert(rows, e) ==
  LET row == [id |-> e.id, version |-> e.version]
  IN  IF Has(rows, e.id)
        THEN [k \in DOMAIN rows |-> IF rows[k].id = e.id THEN row ELSE rows[k]]
        ELSE IF e.adds THEN <<row>> \o rows ELSE rows

-----------------------------------------------------------------------------
HistoryInit ==
  /\ stored = Older
  /\ version = [i \in Ids |-> 0]
  /\ unpublished = {}
  /\ answer = Ack
  /\ member = FALSE
  /\ link = "down"
  /\ join = "no"
  /\ inbox = <<>>
  /\ loaded \in BOOLEAN                  \* the channel may have been open before
  /\ cache = <<>>
  /\ paged = FALSE
  /\ fetch = Fetch("history", <<>>)     \* the query mounts with the channel
  /\ listeners = <<>>
  /\ dropped = {}
  /\ overtaken = {}
  /\ held = {}
  /\ gaveUp = FALSE
  /\ unasked = FALSE
  /\ changes = 0 /\ faults = 0

Fault == faults < MaxFaults /\ faults' = faults + 1

(* create commits.  The id is drawn before the commit, so ids need not     *)
(* commit in their order.                                                  *)
Create(i) ==
  /\ i \notin stored
  /\ stored' = stored \cup {i}
  /\ unpublished' = unpublished \cup {Event(i, 0, TRUE)}
  /\ UNCHANGED <<version, answer, dropped, overtaken, changes, linkVars, cacheVars, faults>>

(* edit or delete commits. *)
Commit(i) ==
  /\ i \in stored
  /\ changes < MaxChanges /\ changes' = changes + 1
  /\ version' = [version EXCEPT ![i] = @ + 1]
  /\ unpublished' = unpublished \cup {Event(i, version[i] + 1, FALSE)}
  /\ UNCHANGED <<stored, dropped, overtaken, linkVars, cacheVars, faults>>

(* Another window's, or an admin's delete. *)
Change(i) == Commit(i) /\ UNCHANGED answer

(* This window's own, of a row it shows and one at a time.  An edit whose  *)
(* version is not the row's any more is refused and changes nothing.       *)
ChangeOwn(i) ==
  /\ answer = Ack
  /\ loaded /\ Has(cache, i)
  /\ Commit(i)
  /\ answer' = Event(i, version[i] + 1, FALSE)

(* The answer follows the handler's broadcast, by HTTP: upsertMessage puts *)
(* it in the row's place at once, whatever was received meanwhile, and     *)
(* nothing applies it again after a fetch in flight.                       *)
AnswerOwn ==
  /\ answer # Ack /\ answer \notin unpublished
  /\ answer' = Ack
  /\ cache' = Upsert(cache, answer)
  /\ overtaken' = IF \E k \in DOMAIN cache : cache[k].id = answer.id /\ cache[k].version > answer.version
                    THEN overtaken \cup {answer.id} ELSE overtaken
  /\ UNCHANGED <<stored, version, unpublished, dropped, changes, linkVars, faults>>
  /\ UNCHANGED <<loaded, paged, fetch, listeners, gaveUp, unasked>>

(* _publish: emitted to the room, which a connection may not be in. *)
Publish(e) ==
  /\ e \in unpublished
  /\ unpublished' = unpublished \ {e}
  /\ inbox' = IF member THEN Append(inbox, e) ELSE inbox
  /\ overtaken' = IF \E f \in unpublished : f.id = e.id /\ f.version < e.version
                    THEN overtaken \cup {e.id} ELSE overtaken
  /\ UNCHANGED <<stored, version, answer, dropped, changes, member, link, join, held, cacheVars,
                 faults>>

(* The handler dies between its commit and its broadcast. *)
LosePublish(e) ==
  /\ e \in unpublished
  /\ Fault
  /\ unpublished' = unpublished \ {e}
  /\ dropped' = dropped \cup {e.id}
  /\ answer' = IF answer = e THEN Ack ELSE answer
  /\ UNCHANGED <<stored, version, overtaken, changes, linkVars, cacheVars>>

-----------------------------------------------------------------------------
(* The socket connects, or reconnects, and onConnect asks to join. *)
Connect ==
  /\ link = "down"
  /\ link' = "up"
  /\ join' = "asked"
  /\ UNCHANGED <<member, inbox, held, serverVars, cacheVars, faults>>

(* join_channel: the channel is visible, so the socket enters the room; the*)
(* ack follows.                                                            *)
EnterRoom ==
  /\ join = "asked"
  /\ join' = "entered"
  /\ member' = TRUE
  /\ UNCHANGED <<link, inbox, held, serverVars, cacheVars, faults>>

AckJoin ==
  /\ join = "entered"
  /\ join' = "acked"
  /\ inbox' = Append(inbox, Ack)
  /\ UNCHANGED <<member, link, held, serverVars, cacheVars, faults>>

(* The transport drops, or the token is renewed and the socket replaced.   *)
Disconnect ==
  /\ link = "up"
  /\ Fault
  /\ link' = "down"
  /\ join' = "no"
  /\ member' = FALSE
  /\ inbox' = <<>>
  /\ held' = held \cup {listeners[k].id : k \in DOMAIN listeners}
  /\ UNCHANGED <<serverVars, cacheVars>>

-----------------------------------------------------------------------------
(* applyAndReapply: apply now, and once more when a fetch in flight lands. *)
Receive ==
  /\ inbox # <<>> /\ Head(inbox) # Ack
  /\ cache' = IF loaded THEN Upsert(cache, Head(inbox)) ELSE cache
  /\ listeners' = IF Fetching THEN Append(listeners, Head(inbox)) ELSE listeners
  /\ inbox' = Tail(inbox)
  /\ UNCHANGED <<member, link, join, held, loaded, paged, fetch, gaveUp, unasked>>
  /\ UNCHANGED <<serverVars, faults>>

(* Mutant: the invalidation also cancels a page fetch. *)
RefetchHistoryAtOnce ==
  /\ fetch' = IF Fetching /\ ~loaded THEN fetch ELSE Fetch("history", <<>>)
  /\ UNCHANGED <<listeners, unasked>>

(* refetchHistory: waits for a page fetch in flight.  Otherwise it         *)
(* invalidates the query, which cancels a refetch in flight and starts     *)
(* another, but joins a fetch in flight when the query has no data yet.    *)
RefetchHistory ==
  IF fetch.kind = "page"
    THEN listeners' = Append(listeners, Ack) /\ UNCHANGED <<fetch, unasked>>
    ELSE LET joins == Fetching /\ ~loaded IN
           /\ fetch' = IF joins THEN fetch ELSE Fetch("history", <<>>)
           /\ unasked' = joins
           /\ UNCHANGED listeners

(* The ack of the join: joinChannel's onJoined. *)
Joined ==
  /\ inbox # <<>> /\ Head(inbox) = Ack
  /\ inbox' = Tail(inbox)
  /\ RefetchHistory
  /\ UNCHANGED <<member, link, join, held, loaded, cache, paged, gaveUp, serverVars, faults>>

(* loadOlder: the next page, only when nothing is fetching.  Its answer is *)
(* put after the rows cached as it starts.                                 *)
LoadOlder ==
  /\ loaded /\ ~paged /\ ~Fetching
  /\ Older # {}
  /\ fetch' = Fetch("page", cache)
  /\ UNCHANGED <<loaded, cache, paged, listeners, gaveUp, unasked, serverVars, linkVars, faults>>

(* The server reads what a fetch asks for: as many pages as are loaded, or *)
(* the older one.                                                          *)
Answer ==
  /\ Fetching /\ ~fetch.answered
  /\ LET asked == CASE fetch.kind = "page" -> Older
                    [] fetch.kind = "history" /\ paged -> stored
                    [] fetch.kind = "history" /\ ~paged -> stored \ Older
     IN  fetch' = [kind |-> fetch.kind, answered |-> TRUE,
                   rows |-> fetch.rows \o Rows(asked)]
  /\ UNCHANGED <<loaded, cache, paged, listeners, gaveUp, unasked, serverVars, linkVars, faults>>

(* The listeners that ask for a refetch, and those that run before one     *)
(* starts it.                                                              *)
Stops == {k \in DOMAIN listeners : listeners[k] = Ack}

FirstStop == CHOOSE k \in Stops : \A l \in Stops : k <= l

Due == IF Stops = {} THEN Len(listeners) ELSE FirstStop - 1

(* The fetch has settled: its listeners run in the order they subscribed,  *)
(* until one of them starts a refetch, which the others then wait for.     *)
Settle ==
  IF Stops = {}
    THEN listeners' = <<>> /\ fetch' = NoFetch /\ UNCHANGED unasked
    ELSE /\ listeners' = SubSeq(listeners, FirstStop + 1, Len(listeners))
         /\ fetch' = Fetch("history", <<>>)
         /\ unasked' = FALSE

(* Mutant: nothing is applied again. *)
ReappliedNot(rows) == rows

(* The events that are applied again to what a fetch brought. *)
Reapplied(rows) ==
  LET after[k \in 0 .. Due] == IF k = 0 THEN rows ELSE Upsert(after[k - 1], listeners[k])
  IN  after[Due]

(* The answer arrives and replaces the cached rows. *)
Land ==
  /\ fetch.answered
  /\ cache' = Reapplied(fetch.rows)
  /\ loaded' = TRUE
  /\ paged' = (paged \/ fetch.kind = "page")
  /\ gaveUp' = (gaveUp /\ fetch.kind = "page")
  /\ Settle
  /\ UNCHANGED <<serverVars, linkVars, faults>>

(* The fetch fails, its retry too; reapplyAfterFetch applies nothing. *)
FetchFails ==
  /\ Fetching
  /\ Fault
  /\ gaveUp' = (gaveUp \/ fetch.kind = "history")
  /\ Settle
  /\ UNCHANGED <<loaded, cache, paged, serverVars, linkVars>>

-----------------------------------------------------------------------------
HistoryNext ==
  \/ \E i \in Ids : Create(i) \/ Change(i) \/ ChangeOwn(i)
  \/ AnswerOwn
  \/ \E e \in unpublished : Publish(e) \/ LosePublish(e)
  \/ Connect \/ EnterRoom \/ AckJoin \/ Disconnect
  \/ Receive \/ Joined
  \/ LoadOlder \/ Answer \/ Land \/ FetchFails

HistorySpec == HistoryInit /\ [][HistoryNext]_historyVars

-----------------------------------------------------------------------------
(* Properties *)

Row == [id : Ids, version : Nat]

Events == [id : Ids, version : Nat, adds : BOOLEAN] \cup {Ack}

(* Type invariant; the socket is in the room exactly once join_channel has *)
(* put it there, and nothing waits for a fetch that is not in flight.      *)
HistoryTypeOK ==
  /\ stored \subseteq Ids
  /\ version \in [Ids -> 0 .. MaxChanges]
  /\ unpublished \subseteq Events
  /\ answer \in Events
  /\ dropped \subseteq Ids
  /\ overtaken \subseteq Ids
  /\ held \subseteq Ids \cup {0}
  /\ link \in {"up", "down"}
  /\ join \in {"no", "asked", "entered", "acked"}
  /\ member <=> join \in {"entered", "acked"}
  /\ link = "down" => inbox = <<>>
  /\ inbox \in Seq(Events)
  /\ cache \in Seq(Row)
  /\ {loaded, paged, gaveUp, unasked} \subseteq BOOLEAN
  /\ fetch \in [kind : {"none", "history", "page"}, answered : BOOLEAN, rows : Seq(Row)]
  /\ listeners \in Seq(Events)
  /\ listeners # <<>> => Fetching
  /\ changes \in 0 .. MaxChanges /\ faults \in 0 .. MaxFaults

(* Nothing is on its way to the client any more. *)
Quiet == /\ join = "acked" /\ inbox = <<>> /\ ~Fetching
         /\ unpublished = {} /\ answer = Ack /\ ~gaveUp

(* useChannelSocket.ts:29-30 and 102-108: a message that was committed and *)
(* broadcast is in the cached history once nothing is on its way, and once *)
(* only: no race of a fetch, a broadcast, the broadcast applied again, a   *)
(* drop of the connection and a join loses one or shows it twice.  A join  *)
(* acknowledged during the first load of a channel asks for no fetch of    *)
(* its own, and what was said between the two is in neither.               *)
HistoryComplete ==
  /\ HistoryTypeOK
  /\ \A k, l \in DOMAIN cache : cache[k].id = cache[l].id => k = l
  /\ Quiet /\ ~unasked =>
       \A i \in stored \ dropped : (i \in Older => paged) => Has(cache, i)

(* useMessages.ts:100-107: a fetch of an older page, which a reader paging *)
(* back waits for, ends only by landing or by failing: a join acknowledged *)
(* meanwhile does not cancel it.                                           *)
PageFetchKept ==
  [][fetch.kind = "page" /\ fetch'.kind # "page" => paged' \/ faults' > faults]_historyVars

(* reapplyAfterFetch: once nothing is on its way, each cached row is the   *)
(* database's version of it, whatever was applied again to an older answer *)
(* and whatever failed, unless the message's own broadcasts were lost or   *)
(* came out of order, the answer to an own edit came after a newer row, or *)
(* an event waiting for a fetch was held back as the connection dropped,   *)
(* and applied again over a newer answer.                                  *)
ShowsLatest ==
  Quiet /\ ~unasked => \A k \in DOMAIN cache :
    \/ cache[k].version = version[cache[k].id]
    \/ cache[k].id \in dropped \cup overtaken \cup held
============================================================================
