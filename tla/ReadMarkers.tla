--------------------------- MODULE ReadMarkers ---------------------------
(***************************************************************************)
(* How far one person has read in one channel: the marker of Messaging     *)
(* (read_state.py, routers/read_state.py, realtime.py) and the tabs that   *)
(* move it (readThrottle.ts, useMarkRead.ts, readCache.ts, MessageList.tsx)*)
(*                                                                         *)
(* Messages are numbered in the order of their ids and are all by others.  *)
(* What a tab's history holds is HistoryCache: here it grows as it will.   *)
(*                                                                         *)
(* A tab's list entry of the channel is fetched by REST, and written       *)
(* locally as a read is emitted on the socket; the two arrive in any order.*)
(***************************************************************************)
EXTENDS Naturals

CONSTANTS
  Tabs,         \* tabs of the person
  MaxMessages,  \* bound on the messages
  MaxDrops      \* bound on the connections lost

ASSUME ReadMarkersAssumption == MaxMessages \in Nat \ {0} /\ MaxDrops \in Nat

VARIABLES
  (* the server *)
  posted,     \* the newest message
  marker,     \* the last message read, 0 for none
  (* on their way *)
  emits,      \* reads emitted and not acknowledged
  receipts,   \* receipts for other tabs
  (* each tab *)
  conn,       \* the socket is connected
  reading,    \* the channel is open, at the bottom, and attended to
  newest,     \* the newest message of its history
  ask,        \* the effect that asks for a read is due
  window,     \* the throttle's window and the read it holds
  entry,      \* the cached list entry: the marker and the unread count
  fetch,      \* the fetch of the list
  (* history, not in the code *)
  drops,
  lost        \* the tabs that lost a read on its way

server == <<posted, marker>>
tab == <<conn, reading, newest, ask, window, entry, fetch>>
vars == <<server, emits, receipts, tab, drops, lost>>

Closed == [open |-> FALSE, held |-> 0]

Open(m) == [open |-> TRUE, held |-> m]

NoFetch == [at |-> "none", mark |-> 0, unread |-> 0]

Asked == [NoFetch EXCEPT !.at = "asked"]

(* The count of a list: what comes after the marker. *)
Truth == [mark |-> marker, unread |-> posted - marker]

Init ==
  /\ posted = 1 /\ marker = 0
  /\ emits = {} /\ receipts = {}
  /\ conn = [t \in Tabs |-> TRUE]
  /\ reading = [t \in Tabs |-> FALSE]
  /\ newest = [t \in Tabs |-> 1]
  /\ ask = [t \in Tabs |-> FALSE]
  /\ window = [t \in Tabs |-> Closed]
  /\ entry = [t \in Tabs |-> Truth]
  /\ fetch = [t \in Tabs |-> NoFetch]
  /\ drops = 0 /\ lost = {}

-----------------------------------------------------------------------------
(* Reading. *)

(* Somebody posts; the broadcasts of a channel do not touch its count. *)
Post ==
  /\ posted < MaxMessages /\ posted' = posted + 1
  /\ UNCHANGED <<marker, emits, receipts, tab, drops, lost>>

(* The history of a tab gets the newest message, by its broadcast or by a  *)
(* fetch: the effect runs again.                                           *)
See(t) ==
  /\ newest[t] < posted
  /\ newest' = [newest EXCEPT ![t] = posted] /\ ask' = [ask EXCEPT ![t] = TRUE]
  /\ UNCHANGED <<server, emits, receipts, conn, reading, window, entry, fetch, drops, lost>>

Attend(t) ==
  /\ ~reading[t]
  /\ reading' = [reading EXCEPT ![t] = TRUE] /\ ask' = [ask EXCEPT ![t] = TRUE]
  /\ UNCHANGED <<server, emits, receipts, conn, newest, window, entry, fetch, drops, lost>>

(* Never backwards. *)
Read(e, m) == IF e.mark >= m THEN e ELSE [mark |-> m, unread |-> 0]

(* Emits the read of m unless the socket is down or the marker covers it:  *)
(* the caches are written at once and held until it is acknowledged.  A    *)
(* read of the tab still held is held no more.                             *)
Sends(t, m) == conn[t] /\ entry[t].mark < m

Send(t, m) ==
  IF Sends(t, m)
    THEN /\ emits' = {IF e.tab = t THEN [e EXCEPT !.held = FALSE] ELSE e :
                         e \in {f \in emits : f.tab # t \/ f.at = "sent"}}
                     \cup {[tab |-> t, m |-> m, at |-> "sent", held |-> TRUE]}
         /\ entry' = [entry EXCEPT ![t] = Read(@, m)]
    ELSE UNCHANGED <<emits, entry>>

(* The effect asks; within a window the read is kept for its end. *)
Request(t) ==
  /\ ask[t] /\ reading[t] /\ conn[t]
  /\ ask' = [ask EXCEPT ![t] = FALSE]
  /\ IF window[t].open
       THEN window' = [window EXCEPT ![t] = Open(newest[t])] /\ UNCHANGED <<emits, entry>>
       ELSE /\ Send(t, newest[t])
            /\ window' = [window EXCEPT ![t] = IF Sends(t, newest[t]) THEN Open(0) ELSE Closed]
  /\ UNCHANGED <<server, receipts, conn, reading, newest, fetch, drops, lost>>

(* Mutant: what was asked for within the window is forgotten at its end. *)
WindowEndsLeading(t) ==
  /\ window[t].open
  /\ window' = [window EXCEPT ![t] = Closed]
  /\ UNCHANGED <<server, emits, entry, receipts, conn, reading, newest, ask, fetch, drops, lost>>

(* The timer: the read held goes out, and opens the next window. *)
WindowEnds(t) ==
  /\ window[t].open
  /\ LET m == window[t].held
     IN  IF m > 0 /\ Sends(t, m)
           THEN Send(t, m) /\ window' = [window EXCEPT ![t] = Open(0)]
           ELSE window' = [window EXCEPT ![t] = Closed] /\ UNCHANGED <<emits, entry>>
  /\ UNCHANGED <<server, receipts, conn, reading, newest, ask, fetch, drops, lost>>

(* Leaving the channel, or a jump away, sends what is held at once. *)
Leave(t) ==
  /\ reading[t] /\ reading' = [reading EXCEPT ![t] = FALSE]
  /\ IF window[t].held > 0 THEN Send(t, window[t].held) ELSE UNCHANGED <<emits, entry>>
  /\ window' = [window EXCEPT ![t] = Closed]
  /\ UNCHANGED <<server, receipts, conn, newest, ask, fetch, drops, lost>>

-----------------------------------------------------------------------------
(* The server. *)

Upsert(m) == IF marker < m THEN m ELSE marker

(* mark_read: the marker, committed, then a receipt for the other tabs if  *)
(* it moved, then the ack, which matters while the read is held.           *)
MarkRead(e) ==
  /\ e \in emits /\ e.at = "sent"
  /\ marker' = Upsert(e.m)
  /\ receipts' = IF marker' # marker
                   THEN receipts \cup {[tab |-> t, m |-> e.m] : t \in {u \in Tabs \ {e.tab} : conn[u]}}
                   ELSE receipts
  /\ emits' = (emits \ {e}) \cup (IF e.held THEN {[e EXCEPT !.at = "acked"]} ELSE {})
  /\ UNCHANGED <<posted, tab, drops, lost>>

(* Another window of the person reads, at its own pace: its requests come   *)
(* in any order, by the socket or by REST, whose receipt skips nobody.     *)
Elsewhere(m) ==
  /\ m <= posted /\ marker' = Upsert(m)
  /\ receipts' = IF marker' # marker
                   THEN receipts \cup {[tab |-> t, m |-> m] : t \in {u \in Tabs : conn[u]}}
                   ELSE receipts
  /\ UNCHANGED <<posted, emits, tab, drops, lost>>

Ack(e) ==
  /\ e \in emits /\ e.at = "acked"
  /\ emits' = emits \ {e}
  /\ UNCHANGED <<server, receipts, tab, drops, lost>>

Released(es) == {[e EXCEPT !.held = FALSE] : e \in es}

(* No ack in five seconds: the hold ends, the read may still be served. *)
Timeout(e) ==
  /\ e \in emits /\ e.held
  /\ emits' = (emits \ {e}) \cup (IF e.at = "sent" THEN Released({e}) ELSE {})
  /\ UNCHANGED <<server, receipts, tab, drops, lost>>

(* A receipt that covers the history is written; an older one leaves a     *)
(* count that only the server knows.                                       *)
Receive(c) ==
  /\ c \in receipts /\ receipts' = receipts \ {c}
  /\ IF c.m >= newest[c.tab]
       THEN entry' = [entry EXCEPT ![c.tab] = Read(@, c.m)] /\ UNCHANGED fetch
       ELSE fetch' = [fetch EXCEPT ![c.tab] = Asked] /\ UNCHANGED entry
  /\ UNCHANGED <<server, emits, conn, reading, newest, ask, window, drops, lost>>

-----------------------------------------------------------------------------
(* The list of channels. *)

(* A tick of the poll, or a return to the tab. *)
Poll(t) ==
  /\ fetch[t].at = "none" /\ fetch' = [fetch EXCEPT ![t] = Asked]
  /\ UNCHANGED <<server, emits, receipts, conn, reading, newest, ask, window, entry, drops, lost>>

Serve(t) ==
  /\ fetch[t].at = "asked"
  /\ fetch' = [fetch EXCEPT ![t] = [at |-> "served", mark |-> Truth.mark, unread |-> Truth.unread]]
  /\ UNCHANGED <<server, emits, receipts, conn, reading, newest, ask, window, entry, drops, lost>>

Fetched(t) == [mark |-> fetch[t].mark, unread |-> fetch[t].unread]

(* Mutant: nothing holds the local read over what lands. *)
LandedBare(t) == Fetched(t)

(* Mutant: only a marker further on is taken from what lands. *)
LandedForward(t) == IF fetch[t].mark > entry[t].mark THEN Fetched(t) ELSE entry[t]

(* What lands, with the read that is held applied on top. *)
Landed(t) ==
  LET held == {e.m : e \in {f \in emits : f.tab = t /\ f.held}}
  IN  IF held = {} THEN Fetched(t) ELSE Read(Fetched(t), CHOOSE m \in held : \A n \in held : n <= m)

Land(t) ==
  /\ fetch[t].at = "served"
  /\ entry' = [entry EXCEPT ![t] = Landed(t)]
  /\ fetch' = [fetch EXCEPT ![t] = NoFetch]
  /\ UNCHANGED <<server, emits, receipts, conn, reading, newest, ask, window, drops, lost>>

-----------------------------------------------------------------------------
(* The connection. *)

(* The acks under way are lost, and socket.io fails their callbacks; of    *)
(* the reads some had reached the server.  A new socket (`fresh`) has a    *)
(* throttle of its own: what the old one held is dropped.                  *)
Disconnect(t) ==
  /\ conn[t] /\ drops < MaxDrops /\ drops' = drops + 1
  /\ conn' = [conn EXCEPT ![t] = FALSE]
  /\ LET own == {e \in emits : e.tab = t}  sent == {e \in own : e.at = "sent"}
     IN  \E there \in SUBSET sent :
           /\ emits' = (emits \ own) \cup Released(there)
           /\ lost' = IF there = sent THEN lost ELSE lost \cup {t}
  /\ receipts' = {c \in receipts : c.tab # t}
  /\ \E fresh \in BOOLEAN : window' = IF fresh THEN [window EXCEPT ![t] = Closed] ELSE window
  /\ UNCHANGED <<server, reading, newest, ask, entry, fetch>>

Connect(t) ==
  /\ ~conn[t] /\ conn' = [conn EXCEPT ![t] = TRUE]
  /\ ask' = [ask EXCEPT ![t] = TRUE]
  /\ fetch' = [fetch EXCEPT ![t] = Asked]
  /\ UNCHANGED <<server, emits, receipts, reading, newest, window, entry, drops, lost>>

Next ==
  \/ Post
  \/ \E t \in Tabs :
       \/ See(t) \/ Attend(t) \/ Leave(t) \/ Request(t) \/ WindowEnds(t)
       \/ Poll(t) \/ Serve(t) \/ Land(t) \/ Disconnect(t) \/ Connect(t)
  \/ \E e \in emits : MarkRead(e) \/ Ack(e) \/ Timeout(e)
  \/ \E m \in 1 .. MaxMessages : Elsewhere(m)
  \/ \E c \in receipts : Receive(c)

Spec == Init /\ [][Next]_vars

(* Effects run, timers fire, the network carries what it does not lose. *)
FairSpec ==
  /\ Spec
  /\ \A t \in Tabs :
       /\ WF_vars(Request(t)) /\ WF_vars(WindowEnds(t)) /\ WF_vars(Poll(t))
       /\ WF_vars(Serve(t)) /\ WF_vars(Land(t))
  /\ WF_vars(\E e \in emits : MarkRead(e) \/ Ack(e))
  /\ WF_vars(\E e \in emits : Timeout(e))
  /\ WF_vars(\E c \in receipts : Receive(c))

-----------------------------------------------------------------------------
(* The state is well formed, and a read held belongs to a tab that is      *)
(* connected, which emitted it last (useMarkRead.ts 70-78, 85-90).         *)
TypeOK ==
  /\ marker \in 0 .. posted /\ posted \in 1 .. MaxMessages
  /\ \A t \in Tabs :
       /\ newest[t] \in 1 .. posted /\ window[t].held \in 0 .. newest[t]
       /\ entry[t].mark \in 0 .. posted /\ entry[t].unread \in 0 .. posted
       /\ fetch[t].at \in {"none", "asked", "served"}
  /\ \A e, f \in emits : e.held => conn[e.tab] /\ (f.held /\ f.tab = e.tab => f = e)

(* useMarkRead.ts 10-13, readCache.ts 64-71: a badge cleared by a read does *)
(* not come back while the read is on its way, whatever fetch lands.       *)
HoldKeeps == TypeOK /\ \A e \in emits : e.held => entry[e.tab].mark >= e.m

(* readThrottle.ts 1-9: a reader who stops at the newest message has it    *)
(* acknowledged, unless the connection is lost with the read on it; and    *)
(* whatever tab is late, the marker does not move back (read_state.py      *)
(* 11-13).                                                                 *)
ReadsArrive ==
  /\ [][marker' >= marker]_marker
  /\ \A t \in Tabs, m \in 1 .. MaxMessages :
       reading[t] /\ newest[t] = m ~> marker >= m \/ ~reading[t] \/ ~conn[t] \/ t \in lost

(* useChannels.ts 31-37: nothing a tab writes into its list for itself   *)
(* outlives a poll: in the end every badge is what the server counts.      *)
BadgeSettles == \A t \in Tabs : <>[](entry[t] = Truth)
=============================================================================
