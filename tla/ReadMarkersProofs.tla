----------------------- MODULE ReadMarkersProofs -----------------------
(***************************************************************************)
(* Proofs about ReadMarkers: a read that is on its way is not undone by    *)
(* what lands; and about RoomCounts: which counts a room is left with.     *)
(***************************************************************************)
EXTENDS ReadMarkers, RoomCounts, FiniteSetTheorems, TLAPS

Emits == [tab : Tabs, m : Nat, at : {"sent", "acked"}, held : BOOLEAN]

Types ==
  /\ posted \in 1 .. MaxMessages /\ marker \in 0 .. posted
  /\ conn \in [Tabs -> BOOLEAN]
  /\ newest \in [Tabs -> Nat]
  /\ window \in [Tabs -> [open : BOOLEAN, held : Nat]]
  /\ entry \in [Tabs -> [mark : Nat, unread : Nat]]
  /\ fetch \in [Tabs -> [at : {"none", "asked", "served"}, mark : Nat, unread : Nat]]
  /\ emits \subseteq Emits
  /\ receipts \subseteq [tab : Tabs, m : Nat]

(* Nothing is ahead of the newest message. *)
TabBounds ==
  \A t \in Tabs :
    /\ 1 <= newest[t] /\ newest[t] <= posted /\ window[t].held <= newest[t]
    /\ entry[t].mark <= posted /\ entry[t].unread <= posted
    /\ fetch[t].mark <= posted /\ fetch[t].unread <= posted

SentBounds ==
  /\ \A e \in emits : e.m <= posted
  /\ \A c \in receipts : c.m <= posted

(* A tab that is connected holds the last read it emitted, and no other. *)
HeldInv ==
  \A e \in emits : e.held =>
    /\ conn[e.tab]
    /\ \A f \in emits : f.held /\ f.tab = e.tab => f = e

KeepInv == \A e \in emits : e.held => entry[e.tab].mark >= e.m

Inv == Types /\ TabBounds /\ SentBounds /\ HeldInv /\ KeepInv

-----------------------------------------------------------------------------
LEMMA InvGivesHoldKeeps == Inv => HoldKeeps
  <1> SUFFICES ASSUME Inv PROVE HoldKeeps
    OBVIOUS
  <1> USE DEF Inv, Types
  <1>1. ASSUME NEW t \in Tabs
        PROVE  /\ newest[t] \in 1 .. posted /\ window[t].held \in 0 .. newest[t]
               /\ entry[t].mark \in 0 .. posted /\ entry[t].unread \in 0 .. posted
               /\ fetch[t].at \in {"none", "asked", "served"}
    <2>1. newest[t] \in Nat /\ window[t] \in [open : BOOLEAN, held : Nat]
          /\ entry[t] \in [mark : Nat, unread : Nat]
          /\ fetch[t] \in [at : {"none", "asked", "served"}, mark : Nat, unread : Nat]
      OBVIOUS
    <2> QED
      BY <2>1 DEF TabBounds
  <1>2. \A e, f \in emits : e.held => conn[e.tab] /\ (f.held /\ f.tab = e.tab => f = e)
    BY DEF HeldInv
  <1> QED
    BY <1>1, <1>2 DEF HoldKeeps, TypeOK, KeepInv

LEMMA InitInv == Init => Inv
  <1> SUFFICES ASSUME Init PROVE Inv
    OBVIOUS
  <1> USE ReadMarkersAssumption DEF Init
  <1>1. Truth = [mark |-> 0, unread |-> 1]
    BY DEF Truth
  <1>2. Types
    BY <1>1 DEF Types, Closed, NoFetch
  <1>3. ASSUME NEW t \in Tabs
        PROVE  /\ newest[t] = 1 /\ window[t].held = 0
               /\ entry[t].mark = 0 /\ entry[t].unread = 1
               /\ fetch[t].mark = 0 /\ fetch[t].unread = 0
    BY <1>1 DEF Closed, NoFetch
  <1>4. TabBounds
    <2> SUFFICES ASSUME NEW t \in Tabs
                 PROVE  /\ 1 <= newest[t] /\ newest[t] <= posted /\ window[t].held <= newest[t]
                        /\ entry[t].mark <= posted /\ entry[t].unread <= posted
                        /\ fetch[t].mark <= posted /\ fetch[t].unread <= posted
      BY DEF TabBounds
    <2>1. posted = 1
      OBVIOUS
    <2> HIDE DEF Init
    <2> QED
      BY <1>3, <2>1
  <1> QED
    BY <1>2, <1>4 DEF Inv, SentBounds, HeldInv, KeepInv

-----------------------------------------------------------------------------
(* What an emission does. *)

(* The marker of a list never moves back by a read. *)
LEMMA ReadBounds ==
  ASSUME NEW e \in [mark : Nat, unread : Nat], NEW m \in Nat
  PROVE  /\ Read(e, m) \in [mark : Nat, unread : Nat]
         /\ Read(e, m).mark >= m /\ Read(e, m).mark >= e.mark
         /\ Read(e, m).mark = m \/ Read(e, m).mark = e.mark
         /\ Read(e, m).unread <= e.unread
  BY DEF Read

LEMMA SendKeeps ==
  ASSUME Inv, NEW t \in Tabs, NEW m \in Nat, m <= posted, Send(t, m),
         UNCHANGED <<posted, conn>>
  PROVE  /\ emits' \subseteq Emits /\ entry' \in [Tabs -> [mark : Nat, unread : Nat]]
         /\ \A u \in Tabs : entry'[u].mark <= posted /\ entry'[u].unread <= posted
         /\ \A e \in emits' : e.m <= posted
         /\ HeldInv' /\ KeepInv'
  <1> USE DEF Inv, Types
  <1>1. CASE Sends(t, m)
    <2> DEFINE mine == [tab |-> t, m |-> m, at |-> "sent", held |-> TRUE]
    <2>1. entry' = [entry EXCEPT ![t] = Read(@, m)]
      BY <1>1 DEF Send
    <2>2. ASSUME NEW u \in Tabs
          PROVE  /\ entry'[u] \in [mark : Nat, unread : Nat]
                 /\ entry'[u].mark <= posted /\ entry'[u].unread <= posted
                 /\ entry'[u].mark >= entry[u].mark
                 /\ u = t => entry'[u].mark >= m
      <3>1. entry[u] \in [mark : Nat, unread : Nat] /\ entry[u].mark <= posted /\ entry[u].unread <= posted
        BY DEF TabBounds
      <3>2. CASE u = t
        <4>1. entry'[u] = Read(entry[u], m)
          BY <2>1, <3>2
        <4>2. /\ Read(entry[u], m) \in [mark : Nat, unread : Nat]
              /\ Read(entry[u], m).mark >= m /\ Read(entry[u], m).mark >= entry[u].mark
              /\ Read(entry[u], m).mark = m \/ Read(entry[u], m).mark = entry[u].mark
              /\ Read(entry[u], m).unread <= entry[u].unread
          BY <3>1, ReadBounds
        <4>3. /\ entry[u].mark \in Nat /\ entry[u].unread \in Nat /\ posted \in Nat
              /\ Read(entry[u], m).unread \in Nat
          BY <3>1, <4>2
        <4> QED
          BY <4>1, <4>2, <4>3, <3>1
      <3>3. CASE u # t
        BY <3>3, <3>1, <2>1
      <3> QED
        BY <3>2, <3>3
    <2>3. ASSUME NEW f \in emits'
          PROVE  \/ f = mine
                 \/ f \in emits /\ f.tab # t
                 \/ f \in Emits /\ f.tab = t /\ ~f.held /\ f.m <= posted
      <3>1. CASE f = mine
        BY <3>1
      <3>2. CASE f # mine
        <4>1. PICK e \in {g \in emits : g.tab # t \/ g.at = "sent"} :
                f = IF e.tab = t THEN [e EXCEPT !.held = FALSE] ELSE e
          BY <1>1, <3>2 DEF Send
        <4>2. e \in Emits /\ e.m <= posted
          BY DEF SentBounds
        <4> QED
          BY <4>1, <4>2 DEF Emits
      <3> QED
        BY <3>1, <3>2
    <2>4. mine \in Emits /\ mine.tab = t /\ mine.m = m /\ mine.held
      BY DEF Emits
    <2>5. conn[t] /\ conn' = conn
      BY <1>1 DEF Sends
    <2> HIDE DEF mine
    <2>6. emits' \subseteq Emits /\ \A e \in emits' : e.m <= posted
      BY <2>3, <2>4 DEF SentBounds
    <2>7. entry' \in [Tabs -> [mark : Nat, unread : Nat]]
      BY <2>1, <2>2
    <2>8. HeldInv'
      <3> SUFFICES ASSUME NEW e \in emits', e.held
                   PROVE  conn'[e.tab] /\ \A f \in emits' : f.held /\ f.tab = e.tab => f = e
        BY DEF HeldInv
      <3>1. CASE e = mine
        BY <3>1, <2>3, <2>4, <2>5
      <3>2. CASE e \in emits /\ e.tab # t
        BY <3>2, <2>3, <2>4, <2>5 DEF HeldInv
      <3> QED
        BY <3>1, <3>2, <2>3
    <2>9. KeepInv'
      <3> SUFFICES ASSUME NEW e \in emits', e.held PROVE entry'[e.tab].mark >= e.m
        BY DEF KeepInv
      <3>1. CASE e = mine
        BY <3>1, <2>2, <2>4
      <3>2. CASE e \in emits /\ e.tab # t
        <4>1. e.tab \in Tabs /\ e.m \in Nat /\ entry[e.tab].mark >= e.m
          BY <3>2 DEF KeepInv, Emits
        <4>2. entry[e.tab] \in [mark : Nat, unread : Nat]
          BY <4>1
        <4> QED
          BY <4>1, <4>2, <2>2
      <3> QED
        BY <3>1, <3>2, <2>3
    <2> QED
      BY <2>2, <2>6, <2>7, <2>8, <2>9
  <1>2. CASE ~Sends(t, m)
    <2>1. UNCHANGED <<emits, entry>>
      BY <1>2 DEF Send
    <2> QED
      BY <2>1 DEF TabBounds, SentBounds, HeldInv, KeepInv
  <1> QED
    BY <1>1, <1>2
-----------------------------------------------------------------------------
(* The steps. *)

(* What a tab holds for itself, as long as no read is involved. *)
LEMMA TabFacts ==
  ASSUME Inv, NEW t \in Tabs
  PROVE  /\ posted \in Nat /\ marker \in Nat /\ posted <= MaxMessages
         /\ newest[t] \in Nat /\ 1 <= newest[t] /\ newest[t] <= posted
         /\ window[t] \in [open : BOOLEAN, held : Nat]
         /\ window[t].held \in Nat /\ window[t].held <= newest[t] /\ window[t].held <= posted
         /\ entry[t] \in [mark : Nat, unread : Nat]
         /\ entry[t].mark \in Nat /\ entry[t].unread \in Nat
         /\ entry[t].mark <= posted /\ entry[t].unread <= posted
         /\ fetch[t] \in [at : {"none", "asked", "served"}, mark : Nat, unread : Nat]
         /\ fetch[t].mark \in Nat /\ fetch[t].unread \in Nat
         /\ fetch[t].mark <= posted /\ fetch[t].unread <= posted
  <1> USE DEF Inv, Types
  <1>1. /\ posted \in Nat /\ marker \in Nat /\ posted <= MaxMessages
        /\ newest[t] \in Nat /\ window[t] \in [open : BOOLEAN, held : Nat]
        /\ entry[t] \in [mark : Nat, unread : Nat]
        /\ fetch[t] \in [at : {"none", "asked", "served"}, mark : Nat, unread : Nat]
    BY ReadMarkersAssumption
  <1> QED
    BY <1>1 DEF TabBounds

LEMMA PostKeeps ==
  ASSUME Inv, Post PROVE Inv'
  <1> USE ReadMarkersAssumption DEF Inv, Post, server, tab
  <1>1. Types'
    BY DEF Types
  <1>2. TabBounds'
    <2> SUFFICES ASSUME NEW t \in Tabs
                 PROVE  /\ 1 <= newest'[t] /\ newest'[t] <= posted' /\ window'[t].held <= newest'[t]
                        /\ entry'[t].mark <= posted' /\ entry'[t].unread <= posted'
                        /\ fetch'[t].mark <= posted' /\ fetch'[t].unread <= posted'
      BY DEF TabBounds
    <2>1. posted' = posted + 1 /\ UNCHANGED <<newest, window, entry, fetch>>
      OBVIOUS
    <2> QED
      BY <2>1, TabFacts
  <1>3. SentBounds'
    <2>1. posted \in Nat /\ posted' = posted + 1 /\ UNCHANGED <<emits, receipts>>
      BY DEF Types
    <2>2. /\ \A e \in emits : e.m \in Nat /\ e.m <= posted
          /\ \A c \in receipts : c.m \in Nat /\ c.m <= posted
      BY DEF Types, SentBounds, Emits
    <2> QED
      BY <2>1, <2>2 DEF SentBounds
  <1>4. HeldInv' /\ KeepInv'
    BY DEF HeldInv, KeepInv
  <1> QED
    BY <1>1, <1>2, <1>3, <1>4

LEMMA SeeKeeps ==
  ASSUME Inv, NEW t \in Tabs, See(t) PROVE Inv'
  <1> USE DEF Inv, See, server
  <1>1. Types'
    BY DEF Types
  <1>2. TabBounds'
    <2> SUFFICES ASSUME NEW u \in Tabs
                 PROVE  /\ 1 <= newest'[u] /\ newest'[u] <= posted' /\ window'[u].held <= newest'[u]
                        /\ entry'[u].mark <= posted' /\ entry'[u].unread <= posted'
                        /\ fetch'[u].mark <= posted' /\ fetch'[u].unread <= posted'
      BY DEF TabBounds
    <2>1. newest'[u] = IF u = t THEN posted ELSE newest[u]
      BY DEF Types
    <2>2. UNCHANGED <<posted, window, entry, fetch>>
      OBVIOUS
    <2> QED
      BY <2>1, <2>2, TabFacts
  <1> QED
    BY <1>1, <1>2 DEF SentBounds, HeldInv, KeepInv

(* Steps that touch nothing the invariant is about. *)
LEMMA SameKeeps ==
  ASSUME Inv, UNCHANGED <<posted, marker, conn, newest, window, entry, fetch, emits, receipts>>
  PROVE  Inv'
  BY DEF Inv, Types, TabBounds, SentBounds, HeldInv, KeepInv

(* A window opened or filled, with or without a read sent. *)
LEMMA WindowKeeps ==
  ASSUME Inv, NEW t \in Tabs, NEW w \in [open : BOOLEAN, held : Nat], w.held <= newest[t],
         NEW m \in Nat, m <= posted,
         Send(t, m) \/ UNCHANGED <<emits, entry>>,
         window' = [window EXCEPT ![t] = w],
         UNCHANGED <<posted, marker, conn, newest, fetch, receipts>>
  PROVE  Inv'
  <1>1. /\ emits' \subseteq Emits /\ entry' \in [Tabs -> [mark : Nat, unread : Nat]]
        /\ \A u \in Tabs : entry'[u].mark <= posted /\ entry'[u].unread <= posted
        /\ \A e \in emits' : e.m <= posted
        /\ HeldInv' /\ KeepInv'
    <2>1. CASE Send(t, m)
      BY <2>1, SendKeeps
    <2>2. CASE UNCHANGED <<emits, entry>>
      BY <2>2 DEF Inv, Types, TabBounds, SentBounds, HeldInv, KeepInv
    <2> QED
      BY <2>1, <2>2
  <1>2. Types'
    BY <1>1 DEF Inv, Types
  <1>3. TabBounds'
    <2> SUFFICES ASSUME NEW u \in Tabs PROVE window'[u].held <= newest[u]
      BY <1>1 DEF Inv, TabBounds
    <2>1. window'[u] = IF u = t THEN w ELSE window[u]
      BY DEF Inv, Types
    <2> QED
      BY <2>1, TabFacts
  <1>4. SentBounds'
    BY <1>1 DEF Inv, SentBounds
  <1> QED
    BY <1>1, <1>2, <1>3, <1>4 DEF Inv

LEMMA ReadingKeeps ==
  ASSUME Inv, NEW t \in Tabs, Request(t) \/ WindowEnds(t) \/ Leave(t) PROVE Inv'
  <1> DEFINE n == newest[t]  h == window[t].held
  <1>1. /\ n \in Nat /\ n <= posted /\ h \in Nat /\ h <= n /\ h <= posted /\ 0 <= n
    BY TabFacts
  <1>2. /\ Open(n) \in [open : BOOLEAN, held : Nat] /\ Open(n).held = n
        /\ Open(0) \in [open : BOOLEAN, held : Nat] /\ Open(0).held = 0
        /\ Closed \in [open : BOOLEAN, held : Nat] /\ Closed.held = 0
    BY <1>1 DEF Open, Closed
  <1>3. CASE Request(t)
    <2>1. CASE window[t].open
      <3>1. UNCHANGED <<emits, entry>> /\ window' = [window EXCEPT ![t] = Open(n)]
            /\ UNCHANGED <<posted, marker, conn, newest, fetch, receipts>>
        BY <1>3, <2>1 DEF Request, server
      <3>2. Open(n).held <= newest[t]
        BY <1>1, <1>2
      <3> HIDE DEF n, h
      <3> QED
        BY <1>1, <1>2, <3>1, <3>2, WindowKeeps
    <2>2. CASE ~window[t].open
      <3>1. PICK w \in {Open(0), Closed} : window' = [window EXCEPT ![t] = w]
        BY <1>3, <2>2 DEF Request
      <3>2. Send(t, n) /\ UNCHANGED <<posted, marker, conn, newest, fetch, receipts>>
        BY <1>3, <2>2 DEF Request, server
      <3>3. w \in [open : BOOLEAN, held : Nat] /\ w.held <= newest[t]
        BY <1>1, <1>2
      <3> HIDE DEF n, h
      <3> QED
        BY <1>1, <3>1, <3>2, <3>3, WindowKeeps
    <2> QED
      BY <2>1, <2>2
  <1>4. CASE WindowEnds(t)
    <2>1. PICK w \in {Open(0), Closed} : window' = [window EXCEPT ![t] = w]
      BY <1>4 DEF WindowEnds
    <2>2. /\ Send(t, h) \/ UNCHANGED <<emits, entry>>
          /\ UNCHANGED <<posted, marker, conn, newest, fetch, receipts>>
      BY <1>4 DEF WindowEnds, server
    <2>3. w \in [open : BOOLEAN, held : Nat] /\ w.held <= newest[t]
      BY <1>1, <1>2
    <2> HIDE DEF n, h
    <2> QED
      BY <1>1, <2>1, <2>2, <2>3, WindowKeeps
  <1>5. CASE Leave(t)
    <2>1. /\ Send(t, h) \/ UNCHANGED <<emits, entry>>
          /\ window' = [window EXCEPT ![t] = Closed]
          /\ UNCHANGED <<posted, marker, conn, newest, fetch, receipts>>
      BY <1>5 DEF Leave, server
    <2>2. Closed.held <= newest[t]
      BY <1>1, <1>2
    <2> HIDE DEF n, h
    <2> QED
      BY <1>1, <1>2, <2>1, <2>2, WindowKeeps
  <1> QED
    BY <1>3, <1>4, <1>5
-----------------------------------------------------------------------------
(* The list of channels, and what is on its way. *)

FetchSet == [at : {"none", "asked", "served"}, mark : Nat, unread : Nat]

(* An entry and a fetch are written, the entry no lower than what is held. *)
LEMMA ListKeeps ==
  ASSUME Inv, NEW t \in Tabs,
         NEW x \in [mark : Nat, unread : Nat], x.mark <= posted, x.unread <= posted,
         NEW y \in FetchSet, y.mark <= posted, y.unread <= posted,
         \A e \in emits : e.held /\ e.tab = t => x.mark >= e.m,
         entry' = [entry EXCEPT ![t] = x], fetch' = [fetch EXCEPT ![t] = y],
         receipts' \subseteq receipts,
         UNCHANGED <<posted, marker, conn, newest, window, emits>>
  PROVE  Inv'
  <1>1. Types'
    BY DEF Inv, Types, FetchSet
  <1>2. ASSUME NEW u \in Tabs
        PROVE  /\ entry'[u] = IF u = t THEN x ELSE entry[u]
               /\ fetch'[u] = IF u = t THEN y ELSE fetch[u]
    BY DEF Inv, Types
  <1>3. TabBounds'
    <2> SUFFICES ASSUME NEW u \in Tabs
                 PROVE  /\ entry'[u].mark <= posted /\ entry'[u].unread <= posted
                        /\ fetch'[u].mark <= posted /\ fetch'[u].unread <= posted
      BY DEF Inv, TabBounds
    <2> QED
      BY <1>2 DEF Inv, TabBounds
  <1>4. SentBounds' /\ HeldInv'
    BY DEF Inv, SentBounds, HeldInv
  <1>5. KeepInv'
    <2> SUFFICES ASSUME NEW e \in emits, e.held PROVE entry'[e.tab].mark >= e.m
      BY DEF KeepInv
    <2>1. e.tab \in Tabs
      BY DEF Inv, Types, Emits
    <2> QED
      BY <1>2, <2>1 DEF Inv, KeepInv
  <1> QED
    BY <1>1, <1>3, <1>4, <1>5 DEF Inv

LEMMA NoFetchType ==
  ASSUME Inv
  PROVE  /\ NoFetch \in FetchSet /\ NoFetch.mark <= posted /\ NoFetch.unread <= posted
         /\ Asked \in FetchSet /\ Asked.mark <= posted /\ Asked.unread <= posted
  <1>1. posted \in Nat /\ 0 <= posted
    BY ReadMarkersAssumption DEF Inv, Types
  <1>2. /\ NoFetch \in FetchSet /\ NoFetch.mark = 0 /\ NoFetch.unread = 0
        /\ Asked \in FetchSet /\ Asked.mark = 0 /\ Asked.unread = 0
    BY DEF NoFetch, Asked, FetchSet
  <1> QED
    BY <1>1, <1>2

(* What an entry holds is no lower than the read that is held. *)
LEMMA EntryCovers ==
  ASSUME Inv, NEW t \in Tabs
  PROVE  \A e \in emits : e.held /\ e.tab = t => entry[t].mark >= e.m
  BY DEF Inv, KeepInv

LEMMA PollKeeps ==
  ASSUME Inv, NEW t \in Tabs, Poll(t) \/ Serve(t) PROVE Inv'
  <1>1. PICK y \in FetchSet : /\ fetch' = [fetch EXCEPT ![t] = y]
                             /\ y.mark <= posted /\ y.unread <= posted
    <2>1. CASE Poll(t)
      BY <2>1, NoFetchType DEF Poll
    <2>2. CASE Serve(t)
      <3> DEFINE z == [at |-> "served", mark |-> marker, unread |-> posted - marker]
      <3>1. marker \in Nat /\ posted \in Nat /\ marker <= posted
        BY ReadMarkersAssumption DEF Inv, Types
      <3>2. posted - marker \in Nat /\ posted - marker <= posted
        BY <3>1
      <3>3. z \in FetchSet /\ z.mark = marker /\ z.unread = posted - marker
        BY <3>1, <3>2 DEF FetchSet
      <3>4. fetch' = [fetch EXCEPT ![t] = z]
        BY <2>2 DEF Serve, Truth
      <3> QED
        BY <3>1, <3>2, <3>3, <3>4
    <2> QED
      BY <2>1, <2>2
  <1>2. UNCHANGED <<posted, marker, conn, newest, window, entry, emits, receipts>>
    BY DEF Poll, Serve, server
  <1>3. entry' = [entry EXCEPT ![t] = entry[t]] /\ receipts' \subseteq receipts
    BY <1>2 DEF Inv, Types
  <1> QED
    BY <1>1, <1>2, <1>3, ListKeeps, TabFacts, EntryCovers

LEMMA LandKeeps ==
  ASSUME Inv, NEW t \in Tabs, Land(t) PROVE Inv'
  <1> DEFINE held == {e.m : e \in {f \in emits : f.tab = t /\ f.held}}
             top == CHOOSE m \in held : \A n \in held : n <= m
             x == Landed(t)
  <1>1. /\ Fetched(t) \in [mark : Nat, unread : Nat]
        /\ Fetched(t).mark <= posted /\ Fetched(t).unread <= posted /\ posted \in Nat
    BY TabFacts DEF Fetched
  <1>2. /\ x \in [mark : Nat, unread : Nat] /\ x.mark <= posted /\ x.unread <= posted
        /\ \A e \in emits : e.held /\ e.tab = t => x.mark >= e.m
    <2>1. CASE held = {}
      <3>1. x = Fetched(t)
        BY <2>1 DEF Landed
      <3>2. \A e \in emits : ~(e.held /\ e.tab = t)
        BY <2>1
      <3> QED
        BY <1>1, <3>1, <3>2
    <2>2. CASE held # {}
      <3>1. PICK e \in emits : e.held /\ e.tab = t
        BY <2>2
      <3>2. e.m \in Nat /\ e.m <= posted
        BY DEF Inv, Types, Emits, SentBounds
      <3>3. \A f \in emits : f.held /\ f.tab = t => f = e
        BY <3>1 DEF Inv, HeldInv
      <3>4. held = {e.m}
        BY <3>1, <3>3
      <3>5. top = e.m
        BY <3>2, <3>4
      <3>6. x = Read(Fetched(t), e.m)
        BY <2>2, <3>5 DEF Landed
      <3>7. /\ x \in [mark : Nat, unread : Nat] /\ x.mark >= e.m
            /\ x.mark = e.m \/ x.mark = Fetched(t).mark
            /\ x.unread <= Fetched(t).unread
        BY <1>1, <3>2, <3>6, ReadBounds
      <3> HIDE DEF x, held, top
      <3>8. x.mark \in Nat /\ x.unread \in Nat /\ Fetched(t).unread \in Nat
        BY <3>7, <1>1
      <3> QED
        BY <1>1, <3>2, <3>3, <3>7, <3>8
    <2> QED
      BY <2>1, <2>2
  <1>3. /\ entry' = [entry EXCEPT ![t] = x] /\ fetch' = [fetch EXCEPT ![t] = NoFetch]
        /\ UNCHANGED <<posted, marker, conn, newest, window, emits>> /\ receipts' \subseteq receipts
    BY DEF Land, server
  <1> HIDE DEF x, held, top
  <1> QED
    BY <1>2, <1>3, NoFetchType, ListKeeps

LEMMA ReceiveKeeps ==
  ASSUME Inv, NEW c \in receipts, Receive(c) PROVE Inv'
  <1> DEFINE t == c.tab
  <1>1. t \in Tabs /\ c.m \in Nat /\ c.m <= posted
    BY DEF Inv, Types, SentBounds
  <1>2. /\ UNCHANGED <<posted, marker, conn, newest, window, emits>> /\ receipts' \subseteq receipts
        /\ entry = [entry EXCEPT ![t] = entry[t]] /\ fetch = [fetch EXCEPT ![t] = fetch[t]]
    BY DEF Receive, server, Inv, Types
  <1>3. CASE c.m >= newest[c.tab]
    <2> DEFINE x == Read(entry[t], c.m)
    <2>1. entry' = [entry EXCEPT ![t] = x] /\ fetch' = [fetch EXCEPT ![t] = fetch[t]]
      BY <1>3, <1>2 DEF Receive
    <2>2. /\ x \in [mark : Nat, unread : Nat] /\ x.mark >= c.m /\ x.mark >= entry[t].mark
          /\ x.mark = c.m \/ x.mark = entry[t].mark
          /\ x.unread <= entry[t].unread
      BY <1>1, TabFacts, ReadBounds
    <2> HIDE DEF x
    <2>3. /\ x.mark \in Nat /\ x.unread \in Nat /\ entry[t].mark \in Nat /\ entry[t].unread \in Nat
          /\ posted \in Nat /\ entry[t].mark <= posted /\ entry[t].unread <= posted
          /\ fetch[t] \in FetchSet /\ fetch[t].mark <= posted /\ fetch[t].unread <= posted
      BY <1>1, <2>2, TabFacts DEF FetchSet
    <2>4. x.mark <= posted /\ x.unread <= posted
      BY <1>1, <2>2, <2>3
    <2>5. ASSUME NEW e \in emits, e.held, e.tab = t PROVE x.mark >= e.m
      <3>1. e.m \in Nat /\ entry[t].mark >= e.m
        BY <1>1, <2>5, EntryCovers DEF Inv, Types, Emits
      <3> QED
        BY <3>1, <2>2, <2>3
    <2> HIDE DEF t
    <2> QED
      BY <1>1, <1>2, <2>1, <2>2, <2>3, <2>4, <2>5, ListKeeps
  <1>4. CASE ~(c.m >= newest[c.tab])
    <2>1. entry' = [entry EXCEPT ![t] = entry[t]] /\ fetch' = [fetch EXCEPT ![t] = Asked]
      BY <1>4, <1>2 DEF Receive
    <2> HIDE DEF t
    <2> QED
      BY <1>1, <1>2, <2>1, NoFetchType, ListKeeps, TabFacts, EntryCovers
  <1> QED
    BY <1>3, <1>4
-----------------------------------------------------------------------------
(* The server, the acks and the connection. *)

(* Each read held after the step was held before it, by the same tab, for  *)
(* the same message, and no two have become held of one tab.               *)
LEMMA SentKeeps ==
  ASSUME Inv, marker' \in 0 .. posted,
         receipts' \subseteq [tab : Tabs, m : Nat], \A c \in receipts' : c.m <= posted,
         \A f \in emits' : f \in Emits /\ f.m <= posted,
         \A f \in emits' : f.held => /\ conn'[f.tab]
                                    /\ \E e \in emits : e.held /\ e.tab = f.tab /\ e.m = f.m,
         \A f, g \in emits' : f.held /\ g.held /\ f.tab = g.tab => f = g,
         conn' \in [Tabs -> BOOLEAN], fetch' \in [Tabs -> FetchSet],
         \A t \in Tabs : fetch'[t].mark <= posted /\ fetch'[t].unread <= posted,
         window' \in [Tabs -> [open : BOOLEAN, held : Nat]],
         \A t \in Tabs : window'[t].held <= newest[t],
         UNCHANGED <<posted, newest, entry>>
  PROVE  Inv'
  <1>1. Types'
    BY DEF Inv, Types, FetchSet
  <1>2. TabBounds' /\ SentBounds'
    BY DEF Inv, TabBounds, SentBounds
  <1>3. HeldInv'
    BY DEF HeldInv
  <1>4. KeepInv'
    BY DEF Inv, KeepInv
  <1> QED
    BY <1>1, <1>2, <1>3, <1>4 DEF Inv

(* What the tabs keep for themselves stays within its bounds. *)
LEMMA TabsSame ==
  ASSUME Inv, UNCHANGED <<conn, window, fetch>>
  PROVE  /\ conn' \in [Tabs -> BOOLEAN] /\ fetch' \in [Tabs -> FetchSet]
         /\ \A t \in Tabs : fetch'[t].mark <= posted /\ fetch'[t].unread <= posted
         /\ window' \in [Tabs -> [open : BOOLEAN, held : Nat]]
         /\ \A t \in Tabs : window'[t].held <= newest[t]
  BY DEF Inv, Types, TabBounds, FetchSet

LEMMA EmitFacts ==
  ASSUME Inv
  PROVE  /\ \A e \in emits : e \in Emits /\ e.m \in Nat /\ e.m <= posted /\ e.tab \in Tabs
         /\ \A e \in emits : e.held => conn[e.tab]
         /\ \A e, f \in emits : e.held /\ f.held /\ e.tab = f.tab => e = f
         /\ receipts \subseteq [tab : Tabs, m : Nat] /\ \A c \in receipts : c.m <= posted
         /\ marker \in 0 .. posted
  BY DEF Inv, Types, SentBounds, HeldInv, Emits

LEMMA AckKeeps ==
  ASSUME Inv, NEW e \in emits, MarkRead(e) \/ Ack(e) \/ Timeout(e) PROVE Inv'
  <1> DEFINE a == [e EXCEPT !.at = "acked"]  r == [e EXCEPT !.held = FALSE]
  <1>1. e \in Emits /\ e.m \in Nat /\ e.m <= posted /\ e.tab \in Tabs
    BY EmitFacts
  <1>2. /\ a \in Emits /\ a.tab = e.tab /\ a.m = e.m /\ a.held = e.held
        /\ r \in Emits /\ r.tab = e.tab /\ r.m = e.m /\ ~r.held
    BY <1>1 DEF Emits
  <1>3. UNCHANGED <<posted, conn, newest, window, entry, fetch>>
    BY DEF MarkRead, Ack, Timeout, server, tab
  <1>4. ASSUME NEW f \in emits'
        PROVE  \/ f \in emits /\ f # e
               \/ f = a /\ e.held /\ MarkRead(e)
               \/ f = r
    <2>1. CASE MarkRead(e)
      BY <2>1 DEF MarkRead
    <2>2. CASE Ack(e)
      BY <2>2 DEF Ack
    <2>3. CASE Timeout(e)
      BY <2>3 DEF Timeout, Released
    <2> QED
      BY <2>1, <2>2, <2>3
  <1> HIDE DEF a, r
  <1>5. \A f \in emits' : f \in Emits /\ f.m <= posted
    BY <1>1, <1>2, <1>4, EmitFacts
  <1>6. \A f \in emits' : f.held => /\ conn'[f.tab]
                                  /\ \E g \in emits : g.held /\ g.tab = f.tab /\ g.m = f.m
    BY <1>2, <1>3, <1>4, EmitFacts
  <1>7. \A f, g \in emits' : f.held /\ g.held /\ f.tab = g.tab => f = g
    BY <1>2, <1>4, EmitFacts
  <1>8. /\ marker' \in 0 .. posted
        /\ receipts' \subseteq [tab : Tabs, m : Nat] /\ \A c \in receipts' : c.m <= posted
    <2>1. CASE MarkRead(e)
      <3>1. marker' = marker \/ marker' = e.m
        BY <2>1 DEF MarkRead, Upsert
      <3>2. \A c \in receipts' : c \in receipts \/ \E t \in Tabs : c = [tab |-> t, m |-> e.m]
        BY <2>1 DEF MarkRead
      <3> QED
        BY <1>1, <3>1, <3>2, EmitFacts DEF Inv, Types
    <2>2. CASE ~MarkRead(e)
      BY <2>2, EmitFacts DEF Ack, Timeout, server
    <2> QED
      BY <2>1, <2>2
  <1> QED
    BY <1>3, <1>5, <1>6, <1>7, <1>8, TabsSame, SentKeeps

LEMMA ElsewhereKeeps ==
  ASSUME Inv, NEW m \in 1 .. MaxMessages, Elsewhere(m) PROVE Inv'
  <1>1. UNCHANGED <<posted, conn, newest, window, entry, fetch, emits>>
    BY DEF Elsewhere, tab
  <1>2. m \in Nat /\ m <= posted /\ posted \in Nat
    BY ReadMarkersAssumption DEF Elsewhere, Inv, Types
  <1>3. marker' \in 0 .. posted
    BY <1>2, EmitFacts DEF Elsewhere, Upsert
  <1>4. \A c \in receipts' : c \in receipts \/ \E t \in Tabs : c = [tab |-> t, m |-> m]
    BY DEF Elsewhere
  <1>5. receipts' \subseteq [tab : Tabs, m : Nat] /\ \A c \in receipts' : c.m <= posted
    BY <1>2, <1>4, EmitFacts
  <1>6. /\ \A f \in emits' : f \in Emits /\ f.m <= posted
        /\ \A f \in emits' : f.held => /\ conn'[f.tab]
                                     /\ \E e \in emits : e.held /\ e.tab = f.tab /\ e.m = f.m
        /\ \A f, g \in emits' : f.held /\ g.held /\ f.tab = g.tab => f = g
    BY <1>1, EmitFacts
  <1> QED
    BY <1>1, <1>3, <1>5, <1>6, TabsSame, SentKeeps

LEMMA DisconnectKeeps ==
  ASSUME Inv, NEW t \in Tabs, Disconnect(t) PROVE Inv'
  <1> DEFINE own == {e \in emits : e.tab = t}
  <1>1. PICK there \in SUBSET {e \in own : e.at = "sent"} :
          emits' = (emits \ own) \cup Released(there)
    BY DEF Disconnect
  <1>2. ASSUME NEW f \in emits'
        PROVE  \/ f \in emits /\ f.tab # t
               \/ f \in Emits /\ f.m <= posted /\ ~f.held
    <2>1. CASE f \in emits \ own
      BY <2>1
    <2>2. CASE f \in Released(there)
      <3>1. PICK e \in there : f = [e EXCEPT !.held = FALSE]
        BY <2>2 DEF Released
      <3>2. e \in Emits /\ e.m <= posted
        BY EmitFacts
      <3> QED
        BY <3>1, <3>2 DEF Emits
    <2> QED
      BY <1>1, <2>1, <2>2
  <1>3. /\ UNCHANGED <<posted, marker, newest, entry, fetch>>
        /\ conn' = [conn EXCEPT ![t] = FALSE] /\ receipts' \subseteq receipts
        /\ window' = window \/ window' = [window EXCEPT ![t] = Closed]
    BY DEF Disconnect, server
  <1> HIDE DEF own
  <1>4. \A f \in emits' : f \in Emits /\ f.m <= posted
    BY <1>2, EmitFacts
  <1>5. \A f \in emits' : f.held => /\ conn'[f.tab]
                                  /\ \E e \in emits : e.held /\ e.tab = f.tab /\ e.m = f.m
    <2> SUFFICES ASSUME NEW f \in emits', f.held
                 PROVE  conn'[f.tab] /\ \E e \in emits : e.held /\ e.tab = f.tab /\ e.m = f.m
      OBVIOUS
    <2>1. f \in emits /\ f.tab # t /\ f.tab \in Tabs /\ conn[f.tab]
      BY <1>2, EmitFacts
    <2> QED
      BY <2>1, <1>3 DEF Inv, Types
  <1>6. \A f, g \in emits' : f.held /\ g.held /\ f.tab = g.tab => f = g
    BY <1>2, EmitFacts
  <1>7. /\ conn' \in [Tabs -> BOOLEAN] /\ fetch' \in [Tabs -> FetchSet]
        /\ \A u \in Tabs : fetch'[u].mark <= posted /\ fetch'[u].unread <= posted
    BY <1>3 DEF Inv, Types, TabBounds, FetchSet
  <1>8. /\ window' \in [Tabs -> [open : BOOLEAN, held : Nat]]
        /\ \A u \in Tabs : window'[u].held <= newest[u]
    <2>1. Closed \in [open : BOOLEAN, held : Nat] /\ Closed.held = 0
      BY DEF Closed
    <2>2. window' \in [Tabs -> [open : BOOLEAN, held : Nat]]
      BY <1>3, <2>1 DEF Inv, Types
    <2>3. ASSUME NEW u \in Tabs PROVE window'[u].held <= newest[u]
      <3>1. window'[u] = window[u] \/ window'[u] = Closed
        BY <1>3 DEF Inv, Types
      <3> QED
        BY <2>1, <3>1, TabFacts
    <2> QED
      BY <2>2, <2>3
  <1>9. /\ marker' \in 0 .. posted /\ receipts' \subseteq [tab : Tabs, m : Nat]
        /\ \A c \in receipts' : c.m <= posted
    BY <1>3, EmitFacts
  <1> QED
    BY <1>3, <1>4, <1>5, <1>6, <1>7, <1>8, <1>9, SentKeeps

LEMMA ConnectKeeps ==
  ASSUME Inv, NEW t \in Tabs, Connect(t) PROVE Inv'
  <1>1. /\ UNCHANGED <<posted, marker, newest, entry, window, emits, receipts>>
        /\ conn' = [conn EXCEPT ![t] = TRUE] /\ fetch' = [fetch EXCEPT ![t] = Asked]
    BY DEF Connect, server
  <1>2. /\ conn' \in [Tabs -> BOOLEAN] /\ fetch' \in [Tabs -> FetchSet]
        /\ window' \in [Tabs -> [open : BOOLEAN, held : Nat]]
    BY <1>1, NoFetchType DEF Inv, Types, FetchSet
  <1>3. ASSUME NEW u \in Tabs
        PROVE  /\ fetch'[u].mark <= posted /\ fetch'[u].unread <= posted
               /\ window'[u].held <= newest[u]
    <2>1. fetch'[u] = IF u = t THEN Asked ELSE fetch[u]
      BY <1>1 DEF Inv, Types
    <2> QED
      BY <1>1, <2>1, NoFetchType, TabFacts
  <1>4. \A u \in Tabs : conn[u] => conn'[u]
    BY <1>1 DEF Inv, Types
  <1>5. /\ \A f \in emits' : f \in Emits /\ f.m <= posted
        /\ \A f \in emits' : f.held => /\ conn'[f.tab]
                                     /\ \E e \in emits : e.held /\ e.tab = f.tab /\ e.m = f.m
        /\ \A f, g \in emits' : f.held /\ g.held /\ f.tab = g.tab => f = g
    BY <1>1, <1>4, EmitFacts
  <1>6. /\ marker' \in 0 .. posted /\ receipts' \subseteq [tab : Tabs, m : Nat]
        /\ \A c \in receipts' : c.m <= posted
    BY <1>1, EmitFacts
  <1> QED
    BY <1>1, <1>2, <1>3, <1>5, <1>6, SentKeeps

-----------------------------------------------------------------------------
LEMMA StepInv == Inv /\ [Next]_vars => Inv'
  <1> SUFFICES ASSUME Inv, [Next]_vars PROVE Inv'
    OBVIOUS
  <1>1. CASE Post
    BY <1>1, PostKeeps
  <1>2. CASE \E t \in Tabs : See(t)
    BY <1>2, SeeKeeps
  <1>3. CASE \E t \in Tabs : Attend(t)
    BY <1>3, SameKeeps DEF Attend, server
  <1>4. CASE \E t \in Tabs : Request(t) \/ WindowEnds(t) \/ Leave(t)
    BY <1>4, ReadingKeeps
  <1>5. CASE \E t \in Tabs : Poll(t) \/ Serve(t)
    BY <1>5, PollKeeps
  <1>6. CASE \E t \in Tabs : Land(t)
    BY <1>6, LandKeeps
  <1>7. CASE \E t \in Tabs : Disconnect(t)
    BY <1>7, DisconnectKeeps
  <1>8. CASE \E t \in Tabs : Connect(t)
    BY <1>8, ConnectKeeps
  <1>9. CASE \E e \in emits : MarkRead(e) \/ Ack(e) \/ Timeout(e)
    BY <1>9, AckKeeps
  <1>10. CASE \E m \in 1 .. MaxMessages : Elsewhere(m)
    BY <1>10, ElsewhereKeeps
  <1>11. CASE \E c \in receipts : Receive(c)
    BY <1>11, ReceiveKeeps
  <1>12. CASE UNCHANGED vars
    BY <1>12, SameKeeps DEF vars, server, tab
  <1> QED
    BY <1>1, <1>2, <1>3, <1>4, <1>5, <1>6, <1>7, <1>8, <1>9, <1>10, <1>11, <1>12 DEF Next

(* useMarkRead.ts 10-13: a badge that a read has cleared stays cleared      *)
(* while the read is on its way, whatever fetches and receipts land.       *)
THEOREM ReadsAreHeld == Spec => []HoldKeeps
  <1> QED
    BY InitInv, StepInv, InvGivesHoldKeeps, PTL DEF Spec

-----------------------------------------------------------------------------
(* RoomCounts: the inductive invariants. *)

Reacting == {"react", "unreact"}

Replying == {"reply", "retract"}

(* A request that reacts is somebody's, and one that replies is a reply's. *)
OpInv ==
  \A h \in Handlers :
    /\ op[h].kind \in Reacting => op[h].who \in Users
    /\ op[h].kind \in Replying => op[h].who \in Replies

(* A transaction has rows of its own only between its write and its commit,*)
(* and inserts at most the one its request is for.                         *)
RowsInv ==
  \A h \in Handlers :
    /\ adds[h] # {} => op[h].kind = "react" /\ adds[h] \subseteq {op[h].who}
    /\ removals[h] # {} => op[h].kind \in {"unreact", "erase"}
    /\ at[h] \notin {"wrote", "counted"} => adds[h] = {} /\ removals[h] = {}

RoomTypes == RoomTypeOK /\ OpInv /\ RowsInv

InFlight(h) == at[h] \in {"loaded", "wrote", "counted"}

Erasing(h) == op[h].kind = "erase" /\ at[h] \in {"wrote", "counted"}

(* From the moment a tombstone is written, whoever is adding a reaction is *)
(* known to be racing with it.                                             *)
RaceInv ==
  (deleted \/ \E g \in Handlers : Erasing(g)) =>
    \A h \in Handlers : op[h].kind = "react" /\ InFlight(h) => op[h].who \in racing

(* A delete that has cleared the reactions misses only those. *)
ClearInv ==
  \A g \in Handlers : Erasing(g) => deleted \/ reactions \subseteq removals[g] \cup racing

TombstoneInv == RoomTypes /\ RaceInv /\ ClearInv /\ TombstoneCleared

Alone == {"react", "unreact", "edit"}

Changing == Alone \cup {"erase", "again"}

(* Where a request of each kind can be. *)
PlaceInv ==
  \A h \in Handlers :
    /\ at[h] \in {"wrote", "counted"} => op[h].kind \in Changing
    /\ at[h] = "committed" => op[h].kind \in Changing \cup Replying
    /\ at[h] = "read" => op[h].kind \in Replying
    /\ op[h].kind = "again" => deleted
    /\ op[h].kind = "erase" /\ at[h] = "committed" => deleted

(* What a handler holds to broadcast is what is committed, or what its own *)
(* commit will make so, until another's commit passes it.                  *)
SeenInv ==
  \A h \in Handlers :
    /\ at[h] = "counted" /\ op[h].kind \in Alone /\ "reactions" \notin passed[h] =>
         seen[h].reactions = Kept(h)
    /\ at[h] = "committed" /\ op[h].kind \in Alone /\ "reactions" \notin passed[h] =>
         seen[h].reactions = reactions
    /\ HasRead(h) /\ "replies" \in Carried(op[h]) /\ "replies" \notin passed[h] =>
         seen[h].replies = Cardinality(replies)

Telling(h) == at[h] = "committed" /\ op[h].kind \in Reacting

TellingThread(h) == at[h] \in {"committed", "read"} /\ op[h].kind \in Replying

(* An undisturbed count is right unless a handler has yet to broadcast it. *)
ShownInv ==
  /\ "reactions" \notin disturbed /\ ~deleted /\ (\A h \in Handlers : ~Telling(h)) =>
       shown.reactions = Cardinality(reactions)
  /\ "replies" \notin disturbed /\ (\A h \in Handlers : ~TellingThread(h)) =>
       shown.replies = Cardinality(replies)

CountInv == RoomTypes /\ PlaceInv /\ SeenInv /\ ShownInv

(* While the thread's count is owed somebody will read it, or has read it. *)
OwedInv ==
  owed => \E h \in Handlers :
            /\ op[h].kind \in Replying
            /\ at[h] = "committed" \/ (at[h] = "read" /\ seen[h].replies = Cardinality(replies))

-----------------------------------------------------------------------------
(* Types *)

LEMMA Sizes ==
  /\ \A S \in SUBSET Users : Cardinality(S) \in 0 .. Cardinality(Users)
  /\ \A S \in SUBSET Replies : Cardinality(S) \in 0 .. Cardinality(Replies)
BY RoomAssumption, FS_Subset, FS_CardinalityType

Operations == [kind : Kinds, who : Users \cup Replies]

(* A request begins. *)
LEMMA BeginTypes ==
  ASSUME RoomTypes, NEW h \in Handlers, NEW o \in Operations, Begin(h, o),
         o.kind \in Reacting => o.who \in Users,
         o.kind \in Replying => o.who \in Replies
  PROVE  RoomTypes'
<1>1. /\ op' \in [Handlers -> Operations]
      /\ at' \in [Handlers -> {"idle", "loaded", "wrote", "counted", "committed", "read"}]
  BY  DEF Begin, GoTo, RoomTypes, RoomTypeOK, Operations
<1>2. \A g \in Handlers : op'[g] = IF g = h THEN o ELSE op[g]
  BY  DEF Begin, RoomTypes, RoomTypeOK
<1>3. \A g \in Handlers : at'[g] = IF g = h THEN "loaded" ELSE at[g]
  BY  DEF Begin, GoTo, RoomTypes, RoomTypeOK
<1>4. adds[h] = {} /\ removals[h] = {}
  BY  DEF Begin, RoomTypes, RowsInv
<1>5. racing' \subseteq Users
  BY  DEF Begin, RoomTypes, RoomTypeOK, Reacting, Quiet
<1>6. UNCHANGED <<committed, adds, removals, seen, windows, passed, disturbed, owed>>
  BY  DEF Begin
<1>7. RoomTypeOK'
  BY <1>1, <1>5, <1>6 DEF committed, windows, RoomTypes, RoomTypeOK, Written, Dropped, Operations
<1>8. OpInv'
  BY <1>2 DEF RoomTypes, OpInv
<1>9. RowsInv'
  BY <1>2, <1>3, <1>4, <1>6 DEF RoomTypes, RowsInv
<1>10. QED
  BY <1>7, <1>8, <1>9 DEF RoomTypes

(* A request is over. *)
LEMMA FinishTypes ==
  ASSUME RoomTypes, NEW h \in Handlers, Finish(h)
  PROVE  /\ at' \in [Handlers -> {"idle", "loaded", "wrote", "counted", "committed", "read"}]
         /\ op' \in [Handlers -> Operations]
         /\ adds' \in [Handlers -> SUBSET Users]
         /\ removals' \in [Handlers -> SUBSET Users]
         /\ seen' \in [Handlers -> [reactions : SUBSET Users, replies : 0 .. Cardinality(Replies)]]
         /\ passed' \in [Handlers -> SUBSET {"reactions", "replies"}]
         /\ \A g \in Handlers : adds'[g] \subseteq adds[g] /\ removals'[g] \subseteq removals[g]
         /\ OpInv'
         /\ RowsInv'
<1>1. NoOp \in Operations /\ NoOp.kind = "none"
  BY RoomAssumption DEF NoOp, Op, Operations, Kinds
<1>2. Nothing \in [reactions : SUBSET Users, replies : 0 .. Cardinality(Replies)]
  BY RoomAssumption, FS_CardinalityType DEF Nothing
<1>3. /\ at' \in [Handlers -> {"idle", "loaded", "wrote", "counted", "committed", "read"}]
      /\ adds' \in [Handlers -> SUBSET Users]
      /\ removals' \in [Handlers -> SUBSET Users]
      /\ passed' \in [Handlers -> SUBSET {"reactions", "replies"}]
  BY  DEF Finish, GoTo, RoomTypes, RoomTypeOK
<1>4. op' \in [Handlers -> Operations]
  BY <1>1 DEF Finish, RoomTypes, RoomTypeOK, Operations
<1>5. seen' \in [Handlers -> [reactions : SUBSET Users, replies : 0 .. Cardinality(Replies)]]
  BY <1>2 DEF Finish, RoomTypes, RoomTypeOK
<1>6. \A g \in Handlers :
        IF g = h THEN at'[g] = "idle" /\ op'[g] = NoOp /\ adds'[g] = {} /\ removals'[g] = {}
        ELSE at'[g] = at[g] /\ op'[g] = op[g] /\ adds'[g] = adds[g] /\ removals'[g] = removals[g]
  BY  DEF Finish, GoTo, RoomTypes, RoomTypeOK
<1>7. \A g \in Handlers : adds'[g] \subseteq adds[g] /\ removals'[g] \subseteq removals[g]
  BY <1>6
<1>8. OpInv'
  BY <1>1, <1>6 DEF RoomTypes, OpInv, Reacting, Replying
<1>9. RowsInv'
  BY <1>6 DEF RoomTypes, RowsInv
<1>10. QED
  BY <1>3, <1>4, <1>5, <1>7, <1>8, <1>9

(* A commit that changes a count. *)
LEMMA PassesFacts ==
  ASSUME RoomTypes, NEW h \in Handlers, NEW count \in {"reactions", "replies"}, Passes(h, count)
  PROVE  /\ passed' \in [Handlers -> SUBSET {"reactions", "replies"}]
         /\ passed'[h] = passed[h]
         /\ \A g \in Handlers : passed[g] \subseteq passed'[g]
         /\ \A g \in Handlers \ {h} : HasRead(g) /\ count \in Carried(op[g]) => count \in passed'[g]
BY  DEF Passes, RoomTypes, RoomTypeOK

LEMMA TypesStep ==
  ASSUME RoomTypes, [RoomNext]_roomVars
  PROVE  RoomTypes'
<1> USE RoomAssumption
<1>1. ASSUME NEW h \in Handlers, NEW u \in Users, LoadReact(h, u) PROVE RoomTypes'
  <2>1. Op("react", u) \in Operations
    BY  DEF Op, Operations, Kinds
  <2>2. QED
    BY <1>1, <2>1, BeginTypes DEF LoadReact, MayReact, Op, Replying
<1>2. ASSUME NEW h \in Handlers, NEW u \in Users, LoadUnreact(h, u) PROVE RoomTypes'
  <2>1. Op("unreact", u) \in Operations
    BY  DEF Op, Operations, Kinds
  <2>2. QED
    BY <1>2, <2>1, BeginTypes DEF LoadUnreact, Op, Replying
<1>3. ASSUME NEW h \in Handlers, LoadEdit(h) PROVE RoomTypes'
  <2>1. Op("edit", Author) \in Operations
    BY  DEF Op, Operations, Kinds
  <2>2. QED
    BY <1>3, <2>1, BeginTypes DEF LoadEdit, Op, Replying
<1>4. ASSUME NEW h \in Handlers, LoadErase(h) PROVE RoomTypes'
  <2>1. Op(IF deleted THEN "again" ELSE "erase", Author) \in Operations
    BY  DEF Op, Operations, Kinds
  <2>2. QED
    BY <1>4, <2>1, BeginTypes DEF LoadErase, Op, Replying
<1>5. ASSUME NEW h \in Handlers, NEW p \in Replies, LoadRetract(h, p) PROVE RoomTypes'
  <2>1. Op("retract", p) \in Operations
    BY  DEF Op, Operations, Kinds
  <2>2. QED
    BY <1>5, <2>1, BeginTypes DEF LoadRetract, Op, Reacting
<1>6. ASSUME NEW h \in Handlers, Insert(h) PROVE RoomTypes'
  BY <1>6, SMTT(20) DEF Insert, Written, Dropped, Running, GoTo, committed, windows, history,
     RoomTypes, RoomTypeOK, OpInv, RowsInv, Reacting
<1>7. ASSUME NEW h \in Handlers, Drop(h) PROVE RoomTypes'
  BY <1>7 DEF Drop, Running, GoTo, committed, windows, history, RoomTypes, RoomTypeOK, OpInv,
     RowsInv, Written, Dropped
<1>8. ASSUME NEW h \in Handlers, Rewrite(h) PROVE RoomTypes'
  BY <1>8 DEF Rewrite, GoTo, committed, windows, history, RoomTypes, RoomTypeOK, OpInv, RowsInv,
     Written, Dropped
<1>9. ASSUME NEW h \in Handlers, Tombstone(h) PROVE RoomTypes'
  <2>1. Adding \subseteq Users
    BY  DEF Adding, RoomTypes, OpInv, Reacting
  <2>2. removals' \in [Handlers -> SUBSET Users] /\ \A g \in Handlers : adds[g] \cap removals'[h] = {}
    BY <1>9 DEF Tombstone, RoomTypes, RoomTypeOK
  <2>3. \A g \in Handlers : removals'[g] = IF g = h THEN reactions ELSE removals[g]
    BY <1>9 DEF Tombstone, RoomTypes, RoomTypeOK
  <2>4. \A g \in Handlers : adds[g] \cap (reactions \cup Written(g)') = {}
    BY <1>9 DEF Tombstone, RoomTypes, RoomTypeOK, Written, Dropped
  <2>5. RoomTypeOK'
    BY <1>9, <2>1, <2>4 DEF Tombstone, GoTo, committed, windows, RoomTypes, RoomTypeOK
  <2>6. OpInv' /\ RowsInv'
    BY <1>9 DEF Tombstone, Running, GoTo, RoomTypes, RoomTypeOK, OpInv, RowsInv
  <2>7. QED
    BY <2>5, <2>6 DEF RoomTypes
<1>10. ASSUME NEW h \in Handlers, Summarise(h) PROVE RoomTypes'
  BY <1>10, Sizes DEF Summarise, Summaries, GoTo, committed, windows, history, RoomTypes,
     RoomTypeOK, OpInv, RowsInv, Written, Dropped
<1>11. ASSUME NEW h \in Handlers, Commit(h) PROVE RoomTypes'
  <2>1. passed' \in [Handlers -> SUBSET {"reactions", "replies"}]
    BY <1>11, PassesFacts DEF Commit, RoomTypes, RoomTypeOK
  <2>2. /\ reactions' = Kept(h) /\ deleted' = (deleted \/ op[h].kind = "erase")
        /\ adds' = [adds EXCEPT ![h] = {}] /\ removals' = [removals EXCEPT ![h] = {}]
        /\ at' = [at EXCEPT ![h] = "committed"]
        /\ UNCHANGED <<replies, op, seen, shown, lit, disturbed, racing, owed>>
    BY <1>11 DEF Commit, GoTo, windows
  <2>3. OpInv' /\ RowsInv'
    BY <2>2 DEF RoomTypes, RoomTypeOK, OpInv, RowsInv
  <2>4. \A g \in Handlers : adds'[g] \cap (reactions' \cup Written(g)') = {}
    BY <2>2 DEF Kept, RoomTypes, RoomTypeOK, Written, Dropped
  <2>5. QED
    BY <2>1, <2>2, <2>3, <2>4 DEF Kept, RoomTypes, RoomTypeOK
<1>12. ASSUME NEW h \in Handlers, PublishReaction(h) PROVE RoomTypes'
  <2>1. Finish(h)
    BY <1>12 DEF PublishReaction
  <2>2. /\ shown' \in [reactions : 0 .. Cardinality(Users), replies : 0 .. Cardinality(Replies)]
        /\ lit' \subseteq Users
    <3>1. op[h].who \in Users /\ seen[h].reactions \subseteq Users
      BY <1>12 DEF PublishReaction, Running, RoomTypes, RoomTypeOK, OpInv, Reacting
    <3>2. Cardinality(seen[h].reactions) \in 0 .. Cardinality(Users)
      BY <3>1, Sizes
    <3>3. QED
      BY <1>12, <3>1, <3>2 DEF PublishReaction, RoomTypes, RoomTypeOK
  <2>3. /\ disturbed' \subseteq {"reactions", "replies"} /\ owed' \in BOOLEAN
        /\ UNCHANGED <<racing, committed>>
    BY <1>12 DEF PublishReaction, Tells, RoomTypes, RoomTypeOK
  <2>4. RoomTypeOK'
    BY <2>1, <2>2, <2>3, FinishTypes DEF committed, RoomTypes, RoomTypeOK, Written, Dropped,
       Operations
  <2>5. QED
    BY <2>1, <2>4, FinishTypes DEF RoomTypes
<1>13. ASSUME NEW h \in Handlers, PublishMessage(h) PROVE RoomTypes'
  <2>1. Finish(h)
    BY <1>13 DEF PublishMessage
  <2>2. RoomTypeOK'
    BY <1>13, FinishTypes, Sizes DEF PublishMessage, committed, Tells, RoomTypes, RoomTypeOK,
       Written, Dropped, Operations
  <2>3. QED
    BY <2>1, <2>2, FinishTypes DEF RoomTypes
<1>14. ASSUME NEW h \in Handlers, NEW p \in Replies, PostReply(h, p) PROVE RoomTypes'
  <2>1. Op("reply", p) \in Operations
    BY  DEF Op, Operations, Kinds
  <2>2. op' \in [Handlers -> Operations]
    BY <1>14, <2>1 DEF PostReply, RoomTypes, RoomTypeOK, Operations
  <2>3. RoomTypeOK'
    BY <1>14, <2>2, PassesFacts DEF PostReply, GoTo, windows, RoomTypes, RoomTypeOK, Written,
       Dropped, Operations
  <2>4. OpInv' /\ RowsInv'
    BY <1>14 DEF PostReply, GoTo, Op, RoomTypes, OpInv, RowsInv, Reacting
  <2>5. QED
    BY <2>3, <2>4 DEF RoomTypes
<1>15. ASSUME NEW h \in Handlers, Retract(h) PROVE RoomTypes'
  <2>1. passed' \in [Handlers -> SUBSET {"reactions", "replies"}]
    BY <1>15, PassesFacts DEF Retract, RoomTypes, RoomTypeOK
  <2>2. /\ replies' \subseteq replies /\ at[h] = "loaded" /\ at' = [at EXCEPT ![h] = "committed"]
        /\ owed' = TRUE
        /\ UNCHANGED <<deleted, reactions, op, adds, removals, seen, shown, lit, disturbed, racing>>
    BY <1>15 DEF Retract, Running, GoTo, windows
  <2>3. QED
    BY <2>1, <2>2 DEF RoomTypes, RoomTypeOK, OpInv, RowsInv, Written, Dropped
<1>16. ASSUME NEW h \in Handlers, ReadSummary(h) PROVE RoomTypes'
  <2>1. Cardinality(replies) \in 0 .. Cardinality(Replies)
    BY Sizes DEF RoomTypes, RoomTypeOK
  <2>2. seen' \in [Handlers -> [reactions : SUBSET Users, replies : 0 .. Cardinality(Replies)]]
    BY <1>16, <2>1 DEF ReadSummary, RoomTypes, RoomTypeOK
  <2>3. RoomTypeOK'
    BY <1>16, <2>2 DEF ReadSummary, GoTo, committed, windows, history, RoomTypes, RoomTypeOK,
       Written, Dropped
  <2>4. OpInv' /\ RowsInv'
    BY <1>16 DEF ReadSummary, Running, GoTo, RoomTypes, RoomTypeOK, OpInv, RowsInv
  <2>5. QED
    BY <2>3, <2>4 DEF RoomTypes
<1>17. ASSUME NEW h \in Handlers, PublishSummary(h) PROVE RoomTypes'
  <2>1. Finish(h)
    BY <1>17 DEF PublishSummary
  <2>2. shown' \in [reactions : 0 .. Cardinality(Users), replies : 0 .. Cardinality(Replies)]
    BY <1>17 DEF PublishSummary, RoomTypes, RoomTypeOK
  <2>3. /\ disturbed' \subseteq {"reactions", "replies"} /\ owed' \in BOOLEAN
        /\ UNCHANGED <<racing, committed, lit>>
    BY <1>17 DEF PublishSummary, Tells, RoomTypes, RoomTypeOK
  <2>4. RoomTypeOK'
    BY <2>1, <2>2, <2>3, FinishTypes DEF committed, RoomTypes, RoomTypeOK, Written, Dropped,
       Operations
  <2>5. QED
    BY <2>1, <2>4, FinishTypes DEF RoomTypes
<1>18. ASSUME NEW h \in Handlers, Refused(h) PROVE RoomTypes'
  <2>1. Finish(h)
    BY <1>18 DEF Refused
  <2>2. RoomTypeOK'
    BY <1>18, FinishTypes DEF Refused, committed, windows, history, RoomTypes, RoomTypeOK, Written,
       Dropped, Operations
  <2>3. QED
    BY <2>1, <2>2, FinishTypes DEF RoomTypes
<1>19. ASSUME NEW h \in Handlers, Dies(h) PROVE RoomTypes'
  <2>1. Finish(h)
    BY <1>19 DEF Dies
  <2>2. RoomTypeOK'
    BY <1>19, FinishTypes DEF Dies, committed, windows, Carried, RoomTypes, RoomTypeOK, Written,
       Dropped, Operations
  <2>3. QED
    BY <2>1, <2>2, FinishTypes DEF RoomTypes
<1>20. ASSUME UNCHANGED roomVars PROVE RoomTypes'
  BY <1>20 DEF roomVars, committed, running, windows, history, RoomTypes, RoomTypeOK, OpInv,
    RowsInv,
     Written, Dropped
<1>21. QED
  BY <1>1, <1>2, <1>3, <1>4, <1>5, <1>6, <1>7, <1>8, <1>9, <1>10, <1>11, <1>12, <1>13,
     <1>14, <1>15, <1>16, <1>17, <1>18, <1>19, <1>20
     DEF RoomNext

-----------------------------------------------------------------------------
(* Tombstones *)

LEMMA TombstoneStep ==
  ASSUME TombstoneInv, [RoomNext]_roomVars
  PROVE  TombstoneInv'
<1> USE TypesStep DEF TombstoneInv
<1>1. ASSUME NEW h \in Handlers, NEW u \in Users, LoadReact(h, u)
      PROVE  RaceInv' /\ ClearInv' /\ TombstoneCleared'
  BY <1>1 DEF LoadReact, MayReact, Begin, Running, GoTo, committed, RoomTypes, RoomTypeOK,
    RaceInv, ClearInv,
     TombstoneCleared, InFlight, Erasing, Tombstoned
<1>2. ASSUME NEW h \in Handlers, NEW u \in Users, LoadUnreact(h, u)
      PROVE  RaceInv' /\ ClearInv' /\ TombstoneCleared'
  BY <1>2 DEF LoadUnreact, Begin, GoTo, committed, RoomTypes, RoomTypeOK, RaceInv, ClearInv,
     TombstoneCleared, InFlight, Erasing, Op
<1>3. ASSUME NEW h \in Handlers, LoadEdit(h) PROVE RaceInv' /\ ClearInv' /\ TombstoneCleared'
  BY <1>3 DEF LoadEdit, Begin, GoTo, committed, RoomTypes, RoomTypeOK, RaceInv, ClearInv,
     TombstoneCleared, InFlight, Erasing, Op
<1>4. ASSUME NEW h \in Handlers, LoadErase(h) PROVE RaceInv' /\ ClearInv' /\ TombstoneCleared'
  BY <1>4 DEF LoadErase, Begin, GoTo, committed, RoomTypes, RoomTypeOK, RaceInv, ClearInv,
     TombstoneCleared, InFlight, Erasing, Op
<1>5. ASSUME NEW h \in Handlers, NEW p \in Replies, LoadRetract(h, p)
      PROVE  RaceInv' /\ ClearInv' /\ TombstoneCleared'
  BY <1>5 DEF LoadRetract, Begin, GoTo, committed, RoomTypes, RoomTypeOK, RaceInv, ClearInv,
     TombstoneCleared, InFlight, Erasing, Op
<1>6. ASSUME NEW h \in Handlers, Insert(h) PROVE RaceInv' /\ ClearInv' /\ TombstoneCleared'
  BY <1>6 DEF Insert, Running, GoTo, committed, history, RaceInv, ClearInv,
     TombstoneCleared, InFlight, Erasing
<1>7. ASSUME NEW h \in Handlers, Drop(h) PROVE RaceInv' /\ ClearInv' /\ TombstoneCleared'
  BY <1>7 DEF Drop, Running, GoTo, committed, history, RaceInv, ClearInv, TombstoneCleared,
     InFlight, Erasing
<1>8. ASSUME NEW h \in Handlers, Rewrite(h) PROVE RaceInv' /\ ClearInv' /\ TombstoneCleared'
  BY <1>8 DEF Rewrite, Running, GoTo, committed, RaceInv, ClearInv, TombstoneCleared,
     Erasing, RowHeld
<1>9. ASSUME NEW h \in Handlers, Tombstone(h) PROVE RaceInv' /\ ClearInv' /\ TombstoneCleared'
  BY <1>9 DEF Tombstone, Running, GoTo, committed, RoomTypes, RoomTypeOK, RaceInv, ClearInv,
     TombstoneCleared, InFlight, Erasing, Adding, RowHeld
<1>10. ASSUME NEW h \in Handlers, Summarise(h) PROVE RaceInv' /\ ClearInv' /\ TombstoneCleared'
  BY <1>10 DEF Summarise, Running, GoTo, committed, history, RaceInv, ClearInv,
     TombstoneCleared, InFlight, Erasing
<1>11. ASSUME NEW h \in Handlers, Commit(h) PROVE RaceInv' /\ ClearInv' /\ TombstoneCleared'
  BY <1>11 DEF Commit, Kept, GoTo, history, RoomTypes, RoomTypeOK, RowsInv, RaceInv, ClearInv,
     TombstoneCleared, InFlight, Erasing
<1>12. ASSUME NEW h \in Handlers, PublishReaction(h)
       PROVE  RaceInv' /\ ClearInv' /\ TombstoneCleared'
  BY <1>12 DEF PublishReaction, Tells, Finish, Running, GoTo, committed, RaceInv, ClearInv,
     TombstoneCleared, InFlight, Erasing
<1>13. ASSUME NEW h \in Handlers, PublishMessage(h) PROVE RaceInv' /\ ClearInv' /\ TombstoneCleared'
  BY <1>13 DEF PublishMessage, Tells, Finish, Running, GoTo, committed, RaceInv, ClearInv,
     TombstoneCleared, InFlight, Erasing
<1>14. ASSUME NEW h \in Handlers, NEW p \in Replies, PostReply(h, p)
       PROVE  RaceInv' /\ ClearInv' /\ TombstoneCleared'
  BY <1>14 DEF PostReply, GoTo, RaceInv, ClearInv, TombstoneCleared, InFlight, Erasing
<1>15. ASSUME NEW h \in Handlers, Retract(h) PROVE RaceInv' /\ ClearInv' /\ TombstoneCleared'
  BY <1>15 DEF Retract, GoTo, RaceInv, ClearInv, TombstoneCleared, InFlight, Erasing
<1>16. ASSUME NEW h \in Handlers, ReadSummary(h) PROVE RaceInv' /\ ClearInv' /\ TombstoneCleared'
  BY <1>16 DEF ReadSummary, GoTo, committed, history, RaceInv, ClearInv, TombstoneCleared,
     InFlight, Erasing
<1>17. ASSUME NEW h \in Handlers, PublishSummary(h) PROVE RaceInv' /\ ClearInv' /\ TombstoneCleared'
  BY <1>17 DEF PublishSummary, Tells, Finish, GoTo, committed, RaceInv, ClearInv,
     TombstoneCleared, InFlight, Erasing
<1>18. ASSUME NEW h \in Handlers, Refused(h) PROVE RaceInv' /\ ClearInv' /\ TombstoneCleared'
  BY <1>18 DEF Refused, Finish, GoTo, committed, history, RoomTypes, RoomTypeOK, RaceInv, ClearInv,
     TombstoneCleared, InFlight, Erasing
<1>19. ASSUME NEW h \in Handlers, Dies(h) PROVE RaceInv' /\ ClearInv' /\ TombstoneCleared'
  BY <1>19 DEF Dies, Finish, GoTo, committed, RaceInv, ClearInv, TombstoneCleared, InFlight,
     Erasing
<1>20. ASSUME UNCHANGED roomVars PROVE RaceInv' /\ ClearInv' /\ TombstoneCleared'
  BY <1>20 DEF roomVars, committed, running, history, RaceInv, ClearInv, TombstoneCleared,
     InFlight, Erasing
<1>21. QED
  BY <1>1, <1>2, <1>3, <1>4, <1>5, <1>6, <1>7, <1>8, <1>9, <1>10, <1>11, <1>12, <1>13,
     <1>14, <1>15, <1>16, <1>17, <1>18, <1>19, <1>20
     DEF RoomNext

-----------------------------------------------------------------------------
(* Counts *)

SameElsewhere(h) ==
  \A g \in Handlers : g # h =>
    /\ at'[g] = at[g] /\ op'[g] = op[g] /\ seen'[g] = seen[g]
    /\ adds'[g] = adds[g] /\ removals'[g] = removals[g]
    /\ passed'[g] = passed[g]

(* A request that has committed nothing goes on, or ends. *)
LEMMA UncommittedKeeps ==
  ASSUME CountInv, NEW h \in Handlers, SameElsewhere(h),
         UNCHANGED <<committed, shown, disturbed>>,
         at[h] \in {"idle", "loaded", "wrote", "counted"},
         at'[h] \in {"idle", "loaded", "wrote"}
  PROVE  SeenInv' /\ ShownInv'
<1>1. SeenInv'
  <2>1. SUFFICES ASSUME NEW g \in Handlers
        PROVE  /\ at'[g] = "counted" /\ op'[g].kind \in Alone /\ "reactions" \notin passed'[g] =>
                    seen'[g].reactions = Kept(g)'
               /\ at'[g] = "committed" /\ op'[g].kind \in Alone /\ "reactions" \notin passed'[g] =>
                    seen'[g].reactions = reactions'
               /\ HasRead(g)' /\ "replies" \in Carried(op'[g]) /\ "replies" \notin passed'[g] =>
                    seen'[g].replies = Cardinality(replies)
    BY DEF SeenInv, committed
  <2>2. CASE g = h
    BY <2>2 DEF HasRead
  <2>3. CASE g # h
    BY <2>3 DEF SameElsewhere, committed, CountInv, SeenInv, HasRead, Kept
  <2>4. QED
    BY <2>2, <2>3
<1>2. ~Telling(h) /\ ~TellingThread(h)
  BY DEF Telling, TellingThread
<1>3. ShownInv'
  BY <1>2 DEF SameElsewhere, committed, CountInv, ShownInv, Telling, TellingThread
<1>4. QED
  BY <1>1, <1>3

LEMMA BeginKeeps ==
  ASSUME CountInv, NEW h \in Handlers, NEW o \in Operations, Begin(h, o)
  PROVE  SeenInv' /\ ShownInv'
<1>1. SameElsewhere(h) /\ at[h] = "idle" /\ at'[h] = "loaded" /\ UNCHANGED <<committed, shown, disturbed>>
  BY DEF Begin, GoTo, windows, SameElsewhere, CountInv, RoomTypes, RoomTypeOK
<1>2. QED
  BY <1>1, UncommittedKeeps

(* A handler that has committed ends without changing what is committed.   *)
LEMMA EndKeepsSeen ==
  ASSUME CountInv, NEW h \in Handlers, Finish(h), UNCHANGED committed
  PROVE  /\ SameElsewhere(h) /\ at'[h] = "idle"
         /\ SeenInv'
<1>1. SameElsewhere(h) /\ at'[h] = "idle"
  BY DEF Finish, GoTo, SameElsewhere, CountInv, RoomTypes, RoomTypeOK
<1>2. ASSUME NEW g \in Handlers
      PROVE  /\ at'[g] = "counted" /\ op'[g].kind \in Alone /\ "reactions" \notin passed'[g] =>
                  seen'[g].reactions = Kept(g)'
             /\ at'[g] = "committed" /\ op'[g].kind \in Alone /\ "reactions" \notin passed'[g] =>
                  seen'[g].reactions = reactions'
             /\ HasRead(g)' /\ "replies" \in Carried(op'[g]) /\ "replies" \notin passed'[g] =>
                  seen'[g].replies = Cardinality(replies)
  <2>1. CASE g = h
    BY <1>1, <2>1 DEF HasRead
  <2>2. CASE g # h
    BY <1>1, <2>2 DEF SameElsewhere, committed, CountInv, SeenInv, HasRead, Kept
  <2>3. QED
    BY <2>1, <2>2
<1>3. SeenInv'
  BY <1>2 DEF SeenInv, committed
<1>4. QED
  BY <1>1, <1>3

(* A reply, or the delete of one, commits.                                 *)
LEMMA ReplyKeeps ==
  ASSUME CountInv, NEW h \in Handlers,
         at[h] \in {"idle", "loaded"}, at'[h] = "committed", op'[h].kind \in Replying,
         UNCHANGED <<deleted, reactions, adds, removals, seen, shown, disturbed>>,
         \A g \in Handlers \ {h} : at'[g] = at[g] /\ op'[g] = op[g],
         \A g \in Handlers \ {h} :
           passed[g] \subseteq passed'[g]
           /\ (HasRead(g) /\ "replies" \in Carried(op[g]) =>
                 "replies" \in passed'[g] \/ replies' = replies)
  PROVE  SeenInv' /\ ShownInv'
<1>1. ASSUME NEW g \in Handlers
      PROVE  /\ at'[g] = "counted" /\ op'[g].kind \in Alone /\ "reactions" \notin passed'[g] =>
                  seen[g].reactions = Kept(g)
             /\ at'[g] = "committed" /\ op'[g].kind \in Alone /\ "reactions" \notin passed'[g] =>
                  seen[g].reactions = reactions
             /\ HasRead(g)' /\ "replies" \in Carried(op'[g]) /\ "replies" \notin passed'[g] =>
                  seen[g].replies = Cardinality(replies')
  <2>1. CASE g = h
    BY <2>1 DEF HasRead, Carried, Alone, Replying
  <2>2. CASE g # h
    BY <2>2 DEF CountInv, SeenInv, HasRead
  <2>3. QED
    BY <2>1, <2>2
<1>2. SeenInv'
  BY <1>1 DEF SeenInv, Kept
<1>3. TellingThread(h)' /\ ~Telling(h)
  BY DEF TellingThread, Telling
<1>4. ShownInv'
  BY <1>3 DEF CountInv, ShownInv, Telling, Reacting, Replying
<1>5. QED
  BY <1>2, <1>4

LEMMA CountStep ==
  ASSUME CountInv, [RoomNext]_roomVars
  PROVE  PlaceInv' /\ SeenInv' /\ ShownInv'
<1>1. ASSUME NEW h \in Handlers, NEW u \in Users, LoadReact(h, u)
      PROVE  PlaceInv' /\ SeenInv' /\ ShownInv'
  <2>1. Op("react", u) \in Operations
    BY RoomAssumption DEF Op, Operations, Kinds
  <2>2. PlaceInv'
    BY <1>1 DEF LoadReact, MayReact, Begin, GoTo, committed, Op, CountInv, RoomTypes, RoomTypeOK, PlaceInv
  <2>3. QED
    BY <1>1, <2>1, <2>2, BeginKeeps DEF LoadReact, MayReact
<1>2. ASSUME NEW h \in Handlers, NEW u \in Users, LoadUnreact(h, u)
      PROVE  PlaceInv' /\ SeenInv' /\ ShownInv'
  <2>1. Op("unreact", u) \in Operations
    BY RoomAssumption DEF Op, Operations, Kinds
  <2>2. PlaceInv'
    BY <1>2 DEF LoadUnreact, Begin, GoTo, committed, Op, CountInv, RoomTypes, RoomTypeOK, PlaceInv
  <2>3. QED
    BY <1>2, <2>1, <2>2, BeginKeeps DEF LoadUnreact
<1>3. ASSUME NEW h \in Handlers, LoadEdit(h) PROVE PlaceInv' /\ SeenInv' /\ ShownInv'
  <2>1. Op("edit", Author) \in Operations
    BY RoomAssumption DEF Op, Operations, Kinds
  <2>2. PlaceInv'
    BY <1>3 DEF LoadEdit, Begin, GoTo, committed, Op, CountInv, RoomTypes, RoomTypeOK, PlaceInv
  <2>3. QED
    BY <1>3, <2>1, <2>2, BeginKeeps DEF LoadEdit
<1>4. ASSUME NEW h \in Handlers, LoadErase(h) PROVE PlaceInv' /\ SeenInv' /\ ShownInv'
  <2>1. Op(IF deleted THEN "again" ELSE "erase", Author) \in Operations
    BY RoomAssumption DEF Op, Operations, Kinds
  <2>2. PlaceInv'
    BY <1>4 DEF LoadErase, Begin, GoTo, committed, Op, CountInv, RoomTypes, RoomTypeOK, PlaceInv
  <2>3. QED
    BY <1>4, <2>1, <2>2, BeginKeeps DEF LoadErase
<1>5. ASSUME NEW h \in Handlers, NEW p \in Replies, LoadRetract(h, p)
      PROVE  PlaceInv' /\ SeenInv' /\ ShownInv'
  <2>1. Op("retract", p) \in Operations
    BY RoomAssumption DEF Op, Operations, Kinds
  <2>2. PlaceInv'
    BY <1>5 DEF LoadRetract, Begin, GoTo, committed, Op, CountInv, RoomTypes, RoomTypeOK, PlaceInv
  <2>3. QED
    BY <1>5, <2>1, <2>2, BeginKeeps DEF LoadRetract
<1>6. ASSUME NEW h \in Handlers, Insert(h) PROVE PlaceInv' /\ SeenInv' /\ ShownInv'
  <2>1. PlaceInv'
    BY <1>6 DEF Insert, Running, GoTo, committed, CountInv, RoomTypes, RoomTypeOK, PlaceInv,
       Changing, Alone
  <2>2. /\ SameElsewhere(h) /\ at[h] = "loaded" /\ at'[h] = "wrote"
        /\ UNCHANGED <<committed, shown, disturbed>>
    BY <1>6 DEF Insert, Running, GoTo, windows, history, SameElsewhere, CountInv, RoomTypes,
       RoomTypeOK
  <2>3. QED
    BY <2>1, <2>2, UncommittedKeeps
<1>7. ASSUME NEW h \in Handlers, Drop(h) PROVE PlaceInv' /\ SeenInv' /\ ShownInv'
  <2>1. PlaceInv'
    BY <1>7 DEF Drop, Running, GoTo, committed, CountInv, RoomTypes, RoomTypeOK, PlaceInv,
       Changing, Alone
  <2>2. /\ SameElsewhere(h) /\ at[h] = "loaded" /\ at'[h] = "wrote"
        /\ UNCHANGED <<committed, shown, disturbed>>
    BY <1>7 DEF Drop, Running, GoTo, windows, history, SameElsewhere, CountInv, RoomTypes,
       RoomTypeOK
  <2>3. QED
    BY <2>1, <2>2, UncommittedKeeps
<1>8. ASSUME NEW h \in Handlers, Rewrite(h) PROVE PlaceInv' /\ SeenInv' /\ ShownInv'
  <2>1. PlaceInv'
    BY <1>8 DEF Rewrite, Running, GoTo, committed, CountInv, RoomTypes, RoomTypeOK, PlaceInv,
       Changing, Alone
  <2>2. /\ SameElsewhere(h) /\ at[h] = "loaded" /\ at'[h] = "wrote"
        /\ UNCHANGED <<committed, shown, disturbed>>
    BY <1>8 DEF Rewrite, Running, GoTo, windows, history, SameElsewhere, CountInv, RoomTypes,
       RoomTypeOK
  <2>3. QED
    BY <2>1, <2>2, UncommittedKeeps
<1>9. ASSUME NEW h \in Handlers, Tombstone(h) PROVE PlaceInv' /\ SeenInv' /\ ShownInv'
  <2>1. PlaceInv'
    BY <1>9 DEF Tombstone, Running, GoTo, committed, CountInv, RoomTypes, RoomTypeOK, PlaceInv,
       Changing, Alone
  <2>2. /\ SameElsewhere(h) /\ at[h] = "loaded" /\ at'[h] = "wrote"
        /\ UNCHANGED <<committed, shown, disturbed>>
    BY <1>9 DEF Tombstone, Running, GoTo, windows, history, SameElsewhere, CountInv, RoomTypes,
       RoomTypeOK
  <2>3. QED
    BY <2>1, <2>2, UncommittedKeeps
<1>10. ASSUME NEW h \in Handlers, Summarise(h) PROVE PlaceInv' /\ SeenInv' /\ ShownInv'
  BY <1>10 DEF Summarise, Summaries, Running, GoTo, committed, windows, history, CountInv,
     RoomTypes, RoomTypeOK, PlaceInv, SeenInv, ShownInv, HasRead, Carried, Telling, TellingThread, Alone,
     Changing, Kept
<1>11. ASSUME NEW h \in Handlers, Commit(h) PROVE PlaceInv' /\ SeenInv' /\ ShownInv'
  <2>1. PlaceInv'
    BY <1>11 DEF Commit, GoTo, CountInv, RoomTypes, RoomTypeOK, PlaceInv
  <2>2. /\ UNCHANGED <<replies, op, seen, shown, disturbed>>
        /\ reactions' = Kept(h) /\ passed'[h] = passed[h]
        /\ at[h] = "counted" /\ at'[h] = "committed"
        /\ Kept(h)' = reactions'
    BY <1>11 DEF Commit, Kept, GoTo, windows, Passes, CountInv, RoomTypes, RoomTypeOK
  <2>3. ASSUME NEW g \in Handlers, g # h
        PROVE  /\ at'[g] = at[g] /\ adds'[g] = adds[g] /\ removals'[g] = removals[g]
               /\ passed[g] \subseteq passed'[g]
               /\ HasRead(g) /\ op[g].kind \in Alone /\ reactions' # reactions =>
                    "reactions" \in passed'[g]
    BY <1>11, <2>3 DEF Commit, GoTo, Passes, Carried, Alone, CountInv, RoomTypes, RoomTypeOK
  <2>4. SeenInv'
    <3>1. ASSUME NEW g \in Handlers PROVE HasRead(g)' => HasRead(g)
      BY <2>2, <2>3 DEF HasRead
    <3>2. ASSUME NEW g \in Handlers, g # h
          PROVE  (at[g] = "counted" \/ at[g] = "committed") /\ op[g].kind \in Alone => HasRead(g)
      BY DEF HasRead, Carried, Alone
    <3>3. QED
      BY <2>2, <2>3, <3>1, <3>2 DEF CountInv, SeenInv, Kept
  <2>5. ShownInv'
    <3>1. CASE op[h].kind \in Reacting
      BY <2>2, <2>3, <3>1 DEF CountInv, ShownInv, Telling, TellingThread, Reacting, Replying
    <3>2. CASE op[h].kind = "erase"
      BY <1>11, <2>2, <2>3, <3>2 DEF Commit, CountInv, ShownInv, TellingThread, Replying
    <3>3. CASE op[h].kind \in {"edit", "again"}
      <4>1. adds[h] = {} /\ removals[h] = {}
        BY <3>3 DEF CountInv, RoomTypes, RowsInv
      <4>2. reactions' = reactions
        BY <2>2, <4>1 DEF Kept
      <4>3. QED
        BY <1>11, <2>2, <2>3, <3>3, <4>2
           DEF Commit, CountInv, ShownInv, Telling, TellingThread, Reacting, Replying
    <3>4. QED
      BY <2>2, <3>1, <3>2, <3>3 DEF CountInv, PlaceInv, Changing, Alone, Reacting
  <2>6. QED
    BY <2>1, <2>4, <2>5
<1>12. ASSUME NEW h \in Handlers, PublishReaction(h)
       PROVE  PlaceInv' /\ SeenInv' /\ ShownInv'
  <2>1. PlaceInv'
    BY <1>12 DEF PublishReaction, Finish, GoTo, committed, CountInv, RoomTypes, RoomTypeOK, PlaceInv,
       NoOp, Op
  <2>2. SameElsewhere(h) /\ at'[h] = "idle" /\ SeenInv'
    BY <1>12, EndKeepsSeen DEF PublishReaction
  <2>3. /\ at[h] = "committed" /\ op[h].kind \in Reacting
        /\ UNCHANGED <<deleted, reactions, replies>>
        /\ shown'.reactions = Cardinality(seen[h].reactions) /\ shown'.replies = shown.replies
        /\ disturbed' = (disturbed \ {"reactions"}) \cup passed[h]
    BY <1>12 DEF PublishReaction, Tells, Running, committed, Carried, CountInv, RoomTypes,
       RoomTypeOK, Reacting
  <2>4. "reactions" \notin passed[h] => seen[h].reactions = reactions
    BY <2>3 DEF CountInv, SeenInv, Alone, Reacting
  <2>5. ShownInv'
    BY <2>2, <2>3, <2>4 DEF SameElsewhere, CountInv, ShownInv, TellingThread, Reacting, Replying
  <2>6. QED
    BY <2>1, <2>2, <2>5
<1>13. ASSUME NEW h \in Handlers, PublishMessage(h)
       PROVE  PlaceInv' /\ SeenInv' /\ ShownInv'
  <2>1. PlaceInv'
    BY <1>13 DEF PublishMessage, Finish, GoTo, committed, CountInv, RoomTypes, RoomTypeOK, PlaceInv,
       Op, NoOp
  <2>3. SeenInv'
    BY <1>13, EndKeepsSeen DEF PublishMessage
  <2>4. /\ shown'.reactions = Cardinality(seen[h].reactions)
        /\ shown'.replies = seen[h].replies
    BY <1>13 DEF PublishMessage
  <2>5. \A g \in Handlers : IF g = h THEN at'[g] = "idle" ELSE at'[g] = at[g] /\ op'[g] = op[g]
    BY <1>13 DEF PublishMessage, Finish, GoTo, RoomTypes, RoomTypeOK, CountInv
  <2>6. /\ disturbed' = passed[h] /\ UNCHANGED <<deleted, reactions, replies>>
        /\ at[h] = "committed" /\ op[h].kind \in {"edit", "erase", "again"}
    BY <1>13 DEF PublishMessage, Tells, Running, Carried, committed, CountInv, RoomTypes, RoomTypeOK
  <2>7. ShownInv'
    BY <2>4, <2>6 DEF CountInv, PlaceInv, SeenInv, ShownInv, HasRead, Carried, Alone
  <2>8. QED
    BY <2>1, <2>3, <2>7
<1>14. ASSUME NEW h \in Handlers, NEW p \in Replies, PostReply(h, p)
       PROVE  PlaceInv' /\ SeenInv' /\ ShownInv'
  <2>1. PlaceInv'
    BY <1>14 DEF PostReply, GoTo, CountInv, RoomTypes, RoomTypeOK, PlaceInv, Replying, Op
  <2>2. /\ at[h] = "idle" /\ at'[h] = "committed" /\ op'[h].kind = "reply"
        /\ UNCHANGED <<deleted, reactions, adds, removals, seen, shown, disturbed>>
        /\ \A g \in Handlers \ {h} : at'[g] = at[g] /\ op'[g] = op[g]
    BY <1>14 DEF PostReply, GoTo, windows, Op, CountInv, RoomTypes, RoomTypeOK
  <2>3. \A g \in Handlers \ {h} :
          passed[g] \subseteq passed'[g]
          /\ (HasRead(g) /\ "replies" \in Carried(op[g]) => "replies" \in passed'[g])
    BY <1>14, PassesFacts DEF PostReply, CountInv
  <2>4. QED
    BY <2>1, <2>2, <2>3, ReplyKeeps DEF Replying
<1>15. ASSUME NEW h \in Handlers, Retract(h) PROVE PlaceInv' /\ SeenInv' /\ ShownInv'
  <2>1. PlaceInv'
    BY <1>15 DEF Retract, Running, GoTo, CountInv, RoomTypes, RoomTypeOK, PlaceInv, Replying
  <2>2. /\ at[h] = "loaded" /\ at'[h] = "committed" /\ op'[h].kind = "retract"
        /\ UNCHANGED <<deleted, reactions, adds, removals, seen, shown, disturbed>>
        /\ \A g \in Handlers \ {h} : at'[g] = at[g] /\ op'[g] = op[g]
    BY <1>15 DEF Retract, Running, GoTo, windows, CountInv, RoomTypes, RoomTypeOK
  <2>3. \A g \in Handlers \ {h} :
          passed[g] \subseteq passed'[g]
          /\ (HasRead(g) /\ "replies" \in Carried(op[g]) =>
                "replies" \in passed'[g] \/ replies' = replies)
    BY <1>15, PassesFacts DEF Retract, CountInv
  <2>4. QED
    BY <2>1, <2>2, <2>3, ReplyKeeps DEF Replying
<1>16. ASSUME NEW h \in Handlers, ReadSummary(h)
       PROVE  PlaceInv' /\ SeenInv' /\ ShownInv'
  <2>1. PlaceInv'
    BY <1>16 DEF ReadSummary, Running, GoTo, committed, CountInv, RoomTypes, RoomTypeOK, PlaceInv,
       Replying
  <2>2. /\ at[h] = "committed" /\ at'[h] = "read" /\ op[h].kind \in Replying
        /\ seen'[h].replies = Cardinality(replies)
        /\ UNCHANGED <<committed, op, adds, removals, shown, passed, disturbed>>
        /\ \A g \in Handlers \ {h} : at'[g] = at[g] /\ seen'[g] = seen[g]
    BY <1>16 DEF ReadSummary, Running, GoTo, windows, history, CountInv, RoomTypes, RoomTypeOK,
       Replying
  <2>3. SeenInv'
    BY <2>2 DEF committed, CountInv, SeenInv, HasRead, Kept
  <2>4. ShownInv'
    BY <2>2 DEF committed, CountInv, ShownInv, Telling, TellingThread, Reacting, Replying
  <2>5. QED
    BY <2>1, <2>3, <2>4
<1>17. ASSUME NEW h \in Handlers, PublishSummary(h)
       PROVE  PlaceInv' /\ SeenInv' /\ ShownInv'
  <2>1. PlaceInv'
    BY <1>17 DEF PublishSummary, Finish, GoTo, committed, CountInv, RoomTypes, RoomTypeOK, PlaceInv,
       NoOp, Op
  <2>2. SameElsewhere(h) /\ at'[h] = "idle" /\ SeenInv'
    BY <1>17, EndKeepsSeen DEF PublishSummary
  <2>3. /\ at[h] = "read" /\ op[h].kind \in Replying /\ UNCHANGED <<deleted, reactions, replies>>
        /\ shown'.replies = seen[h].replies /\ shown'.reactions = shown.reactions
        /\ disturbed' = (disturbed \ {"replies"}) \cup passed[h]
    BY <1>17 DEF PublishSummary, Tells, committed, Carried, CountInv, PlaceInv, RoomTypes,
       RoomTypeOK, Replying
  <2>4. "replies" \notin passed[h] => seen[h].replies = Cardinality(replies)
    BY <2>3 DEF CountInv, SeenInv, HasRead, Carried, Replying
  <2>5. ShownInv'
    BY <2>2, <2>3, <2>4 DEF SameElsewhere, CountInv, ShownInv, Telling
  <2>6. QED
    BY <2>1, <2>2, <2>5
<1>18. ASSUME NEW h \in Handlers, Refused(h) PROVE PlaceInv' /\ SeenInv' /\ ShownInv'
  <2>1. PlaceInv'
    BY <1>18 DEF Refused, Finish, GoTo, committed, CountInv, RoomTypes, RoomTypeOK, PlaceInv, NoOp,
       Op
  <2>2. /\ SameElsewhere(h) /\ at[h] \in {"loaded", "wrote", "counted"} /\ at'[h] = "idle"
        /\ UNCHANGED <<committed, shown, disturbed>>
    BY <1>18, EndKeepsSeen DEF Refused, windows
  <2>3. QED
    BY <2>1, <2>2, UncommittedKeeps
<1>19. ASSUME NEW h \in Handlers, Dies(h) PROVE PlaceInv' /\ SeenInv' /\ ShownInv'
  <2>1. PlaceInv'
    BY <1>19 DEF Dies, Finish, GoTo, committed, CountInv, RoomTypes, RoomTypeOK, PlaceInv, NoOp, Op
  <2>2. SameElsewhere(h) /\ at'[h] = "idle" /\ SeenInv'
    BY <1>19, EndKeepsSeen DEF Dies
  <2>3. /\ UNCHANGED <<deleted, reactions, replies, shown>>
        /\ disturbed \subseteq disturbed'
        /\ op[h].kind \in Reacting => "reactions" \in disturbed'
        /\ op[h].kind \in Replying => "replies" \in disturbed'
    BY <1>19 DEF Dies, committed, windows, Carried, Reacting, Replying
  <2>4. ShownInv'
    BY <2>2, <2>3 DEF SameElsewhere, CountInv, ShownInv, Telling, TellingThread
  <2>5. QED
    BY <2>1, <2>2, <2>4
<1>20. ASSUME UNCHANGED roomVars PROVE PlaceInv' /\ SeenInv' /\ ShownInv'
  BY <1>20 DEF roomVars, committed, running, windows, history, CountInv, PlaceInv, SeenInv,
     ShownInv, HasRead, Carried, Telling, TellingThread, Kept
<1>21. QED
  BY <1>1, <1>2, <1>3, <1>4, <1>5, <1>6, <1>7, <1>8, <1>9, <1>10, <1>11, <1>12, <1>13,
     <1>14, <1>15, <1>16, <1>17, <1>18, <1>19, <1>20
     DEF RoomNext

-----------------------------------------------------------------------------
(* The thread's count *)

LEMMA OwedStep ==
  ASSUME RoomTypes, OwedInv, [RoomNext]_roomVars
  PROVE  OwedInv'
<1>1. ASSUME NEW h \in Handlers, NEW u \in Users, LoadReact(h, u) PROVE OwedInv'
  BY <1>1 DEF LoadReact, MayReact, Begin, GoTo, committed, OwedInv
<1>2. ASSUME NEW h \in Handlers, NEW u \in Users, LoadUnreact(h, u) PROVE OwedInv'
  BY <1>2 DEF LoadUnreact, Begin, GoTo, committed, OwedInv
<1>3. ASSUME NEW h \in Handlers, LoadEdit(h) PROVE OwedInv'
  BY <1>3 DEF LoadEdit, Begin, GoTo, committed, OwedInv
<1>4. ASSUME NEW h \in Handlers, LoadErase(h) PROVE OwedInv'
  BY <1>4 DEF LoadErase, Begin, GoTo, committed, OwedInv
<1>5. ASSUME NEW h \in Handlers, NEW p \in Replies, LoadRetract(h, p) PROVE OwedInv'
  BY <1>5 DEF LoadRetract, Begin, GoTo, committed, OwedInv
<1>6. ASSUME NEW h \in Handlers, Insert(h) PROVE OwedInv'
  BY <1>6 DEF Insert, Running, GoTo, committed, history, OwedInv
<1>7. ASSUME NEW h \in Handlers, Drop(h) PROVE OwedInv'
  BY <1>7 DEF Drop, Running, GoTo, committed, history, OwedInv
<1>8. ASSUME NEW h \in Handlers, Rewrite(h) PROVE OwedInv'
  BY <1>8 DEF Rewrite, Running, GoTo, committed, history, OwedInv
<1>9. ASSUME NEW h \in Handlers, Tombstone(h) PROVE OwedInv'
  BY <1>9 DEF Tombstone, Running, GoTo, committed, OwedInv
<1>10. ASSUME NEW h \in Handlers, Summarise(h) PROVE OwedInv'
  BY <1>10 DEF Summarise, Running, GoTo, committed, history, OwedInv
<1>11. ASSUME NEW h \in Handlers, Commit(h) PROVE OwedInv'
  BY <1>11 DEF Commit, GoTo, history, OwedInv
<1>12. ASSUME NEW h \in Handlers, PublishReaction(h) PROVE OwedInv'
  BY <1>12 DEF PublishReaction, Tells, Finish, Running, GoTo, committed, RoomTypes, RoomTypeOK,
     OwedInv, Replying
<1>13. ASSUME NEW h \in Handlers, PublishMessage(h) PROVE OwedInv'
  BY <1>13 DEF PublishMessage, Tells, Finish, Running, GoTo, committed, RoomTypes, RoomTypeOK,
     OwedInv, Replying
<1>14. ASSUME NEW h \in Handlers, NEW p \in Replies, PostReply(h, p) PROVE OwedInv'
  BY <1>14 DEF PostReply, GoTo, RoomTypes, RoomTypeOK, OwedInv, Replying, Op
<1>15. ASSUME NEW h \in Handlers, Retract(h) PROVE OwedInv'
  BY <1>15 DEF Retract, Running, GoTo, RoomTypes, RoomTypeOK, OwedInv, Replying
<1>16. ASSUME NEW h \in Handlers, ReadSummary(h) PROVE OwedInv'
  BY <1>16 DEF ReadSummary, GoTo, committed, history, RoomTypes, RoomTypeOK, OwedInv
<1>17. ASSUME NEW h \in Handlers, PublishSummary(h) PROVE OwedInv'
  BY <1>17 DEF PublishSummary, Tells, Carried, Finish, GoTo, committed, RoomTypes, RoomTypeOK,
     OwedInv, Replying
<1>18. ASSUME NEW h \in Handlers, Refused(h) PROVE OwedInv'
  BY <1>18 DEF Refused, Finish, GoTo, committed, history, OwedInv
<1>19. ASSUME NEW h \in Handlers, Dies(h) PROVE OwedInv'
  BY <1>19 DEF Dies, Finish, GoTo, committed, RoomTypes, RoomTypeOK, OwedInv, Replying
<1>20. ASSUME UNCHANGED roomVars PROVE OwedInv'
  BY <1>20 DEF roomVars, committed, running, history, OwedInv
<1>21. QED
  BY <1>1, <1>2, <1>3, <1>4, <1>5, <1>6, <1>7, <1>8, <1>9, <1>10, <1>11, <1>12, <1>13,
     <1>14, <1>15, <1>16, <1>17, <1>18, <1>19, <1>20
     DEF RoomNext

-----------------------------------------------------------------------------
(* Theorems *)

LEMMA InitTypes == RoomInit => RoomTypes
<1>1. CASE RoomInit
  <2>1. /\ Cardinality(Users) \in Nat /\ Cardinality(Replies) \in Nat
        /\ Cardinality({}) = 0
    BY RoomAssumption, FS_EmptySet, FS_CardinalityType
  <2>2. Op("none", Author) \in Operations
    BY RoomAssumption DEF Op, Operations, Kinds
  <2>3. op \in [Handlers -> Operations]
    BY <1>1, <2>2 DEF RoomInit, NoOp
  <2>4. seen \in [Handlers -> [reactions : SUBSET Users, replies : 0 .. Cardinality(Replies)]]
    BY <1>1, <2>1 DEF RoomInit, Nothing
  <2>5. RoomTypeOK
    <3>1. shown \in [reactions : 0 .. Cardinality(Users), replies : 0 .. Cardinality(Replies)]
      BY <1>1, <2>1 DEF RoomInit
    <3>2. \A h \in Handlers : adds[h] \cap (reactions \cup Written(h)) = {}
      BY <1>1 DEF RoomInit
    <3>3. QED
      BY <1>1, <2>3, <2>4, <3>1 DEF RoomInit, RoomTypeOK, Operations
  <2>6. OpInv /\ RowsInv
    BY <1>1 DEF RoomInit, OpInv, RowsInv, NoOp, Op, Reacting, Replying
  <2>7. QED
    BY <2>5, <2>6 DEF RoomTypes
<1>2. QED
  BY <1>1

(* Every variable keeps its type, and no two transactions have written one *)
(* reaction row: routers/reactions.py and the rows' primary key.           *)
THEOREM RoomTypeCorrect == RoomSpec => []RoomTypeOK
<1>1. RoomInit => RoomTypes
  BY InitTypes
<1>2. RoomTypes /\ [RoomNext]_roomVars => RoomTypes'
  BY TypesStep
<1>3. RoomTypes => RoomTypeOK
  BY  DEF RoomTypes
<1>4. QED
  BY <1>1, <1>2, <1>3, PTL DEF RoomSpec

(* routers/messages.py:555-557: the only reactions a tombstone can be left *)
(* with are those whose add was in flight as the message was deleted.      *)
THEOREM TombstonesAreCleared == RoomSpec => []TombstoneCleared
<1>1. RoomInit => RoomTypes
  BY InitTypes
<1>2. RoomInit => TombstoneInv
  BY <1>1 DEF RoomInit, TombstoneInv, RaceInv, ClearInv, TombstoneCleared, Erasing
<1>3. TombstoneInv /\ [RoomNext]_roomVars => TombstoneInv'
  BY TombstoneStep
<1>4. TombstoneInv => TombstoneCleared
  BY  DEF TombstoneInv
<1>5. QED
  BY <1>2, <1>3, <1>4, PTL DEF RoomSpec

(* reactions.py, routers/messages.py: however requests overlap, the        *)
(* windows show the committed counts once they are over, but for a count   *)
(* whose last broadcast was read before another's commit, or owed by a     *)
(* handler that died.                                                      *)
THEOREM UndisturbedCountsAreRight == RoomSpec => []UndisturbedCounts
<1>1. RoomInit => CountInv
  BY InitTypes, FS_EmptySet DEF RoomInit, CountInv, PlaceInv, SeenInv, ShownInv, HasRead, NoOp, Op
<1>2. CountInv /\ [RoomNext]_roomVars => CountInv'
  BY CountStep, TypesStep DEF CountInv
<1>3. CountInv => UndisturbedCounts
  BY  DEF CountInv, ShownInv, UndisturbedCounts, Quiet, Telling, TellingThread
<1>4. QED
  BY <1>1, <1>2, <1>3, PTL DEF RoomSpec

(* realtime.py:457-459: some broadcast since the last change of a thread   *)
(* carried its count, unless the handler of one died before that.          *)
THEOREM SomeBroadcastCounts == RoomSpec => []LastWriterCountsAll
<1>1. RoomInit => RoomTypes /\ OwedInv
  BY InitTypes DEF RoomInit, OwedInv
<1>2. RoomTypes /\ OwedInv /\ [RoomNext]_roomVars => (RoomTypes /\ OwedInv)'
  BY OwedStep, TypesStep
<1>3. RoomTypes /\ OwedInv => LastWriterCountsAll
  BY  DEF OwedInv, LastWriterCountsAll, Quiet
<1>4. QED
  BY <1>1, <1>2, <1>3, PTL DEF RoomSpec

============================================================================
