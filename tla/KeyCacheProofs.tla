------------------------- MODULE KeyCacheProofs -------------------------
(* Theorems of KeyCache, for every value of its constants. *)
EXTENDS KeyCache, TLAPS

-----------------------------------------------------------------------------
(* The inductive invariant. *)

Places == {"idle", "waiting", "fetching", "served", "verified", "revoked", "denied", "unavailable",
           "unknown", "accepted", "writing", "refused", "wrote", "typed"}

Records ==
  [pc : Places, kid : Kids \cup {Forged}, route : Routes,
   reason : {"none", "scheduled", "kid-miss"}, got : SUBSET Kids,
   ok : BOOLEAN, held : BOOLEAN, good : BOOLEAN, floored : BOOLEAN, dead : BOOLEAN, over : BOOLEAN,
   blind : BOOLEAN]

Types ==
  /\ TypeOK
  /\ req \in [Requests -> Records]
  /\ authUp \in BOOLEAN /\ r1Up \in BOOLEAN /\ stale \in BOOLEAN
  /\ retry \in BOOLEAN /\ missed \in BOOLEAN /\ failed \in BOOLEAN
  /\ fetches \in [missed : Nat, retry : Nat]

(* A key is published once: what was fetched was published by then. *)
PublishedInv ==
  /\ published \cap gone = {}
  /\ keys \subseteq published \cup gone
  /\ \A r \in Requests : req[r].got \subseteq published \cup gone

(* The set a fetch was served holds every key that was held and is still   *)
(* published, as nobody else has stored a set since.                       *)
ServedInv ==
  \A r \in Requests : req[r].pc = "served" /\ req[r].ok => keys \cap published \subseteq req[r].got

HeldInv == \A r \in Requests : req[r].held => req[r].kid \in keys \cap published

(* What an answer about a good token rests on. *)
GoodInv ==
  \A r \in Requests :
    /\ req[r].good => req[r].kid \in published
    /\ req[r].pc \in {"waiting", "fetching"} => req[r].got = {}
    /\ req[r].pc = "waiting" => req[r].reason # "none"
    /\ req[r].pc = "served" /\ req[r].ok /\ req[r].good => req[r].kid \in req[r].got

(* A floor that is not up has let nothing through, and nobody is inside a  *)
(* scheduled fetch while the floor after a failed one is up.               *)
FloorInv ==
  /\ ~missed => fetches.missed = 0
  /\ ~retry => fetches.retry = 0
  /\ \A r \in Requests :
       req[r].pc \in {"fetching", "served"} /\ req[r].reason = "scheduled" => ~retry

(* What a request, or a connection, was let through with. *)
DeadInv ==
  \A r \in Requests :
    /\ req[r].dead => r \in revoked
    /\ req[r].over => r \in expired
    /\ req[r].pc \in {"verified", "writing"} => ~req[r].over
    /\ req[r].pc \in {"writing", "wrote"} => req[r].route = "socket"

KeyInv ==
  /\ Types /\ FloorsHold
  /\ PublishedInv /\ ServedInv /\ HeldInv /\ HeldKeyServes
  /\ GoodInv /\ OutageIsNotRefusal
  /\ FloorInv
  /\ DeadInv /\ DeadTokensAreOut

-----------------------------------------------------------------------------
(* Steps of the requests *)

Inside == {"fetching", "served"}

(* What a request has to satisfy, said of its record. *)
Sound(r, q) ==
  /\ q.got \subseteq published \cup gone
  /\ q.pc = "served" /\ q.ok => keys \cap published \subseteq q.got
  /\ q.held => /\ q.kid \in keys \cap published
               /\ q.pc # "unknown"
               /\ (q.pc = "unavailable" => q.route = "sensitive" /\ q.blind)
  /\ q.good => q.kid \in published
  /\ q.pc \in {"waiting", "fetching"} => q.got = {}
  /\ q.pc = "waiting" => q.reason # "none"
  /\ q.pc = "served" /\ q.ok /\ q.good => q.kid \in q.got
  /\ q.pc = "unknown" /\ q.good => q.floored \/ (q.reason = "scheduled" /\ q.got = {})
  /\ q.pc \in Inside /\ q.reason = "scheduled" => ~retry
  /\ q.dead => r \in revoked
  /\ q.over => r \in expired
  /\ q.pc \in {"verified", "writing"} => ~q.over
  /\ q.pc \in {"writing", "wrote"} => q.route = "socket"
  /\ q.pc \in {"accepted", "wrote"} /\ q.dead /\ r \in listed => q.blind /\ q.route # "sensitive"
  /\ q.pc \in {"accepted", "wrote", "typed"} => ~q.over

Requesting == \A r \in Requests : Sound(r, req[r])

(* What is left of the invariant. *)
Common ==
  /\ Types
  /\ fetches.missed <= 1 /\ fetches.retry <= 1
  /\ published \cap gone = {} /\ keys \subseteq published \cup gone
  /\ (~missed => fetches.missed = 0) /\ (~retry => fetches.retry = 0)

LEMMA KeyParts == KeyInv <=> Common /\ Requesting
<1>1. ASSUME KeyInv PROVE Common
  BY <1>1 DEF KeyInv, Common, FloorsHold, PublishedInv, FloorInv
<1>2. ASSUME KeyInv, NEW r \in Requests PROVE Sound(r, req[r])
  BY <1>2 DEF KeyInv, Sound, PublishedInv, ServedInv, HeldInv, HeldKeyServes, GoodInv,
     OutageIsNotRefusal, FloorInv, DeadInv, DeadTokensAreOut, Inside
<1>3. ASSUME Common, Requesting PROVE KeyInv
  <2>1. PublishedInv /\ ServedInv /\ HeldInv /\ HeldKeyServes
    BY <1>3 DEF Common, Requesting, Sound, PublishedInv, ServedInv, HeldInv, HeldKeyServes
  <2>2. GoodInv /\ OutageIsNotRefusal
    BY <1>3 DEF Requesting, Sound, GoodInv, OutageIsNotRefusal
  <2>3. FloorInv /\ FloorsHold
    BY <1>3 DEF Common, Types, Requesting, Sound, FloorInv, FloorsHold, Inside
  <2>4. DeadInv /\ DeadTokensAreOut
    BY <1>3 DEF Requesting, Sound, DeadInv, DeadTokensAreOut
  <2>5. QED
    BY <2>1, <2>2, <2>3, <2>4, <1>3 DEF KeyInv, Common
<1>4. QED
  BY <1>1, <1>2, <1>3 DEF Requesting

(* A step of one request that touches nothing else. *)
LEMMA OwnStep ==
  ASSUME KeyInv, NEW r \in Requests, NEW q \in Records, req' = [req EXCEPT ![r] = q],
         UNCHANGED <<world, cache, lock>>,
         q.pc \in Inside <=> req[r].pc \in Inside, Sound(r, q)
  PROVE  KeyInv'
<1>1. Common /\ Requesting
  BY KeyParts
<1>2. req' \in [Requests -> Records]
  BY <1>1 DEF Common, Types
<1>3. \A s \in Requests : req'[s] = IF s = r THEN q ELSE req[s]
  BY <1>1 DEF Common, Types
<1>4. \A s \in Requests : Sound(s, req'[s])
  BY <1>1, <1>3 DEF Requesting
<1>5. Requesting'
  BY <1>4 DEF Requesting, Sound, world, cache
<1>6. TypeOK'
  <2>1. \A s \in Requests : req'[s].pc \in Places
    BY <1>2 DEF Records
  <2>2. \A s \in Requests : req'[s].pc \in {"fetching", "served"} <=> lock' = s
    BY <1>1, <1>3 DEF Common, Types, TypeOK, Inside
  <2>3. QED
    BY <1>1, <2>1, <2>2 DEF Common, Types, TypeOK, Places, world, cache
<1>7. Common'
  BY <1>1, <1>2, <1>6 DEF Common, Types, world, cache
<1>8. QED
  BY <1>5, <1>7, KeyParts, PTL

LEMMA IdleRecord == Idle \in Records
BY DEF Idle, Records, Places, Routes

LEMMA Records1 ==
  ASSUME NEW q \in Records, NEW pc \in Places
  PROVE  /\ [q EXCEPT !.pc = pc] \in Records
         /\ \A b \in BOOLEAN : [q EXCEPT !.pc = pc, !.floored = b] \in Records
         /\ \A b \in BOOLEAN : [q EXCEPT !.pc = pc, !.blind = b] \in Records
         /\ \A b, c, e \in BOOLEAN : [q EXCEPT !.pc = pc, !.dead = b, !.over = c, !.blind = e] \in Records
         /\ \A S \in SUBSET Kids, b \in BOOLEAN : [q EXCEPT !.pc = pc, !.got = S, !.ok = b] \in Records
BY DEF Records

(* An outcome is never inside a fetch, and a key that is held is verified. *)
LEMMA Outcomes ==
  ASSUME NEW r, NEW kid, NEW S, NEW b \in BOOLEAN
  PROVE  /\ Outcome(r, kid, S, b) \in {"denied", "verified", "unavailable", "unknown"}
         /\ kid \in S => Outcome(r, kid, S, b) \in {"denied", "verified"}
         /\ b => Outcome(r, kid, S, b) # "unknown"
         /\ Outcome(r, kid, S, b) = "verified" => r \notin expired
BY DEF Outcome

LEMMA ArriveKeeps ==
  ASSUME KeyInv, NEW r \in Requests, Arrive(r)
  PROVE  KeyInv'
<1>1. PICK k \in published \cup gone \cup {Forged}, route \in Routes :
        LET reason == IF IsStale THEN "scheduled" ELSE IF k \notin keys THEN "kid-miss" ELSE "none"
        IN  req' = [req EXCEPT ![r] = [
                     pc |-> IF reason = "none" THEN Outcome(r, k, keys, failed) ELSE "waiting",
                     kid |-> k, route |-> route, reason |-> reason, got |-> {}, ok |-> FALSE,
                     held |-> k \in keys /\ k \in published, good |-> k \in published,
                     floored |-> FALSE, dead |-> r \in revoked, over |-> r \in expired, blind |-> FALSE]]
  BY DEF Arrive, Signed
<1> DEFINE reason == IF IsStale THEN "scheduled" ELSE IF k \notin keys THEN "kid-miss" ELSE "none"
           pc == IF reason = "none" THEN Outcome(r, k, keys, failed) ELSE "waiting"
           q == [pc |-> pc, kid |-> k, route |-> route, reason |-> reason, got |-> {}, ok |-> FALSE,
                 held |-> k \in keys /\ k \in published, good |-> k \in published,
                 floored |-> FALSE, dead |-> r \in revoked, over |-> r \in expired, blind |-> FALSE]
<1>2. req' = [req EXCEPT ![r] = q]
  BY <1>1
<1>3. failed \in BOOLEAN /\ published \subseteq Kids /\ gone \subseteq Kids
  BY DEF KeyInv, Types, TypeOK
<1>4. pc \in {"waiting", "denied", "verified", "unavailable", "unknown"}
  BY <1>3, Outcomes
<1>5. reason \in {"none", "scheduled", "kid-miss"}
  OBVIOUS
<1>6. q \in Records
  BY <1>3, <1>4, <1>5 DEF Records, Places
<1>7. pc = "verified" => r \notin expired
  BY <1>3, Outcomes
<1>8. reason = "none" => pc \in {"denied", "verified"}
  BY <1>3, Outcomes
<1>9. pc = "waiting" <=> reason # "none"
  BY <1>8
<1>10. Sound(r, q)
  <2> HIDE DEF pc, reason
  <2>1. QED
    BY <1>4, <1>7, <1>8, <1>9 DEF Sound, Inside
<1>11. q.pc \notin Inside /\ req[r].pc \notin Inside
  BY <1>4 DEF Inside, Arrive, Signed
<1>12. QED
  BY <1>2, <1>6, <1>10, <1>11, OwnStep DEF Arrive, Signed

(* A request that has no fetch to make. *)
LEMMA RefreshKeeps ==
  ASSUME KeyInv, NEW r \in Requests, Refresh(r), ~Fetching(r)
  PROVE  KeyInv'
<1> DEFINE pc == Outcome(r, req[r].kid, keys, failed)
           floored == req[r].reason = "kid-miss"
           q == [req[r] EXCEPT !.pc = pc, !.floored = floored]
<1>1. req' = [req EXCEPT ![r] = q] /\ UNCHANGED <<world, cache, lock>>
  BY DEF Refresh
<1>2. req[r] \in Records /\ failed \in BOOLEAN
  BY DEF KeyInv, Types
<1>3. pc \in {"denied", "verified", "unavailable", "unknown"}
  BY <1>2, Outcomes
<1>4. q \in Records
  BY <1>2, <1>3, Records1 DEF Places
<1>5. Sound(r, req[r]) /\ req[r].pc = "waiting"
  BY KeyParts DEF Requesting, Refresh
<1>6. /\ req[r].kid \in keys => pc \in {"denied", "verified"}
      /\ pc = "verified" => r \notin expired
  BY <1>2, Outcomes
<1>7. /\ q.pc = pc /\ q.floored = floored /\ q.got = req[r].got /\ q.reason = req[r].reason
      /\ q.held = req[r].held /\ q.good = req[r].good /\ q.kid = req[r].kid /\ q.route = req[r].route
      /\ q.dead = req[r].dead /\ q.over = req[r].over /\ q.blind = req[r].blind /\ q.ok = req[r].ok
      /\ q.reason \in {"none", "scheduled", "kid-miss"}
  BY <1>2 DEF Records
<1>8. Sound(r, q)
  <2> HIDE DEF pc, q
  <2>1. QED
    BY <1>3, <1>5, <1>6, <1>7 DEF Sound, Inside
<1>9. q.pc \notin Inside /\ req[r].pc \notin Inside
  BY <1>3, <1>5, <1>7 DEF Inside
<1>10. QED
  BY <1>1, <1>4, <1>8, <1>9, OwnStep

LEMMA ServeKeeps ==
  ASSUME KeyInv, NEW r \in Requests, Serve(r)
  PROVE  KeyInv'
<1> DEFINE q == [req[r] EXCEPT !.pc = "served", !.got = published, !.ok = authUp]
<1>1. req' = [req EXCEPT ![r] = q]
  BY DEF Serve
<1>2. req[r] \in Records /\ authUp \in BOOLEAN /\ published \subseteq Kids
  BY DEF KeyInv, Types, TypeOK
<1>3. q \in Records
  BY <1>2, Records1 DEF Places
<1>4. Sound(r, req[r]) /\ req[r].pc = "fetching"
  BY KeyParts DEF Requesting, Serve
<1>5. Sound(r, q)
  BY <1>2, <1>4 DEF Sound, Records, Inside
<1>6. q.pc \in Inside /\ req[r].pc \in Inside
  BY <1>2, <1>4 DEF Records, Inside
<1>7. QED
  BY <1>1, <1>3, <1>5, <1>6, OwnStep DEF Serve

LEMMA CheckDenylistKeeps ==
  ASSUME KeyInv, NEW r \in Requests, CheckDenylist(r)
  PROVE  KeyInv'
<1> DEFINE pc == IF r1Up THEN IF r \in listed THEN "revoked" ELSE "accepted"
                 ELSE IF req[r].route = "sensitive" THEN "unavailable" ELSE "accepted"
           blind == ~r1Up
           q == [req[r] EXCEPT !.pc = pc, !.blind = blind]
<1>1. req' = [req EXCEPT ![r] = q]
  BY DEF CheckDenylist, Asked
<1>2. req[r] \in Records /\ blind \in BOOLEAN /\ pc \in Places
  BY DEF KeyInv, Types, Places
<1>3. q \in Records
  <2> HIDE DEF pc, blind
  <2>1. QED
    BY <1>2, Records1
<1>4. Sound(r, req[r]) /\ req[r].pc = "verified"
  BY KeyParts DEF Requesting, CheckDenylist
<1>5. Sound(r, q)
  BY <1>2, <1>4 DEF Sound, Records, Inside
<1>6. q.pc \notin Inside /\ req[r].pc \notin Inside
  BY <1>2, <1>4 DEF Records, Inside
<1>7. QED
  BY <1>1, <1>3, <1>5, <1>6, OwnStep DEF CheckDenylist

LEMMA EventKeeps ==
  ASSUME KeyInv, NEW r \in Requests, Typing(r) \/ Write(r)
  PROVE  KeyInv'
<1>1. PICK allowed \in {"typed", "writing"} : Event(r, allowed)
  BY DEF Typing, Write
<1> DEFINE pc == IF r \in expired THEN "refused" ELSE allowed
           q == [req[r] EXCEPT !.pc = pc, !.dead = r \in revoked, !.over = r \in expired, !.blind = FALSE]
<1>2. req' = [req EXCEPT ![r] = q]
  BY <1>1 DEF Event
<1>3. req[r] \in Records
  BY DEF KeyInv, Types
<1>4. q \in Records
  <2> DEFINE dead == r \in revoked
             over == r \in expired
  <2>1. dead \in BOOLEAN /\ over \in BOOLEAN /\ pc \in Places
    BY DEF Places
  <2>2. q = [req[r] EXCEPT !.pc = pc, !.dead = dead, !.over = over, !.blind = FALSE]
    OBVIOUS
  <2> HIDE DEF pc, dead, over, q
  <2>3. QED
    BY <1>3, <2>1, <2>2, Records1
<1>5. /\ Sound(r, req[r])
      /\ req[r].pc \in {"accepted", "refused", "wrote", "typed"} /\ req[r].route = "socket"
  BY <1>1, KeyParts DEF Requesting, Event, Connected
<1>6. Sound(r, q)
  BY <1>3, <1>5 DEF Sound, Records, Inside
<1>7. q.pc \notin Inside /\ req[r].pc \notin Inside
  BY <1>3, <1>5 DEF Records, Inside
<1>8. QED
  BY <1>1, <1>2, <1>4, <1>6, <1>7, OwnStep DEF Event

LEMMA CheckRevokedKeeps ==
  ASSUME KeyInv, NEW r \in Requests, CheckRevoked(r)
  PROVE  KeyInv'
<1> DEFINE pc == IF r1Up /\ r \in listed THEN "refused" ELSE "wrote"
           blind == ~r1Up
           q == [req[r] EXCEPT !.pc = pc, !.blind = blind]
<1>1. req' = [req EXCEPT ![r] = q]
  BY DEF CheckRevoked, Asked
<1>2. req[r] \in Records /\ blind \in BOOLEAN /\ pc \in Places
  BY DEF KeyInv, Types, Places
<1>3. q \in Records
  <2> HIDE DEF pc, blind
  <2>1. QED
    BY <1>2, Records1
<1>4. Sound(r, req[r]) /\ req[r].pc = "writing"
  BY KeyParts DEF Requesting, CheckRevoked
<1>5. Sound(r, q)
  BY <1>2, <1>4 DEF Sound, Records, Inside
<1>6. q.pc \notin Inside /\ req[r].pc \notin Inside
  BY <1>2, <1>4 DEF Records, Inside
<1>7. QED
  BY <1>1, <1>3, <1>5, <1>6, OwnStep DEF CheckRevoked

(* The lock is taken, for a fetch the floors let through. *)
LEMMA FetchingKeeps ==
  ASSUME KeyInv, NEW r \in Requests, Refresh(r), Fetching(r), ~missed \/ req[r].reason # "kid-miss",
         req[r].reason = "scheduled" => ~retry
  PROVE  KeyInv'
<1> DEFINE q == [req[r] EXCEPT !.pc = "fetching"]
<1>1. Common /\ Requesting
  BY KeyParts
<1>2. /\ req' = [req EXCEPT ![r] = q] /\ lock' = r /\ lock = Nobody
      /\ UNCHANGED <<world, keys, stale, retry, failed>>
      /\ missed' = (missed \/ req[r].reason = "kid-miss")
      /\ fetches' = IF req[r].reason = "kid-miss" THEN [fetches EXCEPT !.missed = @ + 1] ELSE fetches
  BY DEF Fetching, To, Refresh
<1>3. req[r] \in Records /\ req \in [Requests -> Records]
  BY DEF KeyInv, Types
<1>4. q \in Records
  BY <1>3, Records1 DEF Places
<1>5. Sound(r, req[r]) /\ req[r].pc = "waiting"
  BY <1>1 DEF Requesting, Refresh
<1>6. Sound(r, q)
  BY <1>3, <1>5 DEF Sound, Records, Inside
<1>7. /\ req' \in [Requests -> Records]
      /\ \A s \in Requests : req'[s] = IF s = r THEN q ELSE req[s]
  BY <1>2, <1>3, <1>4
<1>8. \A s \in Requests : Sound(s, req'[s])
  BY <1>1, <1>6, <1>7 DEF Requesting
<1>9. Requesting'
  BY <1>2, <1>8 DEF Requesting, Sound, world
<1>10. /\ fetches' \in [missed : Nat, retry : Nat]
       /\ fetches'.missed <= 1 /\ fetches'.retry = fetches.retry
       /\ (~missed' => fetches'.missed = 0)
  <2>1. CASE req[r].reason = "kid-miss"
    <3>1. /\ fetches \in [missed : Nat, retry : Nat] /\ fetches.missed = 0
          /\ fetches' = [fetches EXCEPT !.missed = @ + 1]
      BY <1>1, <1>2, <2>1 DEF Common, Types
    <3>2. fetches' \in [missed : Nat, retry : Nat] /\ fetches'.missed = 1 /\ fetches'.retry = fetches.retry
      BY <3>1
    <3>3. missed'
      BY <1>2, <2>1
    <3>4. QED
      BY <3>2, <3>3
  <2>2. CASE req[r].reason # "kid-miss"
    BY <1>1, <1>2, <2>2 DEF Common, Types
  <2>3. QED
    BY <2>1, <2>2
<1>11. TypeOK'
  <2>1. \A s \in Requests : req'[s].pc \in Places
    BY <1>7 DEF Records
  <2>2. Nobody \notin Requests /\ q.pc = "fetching"
    BY <1>3, KeyCacheAssumption DEF Nobody, Records
  <2>3. \A s \in Requests : req'[s].pc \in {"fetching", "served"} <=> lock' = s
    BY <1>1, <1>2, <1>7, <2>2 DEF Common, Types, TypeOK
  <2>4. QED
    BY <1>1, <1>2, <2>1, <2>3 DEF Common, Types, TypeOK, Places, world
<1>12. Common'
  <2>1. missed' \in BOOLEAN
    BY <1>1, <1>2, <1>3 DEF Common, Types, Records
  <2>2. QED
    BY <1>1, <1>2, <1>7, <1>10, <1>11, <2>1 DEF Common, Types, world
<1>13. QED
  BY <1>9, <1>12, KeyParts, PTL

(* What a fetch ends with: the keys it leaves hold every one that was held *)
(* and is still published.                                                 *)
LEMMA AnsweredKeeps ==
  ASSUME KeyInv, NEW r \in Requests, req[r].pc = "served",
         NEW left \in SUBSET Kids, NEW noted \in BOOLEAN, Answered(r, left, noted),
         keys' = left, failed' = noted, UNCHANGED <<world, missed>>,
         stale' \in BOOLEAN, retry' \in BOOLEAN,
         fetches' \in [missed : Nat, retry : Nat], fetches'.missed = fetches.missed,
         fetches'.retry <= 1, ~retry' => fetches'.retry = 0,
         left \subseteq published \cup gone, keys \cap published \subseteq left,
         req[r].kid \notin left /\ req[r].good => noted
  PROVE  KeyInv'
<1> DEFINE pc == Outcome(r, req[r].kid, left, noted)
           q == [req[r] EXCEPT !.pc = pc]
<1>1. Common /\ Requesting
  BY KeyParts
<1>2. req' = [req EXCEPT ![r] = q] /\ lock' = Nobody
  BY DEF Answered, To
<1>3. req[r] \in Records /\ req \in [Requests -> Records]
  BY DEF KeyInv, Types
<1>4. pc \in {"denied", "verified", "unavailable", "unknown"}
  BY Outcomes
<1>5. q \in Records
  BY <1>3, <1>4, Records1 DEF Places
<1>6. /\ req[r].kid \in left => pc \in {"denied", "verified"}
      /\ noted => pc # "unknown"
      /\ pc = "verified" => r \notin expired
  BY Outcomes
<1>7. Sound(r, req[r])
  BY <1>1 DEF Requesting
<1>8. /\ q.pc = pc /\ q.floored = req[r].floored /\ q.got = req[r].got /\ q.reason = req[r].reason
      /\ q.held = req[r].held /\ q.good = req[r].good /\ q.kid = req[r].kid /\ q.route = req[r].route
      /\ q.dead = req[r].dead /\ q.over = req[r].over /\ q.blind = req[r].blind
  BY <1>3 DEF Records
<1>9. /\ req' \in [Requests -> Records]
      /\ \A s \in Requests : req'[s] = IF s = r THEN q ELSE req[s]
  BY <1>2, <1>3, <1>5
<1>10. Nobody \notin Requests
  BY KeyCacheAssumption DEF Nobody
<1>11. \A s \in Requests : s # r => req[s].pc \notin Inside
  BY <1>1 DEF Common, Types, TypeOK, Inside
<1>12. Sound(r, req[r])'
  <2>1. req'[r] = q
    BY <1>9
  <2>2. /\ req'[r].pc = pc /\ req'[r].floored = req[r].floored /\ req'[r].got = req[r].got
        /\ req'[r].reason = req[r].reason /\ req'[r].held = req[r].held
        /\ req'[r].good = req[r].good /\ req'[r].kid = req[r].kid
        /\ req'[r].dead = req[r].dead /\ req'[r].over = req[r].over
        /\ req'[r].blind = req[r].blind /\ req'[r].route = req[r].route
    BY <1>8, <2>1
  <2> HIDE DEF pc, q
  <2>3. QED
    BY <1>4, <1>6, <1>7, <2>2 DEF Sound, Inside, world
<1>13. \A s \in Requests : s # r => Sound(s, req[s])'
  <2>1. TAKE s \in Requests
  <2>2. HAVE s # r
  <2>3. Sound(s, req[s]) /\ req[s].pc \notin Inside /\ req'[s] = req[s]
    BY <1>1, <1>9, <1>11, <2>2 DEF Requesting
  <2>4. QED
    BY <2>3 DEF Sound, Inside, world
<1>14. Requesting'
  BY <1>9, <1>12, <1>13 DEF Requesting
<1>15. TypeOK'
  <2>1. \A s \in Requests : req'[s].pc \in Places
    BY <1>9 DEF Records
  <2>2. \A s \in Requests : req'[s].pc \notin Inside
    BY <1>4, <1>8, <1>9, <1>11 DEF Inside
  <2>3. \A s \in Requests : req'[s].pc \in {"fetching", "served"} <=> lock' = s
    BY <1>2, <1>10, <2>2 DEF Inside
  <2>4. QED
    BY <1>1, <1>2, <2>1, <2>3 DEF Common, Types, TypeOK, Places, world
<1>16. Common'
  BY <1>1, <1>9, <1>15 DEF Common, Types, world
<1>17. QED
  BY <1>14, <1>16, KeyParts, PTL

LEMMA StoredKeeps ==
  ASSUME KeyInv, NEW r \in Requests, Stored(r)
  PROVE  KeyInv'
<1>1. /\ Common /\ Sound(r, req[r]) /\ req[r].pc = "served"
      /\ req[r] \in Records
  BY KeyParts DEF Requesting, Stored, KeyInv, Types
<1>2. CASE Fetched(r)
  <2>1. req[r].got \in SUBSET Kids
    BY <1>1 DEF Records
  <2>2. /\ fetches' \in [missed : Nat, retry : Nat] /\ fetches'.missed = fetches.missed
        /\ fetches'.retry = 0
    BY <1>1, <1>2 DEF Fetched, Common, Types
  <2>3. req[r].good => req[r].kid \in req[r].got
    BY <1>1, <1>2 DEF Fetched, Sound
  <2>4. /\ Answered(r, req[r].got, FALSE) /\ keys' = req[r].got /\ failed' = FALSE
        /\ stale' = FALSE /\ retry' = FALSE /\ UNCHANGED <<world, missed>>
    BY <1>2 DEF Fetched
  <2>5. req[r].got \subseteq published \cup gone /\ keys \cap published \subseteq req[r].got
    BY <1>1, <1>2 DEF Fetched, Sound
  <2>6. /\ stale' \in BOOLEAN /\ retry' \in BOOLEAN /\ fetches'.retry <= 1
        /\ (~retry' => fetches'.retry = 0)
    <3>1. stale' \in BOOLEAN /\ retry' \in BOOLEAN
      BY <2>4
    <3>2. QED
      BY <3>1, <2>2
  <2>7. ASSUME NEW noted \in BOOLEAN, noted = FALSE PROVE KeyInv'
    BY <1>1, <2>1, <2>2, <2>3, <2>4, <2>5, <2>6, <2>7, AnsweredKeeps
  <2>8. QED
    BY <2>7
<1>3. CASE NotFetched(r, keys, TRUE)
  <2>1. keys \in SUBSET Kids /\ stale' \in BOOLEAN
    BY <1>1, <1>3 DEF NotFetched, Common, Types, TypeOK
  <2>2. req[r].reason = "scheduled" => ~retry
    BY <1>1 DEF Sound, Inside
  <2>3. /\ fetches' \in [missed : Nat, retry : Nat] /\ fetches'.missed = fetches.missed
        /\ fetches'.retry <= 1
    BY <1>1, <1>3, <2>2 DEF NotFetched, Common, Types
  <2>4. QED
    BY <1>1, <1>3, <2>1, <2>3, AnsweredKeeps DEF NotFetched, Common
<1>4. QED
  BY <1>2, <1>3 DEF Stored

LEMMA StepKeeps ==
  ASSUME KeyInv, NEW r \in Requests, Step(r)
  PROVE  KeyInv'
<1>1. CASE Refresh(r)
  <2>1. CASE Fetching(r)
    <3>1. (req[r].reason = "scheduled" /\ IsStale) \/ (req[r].reason = "kid-miss" /\ ~missed)
      <4>1. lock' = r /\ lock = Nobody /\ Nobody # r
        BY <1>1, <2>1, KeyCacheAssumption DEF Fetching, Refresh, Nobody
      <4>2. QED
        BY <1>1, <4>1 DEF Refresh
    <3>2. QED
      BY <1>1, <2>1, <3>1, FetchingKeeps DEF IsStale
  <2>2. QED
    BY <1>1, <2>1, RefreshKeeps
<1>2. QED
  BY <1>1, ServeKeeps, StoredKeeps, CheckDenylistKeeps, CheckRevokedKeeps DEF Step

-----------------------------------------------------------------------------
(* Steps of the world *)

(* A step that leaves the requests and the lock alone, and forgets nothing *)
(* an answer rested on.                                                    *)
LEMMA WorldStep ==
  ASSUME KeyInv, Types', UNCHANGED <<keys, missed, lock, req>>,
         published \subseteq published', gone' = gone, published' \cap gone = {},
         keys \cap published' = keys \cap published,
         revoked \subseteq revoked', expired \subseteq expired', listed' \cap revoked \subseteq listed,
         retry' => retry,
         fetches'.missed = fetches.missed, fetches'.retry <= fetches.retry,
         ~retry' => fetches'.retry = 0
  PROVE  KeyInv'
<1>1. Common /\ Requesting
  BY KeyParts
<1>2. Common'
  BY <1>1 DEF Common, Types
<1>3. ASSUME NEW r \in Requests PROVE Sound(r, req[r])'
  <2>1. Sound(r, req[r]) /\ req' = req
    BY <1>1 DEF Requesting
  <2>2. QED
    BY <2>1 DEF Sound
<1>4. Requesting'
  BY <1>3 DEF Requesting
<1>5. QED
  BY <1>2, <1>4, KeyParts, PTL

LEMMA ChangesTypes ==
  ASSUME KeyInv, Changes PROVE changes' \in 0 .. MaxChanges
BY KeyCacheAssumption DEF KeyInv, Types, TypeOK, Changes

LEMMA PublishKeeps == ASSUME KeyInv, Publish PROVE KeyInv'
<1>1. Common
  BY KeyParts
<1>2. PICK k \in Kids \ (published \cup gone) : published' = published \cup {k}
  BY DEF Publish
<1>3. UNCHANGED <<gone, authUp, r1Up, revoked, listed, expired, cache, lock, req>> /\ changes' \in 0 .. MaxChanges
  BY ChangesTypes DEF Publish
<1>4. Types'
  BY <1>1, <1>2, <1>3 DEF Common, Types, TypeOK, cache
<1>5. published' \cap gone = {} /\ keys \cap published' = keys \cap published
  BY <1>1, <1>2 DEF Common
<1>6. fetches'.missed = fetches.missed /\ fetches'.retry <= fetches.retry /\ (~retry' => fetches'.retry = 0)
  BY <1>1, <1>3 DEF Common, Types, cache
<1>7. QED
  BY <1>2, <1>3, <1>4, <1>5, <1>6, WorldStep DEF cache

(* A request that bears the key that goes is good for nothing any more. *)
LEMMA WithdrawKeeps == ASSUME KeyInv, Withdraw PROVE KeyInv'
<1>1. Common /\ Requesting
  BY KeyParts
<1>2. PICK k \in published :
        /\ published' = published \ {k} /\ gone' = gone \cup {k}
        /\ req' = [r \in Requests |-> IF req[r].kid = k THEN [req[r] EXCEPT !.good = FALSE, !.held = FALSE]
                                      ELSE req[r]]
  BY DEF Withdraw
<1>3. UNCHANGED <<authUp, r1Up, revoked, listed, expired, cache, lock>> /\ changes' \in 0 .. MaxChanges
  BY ChangesTypes DEF Withdraw
<1>4. \A r \in Requests : req[r] \in Records
  BY <1>1 DEF Common, Types
<1>5. \A r \in Requests :
        /\ req'[r] \in Records
        /\ req'[r].pc = req[r].pc /\ req'[r].kid = req[r].kid /\ req'[r].route = req[r].route
        /\ req'[r].reason = req[r].reason /\ req'[r].got = req[r].got /\ req'[r].ok = req[r].ok
        /\ req'[r].floored = req[r].floored /\ req'[r].dead = req[r].dead /\ req'[r].over = req[r].over
        /\ req'[r].blind = req[r].blind /\ req'[r].route = req[r].route
        /\ (req'[r].held => req[r].held /\ req[r].kid # k)
        /\ (req'[r].good => req[r].good /\ req[r].kid # k)
  BY <1>2, <1>4 DEF Records
<1>6. req' \in [Requests -> Records]
  BY <1>2, <1>5
<1>7. TypeOK'
  BY <1>1, <1>2, <1>3, <1>5 DEF Common, Types, TypeOK, cache
<1>8. Common'
  <2>1. published' \cap gone' = {} /\ keys \subseteq published' \cup gone'
    BY <1>1, <1>2 DEF Common
  <2>2. QED
    BY <1>1, <1>3, <1>6, <1>7, <2>1 DEF Common, Types, cache
<1>9. ASSUME NEW r \in Requests PROVE Sound(r, req[r])'
  <2>1. Sound(r, req[r])
    BY <1>1 DEF Requesting
  <2>2. /\ req'[r].pc = req[r].pc /\ req'[r].kid = req[r].kid /\ req'[r].route = req[r].route
        /\ req'[r].reason = req[r].reason /\ req'[r].got = req[r].got /\ req'[r].ok = req[r].ok
        /\ req'[r].floored = req[r].floored /\ req'[r].dead = req[r].dead /\ req'[r].over = req[r].over
        /\ req'[r].blind = req[r].blind /\ req'[r].route = req[r].route
        /\ (req'[r].held => req[r].held /\ req[r].kid # k)
        /\ (req'[r].good => req[r].good /\ req[r].kid # k)
    BY <1>5
  <2>3. /\ published' \cup gone' = published \cup gone /\ published' \subseteq published
        /\ \A j \in published : j # k => j \in published'
        /\ keys' = keys /\ listed' = listed /\ retry' = retry /\ revoked' = revoked /\ expired' = expired
    BY <1>2, <1>3 DEF cache
  <2>4. QED
    BY <2>1, <2>2, <2>3 DEF Sound, Inside
<1>10. Requesting'
  BY <1>9 DEF Requesting
<1>11. QED
  BY <1>8, <1>10, KeyParts, PTL

(* Auth and R1 go down and come back, and time passes. *)
LEMMA TurnsKeep ==
  ASSUME KeyInv, AuthFails \/ AuthReturns \/ R1Fails \/ R1Returns \/ Stales \/ RetryLifts
  PROVE  KeyInv'
<1>1. Common
  BY KeyParts
<1>2. /\ UNCHANGED <<published, gone, revoked, expired, keys, missed, failed, lock, req>>
      /\ authUp' \in BOOLEAN /\ r1Up' \in BOOLEAN /\ stale' \in BOOLEAN /\ listed' \subseteq listed
  <2>1. UNCHANGED <<published, gone, revoked, expired, keys, missed, failed, lock, req>>
    BY DEF AuthFails, AuthReturns, R1Fails, R1Returns, Stales, RetryLifts, cache, world
  <2>2. authUp' \in BOOLEAN
    BY <1>1 DEF AuthFails, AuthReturns, R1Fails, R1Returns, Stales, RetryLifts, cache, world, Common, Types
  <2>3. r1Up' \in BOOLEAN /\ listed' \subseteq listed
    BY <1>1 DEF AuthFails, AuthReturns, R1Fails, R1Returns, Stales, RetryLifts, cache, world, Common, Types
  <2>4. stale' \in BOOLEAN
    <3>1. stale' = stale \/ stale' = TRUE
      BY DEF AuthFails, AuthReturns, R1Fails, R1Returns, Stales, RetryLifts, cache, world
    <3>2. QED
      BY <1>1, <3>1 DEF Common, Types
  <2>5. QED
    BY <2>1, <2>2, <2>3, <2>4
<1>3. changes' \in 0 .. MaxChanges
  <2>1. CASE AuthReturns \/ R1Returns \/ RetryLifts
    BY <1>1, <2>1 DEF AuthReturns, R1Returns, RetryLifts, world, Common, Types, TypeOK
  <2>2. CASE AuthFails \/ R1Fails \/ Stales
    BY <2>2, ChangesTypes DEF AuthFails, R1Fails, Stales
  <2>3. QED
    BY <2>1, <2>2
<1>4. /\ retry' \in BOOLEAN /\ (retry' => retry) /\ (~retry' => fetches'.retry = 0)
      /\ fetches' \in [missed : Nat, retry : Nat] /\ fetches'.missed = fetches.missed
      /\ fetches'.retry <= fetches.retry
  <2>1. CASE RetryLifts
    <3>1. retry' = FALSE /\ fetches' = [fetches EXCEPT !.retry = 0]
      BY <2>1 DEF RetryLifts
    <3>2. /\ fetches' \in [missed : Nat, retry : Nat] /\ fetches'.missed = fetches.missed
          /\ fetches'.retry = 0 /\ fetches.retry \in Nat
      BY <1>1, <3>1 DEF Common, Types
    <3>3. retry' \in BOOLEAN /\ ~retry'
      BY <3>1
    <3>4. QED
      BY <3>2, <3>3
  <2>2. CASE retry' = retry /\ fetches' = fetches
    BY <1>1, <2>2 DEF Common, Types
  <2>3. QED
    BY <2>1, <2>2 DEF AuthFails, AuthReturns, R1Fails, R1Returns, Stales, cache
<1>5. Types'
  BY <1>1, <1>2, <1>3, <1>4 DEF Common, Types, TypeOK
<1>6. published \subseteq published' /\ published' \cap gone = {} /\ keys \cap published' = keys \cap published
  BY <1>1, <1>2 DEF Common
<1>7. QED
  BY <1>2, <1>4, <1>5, <1>6, WorldStep

LEMMA MissLiftsKeeps == ASSUME KeyInv, MissLifts PROVE KeyInv'
<1>1. Common /\ Requesting
  BY KeyParts
<1>2. /\ UNCHANGED <<world, keys, stale, retry, failed, lock, req>>
      /\ missed' = FALSE /\ fetches' = [fetches EXCEPT !.missed = 0]
  BY DEF MissLifts
<1>3. fetches' \in [missed : Nat, retry : Nat] /\ fetches'.missed = 0 /\ fetches'.retry = fetches.retry
  BY <1>1, <1>2 DEF Common, Types
<1>4. missed' \in BOOLEAN
  BY <1>2
<1>5. Common'
  BY <1>1, <1>2, <1>3, <1>4 DEF Common, Types, TypeOK, world
<1>6. ASSUME NEW r \in Requests PROVE Sound(r, req[r])'
  <2>1. Sound(r, req[r])
    BY <1>1 DEF Requesting
  <2>2. QED
    BY <1>2, <2>1 DEF Sound, world
<1>7. Requesting'
  BY <1>6 DEF Requesting
<1>8. QED
  BY <1>5, <1>7, KeyParts, PTL

(* A token is revoked, or expires. *)
LEMMA EndsKeep ==
  ASSUME KeyInv, NEW r \in Requests, Revoke(r) \/ Expire(r)
  PROVE  KeyInv'
<1>1. Common
  BY KeyParts
<1>2. /\ UNCHANGED <<published, gone, authUp, r1Up, cache, lock, req>>
      /\ revoked \subseteq revoked' /\ expired \subseteq expired'
      /\ listed' \cap revoked \subseteq listed /\ listed' \subseteq revoked'
      /\ revoked' \cup expired' \subseteq Requests /\ changes' \in 0 .. MaxChanges
  BY <1>1, ChangesTypes DEF Revoke, Expire, Common, Types, TypeOK
<1>3. Types'
  BY <1>1, <1>2 DEF Common, Types, TypeOK, cache
<1>4. /\ published' \cap gone = {} /\ keys \cap published' = keys \cap published
      /\ fetches'.missed = fetches.missed /\ fetches'.retry <= fetches.retry
      /\ (~retry' => fetches'.retry = 0)
  BY <1>1, <1>2 DEF Common, Types, cache
<1>5. QED
  BY <1>2, <1>3, <1>4, WorldStep DEF cache

-----------------------------------------------------------------------------
(* The theorems *)

LEMMA InitKeys == Init => KeyInv
<1>1. ASSUME Init PROVE KeyInv
  <2>1. /\ published \subseteq Kids /\ keys \subseteq published /\ gone = {}
        /\ \A r \in Requests : req[r] = Idle
        /\ req = [r \in Requests |-> Idle]
    BY <1>1 DEF Init
  <2>2. req \in [Requests -> Records]
    BY <2>1, IdleRecord
  <2>3. /\ Idle.pc = "idle" /\ Idle.got = {} /\ Idle.reason = "none"
        /\ ~Idle.ok /\ ~Idle.held /\ ~Idle.good /\ ~Idle.dead /\ ~Idle.over /\ ~Idle.blind
    BY DEF Idle
  <2>4. Requesting
    BY <2>1, <2>3 DEF Requesting, Sound, Inside
  <2>5. TypeOK
    BY <1>1, <2>1, <2>3, KeyCacheAssumption DEF Init, TypeOK, Nobody
  <2>6. Common
    <3>1. /\ authUp \in BOOLEAN /\ r1Up \in BOOLEAN /\ stale \in BOOLEAN
          /\ retry \in BOOLEAN /\ missed \in BOOLEAN /\ failed \in BOOLEAN
      BY <1>1 DEF Init
    <3>2. fetches \in [missed : Nat, retry : Nat] /\ fetches.missed = 0 /\ fetches.retry = 0
      BY <1>1 DEF Init
    <3>3. QED
      BY <2>1, <2>2, <2>5, <3>1, <3>2 DEF Common, Types
  <2>7. QED
    BY <2>4, <2>6, KeyParts
<1>2. QED
  BY <1>1

LEMMA NextKeys == KeyInv /\ [Next]_vars => KeyInv'
<1>1. ASSUME KeyInv, Next PROVE KeyInv'
  BY <1>1, ArriveKeeps, StepKeeps, EventKeeps, EndsKeep, PublishKeeps, WithdrawKeeps, TurnsKeep,
     MissLiftsKeeps DEF Next
<1>2. ASSUME KeyInv, UNCHANGED vars PROVE KeyInv'
  <2>1. Common /\ Requesting
    BY <1>2, KeyParts
  <2>2. Common'
    BY <1>2, <2>1 DEF Common, Types, TypeOK, vars
  <2>3. Requesting'
    BY <1>2, <2>1 DEF Requesting, Sound, vars
  <2>4. QED
    BY <2>2, <2>3, KeyParts, PTL
<1>3. QED
  BY <1>1, <1>2

(* keys.py 92-100, 139-150: whatever the keys and the requests, one        *)
(* request fetches at a time, and a floor lets one fetch through.          *)
THEOREM FetchesAreFloored == Spec => []FloorsHold
<1>1. KeyInv => FloorsHold
  BY DEF KeyInv
<1>2. QED
  BY <1>1, InitKeys, NextKeys, PTL DEF Spec

(* keys.py 161-179: a key that is held and still published serves, however *)
(* fetches fail and overlap.                                               *)
THEOREM HeldKeysServe == Spec => []HeldKeyServes
<1>1. KeyInv => HeldKeyServes
  BY DEF KeyInv
<1>2. QED
  BY <1>1, InitKeys, NextKeys, PTL DEF Spec

(* keys.py 40-48: nobody is told to sign in again for an outage of Auth.   *)
THEOREM OutagesRefuseNobody == Spec => []OutageIsNotRefusal
<1>1. KeyInv => OutageIsNotRefusal
  BY DEF KeyInv
<1>2. QED
  BY <1>1, InitKeys, NextKeys, PTL DEF Spec

(* denylist.py 6-13, realtime_writes.py 31-35: a token that was revoked or *)
(* had expired before it was used is refused, on a connection too.         *)
THEOREM DeadTokensRefused == Spec => []DeadTokensAreOut
<1>1. KeyInv => DeadTokensAreOut
  BY DEF KeyInv
<1>2. QED
  BY <1>1, InitKeys, NextKeys, PTL DEF Spec
=============================================================================
