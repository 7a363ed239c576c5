------------------------ MODULE AttachmentsProofs ------------------------
(* Theorems of Attachments, for every value of its constants. *)
EXTENDS Attachments, FiniteSetTheorems, SequenceTheorems, WellFoundedInduction, TLAPS

-----------------------------------------------------------------------------
(* The inductive invariant. *)

Requested ==
  {q \in [step : {"over", "reserve", "put", "confirm"}, at : {"asked", "answered", "judged"},
          with : {"none", "ok", "error", "pending", "ready", "failed"}] :
     q.at = "judged" => q.with \in {"ready", "failed"}}

Sends ==
  [at : {"none", "sent", "claimed", "refused", "saved", "deleted"}, ids : Seq(Files),
   to : Channels \cup {None}, locks : SUBSET Files, tab : {"no", "waiting", "acked", "failed"}]

Statuses == {"none", "pending", "ready", "failed"}

Types ==
  /\ chosen \in Nat
  /\ chips \in [Channels -> Seq(Files)]
  /\ look \in [Files -> {"none", "uploading", "ready", "failed"}]
  /\ net \in [Files -> Requested]
  /\ object \in [Files -> {"none", "whole", "short"}]
  /\ status \in [Files -> Statuses]
  /\ claim \in [Files -> Messages \cup {None}]
  /\ other \in [Files -> {"no", "ready", "failed", "done"}]
  /\ send \in [Messages -> Sends]

Ids(m) == ToSet(send[m].ids)

(* Locks are held by one send at a time, while it is judged, and taken in  *)
(* the order of the rows.                                                  *)
LockInv ==
  \A m \in Messages :
    /\ send[m].locks \subseteq Ids(m)
    /\ send[m].at # "sent" => send[m].locks = {}
    /\ \A f \in send[m].locks, g \in Wanted(m) : f < g
    /\ \A n \in Messages \ {m} : send[n].locks \cap send[m].locks = {}

(* A send holds nothing before its claim and, if it goes on, everything    *)
(* after.                                                                  *)
ClaimInv ==
  \A m \in Messages :
    /\ send[m].at \in {"none", "sent"} => \A f \in Files : claim[f] # m
    /\ send[m].at \in {"claimed", "saved", "deleted"} => \A f \in Ids(m) : claim[f] = m

(* Whatever says that an asset is ready says so of one that is: nothing    *)
(* reserves it, or judges it, again.                                       *)
ReadyInv ==
  \A f \in Files :
    /\ claim[f] # None => status[f] = "ready"
    /\ look[f] = "ready" => status[f] = "ready"
    /\ net[f].at = "answered" /\ net[f].with = "ready" => status[f] = "ready"
    /\ net[f].step = "reserve" /\ net[f].at = "asked" => status[f] = "none"
    /\ f > chosen => net[f] = Over /\ status[f] = "none"

AttachmentsInv == Types /\ LockInv /\ ClaimInv /\ AllOrNone /\ ReadyInv

-----------------------------------------------------------------------------
LEMMA Numbers == Files \subseteq Nat /\ MaxChosen \in Nat
BY AttachmentsAssumption DEF Files

LEMMA Smallest ==
  ASSUME NEW T, T \subseteq Nat, T # {}
  PROVE  \E x \in T : \A y \in T : x <= y
<1> DEFINE Less == {p \in Nat \X Nat : p[1] < p[2]}
<1>1. IsWellFoundedOn(Less, Nat)
  BY NatLessThanWellFounded DEF OpToRel
<1>2. \A x, y \in Nat : x < y => <<x, y>> \in Less
  OBVIOUS
<1> HIDE DEF Less
<1>3. \E x \in T : \A y \in T : ~(<<y, x>> \in Less)
  BY <1>1, WFMin
<1>4. PICK x \in T : \A y \in T : ~(<<y, x>> \in Less)
  BY <1>3
<1>5. ASSUME NEW y \in T PROVE x <= y
  <2>1. x \in Nat /\ y \in Nat /\ ~(y < x)
    BY <1>2, <1>4
  <2>2. QED
    BY <2>1
<1>6. QED
  BY <1>5

LEMMA Largest ==
  ASSUME NEW T, T \subseteq Files, T # {}
  PROVE  \E x \in T : \A y \in T : y <= x
<1> DEFINE Rest == {MaxChosen - x : x \in T}
<1>1. Rest \subseteq Nat /\ Rest # {}
  BY AttachmentsAssumption DEF Files
<1>2. PICK r \in Rest : \A y \in Rest : r <= y
  <2> HIDE DEF Rest
  <2>1. QED
    BY <1>1, Smallest
<1>3. PICK x \in T : r = MaxChosen - x
  OBVIOUS
<1>4. ASSUME NEW y \in T PROVE y <= x
  <2>1. MaxChosen - x <= MaxChosen - y
    BY <1>2, <1>3
  <2>2. x \in Nat /\ y \in Nat
    BY Numbers
  <2>3. QED
    BY <2>1, <2>2, Numbers
<1>5. QED
  BY <1>4

LEMMA IdsAreFiles ==
  ASSUME Types, NEW m \in Messages
  PROVE  Ids(m) \subseteq Files /\ Wanted(m) \subseteq Ids(m) /\ send[m] \in Sends
BY DEF Types, Sends, Ids, ToSet, Wanted

(* Of the rows still wanted the next one locked is the first. *)
LEMMA NextLockIsFirst ==
  ASSUME Types, NEW m \in Messages, Wanted(m) # {}
  PROVE  NextLock(m) \in Wanted(m) /\ NextLock(m) \in Files /\ \A g \in Wanted(m) : NextLock(m) <= g
<1>1. Wanted(m) \subseteq Files
  BY IdsAreFiles
<1>2. \E f \in Wanted(m) : \A g \in Wanted(m) : f <= g
  BY <1>1, Smallest, Numbers
<1>3. QED
  BY <1>1, <1>2 DEF NextLock

-----------------------------------------------------------------------------
(* Uploads, and Asset *)

(* A step of one upload: sends and claims are left alone. *)
LEMMA UploadStep ==
  ASSUME AttachmentsInv, UNCHANGED <<send, claim, chosen>>,
         NEW f \in Files, f > chosen => net'[f] = Over /\ status'[f] = "none",
         net' \in [Files -> Requested], status' \in [Files -> Statuses],
         look' \in [Files -> {"none", "uploading", "ready", "failed"}],
         chips' \in [Channels -> Seq(Files)], object' \in [Files -> {"none", "whole", "short"}],
         other' \in [Files -> {"no", "ready", "failed", "done"}],
         \A g \in Files \ {f} : net'[g] = net[g] /\ status'[g] = status[g] /\ look'[g] = look[g],
         status[f] = "ready" => status'[f] = "ready",
         look'[f] = "ready" => status'[f] = "ready",
         net'[f].at = "answered" /\ net'[f].with = "ready" => status'[f] = "ready",
         net'[f].step = "reserve" /\ net'[f].at = "asked" => status'[f] = "none"
  PROVE  AttachmentsInv'
<1>1. Types'
  BY DEF AttachmentsInv, Types
<1>2. LockInv' /\ ClaimInv' /\ AllOrNone'
  BY DEF AttachmentsInv, LockInv, ClaimInv, AllOrNone, Ids, Wanted
<1>3. ReadyInv'
  <2>1. ASSUME NEW g \in Files, g # f
        PROVE  /\ claim[g] # None => status'[g] = "ready"
               /\ look'[g] = "ready" => status'[g] = "ready"
               /\ net'[g].at = "answered" /\ net'[g].with = "ready" => status'[g] = "ready"
               /\ net'[g].step = "reserve" /\ net'[g].at = "asked" => status'[g] = "none"
               /\ g > chosen => net'[g] = Over /\ status'[g] = "none"
    BY <2>1 DEF AttachmentsInv, ReadyInv
  <2>2. claim[f] # None => status'[f] = "ready"
    BY DEF AttachmentsInv, ReadyInv
  <2>3. QED
    BY <2>1, <2>2 DEF ReadyInv
<1>4. QED
  BY <1>1, <1>2, <1>3 DEF AttachmentsInv

LEMMA OverRequested == Over \in Requested /\ Over.at = "asked" /\ Over.step = "over"
BY DEF Over, Request, Requested

(* The request of one upload moves on to another. *)
LEMMA OneRequest ==
  ASSUME Types, NEW f \in Files, NEW q \in Requested, net' = [net EXCEPT ![f] = q]
  PROVE  /\ net' \in [Files -> Requested]
         /\ net'[f] = q /\ \A g \in Files \ {f} : net'[g] = net[g]
BY DEF Types

LEMMA AnswerSays ==
  ASSUME Types, NEW f \in Files, NEW with \in {"none", "ok", "pending", "ready", "failed"}, Answer(f, with)
  PROVE  /\ net' \in [Files -> Requested] /\ \A g \in Files \ {f} : net'[g] = net[g]
         /\ ~(net'[f].step = "reserve" /\ net'[f].at = "asked")
         /\ net'[f].at = "answered" /\ net'[f].with = "ready" => with = "ready"
<1>1. net[f] \in Requested /\ net \in [Files -> Requested]
  BY DEF Types
<1>2. ASSUME NEW w \in {"none", "ok", "error", "pending", "ready", "failed"}
      PROVE  Request(net[f].step, "answered", w) \in Requested
  BY <1>1 DEF Request, Requested
<1>3. PICK w \in {with, "error"} : net' = [net EXCEPT ![f] = Request(net[f].step, "answered", w)]
                                 \/ net' = [net EXCEPT ![f] = Over]
  BY <1>1 DEF Answer
<1>4. CASE net' = [net EXCEPT ![f] = Over]
  BY <1>1, <1>4, OverRequested
<1>5. CASE net' = [net EXCEPT ![f] = Request(net[f].step, "answered", w)]
  <2>1. /\ net' \in [Files -> Requested] /\ \A g \in Files \ {f} : net'[g] = net[g]
        /\ net'[f] = Request(net[f].step, "answered", w)
    BY <1>1, <1>2, <1>5
  <2>2. net'[f].at = "answered" /\ net'[f].with = w
    BY <2>1 DEF Request
  <2>3. QED
    BY <2>1, <2>2
<1>6. QED
  BY <1>3, <1>4, <1>5

LEMMA AdvanceKeeps == ASSUME AttachmentsInv, NEW f \in Files, Advance(f) PROVE AttachmentsInv'
<1>1. /\ Types /\ ReadyInv /\ net[f] \in Requested /\ net[f].at = "answered" /\ ~(f > chosen)
      /\ UNCHANGED <<chosen, dropped, asset, other, send, faults>>
  BY OverRequested DEF AttachmentsInv, Types, Advance, ReadyInv
<1>2. /\ status' = status /\ object' = object /\ claim' = claim
      /\ other' = other /\ send' = send /\ chosen' = chosen
  BY <1>1 DEF asset
<1>3. /\ status' \in [Files -> Statuses] /\ object' \in [Files -> {"none", "whole", "short"}]
      /\ other' \in [Files -> {"no", "ready", "failed", "done"}]
  BY <1>1, <1>2 DEF Types
<1>4. CASE net[f].with = "ok"
  <2> DEFINE q == Request(IF net[f].step = "reserve" THEN "put" ELSE "confirm", "asked", "none")
  <2>1. q \in Requested /\ q.at = "asked" /\ q.step # "reserve"
    BY DEF Request, Requested
  <2>2. UNCHANGED <<chips, look>> /\ net' = [net EXCEPT ![f] = q]
    BY <1>1, <1>4 DEF Advance
  <2> HIDE DEF q
  <2>3. /\ net' \in [Files -> Requested]
        /\ net'[f] = q /\ \A g \in Files \ {f} : net'[g] = net[g]
    BY <1>1, <2>1, <2>2, OneRequest
  <2>4. /\ look' \in [Files -> {"none", "uploading", "ready", "failed"}]
        /\ chips' \in [Channels -> Seq(Files)]
        /\ look'[f] = "ready" => status'[f] = "ready"
    BY <1>1, <1>2, <2>2 DEF Types, ReadyInv
  <2>5. QED
    BY <1>1, <1>2, <1>3, <2>1, <2>2, <2>3, <2>4, UploadStep
<1>5. CASE net[f].with # "ok"
  <2> DEFINE what == IF net[f].with = "ready" THEN "ready" ELSE "failed"
  <2>1. chips' = chips /\ net' = [net EXCEPT ![f] = Over]
        /\ look' = IF Gone(f) THEN look ELSE [look EXCEPT ![f] = what]
    BY <1>1, <1>5 DEF Advance, Update
  <2>2. what = "ready" => status[f] = "ready"
    BY <1>1 DEF ReadyInv
  <2>3. what \in {"ready", "failed"}
    OBVIOUS
  <2> HIDE DEF what
  <2>4. /\ net' \in [Files -> Requested]
        /\ net'[f] = Over /\ \A g \in Files \ {f} : net'[g] = net[g]
    BY <1>1, <2>1, OneRequest, OverRequested
  <2>5. /\ look' \in [Files -> {"none", "uploading", "ready", "failed"}]
        /\ \A g \in Files \ {f} : look'[g] = look[g]
        /\ look'[f] = "ready" => status'[f] = "ready"
    BY <1>1, <1>2, <2>1, <2>2, <2>3 DEF Types, ReadyInv
  <2>6. chips' \in [Channels -> Seq(Files)]
    BY <1>1, <2>1 DEF Types
  <2>7. QED
    BY <1>1, <1>2, <1>3, <2>4, <2>5, <2>6, OverRequested, UploadStep
<1>6. QED
  BY <1>4, <1>5

(* Asset answers an upload, and may judge it. *)
LEMMA ServiceStep ==
  ASSUME AttachmentsInv, UNCHANGED <<browser, claim, send>>,
         NEW f \in Files, net' \in [Files -> Requested], \A g \in Files \ {f} : net'[g] = net[g],
         NEW v \in Statuses, status' = [status EXCEPT ![f] = v], status[f] = "ready" => v = "ready",
         f > chosen => net'[f] = Over /\ v = "none",
         net'[f].at = "answered" /\ net'[f].with = "ready" => v = "ready",
         net'[f].step = "reserve" /\ net'[f].at = "asked" => v = "none",
         object' \in [Files -> {"none", "whole", "short"}],
         other' \in [Files -> {"no", "ready", "failed", "done"}]
  PROVE  AttachmentsInv'
<1>1. Types /\ ReadyInv /\ chips' = chips /\ look' = look /\ chosen' = chosen /\ claim' = claim /\ send' = send
  BY DEF AttachmentsInv, browser
<1>2. /\ status' \in [Files -> Statuses]
      /\ status'[f] = v /\ \A g \in Files \ {f} : status'[g] = status[g]
  BY <1>1 DEF Types
<1>3. /\ look' \in [Files -> {"none", "uploading", "ready", "failed"}]
      /\ chips' \in [Channels -> Seq(Files)]
      /\ look'[f] = "ready" => status'[f] = "ready"
  BY <1>1, <1>2 DEF Types, ReadyInv
<1>4. QED
  BY <1>1, <1>2, <1>3, UploadStep

LEMMA SameStatus ==
  ASSUME Types, NEW f \in Files, status' = status
  PROVE  status[f] \in Statuses /\ status' = [status EXCEPT ![f] = status[f]]
BY DEF Types

LEMMA FailsKeeps == ASSUME AttachmentsInv, NEW f \in Files, Fails(f) PROVE AttachmentsInv'
<1> DEFINE q == Request(net[f].step, "answered", "error")
<1>1. /\ Types /\ net[f] \in Requested /\ ~(f > chosen)
      /\ UNCHANGED <<browser, asset, other, send>> /\ net' = [net EXCEPT ![f] = q]
  BY DEF AttachmentsInv, Types, Fails, ReadyInv
<1>2. q \in Requested /\ q.at = "answered" /\ q.with = "error"
  BY <1>1 DEF Request, Requested
<1> HIDE DEF q
<1>3. net' \in [Files -> Requested] /\ net'[f] = q /\ \A g \in Files \ {f} : net'[g] = net[g]
  BY <1>1, <1>2, OneRequest
<1>4. status[f] \in Statuses /\ status' = [status EXCEPT ![f] = status[f]]
  BY <1>1, SameStatus DEF asset
<1>5. /\ object' \in [Files -> {"none", "whole", "short"}]
      /\ other' \in [Files -> {"no", "ready", "failed", "done"}]
  BY <1>1 DEF Types, asset
<1>6. /\ ~(net'[f].step = "reserve" /\ net'[f].at = "asked")
      /\ ~(net'[f].at = "answered" /\ net'[f].with = "ready")
      /\ UNCHANGED <<browser, claim, send>>
  BY <1>1, <1>2, <1>3 DEF asset
<1>7. QED
  BY <1>1, <1>3, <1>4, <1>5, <1>6, ServiceStep

LEMMA ReserveKeeps == ASSUME AttachmentsInv, NEW f \in Files, Reserve(f) PROVE AttachmentsInv'
<1>1. /\ Types /\ net[f].step = "reserve" /\ net[f].at = "asked" /\ ~(f > chosen)
      /\ status[f] = "none" /\ status' = [status EXCEPT ![f] = "pending"] /\ Answer(f, "ok")
      /\ UNCHANGED <<browser, object, claim, other, send>>
  BY OverRequested DEF AttachmentsInv, ReadyInv, Reserve, Asked
<1>2. /\ net' \in [Files -> Requested] /\ \A g \in Files \ {f} : net'[g] = net[g]
      /\ ~(net'[f].step = "reserve" /\ net'[f].at = "asked")
      /\ ~(net'[f].at = "answered" /\ net'[f].with = "ready")
  BY <1>1, AnswerSays
<1>3. /\ object' \in [Files -> {"none", "whole", "short"}]
      /\ other' \in [Files -> {"no", "ready", "failed", "done"}] /\ "pending" \in Statuses
  BY <1>1 DEF Types, Statuses
<1>4. QED
  BY <1>1, <1>2, <1>3, ServiceStep

LEMMA PutKeeps == ASSUME AttachmentsInv, NEW f \in Files, Put(f) PROVE AttachmentsInv'
<1>1. /\ Types /\ net[f].step = "put" /\ ~(f > chosen)
      /\ UNCHANGED <<browser, status, claim, other, send>>
  BY OverRequested DEF AttachmentsInv, Put, Asked, ReadyInv
<1>2. /\ net' \in [Files -> Requested] /\ \A g \in Files \ {f} : net'[g] = net[g]
      /\ ~(net'[f].step = "reserve" /\ net'[f].at = "asked")
      /\ ~(net'[f].at = "answered" /\ net'[f].with = "ready")
  <2>1. CASE Answer(f, "ok")
    BY <1>1, <2>1, AnswerSays
  <2>2. CASE ~Answer(f, "ok")
    <3> DEFINE q == IF f \in live THEN Request("put", "answered", "ok") ELSE Over
    <3>1. net' = [net EXCEPT ![f] = q]
      BY <2>2 DEF Put
    <3>2. q \in Requested /\ q.step # "reserve" /\ q.with # "ready"
      BY DEF Over, Request, Requested
    <3> HIDE DEF q
    <3>3. QED
      BY <1>1, <3>1, <3>2, OneRequest
  <2>3. QED
    BY <2>1, <2>2
<1>3. /\ object' \in [Files -> {"none", "whole", "short"}]
      /\ other' \in [Files -> {"no", "ready", "failed", "done"}]
  BY <1>1 DEF Types, Put
<1>4. status[f] \in Statuses /\ status' = [status EXCEPT ![f] = status[f]]
  BY <1>1, SameStatus
<1>5. QED
  BY <1>1, <1>2, <1>3, <1>4, ServiceStep

LEMMA AskStoreKeeps == ASSUME AttachmentsInv, NEW f \in Files, AskStore(f) PROVE AttachmentsInv'
<1>1. /\ Types /\ ReadyInv /\ net[f].step = "confirm" /\ ~(f > chosen)
      /\ UNCHANGED <<browser, asset, other, send>>
  BY OverRequested DEF AttachmentsInv, AskStore, Asked, ReadyInv
<1>2. status[f] \in Statuses /\ status' = [status EXCEPT ![f] = status[f]]
  BY <1>1, SameStatus DEF asset
<1>3. /\ object' \in [Files -> {"none", "whole", "short"}]
      /\ other' \in [Files -> {"no", "ready", "failed", "done"}]
      /\ UNCHANGED <<browser, claim, send>>
  BY <1>1 DEF Types, asset
<1>4. CASE status[f] # "pending"
  <2>1. Answer(f, status[f])
    BY <1>4 DEF AskStore
  <2>2. /\ net' \in [Files -> Requested] /\ \A g \in Files \ {f} : net'[g] = net[g]
        /\ ~(net'[f].step = "reserve" /\ net'[f].at = "asked")
        /\ net'[f].at = "answered" /\ net'[f].with = "ready" => status[f] = "ready"
    BY <1>1, <1>2, <1>4, <2>1, AnswerSays DEF Statuses
  <2>3. QED
    BY <1>1, <1>2, <1>3, <2>2, ServiceStep
<1>5. CASE status[f] = "pending"
  <2> DEFINE q == Request("confirm", "judged", Outcome(f))
  <2>1. net' = [net EXCEPT ![f] = q]
    BY <1>5 DEF AskStore
  <2>2. q \in Requested /\ q.step # "reserve" /\ q.at = "judged"
    BY DEF Request, Requested, Outcome
  <2> HIDE DEF q
  <2>3. /\ net' \in [Files -> Requested] /\ \A g \in Files \ {f} : net'[g] = net[g]
        /\ ~(net'[f].step = "reserve" /\ net'[f].at = "asked")
        /\ ~(net'[f].at = "answered" /\ net'[f].with = "ready")
    BY <1>1, <2>1, <2>2, OneRequest
  <2>4. QED
    BY <1>1, <1>2, <1>3, <2>3, ServiceStep
<1>6. QED
  BY <1>4, <1>5

LEMMA JudgedFacts ==
  ASSUME Types, NEW f \in Files, NEW outcome \in {"ready", "failed"}
  PROVE  /\ Judged(f, outcome) \in Statuses
         /\ status[f] = "ready" => Judged(f, outcome) = "ready"
         /\ status[f] # "none" => Judged(f, outcome) \in {"ready", "failed"}
         /\ status[f] = "none" => Judged(f, outcome) = "none"
BY DEF Types, Judged, Statuses

LEMMA ConfirmElsewhereKeeps ==
  ASSUME AttachmentsInv, NEW f \in Files, ConfirmElsewhere(f)
  PROVE  AttachmentsInv'
<1> DEFINE v == Judged(f, other[f])
<1>1. /\ Types /\ ReadyInv /\ other[f] \in {"ready", "failed"}
      /\ status' = [status EXCEPT ![f] = v] /\ other' = [other EXCEPT ![f] = "done"]
      /\ UNCHANGED <<browser, net, object, claim, send>>
  BY DEF AttachmentsInv, ConfirmElsewhere
<1>2. /\ v \in Statuses /\ (status[f] = "ready" => v = "ready")
      /\ (status[f] = "none" => v = "none")
  BY <1>1, JudgedFacts
<1> HIDE DEF v
<1>3. /\ net' \in [Files -> Requested] /\ \A g \in Files \ {f} : net'[g] = net[g]
      /\ object' \in [Files -> {"none", "whole", "short"}]
      /\ other' \in [Files -> {"no", "ready", "failed", "done"}]
      /\ UNCHANGED <<browser, claim, send>>
      /\ (net'[f].at = "answered" /\ net'[f].with = "ready" => v = "ready")
      /\ (net'[f].step = "reserve" /\ net'[f].at = "asked" => v = "none")
      /\ (f > chosen => net'[f] = Over /\ v = "none")
  BY <1>1, <1>2 DEF Types, ReadyInv
<1>4. QED
  BY <1>1, <1>2, <1>3, ServiceStep

LEMMA ConfirmKeeps == ASSUME AttachmentsInv, NEW f \in Files, Confirm(f) PROVE AttachmentsInv'
<1> DEFINE v == Judged(f, net[f].with)
<1>1. /\ Types /\ ReadyInv /\ net[f].at = "judged" /\ ~(f > chosen)
      /\ status' = [status EXCEPT ![f] = v] /\ Answer(f, status'[f])
      /\ UNCHANGED <<browser, object, claim, other, send>>
  BY OverRequested DEF AttachmentsInv, ReadyInv, Confirm
<1>2. net[f].with \in {"ready", "failed"}
  BY <1>1 DEF Types, Requested
<1>3. /\ v \in Statuses /\ (status[f] = "ready" => v = "ready")
  BY <1>1, <1>2, JudgedFacts
<1>4. status'[f] = v
  <2> HIDE DEF v
  <2>1. QED
    BY <1>1 DEF Types
<1> HIDE DEF v
<1>5. v \in {"none", "ok", "pending", "ready", "failed"} /\ Answer(f, v)
  BY <1>1, <1>3, <1>4 DEF Statuses
<1>6. /\ net' \in [Files -> Requested] /\ \A g \in Files \ {f} : net'[g] = net[g]
      /\ ~(net'[f].step = "reserve" /\ net'[f].at = "asked")
      /\ net'[f].at = "answered" /\ net'[f].with = "ready" => v = "ready"
  BY <1>1, <1>5, AnswerSays
<1>7. /\ object' \in [Files -> {"none", "whole", "short"}]
      /\ other' \in [Files -> {"no", "ready", "failed", "done"}]
  BY <1>1 DEF Types
<1>8. QED
  BY <1>1, <1>3, <1>6, <1>7, ServiceStep

LEMMA AskElsewhereKeeps ==
  ASSUME AttachmentsInv, NEW f \in Files, AskElsewhere(f)
  PROVE  AttachmentsInv'
<1>1. /\ Types /\ ReadyInv /\ ~(f > chosen) /\ other' = [other EXCEPT ![f] = Outcome(f)]
      /\ UNCHANGED <<browser, net, asset, send>>
  BY DEF AttachmentsInv, ReadyInv, AskElsewhere
<1>2. status[f] \in Statuses /\ status' = [status EXCEPT ![f] = status[f]]
  BY <1>1, SameStatus DEF asset
<1>3. /\ net' \in [Files -> Requested] /\ \A g \in Files \ {f} : net'[g] = net[g]
      /\ object' \in [Files -> {"none", "whole", "short"}]
      /\ other' \in [Files -> {"no", "ready", "failed", "done"}]
      /\ UNCHANGED <<browser, claim, send>>
      /\ net'[f].at = "answered" /\ net'[f].with = "ready" => status[f] = "ready"
      /\ net'[f].step = "reserve" /\ net'[f].at = "asked" => status[f] = "none"
  BY <1>1 DEF Types, asset, Outcome, ReadyInv
<1>4. QED
  BY <1>1, <1>2, <1>3, ServiceStep

-----------------------------------------------------------------------------
(* The composer *)

LEMMA ChipsStep ==
  ASSUME AttachmentsInv, UNCHANGED <<look, chosen, net, asset, other, send>>,
         chips' \in [Channels -> Seq(Files)]
  PROVE  AttachmentsInv'
<1>1. Types' /\ ReadyInv'
  BY DEF AttachmentsInv, Types, ReadyInv, asset
<1>2. LockInv' /\ ClaimInv' /\ AllOrNone'
  BY DEF AttachmentsInv, LockInv, ClaimInv, AllOrNone, Ids, Wanted, asset
<1>3. QED
  BY <1>1, <1>2 DEF AttachmentsInv

LEMMA DiscardKeeps ==
  ASSUME AttachmentsInv, NEW c \in Channels, NEW i \in DOMAIN chips[c], Discard(c, i)
  PROVE  AttachmentsInv'
<1>1. chips \in [Channels -> Seq(Files)] /\ chips[c] \in Seq(Files)
  BY DEF AttachmentsInv, Types
<1>2. RemoveAt(chips[c], i) \in Seq(Files)
  BY <1>1 DEF RemoveAt
<1>3. chips' \in [Channels -> Seq(Files)]
  BY <1>1, <1>2 DEF Discard
<1>4. QED
  BY <1>3, ChipsStep DEF Discard

LEMMA SwitchKeeps == ASSUME AttachmentsInv, Switch PROVE AttachmentsInv'
BY ChipsStep DEF Switch

LEMMA AddFilesKeeps ==
  ASSUME AttachmentsInv, NEW c \in Channels, NEW n \in 1 .. MaxFiles, NEW bad, AddFiles(c, n, bad)
  PROVE  AttachmentsInv'
<1> DEFINE batch == chosen + 1 .. chosen + n
           new == [i \in 1 .. n |-> chosen + i]
<1>1. /\ Types /\ ReadyInv /\ chosen \in Nat /\ n \in Nat \ {0} /\ chosen + n <= MaxChosen
      /\ chosen' = chosen + n /\ chips' = [chips EXCEPT ![c] = @ \o new]
      /\ look' = [f \in Files |-> IF f \in bad THEN "failed"
                                  ELSE IF f \in batch THEN "uploading" ELSE look[f]]
      /\ net' = [f \in Files |-> IF f \in batch \ bad THEN Request("reserve", "asked", "none")
                                 ELSE net[f]]
      /\ UNCHANGED <<asset, other, send>>
  BY AttachmentsAssumption DEF AttachmentsInv, Types, AddFiles
<1>2. new \in Seq(Files)
  <2>1. \A i \in 1 .. n : chosen + i \in Files
    BY <1>1, AttachmentsAssumption DEF Files
  <2>2. QED
    BY <1>1, <2>1
<1>3. chips' \in [Channels -> Seq(Files)]
  <2> HIDE DEF new
  <2>1. chips \in [Channels -> Seq(Files)]
    BY <1>1 DEF Types
  <2>2. chips[c] \o new \in Seq(Files)
    BY <1>2, <2>1, ConcatProperties
  <2>3. QED
    BY <1>1, <2>1, <2>2
<1>4. /\ Request("reserve", "asked", "none") \in Requested
      /\ Request("reserve", "asked", "none").at = "asked"
  BY DEF Request, Requested
<1>5. \A f \in Files : f \in batch => f > chosen /\ ~(f > chosen')
  BY <1>1, Numbers
<1>6. \A f \in Files : f > chosen' => f > chosen /\ f \notin batch
  BY <1>1, Numbers
<1> HIDE DEF batch
<1>7. Types'
  <2>1. net' \in [Files -> Requested]
    BY <1>1, <1>4 DEF Types
  <2>2. look' \in [Files -> {"none", "uploading", "ready", "failed"}]
    BY <1>1 DEF Types
  <2>3. QED
    BY <1>1, <1>3, <2>1, <2>2 DEF Types, asset
<1>8. ReadyInv'
  <2>1. ASSUME NEW f \in Files, f \in batch \ bad
        PROVE  /\ net'[f] = Request("reserve", "asked", "none") /\ look'[f] # "ready"
               /\ status[f] = "none" /\ ~(f > chosen') /\ claim[f] = None
    BY <1>1, <1>5, <2>1 DEF ReadyInv
  <2>2. ASSUME NEW f \in Files, f \notin batch \ bad
        PROVE  net'[f] = net[f] /\ (look'[f] = "ready" => look[f] = "ready")
    BY <1>1, <2>2
  <2>3. claim' = claim /\ status' = status
    BY <1>1 DEF asset
  <2>4. QED
    BY <1>1, <1>4, <1>6, <2>1, <2>2, <2>3 DEF ReadyInv
<1>9. LockInv' /\ ClaimInv' /\ AllOrNone'
  BY <1>1 DEF AttachmentsInv, LockInv, ClaimInv, AllOrNone, Ids, Wanted, asset
<1>10. QED
  BY <1>7, <1>8, <1>9 DEF AttachmentsInv

-----------------------------------------------------------------------------
(* Sends *)

(* A step of one send: what it holds, and its locks, are all that is left  *)
(* to look at.                                                             *)
LEMMA SendStep ==
  ASSUME AttachmentsInv, UNCHANGED <<look, chosen, net, object, status, other>>,
         chips' \in [Channels -> Seq(Files)],
         NEW m \in Messages, NEW q \in Sends, send' = [send EXCEPT ![m] = q],
         q.locks \subseteq ToSet(q.ids),
         q.at # "sent" => q.locks = {},
         \A f \in q.locks, g \in ToSet(q.ids) \ q.locks : f < g,
         \A n \in Messages \ {m} : send[n].locks \cap q.locks = {},
         claim' \in [Files -> Messages \cup {None}],
         \A f \in Files : claim'[f] = claim[f] \/ (claim[f] = None /\ claim'[f] = m /\ status[f] = "ready"),
         q.at \in {"none", "sent"} => \A f \in Files : claim'[f] # m,
         q.at \in {"claimed", "saved", "deleted"} => \A f \in ToSet(q.ids) : claim'[f] = m,
         \/ \A f \in Files : claim'[f] # m
         \/ {f \in Files : claim'[f] = m} = ToSet(q.ids)
  PROVE  AttachmentsInv'
<1>1. Types /\ LockInv /\ ClaimInv /\ AllOrNone /\ ReadyInv /\ None \notin Messages
  BY AttachmentsAssumption DEF AttachmentsInv
<1>2. /\ send' \in [Messages -> Sends]
      /\ \A n \in Messages : send'[n] = IF n = m THEN q ELSE send[n]
  BY <1>1 DEF Types
<1>3. Types'
  BY <1>1, <1>2 DEF Types
<1>4. ReadyInv'
  BY <1>1 DEF ReadyInv
<1>5. LockInv'
  <2>1. ASSUME NEW n \in Messages
        PROVE  /\ send'[n].locks \subseteq ToSet(send'[n].ids)
               /\ send'[n].at # "sent" => send'[n].locks = {}
               /\ \A f \in send'[n].locks, g \in ToSet(send'[n].ids) \ send'[n].locks : f < g
               /\ \A o \in Messages \ {n} : send'[o].locks \cap send'[n].locks = {}
    <3>1. CASE n = m
      BY <1>2, <3>1
    <3>2. CASE n # m
      BY <1>1, <1>2, <3>2 DEF LockInv, Ids, Wanted
    <3>3. QED
      BY <3>1, <3>2
  <2>2. QED
    BY <2>1 DEF LockInv, Ids, Wanted
<1>6. ASSUME NEW n \in Messages, n # m
      PROVE  send'[n] = send[n] /\ \A f \in Files : claim'[f] = n <=> claim[f] = n
  BY <1>1, <1>2, <1>6
<1>7. ClaimInv'
  <2>1. ASSUME NEW n \in Messages
        PROVE  /\ send'[n].at \in {"none", "sent"} => \A f \in Files : claim'[f] # n
               /\ send'[n].at \in {"claimed", "saved", "deleted"} => \A f \in ToSet(send'[n].ids) : claim'[f] = n
    <3>1. CASE n = m
      BY <1>2, <3>1
    <3>2. CASE n # m
      <4>1. Ids(n) \subseteq Files
        BY <1>1, IdsAreFiles
      <4>2. QED
        BY <1>1, <1>6, <3>2, <4>1 DEF ClaimInv, Ids
    <3>3. QED
      BY <3>1, <3>2
  <2>2. QED
    BY <2>1 DEF ClaimInv, Ids
<1>8. AllOrNone'
  <2>1. ASSUME NEW n \in Messages
        PROVE  LET held == {f \in Files : claim'[f] = n}
               IN  held = {} \/ held = ToSet(send'[n].ids)
    <3>1. CASE n = m
      BY <1>2, <3>1
    <3>2. CASE n # m
      <4>1. {f \in Files : claim'[f] = n} = {f \in Files : claim[f] = n} /\ send'[n] = send[n]
        BY <1>6, <3>2
      <4>2. QED
        BY <1>1, <4>1 DEF AllOrNone
    <3>3. QED
      BY <3>1, <3>2
  <2>2. QED
    BY <2>1 DEF AllOrNone
<1>9. QED
  BY <1>3, <1>4, <1>5, <1>7, <1>8 DEF AttachmentsInv

LEMMA UnlockedSendStep ==
  ASSUME AttachmentsInv, UNCHANGED <<look, chosen, net, object, status, other>>,
         chips' \in [Channels -> Seq(Files)],
         NEW m \in Messages, NEW q \in Sends, send' = [send EXCEPT ![m] = q], q.locks = {},
         claim' \in [Files -> Messages \cup {None}],
         \A f \in Files : claim'[f] = claim[f] \/ (claim[f] = None /\ claim'[f] = m /\ status[f] = "ready"),
         q.at \in {"none", "sent"} => \A f \in Files : claim'[f] # m,
         q.at \in {"claimed", "saved", "deleted"} => \A f \in ToSet(q.ids) : claim'[f] = m,
         \/ \A f \in Files : claim'[f] # m
         \/ {f \in Files : claim'[f] = m} = ToSet(q.ids)
  PROVE  AttachmentsInv'
<1>1. /\ q.locks \subseteq ToSet(q.ids)
      /\ \A f \in q.locks, g \in ToSet(q.ids) \ q.locks : f < g
      /\ \A n \in Messages \ {m} : send[n].locks \cap q.locks = {}
  OBVIOUS
<1>2. QED
  BY <1>1, SendStep

(* A send that moves on with the files it has. *)
LEMMA MoveOn ==
  ASSUME AttachmentsInv, UNCHANGED <<look, chosen, net, asset, other>>,
         chips' \in [Channels -> Seq(Files)],
         NEW m \in Messages, NEW q \in Sends, send' = [send EXCEPT ![m] = q],
         q.ids = send[m].ids, q.locks = send[m].locks \/ q.locks = {},
         q.at # "sent" => q.locks = {},
         \/ q.at = send[m].at \/ q.at = "refused"
         \/ q.at = "saved" /\ send[m].at = "claimed"
         \/ q.at = "deleted" /\ send[m].at = "saved"
  PROVE  AttachmentsInv'
<1>1. Types /\ LockInv /\ ClaimInv /\ AllOrNone
  BY DEF AttachmentsInv
<1>2. /\ q.locks \subseteq ToSet(q.ids)
      /\ \A f \in q.locks, g \in ToSet(q.ids) \ q.locks : f < g
      /\ \A n \in Messages \ {m} : send[n].locks \cap q.locks = {}
  BY <1>1 DEF LockInv, Ids, Wanted
<1>3. /\ q.at \in {"none", "sent"} => \A f \in Files : claim[f] # m
      /\ q.at \in {"claimed", "saved", "deleted"} => \A f \in ToSet(q.ids) : claim[f] = m
  BY <1>1 DEF ClaimInv, Ids
<1>4. (\A f \in Files : claim[f] # m) \/ {f \in Files : claim[f] = m} = ToSet(q.ids)
  BY <1>1 DEF AllOrNone
<1>5. claim' = claim /\ claim' \in [Files -> Messages \cup {None}] /\ UNCHANGED <<object, status>>
  BY <1>1 DEF Types, asset
<1>6. QED
  BY <1>2, <1>3, <1>4, <1>5, SendStep

LEMMA AcksKeep ==
  ASSUME AttachmentsInv, NEW m \in Messages, Unavailable(m) \/ Save(m) \/ Delete(m) \/ Acked(m)
  PROVE  AttachmentsInv'
<1>1. /\ Types /\ LockInv /\ send[m] \in Sends /\ chips' \in [Channels -> Seq(Files)]
      /\ UNCHANGED <<look, chosen, net, asset, other>>
      /\ send[m].at # "sent" => send[m].locks = {}
  BY DEF AttachmentsInv, Types, Unavailable, Save, Delete, Acked, browser, LockInv
<1>2. CASE Unavailable(m)
  <2> DEFINE q == [send[m] EXCEPT !.locks = {}, !.at = "refused"]
  <2>1. send' = [send EXCEPT ![m] = q]
    BY <1>1, <1>2 DEF Unavailable, Types
  <2>2. q \in Sends /\ q.ids = send[m].ids /\ q.locks = {} /\ q.at = "refused"
    BY <1>1 DEF Sends
  <2> HIDE DEF q
  <2>3. QED
    BY <1>1, <2>1, <2>2, MoveOn
<1>3. CASE Save(m)
  <2> DEFINE q == [send[m] EXCEPT !.at = "saved"]
  <2>1. send' = [send EXCEPT ![m] = q] /\ send[m].at = "claimed"
    BY <1>1, <1>3 DEF Save, Types
  <2>2. q \in Sends /\ q.ids = send[m].ids /\ q.locks = send[m].locks /\ q.at = "saved"
    BY <1>1 DEF Sends
  <2> HIDE DEF q
  <2>3. QED
    BY <1>1, <2>1, <2>2, MoveOn
<1>4. CASE Acked(m)
  <2> DEFINE q == [send[m] EXCEPT !.tab = "acked"]
  <2>1. send' = [send EXCEPT ![m] = q]
    BY <1>1, <1>4 DEF Acked, Types
  <2>2. q \in Sends /\ q.ids = send[m].ids /\ q.locks = send[m].locks /\ q.at = send[m].at
    BY <1>1 DEF Sends
  <2> HIDE DEF q
  <2>3. QED
    BY <1>1, <2>1, <2>2, MoveOn
<1>5. CASE Delete(m)
  <2> DEFINE q == [send[m] EXCEPT !.at = "deleted"]
  <2>1. send' = [send EXCEPT ![m] = q] /\ send[m].at = "saved"
    BY <1>1, <1>5 DEF Delete, Types
  <2>2. q \in Sends /\ q.ids = send[m].ids /\ q.locks = send[m].locks /\ q.at = "deleted"
    BY <1>1 DEF Sends
  <2> HIDE DEF q
  <2>3. QED
    BY <1>1, <2>1, <2>2, MoveOn
<1>6. QED
  BY <1>2, <1>3, <1>4, <1>5

LEMMA FailedKeeps == ASSUME AttachmentsInv, NEW m \in Messages, Failed(m) PROVE AttachmentsInv'
<1> DEFINE q == [send[m] EXCEPT !.tab = "failed"]
<1>1. /\ Types /\ send[m] \in Sends /\ chips \in [Channels -> Seq(Files)]
      /\ UNCHANGED <<look, chosen, net, asset, other>>
      /\ send[m].at # "sent" => send[m].locks = {}
  BY DEF AttachmentsInv, Types, Failed, LockInv
<1>2. chips' \in [Channels -> Seq(Files)]
  <2>1. \A c \in Channels : send[m].ids \o chips[c] \in Seq(Files)
    BY <1>1, ConcatProperties DEF Sends
  <2>2. QED
    BY <1>1, <2>1 DEF Failed, Restored
<1>3. send' = [send EXCEPT ![m] = q]
  BY <1>1 DEF Failed, Types
<1>4. q \in Sends /\ q.ids = send[m].ids /\ q.locks = send[m].locks /\ q.at = send[m].at
  BY <1>1 DEF Sends
<1> HIDE DEF q
<1>5. QED
  BY <1>1, <1>2, <1>3, <1>4, MoveOn

(* A send begins: nothing is on it. *)
LEMMA BeginKeeps ==
  ASSUME AttachmentsInv, UNCHANGED <<look, chosen, net, asset, other>>,
         chips' \in [Channels -> Seq(Files)],
         NEW m \in Messages, send[m] = NoSend, NEW ids \in Seq(Files),
         NEW to \in Channels \cup {None}, NEW tab \in {"no", "waiting"},
         send' = [send EXCEPT ![m] = Sent(ids, to, tab)]
  PROVE  AttachmentsInv'
<1> DEFINE q == Sent(ids, to, tab)
<1>1. q \in Sends /\ q.locks = {} /\ q.at = "sent" /\ q.ids = ids
  BY DEF Sent, Sends
<1> HIDE DEF q
<1>2. \A f \in Files : claim[f] # m
  BY DEF AttachmentsInv, ClaimInv, NoSend
<1>3. claim' = claim /\ claim' \in [Files -> Messages \cup {None}] /\ UNCHANGED <<object, status>>
  BY DEF AttachmentsInv, Types, asset
<1>4. send' = [send EXCEPT ![m] = q]
  BY DEF q
<1>5. QED
  BY <1>1, <1>2, <1>3, <1>4, UnlockedSendStep

LEMMA BeginsKeep ==
  ASSUME AttachmentsInv, NEW m \in Messages,
         \/ \E c \in Channels : Submit(c, m)
         \/ \E n \in 1 .. MaxFiles : \E ids \in [1 .. n -> Files] : Post(m, ids)
  PROVE  AttachmentsInv'
<1>1. Types
  BY DEF AttachmentsInv
<1>2. ASSUME NEW c \in Channels, Submit(c, m) PROVE AttachmentsInv'
  <2>1. chips[c] \in Seq(Files) /\ chips' \in [Channels -> Seq(Files)]
    BY <1>1, <1>2, EmptySeq DEF Types, Submit
  <2>2. QED
    BY <1>2, <2>1, BeginKeeps DEF Submit
<1>3. ASSUME NEW n \in 1 .. MaxFiles, NEW ids \in [1 .. n -> Files], Post(m, ids) PROVE AttachmentsInv'
  <2>1. n \in Nat
    BY AttachmentsAssumption
  <2>2. ids \in Seq(Files) /\ chips' \in [Channels -> Seq(Files)]
    BY <1>1, <1>3, <2>1 DEF Types, Post, browser
  <2>3. QED
    BY <1>3, <2>2, BeginKeeps DEF Post, browser
<1>4. QED
  BY <1>2, <1>3

LEMMA LockKeeps == ASSUME AttachmentsInv, NEW m \in Messages, Lock(m) PROVE AttachmentsInv'
<1> DEFINE l == NextLock(m)
           q == [send[m] EXCEPT !.locks = @ \cup {l}]
<1>1. /\ Types /\ LockInv /\ ClaimInv /\ send[m] \in Sends /\ send[m].at = "sent" /\ Wanted(m) # {}
      /\ UNCHANGED <<browser, net, asset, other, faults>> /\ Unlocked(l)
  BY DEF AttachmentsInv, Types, Lock, CanLock
<1>2. l \in Wanted(m) /\ l \in Files /\ \A g \in Wanted(m) : l <= g
  BY <1>1, NextLockIsFirst
<1>3. send' = [send EXCEPT ![m] = q]
  BY <1>1 DEF Lock, Types
<1>4. q \in Sends /\ q.ids = send[m].ids /\ q.locks = send[m].locks \cup {l} /\ q.at = "sent"
  BY <1>1, <1>2 DEF Sends
<1> HIDE DEF q
<1>5. Ids(m) \subseteq Files /\ Files \subseteq Nat
  BY <1>1, IdsAreFiles, Numbers
<1>6. q.locks \subseteq ToSet(q.ids)
  BY <1>1, <1>2, <1>4 DEF LockInv, Ids, Wanted
<1>7. ASSUME NEW f \in q.locks, NEW g \in ToSet(q.ids) \ q.locks PROVE f < g
  <2>1. g \in Wanted(m) /\ g # l /\ g \in Nat /\ l \in Nat
    BY <1>2, <1>4, <1>5, <1>7 DEF Wanted, Ids
  <2>2. QED
    BY <1>1, <1>2, <1>4, <2>1 DEF LockInv
<1>8. \A n \in Messages \ {m} : send[n].locks \cap q.locks = {}
  BY <1>1, <1>4 DEF LockInv, Unlocked
<1>9. \A f \in Files : claim[f] # m
  BY <1>1 DEF ClaimInv
<1>10. /\ claim' = claim /\ claim' \in [Files -> Messages \cup {None}]
       /\ chips' \in [Channels -> Seq(Files)] /\ UNCHANGED <<look, chosen, net, object, status, other>>
  BY <1>1 DEF Types, asset, browser
<1>11. QED
  BY <1>3, <1>4, <1>6, <1>7, <1>8, <1>9, <1>10, SendStep

LEMMA ClaimKeeps == ASSUME AttachmentsInv, NEW m \in Messages, Claim(m) PROVE AttachmentsInv'
<1> DEFINE all == \A f \in send[m].locks : Claimable(m, f)
           q == [send[m] EXCEPT !.locks = {}, !.at = IF all THEN "claimed" ELSE "refused"]
<1>1. /\ Types /\ LockInv /\ ClaimInv /\ send[m] \in Sends /\ send[m].at = "sent" /\ Wanted(m) = {}
      /\ UNCHANGED <<browser, net, object, status, other, faults>> /\ claim' = Claimed(m)
  BY DEF AttachmentsInv, Types, Claim
<1>2. send' = [send EXCEPT ![m] = q]
  BY <1>1 DEF Claim, Types
<1>3. /\ q \in Sends /\ q.ids = send[m].ids /\ q.locks = {}
      /\ q.at = IF all THEN "claimed" ELSE "refused"
  BY <1>1 DEF Sends
<1> HIDE DEF q
<1>4. send[m].locks = Ids(m) /\ Ids(m) \subseteq Files
  BY <1>1, IdsAreFiles DEF LockInv, Wanted, Ids
<1>5. \A f \in Files : claim[f] # m
  BY <1>1 DEF ClaimInv
<1>6. /\ chips' \in [Channels -> Seq(Files)]
      /\ UNCHANGED <<look, chosen, net, object, status, other>>
  BY <1>1 DEF Types, browser
<1>7. CASE all
  <2>1. /\ claim' \in [Files -> Messages \cup {None}]
        /\ \A f \in Files : claim'[f] = IF f \in Ids(m) /\ claim[f] = None THEN m ELSE claim[f]
    <3>1. claim' = [f \in Files |-> IF f \in Ids(m) /\ claim[f] = None THEN m ELSE claim[f]]
      BY <1>1, <1>4, <1>7 DEF Claimed
    <3>2. claim \in [Files -> Messages \cup {None}]
      BY <1>1 DEF Types
    <3> HIDE DEF all
    <3>3. QED
      BY <3>1, <3>2
  <2>2. \A f \in Ids(m) : status[f] = "ready" /\ claim[f] = None
    BY <1>4, <1>5, <1>7 DEF Claimable
  <2>3. {f \in Files : claim'[f] = m} = Ids(m) /\ \A f \in Ids(m) : claim'[f] = m
    BY <1>4, <1>5, <2>1, <2>2
  <2>4. \A f \in Files : claim'[f] = claim[f] \/ (claim[f] = None /\ claim'[f] = m /\ status[f] = "ready")
    BY <2>1, <2>2
  <2>5. q.at = "claimed" /\ ToSet(q.ids) = Ids(m)
    BY <1>3, <1>7 DEF Ids
  <2>6. /\ {f \in Files : claim'[f] = m} = ToSet(q.ids)
        /\ \A f \in ToSet(q.ids) : claim'[f] = m
    BY <2>3, <2>5
  <2>7. q \in Sends /\ q.locks = {} /\ claim' \in [Files -> Messages \cup {None}]
    BY <1>3, <2>1
  <2> HIDE DEF all
  <2>8. QED
    BY <1>2, <1>6, <2>4, <2>5, <2>6, <2>7, UnlockedSendStep
<1>8. CASE ~all
  <2>1. claim' = claim /\ claim' \in [Files -> Messages \cup {None}]
    BY <1>1, <1>8 DEF Claimed, Types
  <2>2. q.at = "refused"
    BY <1>3, <1>8
  <2> HIDE DEF all
  <2>3. QED
    BY <1>2, <1>3, <1>5, <1>6, <2>1, <2>2, UnlockedSendStep
<1>9. QED
  BY <1>7, <1>8

-----------------------------------------------------------------------------
LEMMA InitHolds == ASSUME Init PROVE AttachmentsInv
<1>1. /\ NoSend \in Sends /\ NoSend.locks = {} /\ NoSend.at = "none" /\ NoSend.ids = <<>>
      /\ ToSet(NoSend.ids) = {}
  BY EmptySeq DEF NoSend, Sends, ToSet
<1>2. \A c \in Channels : chips[c] = <<>>
  BY DEF Init
<1>3. Types
  BY <1>1, OverRequested, EmptySeq DEF Init, Types, Statuses
<1>4. LockInv
  BY <1>1 DEF Init, LockInv, Ids, Wanted
<1>5. \A f \in Files : claim[f] = None /\ status[f] = "none" /\ net[f] = Over /\ look[f] = "none"
  BY DEF Init
<1>6. ClaimInv /\ AllOrNone
  BY <1>1, <1>5, AttachmentsAssumption DEF Init, ClaimInv, AllOrNone
<1>7. ReadyInv
  BY <1>5, OverRequested DEF ReadyInv, Over, Request
<1>8. QED
  BY <1>3, <1>4, <1>6, <1>7 DEF AttachmentsInv

LEMMA NextKeeps == ASSUME AttachmentsInv, [Next]_vars PROVE AttachmentsInv'
<1>1. CASE UNCHANGED vars
  <2>1. chips' \in [Channels -> Seq(Files)]
    BY <1>1 DEF AttachmentsInv, Types, vars, browser
  <2>2. QED
    BY <1>1, <2>1, ChipsStep DEF vars, browser
<1>2. ASSUME NEW c \in Channels,
             \/ \E n \in 1 .. MaxFiles : \E bad \in SUBSET (chosen + 1 .. chosen + n) : AddFiles(c, n, bad)
             \/ \E i \in DOMAIN chips[c] : Discard(c, i)
             \/ \E m \in Messages : Submit(c, m)
      PROVE  AttachmentsInv'
  BY <1>2, AddFilesKeeps, DiscardKeeps, BeginsKeep
<1>3. ASSUME NEW f \in Files,
             \/ Advance(f) \/ Fails(f) \/ Reserve(f) \/ Put(f)
             \/ AskStore(f) \/ Confirm(f) \/ AskElsewhere(f) \/ ConfirmElsewhere(f)
      PROVE  AttachmentsInv'
  BY <1>3, AdvanceKeeps, FailsKeeps, ReserveKeeps, PutKeeps, AskStoreKeeps, ConfirmKeeps,
     AskElsewhereKeeps, ConfirmElsewhereKeeps
<1>4. ASSUME NEW m \in Messages,
             \/ \E n \in 1 .. MaxFiles : \E ids \in [1 .. n -> Files] : Post(m, ids)
             \/ Lock(m) \/ Claim(m) \/ Unavailable(m) \/ Save(m) \/ Delete(m) \/ Acked(m) \/ Failed(m)
      PROVE  AttachmentsInv'
  BY <1>4, BeginsKeep, LockKeeps, ClaimKeeps, AcksKeep, FailedKeeps
<1>5. QED
  BY <1>1, <1>2, <1>3, <1>4, SwitchKeeps DEF Next

LEMMA Invariance == Spec => []AttachmentsInv
BY InitHolds, NextKeeps, PTL DEF Spec

(* A message holds all the assets its send named, or none of them,         *)
(* whichever of the claim, its answer and the insert fails                 *)
(* (internal.py 12-13).                                                    *)
THEOREM MessagesHoldAllOrNone == Spec => []AllOrNone
<1>1. AttachmentsInv => AllOrNone
  BY DEF AttachmentsInv
<1>2. QED
  BY <1>1, Invariance, PTL

(* The files of a saved message can be fetched through it until it is      *)
(* deleted and through nothing after that, and a chip says ready only of   *)
(* an asset that is (internal.py 50-57, 113-117, attachments.py 103-108,   *)
(* assets.py 158-160).                                                     *)
THEOREM FilesOpen == Spec => []SavedFilesOpen
<1>1. AttachmentsInv => SavedFilesOpen
  <2>1. ASSUME AttachmentsInv, NEW m \in Messages, send[m].at = "saved", NEW f \in ToSet(send[m].ids)
        PROVE  Link(m, f) = "url"
    <3>1. claim[f] = m /\ f \in Files /\ m # None
      BY <2>1, IdsAreFiles, AttachmentsAssumption DEF AttachmentsInv, ClaimInv, Ids
    <3>2. status[f] = "ready"
      BY <2>1, <3>1 DEF AttachmentsInv, ReadyInv
    <3>3. QED
      BY <2>1, <3>1, <3>2 DEF Link, OnMessage, Opens
  <2>2. ASSUME AttachmentsInv, NEW m \in Messages, send[m].at = "deleted", NEW f \in ToSet(send[m].ids),
               NEW n \in Messages
        PROVE  Link(n, f) # "url"
    <3>1. claim[f] = m
      BY <2>2 DEF AttachmentsInv, ClaimInv, Ids
    <3>2. ~(OnMessage(n, f) /\ Opens(n, f))
      BY <2>2, <3>1 DEF OnMessage, Opens
    <3>3. QED
      BY <3>2 DEF Link
  <2>3. QED
    BY <2>1, <2>2 DEF SavedFilesOpen, AttachmentsInv, ReadyInv
<1>2. QED
  BY <1>1, Invariance, PTL

(* Sends that name the same assets in other orders never wait for each     *)
(* other in a circle (internal.py 55-56): the one that waits for the last  *)
(* row waits for a send that wants a later one, or none.                   *)
THEOREM SendsNeverStandOff == Spec => []NoStandoff
<1>1. AttachmentsInv => NoStandoff
  <2> SUFFICES ASSUME AttachmentsInv,
                      NEW s \in Messages, send[s].at = "sent",
                      \A m \in Messages : send[m].at = "sent" => ~CanLock(m)
               PROVE  FALSE
    BY DEF NoStandoff
  <2> DEFINE stuck == {m \in Messages : send[m].at = "sent"}
             rows == {NextLock(m) : m \in stuck}
  <2>1. Types /\ LockInv
    BY DEF AttachmentsInv
  <2>2. ASSUME NEW m \in stuck
        PROVE  /\ NextLock(m) \in Files /\ NextLock(m) \in Nat
               /\ \E n \in stuck : NextLock(m) \in send[n].locks
    <3>1. Wanted(m) # {} /\ ~Unlocked(NextLock(m))
      BY DEF CanLock
    <3>2. NextLock(m) \in Files
      BY <2>1, <3>1, NextLockIsFirst
    <3>3. PICK n \in Messages : NextLock(m) \in send[n].locks
      BY <3>1 DEF Unlocked
    <3>4. send[n].at = "sent"
      BY <2>1, <3>3 DEF LockInv
    <3>5. QED
      BY <3>2, <3>3, <3>4, Numbers
  <2>3. rows \subseteq Files /\ NextLock(s) \in rows
    BY <2>2
  <2>4. PICK last \in rows : \A row \in rows : row <= last
    <3> HIDE DEF rows
    <3>1. QED
      BY <2>3, Largest
  <2>5. PICK m \in stuck : last = NextLock(m)
    OBVIOUS
  <2>6. PICK n \in stuck : last \in send[n].locks
    BY <2>2, <2>5
  <2>7. Wanted(n) # {}
    BY <2>6 DEF CanLock
  <2>8. NextLock(n) \in Wanted(n) /\ NextLock(n) \in rows
    BY <2>1, <2>7, NextLockIsFirst
  <2>9. last < NextLock(n) /\ NextLock(n) <= last
    BY <2>1, <2>4, <2>6, <2>8 DEF LockInv
  <2>10. QED
    BY <2>2, <2>5, <2>9
<1>2. QED
  BY <1>1, Invariance, PTL

-----------------------------------------------------------------------------
(* One place for each file chosen: the chips and the sends a tab awaits or *)
(* has seen acknowledged never share one, nor have one twice, and have     *)
(* every file not dropped; and an upload still awaited has its chip.       *)
Chosen == 1 .. chosen

Away(m) == send[m].tab \in {"waiting", "acked"}

ChipInv ==
  \A c \in Channels :
    /\ IsInjective(chips[c]) /\ Chips(c) \subseteq Chosen \ dropped
    /\ \A d \in Channels \ {c} : Chips(c) \cap Chips(d) = {}
    /\ \A m \in Messages : Away(m) => Chips(c) \cap Ids(m) = {}

AwayInv ==
  \A m \in Messages : Away(m) =>
    /\ IsInjective(send[m].ids) /\ Ids(m) \subseteq Chosen \ dropped
    /\ \A n \in Messages \ {m} : Away(n) => Ids(m) \cap Ids(n) = {}
    /\ send[m].tab = "waiting" => send[m].to \in Channels

CoverInv ==
  \A f \in Chosen : ~Gone(f) \/ f \in dropped \/ \E m \in Messages : Away(m) /\ f \in Ids(m)

AwaitedInv == \A f \in Files \cap live : ~Gone(f) /\ look[f] = "uploading"

PlaceInv ==
  /\ dropped \subseteq Chosen /\ Chosen \subseteq Files
  /\ ChipInv /\ AwayInv /\ CoverInv /\ AwaitedInv

(* Nothing moves: what a step of Asset, or of another client, leaves.      *)
LEMMA PlaceStill ==
  ASSUME PlaceInv, UNCHANGED <<chips, chosen, dropped>>, live' \subseteq live,
         \A f \in Files : f \in live' => look'[f] = look[f],
         \A m \in Messages :
           /\ Away(m)' <=> Away(m)
           /\ Away(m) => send'[m].ids = send[m].ids
           /\ send'[m].tab = "waiting" => send[m].tab = "waiting" /\ send'[m].to = send[m].to
  PROVE  PlaceInv'
<1>1. /\ Chosen' = Chosen /\ dropped' = dropped /\ \A f \in Files : Gone(f)' <=> Gone(f)
      /\ \A c \in Channels : Chips(c)' = Chips(c) /\ chips'[c] = chips[c]
  BY DEF Chosen, Gone, Chips
<1>2. \A m \in Messages : Away(m) => Ids(m)' = Ids(m)
  BY DEF Ids
<1>3. ChipInv'
  BY <1>1, <1>2 DEF PlaceInv, ChipInv
<1>4. AwayInv'
  BY <1>1, <1>2 DEF PlaceInv, AwayInv
<1>5. CoverInv'
  BY <1>1, <1>2 DEF PlaceInv, CoverInv
<1>6. AwaitedInv'
  BY <1>1 DEF PlaceInv, AwaitedInv
<1> QED
  BY <1>1, <1>3, <1>4, <1>5, <1>6 DEF PlaceInv

(* A send named goes on elsewhere, in a tab that does not await it or      *)
(* awaits it still.                                                        *)
LEMMA SendStill ==
  ASSUME AttachmentsInv, PlaceInv, UNCHANGED browser, NEW m \in Messages,
         NEW r, send' = [send EXCEPT ![m] = r],
         r.tab \in {"waiting", "acked"} <=> Away(m),
         Away(m) => r.ids = send[m].ids,
         r.tab = "waiting" => send[m].tab = "waiting" /\ r.to = send[m].to
  PROVE  PlaceInv'
<1>1. send \in [Messages -> Sends]
  BY DEF AttachmentsInv, Types
<1>2. send'[m] = r /\ \A n \in Messages \ {m} : send'[n] = send[n]
  BY <1>1
<1>3. \A n \in Messages :
        /\ Away(n)' <=> Away(n)
        /\ Away(n) => send'[n].ids = send[n].ids
        /\ send'[n].tab = "waiting" => send[n].tab = "waiting" /\ send'[n].to = send[n].to
  BY <1>2 DEF Away
<1>4. UNCHANGED <<chips, chosen, dropped>> /\ live' = live /\ look' = look
  BY DEF browser
<1> QED
  BY <1>3, <1>4, PlaceStill

LEMMA UploadsStill ==
  ASSUME AttachmentsInv, PlaceInv, NEW f \in Files,
         Advance(f) \/ Fails(f) \/ Reserve(f) \/ Put(f) \/ AskStore(f) \/ Confirm(f)
           \/ AskElsewhere(f) \/ ConfirmElsewhere(f)
  PROVE  PlaceInv'
<1>1. send' = send /\ UNCHANGED <<chips, chosen, dropped>>
  BY DEF Advance, Update, Fails, Reserve, Put, AskStore, Confirm, AskElsewhere, ConfirmElsewhere, browser
<1>2. live' \subseteq live /\ \A g \in Files : g \in live' => look'[g] = look[g]
  <2>1. CASE Advance(f)
    BY <2>1 DEF Advance, Update, AttachmentsInv, Types
  <2>2. CASE ~Advance(f)
    BY <2>2 DEF Fails, Reserve, Put, AskStore, Confirm, AskElsewhere, ConfirmElsewhere, browser
  <2> QED
    BY <2>1, <2>2
<1>3. \A m \in Messages :
        /\ Away(m)' <=> Away(m)
        /\ Away(m) => send'[m].ids = send[m].ids
        /\ send'[m].tab = "waiting" => send[m].tab = "waiting" /\ send'[m].to = send[m].to
  BY <1>1 DEF Away
<1> QED
  BY <1>1, <1>2, <1>3, PlaceStill

LEMMA SendsStill ==
  ASSUME AttachmentsInv, PlaceInv, NEW m \in Messages,
         Lock(m) \/ Claim(m) \/ Unavailable(m) \/ Save(m) \/ Delete(m) \/ Acked(m)
  PROVE  PlaceInv'
<1>1. UNCHANGED browser /\ send[m] \in Sends /\ send \in [Messages -> Sends]
  BY DEF Lock, Claim, Unavailable, Save, Delete, Acked, AttachmentsInv, Types
<1>2. CASE Lock(m)
  <2>1. PICK locks : send' = [send EXCEPT ![m] = [send[m] EXCEPT !.locks = locks]]
    BY <1>1, <1>2 DEF Lock
  <2> QED
    BY <1>1, <2>1, SendStill DEF Sends, Away
<1>3. CASE Claim(m) \/ Unavailable(m)
  <2>1. PICK at \in {"claimed", "refused"} :
          send' = [send EXCEPT ![m] = [send[m] EXCEPT !.locks = {}, !.at = at]]
    BY <1>1, <1>3 DEF Claim, Unavailable
  <2> QED
    BY <1>1, <2>1, SendStill DEF Sends, Away
<1>4. CASE Save(m) \/ Delete(m)
  <2>1. PICK at \in {"saved", "deleted"} : send' = [send EXCEPT ![m] = [send[m] EXCEPT !.at = at]]
    BY <1>1, <1>4 DEF Save, Delete
  <2> QED
    BY <1>1, <2>1, SendStill DEF Sends, Away
<1>5. CASE Acked(m)
  <2>1. send' = [send EXCEPT ![m] = [send[m] EXCEPT !.tab = "acked"]] /\ send[m].tab = "waiting"
    BY <1>1, <1>5 DEF Acked
  <2> QED
    BY <1>1, <2>1, SendStill DEF Sends, Away
<1> QED
  BY <1>2, <1>3, <1>4, <1>5

LEMMA PostStill ==
  ASSUME AttachmentsInv, PlaceInv, NEW m \in Messages, NEW ids, Post(m, ids)
  PROVE  PlaceInv'
<1>1. UNCHANGED browser /\ send[m].tab = "no" /\ send' = [send EXCEPT ![m] = Sent(ids, None, "no")]
  BY DEF Post, NoSend
<1> QED
  BY <1>1, SendStill DEF Sent, Away

-----------------------------------------------------------------------------
(* What the code does to a list of chips. *)

LEMMA ToSetOfConcat ==
  ASSUME NEW S, NEW s \in Seq(S), NEW t \in Seq(S)
  PROVE  /\ s \o t \in Seq(S) /\ ToSet(s \o t) = ToSet(s) \cup ToSet(t)
         /\ IsInjective(s) /\ IsInjective(t) /\ ToSet(s) \cap ToSet(t) = {} => IsInjective(s \o t)
<1>1. /\ s \o t \in Seq(S) /\ Len(s \o t) = Len(s) + Len(t)
      /\ \A i \in 1 .. Len(s) + Len(t) : (s \o t)[i] = IF i <= Len(s) THEN s[i] ELSE t[i - Len(s)]
  BY ConcatProperties
<1>2. Len(s) \in Nat /\ Len(t) \in Nat
  OBVIOUS
<1>3. /\ DOMAIN s = 1 .. Len(s) /\ DOMAIN t = 1 .. Len(t)
      /\ DOMAIN (s \o t) = 1 .. Len(s) + Len(t)
  BY <1>1
<1>4. /\ \A i \in 1 .. Len(s) : i \in 1 .. Len(s) + Len(t) /\ (s \o t)[i] = s[i]
      /\ \A i \in 1 .. Len(t) : /\ i + Len(s) \in 1 .. Len(s) + Len(t)
                                /\ (s \o t)[i + Len(s)] = t[i]
  BY <1>1, <1>2
<1>5. \A i \in 1 .. Len(s) + Len(t) : \/ i \in 1 .. Len(s) /\ (s \o t)[i] = s[i]
                                      \/ /\ i - Len(s) \in 1 .. Len(t) /\ i > Len(s)
                                         /\ (s \o t)[i] = t[i - Len(s)]
  BY <1>1, <1>2
<1> DEFINE u == s \o t
<1> HIDE DEF u
<1>6. ToSet(u) = ToSet(s) \cup ToSet(t)
  <2>1. \A x \in ToSet(u) : x \in ToSet(s) \cup ToSet(t)
    BY <1>3, <1>5 DEF ToSet, u
  <2>2. \A i \in 1 .. Len(s) : s[i] \in ToSet(u)
    BY <1>3, <1>4 DEF ToSet, u
  <2>3. \A i \in 1 .. Len(t) : t[i] \in ToSet(u)
    BY <1>3, <1>4 DEF ToSet, u
  <2> QED
    BY <1>3, <2>1, <2>2, <2>3 DEF ToSet
<1>7. ASSUME IsInjective(s), IsInjective(t), ToSet(s) \cap ToSet(t) = {} PROVE IsInjective(u)
  <2> SUFFICES ASSUME NEW a \in 1 .. Len(s) + Len(t), NEW b \in 1 .. Len(s) + Len(t), u[a] = u[b]
               PROVE  a = b
    BY <1>3 DEF IsInjective, u
  <2>1. CASE a \in 1 .. Len(s) /\ u[a] = s[a]
    <3>1. CASE b \in 1 .. Len(s) /\ u[b] = s[b]
      BY <1>3, <1>7, <2>1, <3>1 DEF IsInjective
    <3>2. CASE b - Len(s) \in 1 .. Len(t) /\ u[b] = t[b - Len(s)]
      BY <1>3, <1>7, <2>1, <3>2 DEF ToSet
    <3> QED
      BY <1>5, <3>1, <3>2 DEF u
  <2>2. CASE a - Len(s) \in 1 .. Len(t) /\ u[a] = t[a - Len(s)]
    <3>1. CASE b \in 1 .. Len(s) /\ u[b] = s[b]
      BY <1>3, <1>7, <2>2, <3>1 DEF ToSet
    <3>2. CASE b - Len(s) \in 1 .. Len(t) /\ u[b] = t[b - Len(s)]
      <4>1. a - Len(s) = b - Len(s)
        BY <1>3, <1>7, <2>2, <3>2 DEF IsInjective
      <4> QED
        BY <1>2, <4>1
    <3> QED
      BY <1>5, <3>1, <3>2 DEF u
  <2> QED
    BY <1>5, <2>1, <2>2 DEF u
<1> QED
  BY <1>1, <1>6, <1>7 DEF u

LEMMA ToSetOfRemoveAt ==
  ASSUME NEW S, NEW s \in Seq(S), NEW i \in DOMAIN s, IsInjective(s)
  PROVE  /\ RemoveAt(s, i) \in Seq(S) /\ ToSet(RemoveAt(s, i)) = ToSet(s) \ {s[i]}
         /\ IsInjective(RemoveAt(s, i))
<1>1. Len(s) \in Nat /\ DOMAIN s = 1 .. Len(s) /\ i \in 1 .. Len(s)
  OBVIOUS
<1> DEFINE a == SubSeq(s, 1, i - 1)
           b == SubSeq(s, i + 1, Len(s))
<1>2. /\ a \in Seq(S) /\ Len(a) = i - 1 /\ \A j \in 1 .. i - 1 : a[j] = s[j]
  <2>1. 1 \in 1 .. Len(s) + 1 /\ i - 1 \in 0 .. Len(s)
    BY <1>1
  <2>2. \A j \in 1 .. 1 + (i - 1) - 1 : j \in 1 .. Len(s)
    BY <1>1
  <2>3. /\ \A j \in 1 .. i - 1 : j \in 1 .. Len(s) /\ s[j] \in S
    BY <1>1
  <2> QED
    BY <1>1, <2>1, <2>3, SubSeqProperties
<1>3. /\ b \in Seq(S) /\ Len(b) = Len(s) - i
      /\ \A j \in 1 .. Len(s) - i : b[j] = s[i + j]
  <2>3. \A j \in i + 1 .. Len(s) : j \in 1 .. Len(s) /\ s[j] \in S
    BY <1>1
  <2> QED
    BY <1>1, <2>3, SubSeqProperties
<1>4. RemoveAt(s, i) = a \o b
  BY DEF RemoveAt
<1> HIDE DEF a, b
<1>5. DOMAIN a = 1 .. i - 1 /\ DOMAIN b = 1 .. Len(s) - i
  BY <1>2, <1>3
<1>6. ToSet(a) \cup ToSet(b) = ToSet(s) \ {s[i]}
  <2>1. \A x \in ToSet(a) : x \in ToSet(s) \ {s[i]}
    BY <1>1, <1>2, <1>5 DEF ToSet, IsInjective
  <2>2. ASSUME NEW j \in DOMAIN b PROVE b[j] \in ToSet(s) \ {s[i]}
    <3>1. i + j \in 1 .. Len(s) /\ i + j # i /\ b[j] = s[i + j]
      BY <1>1, <1>3, <1>5
    <3> QED
      BY <1>1, <3>1 DEF ToSet, IsInjective
  <2>3. ASSUME NEW j \in DOMAIN s, s[j] # s[i] PROVE s[j] \in ToSet(a) \cup ToSet(b)
    <3>1. CASE j < i
      <4>1. j \in 1 .. i - 1
        BY <1>1, <3>1
      <4> QED
        BY <4>1, <1>2, <1>5 DEF ToSet
    <3>2. CASE j > i
      <4>1. j - i \in 1 .. Len(s) - i /\ i + (j - i) = j
        BY <1>1, <3>2
      <4>2. b[j - i] = s[j]
        BY <1>3, <4>1
      <4> QED
        BY <4>1, <4>2, <1>5 DEF ToSet
    <3> QED
      BY <1>1, <2>3, <3>1, <3>2
  <2> QED
    BY <2>1, <2>2, <2>3 DEF ToSet
<1>7. IsInjective(a) /\ IsInjective(b) /\ ToSet(a) \cap ToSet(b) = {}
  <2>1. IsInjective(a)
    BY <1>1, <1>2, <1>5 DEF IsInjective
  <2>2. \A j \in DOMAIN b : i + j \in DOMAIN s /\ b[j] = s[i + j]
    BY <1>1, <1>3, <1>5
  <2>3. IsInjective(b)
    <3> SUFFICES ASSUME NEW j \in DOMAIN b, NEW k \in DOMAIN b, b[j] = b[k] PROVE j = k
      BY DEF IsInjective
    <3>1. i + j = i + k
      BY <2>2 DEF IsInjective
    <3> QED
      BY <1>1, <1>5, <3>1
  <2>4. ASSUME NEW j \in DOMAIN a, NEW k \in DOMAIN b PROVE a[j] # b[k]
    <3>1. j \in DOMAIN s /\ a[j] = s[j] /\ j # i + k
      BY <1>1, <1>2, <1>5
    <3> QED
      BY <2>2, <3>1 DEF IsInjective
  <2> QED
    BY <2>1, <2>3, <2>4 DEF ToSet
<1> QED
  BY <1>2, <1>3, <1>4, <1>6, <1>7, ToSetOfConcat

(* A batch of new files. *)
LEMMA ToSetOfBatch ==
  ASSUME NEW k \in Nat, NEW n \in Nat, NEW s, s = [i \in 1 .. n |-> k + i]
  PROVE  s \in Seq(Nat) /\ ToSet(s) = k + 1 .. k + n /\ IsInjective(s)
<1>1. s \in Seq(Nat) /\ DOMAIN s = 1 .. n /\ \A i \in 1 .. n : s[i] = k + i
  OBVIOUS
<1>2. IsInjective(s)
  BY <1>1 DEF IsInjective
<1>3. ASSUME NEW x \in k + 1 .. k + n PROVE x \in ToSet(s)
  <2>1. x - k \in 1 .. n /\ k + (x - k) = x
    OBVIOUS
  <2> QED
    BY <1>1, <2>1 DEF ToSet
<1>4. \A i \in 1 .. n : s[i] \in k + 1 .. k + n
  BY <1>1
<1> QED
  BY <1>1, <1>2, <1>3, <1>4 DEF ToSet

-----------------------------------------------------------------------------
(* The steps that move files. *)

(* The chips of one channel change: the sends stay. *)
LEMMA ChipsMove ==
  ASSUME AttachmentsInv, NEW c \in Channels, NEW s \in Seq(Files), chips' = [chips EXCEPT ![c] = s]
  PROVE  /\ Chips(c)' = ToSet(s) /\ chips'[c] = s
         /\ \A d \in Channels \ {c} : Chips(d)' = Chips(d) /\ chips'[d] = chips[d]
         /\ \A f : ~Gone(f)' <=> f \in ToSet(s) \/ \E d \in Channels \ {c} : f \in Chips(d)
<1>1. chips'[c] = s /\ \A d \in Channels \ {c} : chips'[d] = chips[d]
  BY DEF AttachmentsInv, Types
<1>2. Chips(c)' = ToSet(s) /\ \A d \in Channels \ {c} : Chips(d)' = Chips(d)
  BY <1>1 DEF Chips
<1> QED
  BY <1>1, <1>2 DEF Gone

LEMMA SendsStay ==
  ASSUME send' = send
  PROVE  \A m \in Messages : (Away(m)' <=> Away(m)) /\ Ids(m)' = Ids(m) /\ send'[m] = send[m]
BY DEF Away, Ids

LEMMA AddFilesPlaces ==
  ASSUME AttachmentsInv, PlaceInv, NEW c \in Channels, NEW n \in 1 .. MaxFiles,
         NEW bad \in SUBSET (chosen + 1 .. chosen + n), AddFiles(c, n, bad)
  PROVE  PlaceInv'
<1> DEFINE batch == chosen + 1 .. chosen + n
           new == [i \in 1 .. n |-> chosen + i]
<1>1. chosen \in Nat /\ n \in Nat /\ MaxFiles \in Nat
  BY AttachmentsAssumption DEF AttachmentsInv, Types
<1>2. new \in Seq(Nat) /\ ToSet(new) = batch /\ IsInjective(new)
  BY <1>1, ToSetOfBatch
<1>3. /\ chosen' = chosen + n /\ chosen + n <= MaxChosen /\ dropped' = dropped /\ send' = send
      /\ chips' = [chips EXCEPT ![c] = chips[c] \o new]
      /\ look' = [f \in Files |-> IF f \in bad THEN "failed"
                                  ELSE IF f \in batch THEN "uploading" ELSE look[f]]
      /\ live' = live \cup (batch \ bad)
  BY DEF AddFiles, AttachmentsInv, Types
<1>4. /\ Chosen' = Chosen \cup batch /\ Chosen \cap batch = {} /\ Chosen' \subseteq Files
      /\ batch \subseteq Files
  BY <1>1, <1>3, AttachmentsAssumption DEF Chosen, Files
<1> HIDE DEF new, batch
<1>5. /\ Chips(c) \subseteq Chosen /\ chips[c] \in Seq(Files) /\ IsInjective(chips[c])
      /\ Chips(c) = ToSet(chips[c])
  BY DEF AttachmentsInv, Types, PlaceInv, ChipInv, Chips
<1>6. new \in Seq(Files)
  BY <1>2, <1>4 DEF ToSet
<1>7. /\ chips[c] \o new \in Seq(Files) /\ ToSet(chips[c] \o new) = Chips(c) \cup batch
      /\ IsInjective(chips[c] \o new)
  BY <1>2, <1>4, <1>5, <1>6, ToSetOfConcat
<1>8. PICK s \in Seq(Files) : s = chips[c] \o new
  BY <1>7
<1>9. /\ Chips(c)' = Chips(c) \cup batch /\ IsInjective(chips'[c])
      /\ \A d \in Channels \ {c} : Chips(d)' = Chips(d) /\ chips'[d] = chips[d]
      /\ \A f : Gone(f)' <=> Gone(f) /\ f \notin batch
  BY <1>3, <1>7, <1>8, ChipsMove DEF Gone
<1>10. \A m \in Messages : (Away(m)' <=> Away(m)) /\ Ids(m)' = Ids(m) /\ send'[m] = send[m]
  BY <1>3, SendsStay
<1>11. ChipInv'
  <2>1. \A d \in Channels : Chips(d) \cap batch = {}
    BY <1>4 DEF PlaceInv, ChipInv
  <2>2. \A m \in Messages : Away(m) => Ids(m) \cap batch = {}
    BY <1>4 DEF PlaceInv, AwayInv
  <2>3. dropped \cap batch = {}
    BY <1>4 DEF PlaceInv
  <2>4. ASSUME NEW d \in Channels
        PROVE  /\ IsInjective(chips'[d]) /\ Chips(d)' \subseteq Chosen' \ dropped'
               /\ \A e \in Channels \ {d} : Chips(d)' \cap Chips(e)' = {}
               /\ \A m \in Messages : Away(m)' => Chips(d)' \cap Ids(m)' = {}
    BY <1>3, <1>4, <1>9, <1>10, <2>1, <2>2, <2>3 DEF PlaceInv, ChipInv
  <2> QED
    BY <2>4 DEF ChipInv
<1>12. AwayInv'
  BY <1>3, <1>4, <1>10 DEF PlaceInv, AwayInv
<1>13. CoverInv'
  BY <1>3, <1>4, <1>9, <1>10 DEF PlaceInv, CoverInv
<1>14. AwaitedInv'
  <2>1. ASSUME NEW f \in Files, f \in live' PROVE ~Gone(f)' /\ look'[f] = "uploading"
    <3>1. CASE f \in batch
      <4>1. f \notin bad
        BY <1>3, <1>4, <2>1, <3>1 DEF PlaceInv, AwaitedInv, Gone, ChipInv, batch
      <4> QED
        BY <1>3, <1>9, <3>1, <4>1
    <3>2. CASE f \notin batch
      <4>1. f \in live /\ f \notin bad
        BY <1>3, <2>1, <3>2 DEF batch
      <4> QED
        BY <1>3, <1>9, <3>2, <4>1 DEF PlaceInv, AwaitedInv
    <3> QED
      BY <3>1, <3>2
  <2> QED
    BY <2>1 DEF AwaitedInv
<1> QED
  BY <1>3, <1>4, <1>11, <1>12, <1>13, <1>14 DEF PlaceInv

LEMMA DiscardPlaces ==
  ASSUME AttachmentsInv, PlaceInv, NEW c \in Channels, NEW i \in DOMAIN chips[c], Discard(c, i)
  PROVE  PlaceInv'
<1>1. /\ chips[c] \in Seq(Files) /\ IsInjective(chips[c]) /\ Chips(c) = ToSet(chips[c])
      /\ \A d \in Channels : Chips(d) \subseteq Chosen
  BY DEF AttachmentsInv, Types, PlaceInv, ChipInv, Chips
<1>2. PICK x : x = chips[c][i]
  OBVIOUS
<1>3. x \in Chips(c)
  BY <1>1, <1>2 DEF ToSet
<1>4. PICK s \in Seq(Files) : s = RemoveAt(chips[c], i) /\ ToSet(s) = Chips(c) \ {x} /\ IsInjective(s)
  BY <1>1, <1>2, ToSetOfRemoveAt
<1>5. /\ chips' = [chips EXCEPT ![c] = s] /\ live' = live \ {x} /\ dropped' = dropped \cup {x}
      /\ look' = look /\ chosen' = chosen /\ send' = send
  BY <1>2, <1>4 DEF Discard, Cancel, AttachmentsInv, Types
<1>6. /\ Chips(c)' = Chips(c) \ {x} /\ IsInjective(chips'[c])
      /\ \A d \in Channels \ {c} : Chips(d)' = Chips(d) /\ chips'[d] = chips[d]
      /\ \A f : f # x => (Gone(f)' <=> Gone(f))
  BY <1>4, <1>5, ChipsMove DEF Gone
<1>7. \A m \in Messages : (Away(m)' <=> Away(m)) /\ Ids(m)' = Ids(m) /\ send'[m] = send[m]
  BY <1>5, SendsStay
<1>8. Chosen' = Chosen /\ x \in Chosen
  BY <1>1, <1>3, <1>5 DEF Chosen
<1>9. ChipInv'
  <2>1. ASSUME NEW d \in Channels
        PROVE  /\ IsInjective(chips'[d]) /\ Chips(d)' \subseteq Chosen' \ dropped'
               /\ \A e \in Channels \ {d} : Chips(d)' \cap Chips(e)' = {}
               /\ \A m \in Messages : Away(m)' => Chips(d)' \cap Ids(m)' = {}
    BY <1>3, <1>5, <1>6, <1>7, <1>8 DEF PlaceInv, ChipInv
  <2> QED
    BY <2>1 DEF ChipInv
<1>10. AwayInv'
  <2>1. \A m \in Messages : Away(m) => x \notin Ids(m)
    BY <1>3 DEF PlaceInv, ChipInv
  <2> QED
    BY <1>5, <1>7, <1>8, <2>1 DEF PlaceInv, AwayInv
<1>11. CoverInv'
  BY <1>5, <1>6, <1>7, <1>8 DEF PlaceInv, CoverInv
<1>12. AwaitedInv'
  BY <1>5, <1>6 DEF PlaceInv, AwaitedInv
<1> QED
  BY <1>5, <1>8, <1>9, <1>10, <1>11, <1>12 DEF PlaceInv

LEMMA SwitchPlaces == ASSUME AttachmentsInv, PlaceInv, Switch PROVE PlaceInv'
<1>1. /\ chips' = [c \in Channels |-> <<>>] /\ live' = live \ live
      /\ dropped' = dropped \cup UNION {Chips(c) : c \in Channels}
      /\ chosen' = chosen /\ send' = send
  BY DEF Switch, Cancel
<1>2. \A c \in Channels : Chips(c)' = {} /\ IsInjective(chips'[c])
  BY <1>1 DEF Chips, ToSet, IsInjective
<1>3. \A f : f \in dropped' <=> f \in dropped \/ ~Gone(f)
  BY <1>1 DEF Gone
<1>4. \A m \in Messages : (Away(m)' <=> Away(m)) /\ Ids(m)' = Ids(m) /\ send'[m] = send[m]
  BY <1>1, SendsStay
<1>5. Chosen' = Chosen /\ \A c \in Channels : Chips(c) \subseteq Chosen
  BY <1>1 DEF Chosen, PlaceInv, ChipInv
<1>6. ChipInv'
  BY <1>2 DEF ChipInv
<1>7. AwayInv'
  <2>1. \A m \in Messages : Away(m) => \A f \in Ids(m) : Gone(f)
    BY DEF PlaceInv, ChipInv, Gone
  <2> QED
    BY <1>3, <1>4, <1>5, <2>1 DEF PlaceInv, AwayInv
<1>8. CoverInv'
  BY <1>3, <1>4, <1>5 DEF PlaceInv, CoverInv
<1>9. AwaitedInv'
  BY <1>1 DEF AwaitedInv
<1>10. dropped' \subseteq Chosen'
  BY <1>3, <1>5 DEF PlaceInv, Gone
<1> QED
  BY <1>5, <1>6, <1>7, <1>8, <1>9, <1>10 DEF PlaceInv

LEMMA SubmitPlaces ==
  ASSUME AttachmentsInv, PlaceInv, NEW c \in Channels, NEW m \in Messages, Submit(c, m)
  PROVE  PlaceInv'
<1>1. /\ chips' = [chips EXCEPT ![c] = <<>>] /\ send' = [send EXCEPT ![m] = Sent(chips[c], c, "waiting")]
      /\ live' = live /\ look' = look /\ chosen' = chosen /\ dropped' = dropped
      /\ send[m] = NoSend /\ \A f \in Chips(c) : look[f] = "ready"
  BY DEF Submit
<1>2. <<>> \in Seq(Files) /\ ToSet(<<>>) = {} /\ IsInjective(<<>>)
  BY DEF ToSet, IsInjective
<1>3. /\ Chips(c)' = {} /\ IsInjective(chips'[c])
      /\ \A d \in Channels \ {c} : Chips(d)' = Chips(d) /\ chips'[d] = chips[d]
      /\ \A f : f \notin Chips(c) => (Gone(f)' <=> Gone(f))
  BY <1>1, <1>2, ChipsMove DEF Gone
<1>4. send'[m] = Sent(chips[c], c, "waiting") /\ \A n \in Messages \ {m} : send'[n] = send[n]
  BY <1>1 DEF AttachmentsInv, Types
<1>5. /\ ~Away(m) /\ Away(m)' /\ Ids(m)' = Chips(c) /\ send'[m].ids = chips[c] /\ send'[m].to = c
      /\ \A n \in Messages \ {m} : (Away(n)' <=> Away(n)) /\ Ids(n)' = Ids(n) /\ send'[n] = send[n]
  BY <1>1, <1>4 DEF Away, Ids, Sent, NoSend, Chips
<1>6. Chosen' = Chosen
  BY <1>1 DEF Chosen
<1>7. ChipInv'
  <2>1. ASSUME NEW d \in Channels
        PROVE  /\ IsInjective(chips'[d]) /\ Chips(d)' \subseteq Chosen' \ dropped'
               /\ \A e \in Channels \ {d} : Chips(d)' \cap Chips(e)' = {}
               /\ \A n \in Messages : Away(n)' => Chips(d)' \cap Ids(n)' = {}
    BY <1>1, <1>3, <1>5, <1>6 DEF PlaceInv, ChipInv
  <2> QED
    BY <2>1 DEF ChipInv
<1>8. AwayInv'
  <2>1. ASSUME NEW n \in Messages, Away(n)'
        PROVE  /\ IsInjective(send'[n].ids) /\ Ids(n)' \subseteq Chosen' \ dropped'
               /\ \A k \in Messages \ {n} : Away(k)' => Ids(n)' \cap Ids(k)' = {}
               /\ send'[n].tab = "waiting" => send'[n].to \in Channels
    BY <1>1, <1>5, <1>6, <2>1 DEF PlaceInv, AwayInv, ChipInv
  <2> QED
    BY <2>1 DEF AwayInv
<1>9. CoverInv'
  <2>1. ASSUME NEW f \in Chosen, Gone(f)', f \notin dropped
        PROVE  \E n \in Messages : Away(n)' /\ f \in Ids(n)'
    BY <1>3, <1>5, <2>1 DEF PlaceInv, CoverInv
  <2> QED
    BY <1>1, <1>6, <2>1 DEF CoverInv
<1>10. AwaitedInv'
  BY <1>1, <1>3 DEF PlaceInv, AwaitedInv
<1> QED
  BY <1>1, <1>6, <1>7, <1>8, <1>9, <1>10 DEF PlaceInv

LEMMA FailedPlaces == ASSUME AttachmentsInv, PlaceInv, NEW m \in Messages, Failed(m) PROVE PlaceInv'
<1>1. /\ send[m].tab = "waiting" /\ chips' = Restored(m) /\ send' = [send EXCEPT ![m].tab = "failed"]
      /\ live' = live /\ look' = look /\ chosen' = chosen /\ dropped' = dropped
  BY DEF Failed
<1>2. PICK c \in Channels : c = send[m].to
  BY <1>1 DEF PlaceInv, AwayInv, Away
<1>3. /\ send[m].ids \in Seq(Files) /\ chips[c] \in Seq(Files)
      /\ IsInjective(send[m].ids) /\ IsInjective(chips[c]) /\ ToSet(chips[c]) = Chips(c)
      /\ ToSet(send[m].ids) = Ids(m) /\ Away(m) /\ Ids(m) \cap Chips(c) = {}
  BY <1>1 DEF AttachmentsInv, Types, Sends, PlaceInv, ChipInv, AwayInv, Away, Chips, Ids
<1>4. PICK s \in Seq(Files) : /\ s = send[m].ids \o chips[c] /\ IsInjective(s)
                              /\ ToSet(s) = Ids(m) \cup Chips(c)
  <2> DEFINE u == send[m].ids \o chips[c]
  <2>1. /\ u \in Seq(Files) /\ ToSet(u) = ToSet(send[m].ids) \cup ToSet(chips[c])
        /\ ToSet(send[m].ids) \cap ToSet(chips[c]) = {} => IsInjective(u)
    BY <1>3, ToSetOfConcat
  <2>2. ToSet(u) = Ids(m) \cup Chips(c) /\ IsInjective(u)
    BY <1>3, <2>1
  <2> QED
    BY <2>1, <2>2
<1>5. chips' = [chips EXCEPT ![c] = s]
  BY <1>1, <1>2, <1>4 DEF Restored
<1>6. /\ Chips(c)' = Ids(m) \cup Chips(c) /\ IsInjective(chips'[c])
      /\ \A d \in Channels \ {c} : Chips(d)' = Chips(d) /\ chips'[d] = chips[d]
      /\ \A f : Gone(f)' <=> Gone(f) /\ f \notin Ids(m)
  <2>1. /\ Chips(c)' = ToSet(s) /\ chips'[c] = s
        /\ \A d \in Channels \ {c} : Chips(d)' = Chips(d) /\ chips'[d] = chips[d]
        /\ \A f : ~Gone(f)' <=> f \in ToSet(s) \/ \E d \in Channels \ {c} : f \in Chips(d)
    BY <1>5, ChipsMove
  <2>2. ToSet(s) = Ids(m) \cup Chips(c) /\ IsInjective(s)
    BY <1>4
  <2>3. \A f : Gone(f)' <=> Gone(f) /\ f \notin Ids(m)
    BY <2>1, <2>2 DEF Gone
  <2> QED
    BY <2>1, <2>2, <2>3
<1>7. send'[m].tab = "failed" /\ \A n \in Messages \ {m} : send'[n] = send[n]
  <2>1. send \in [Messages -> Sends] /\ send[m] \in Sends
    BY DEF AttachmentsInv, Types
  <2>2. PICK r : r = [send[m] EXCEPT !.tab = "failed"]
    OBVIOUS
  <2>3. r.tab = "failed"
    BY <2>1, <2>2 DEF Sends
  <2>4. send' = [send EXCEPT ![m] = r]
    BY <1>1, <2>2
  <2> QED
    BY <2>1, <2>3, <2>4
<1>8. /\ ~Away(m)'
      /\ \A n \in Messages \ {m} : (Away(n)' <=> Away(n)) /\ Ids(n)' = Ids(n) /\ send'[n] = send[n]
  BY <1>7 DEF Away, Ids
<1>9. Chosen' = Chosen
  BY <1>1 DEF Chosen
<1>10. ChipInv'
  <2>1. \A n \in Messages \ {m} : Away(n) => Ids(n) \cap Ids(m) = {}
    BY <1>3 DEF PlaceInv, AwayInv
  <2>2. Ids(m) \subseteq Chosen \ dropped
    BY <1>3 DEF PlaceInv, AwayInv
  <2>3. \A d \in Channels : Chips(d) \cap Ids(m) = {}
    BY <1>3 DEF PlaceInv, ChipInv
  <2>4. ASSUME NEW d \in Channels
        PROVE  /\ IsInjective(chips'[d]) /\ Chips(d)' \subseteq Chosen' \ dropped'
               /\ \A e \in Channels \ {d} : Chips(d)' \cap Chips(e)' = {}
               /\ \A n \in Messages : Away(n)' => Chips(d)' \cap Ids(n)' = {}
    BY <1>1, <1>6, <1>8, <1>9, <2>1, <2>2, <2>3 DEF PlaceInv, ChipInv
  <2> QED
    BY <2>4 DEF ChipInv
<1>11. AwayInv'
  BY <1>1, <1>8, <1>9 DEF PlaceInv, AwayInv
<1>12. CoverInv'
  BY <1>1, <1>6, <1>8, <1>9 DEF PlaceInv, CoverInv
<1>13. AwaitedInv'
  BY <1>1, <1>6 DEF PlaceInv, AwaitedInv
<1> QED
  BY <1>1, <1>9, <1>10, <1>11, <1>12, <1>13 DEF PlaceInv

LEMMA PlaceKept == ASSUME AttachmentsInv, PlaceInv, [Next]_vars PROVE PlaceInv'
<1>1. CASE UNCHANGED vars
  BY <1>1, PlaceStill, SendsStay DEF vars, browser
<1>2. ASSUME NEW c \in Channels,
             \/ \E n \in 1 .. MaxFiles : \E bad \in SUBSET (chosen + 1 .. chosen + n) : AddFiles(c, n, bad)
             \/ \E i \in DOMAIN chips[c] : Discard(c, i)
             \/ \E m \in Messages : Submit(c, m)
      PROVE  PlaceInv'
  BY <1>2, AddFilesPlaces, DiscardPlaces, SubmitPlaces
<1>3. ASSUME NEW f \in Files,
             \/ Advance(f) \/ Fails(f) \/ Reserve(f) \/ Put(f)
             \/ AskStore(f) \/ Confirm(f) \/ AskElsewhere(f) \/ ConfirmElsewhere(f)
      PROVE  PlaceInv'
  BY <1>3, UploadsStill
<1>4. ASSUME NEW m \in Messages,
             \/ \E n \in 1 .. MaxFiles : \E ids \in [1 .. n -> Files] : Post(m, ids)
             \/ Lock(m) \/ Claim(m) \/ Unavailable(m) \/ Save(m) \/ Delete(m) \/ Acked(m) \/ Failed(m)
      PROVE  PlaceInv'
  BY <1>4, PostStill, SendsStill, FailedPlaces
<1> QED
  BY <1>1, <1>2, <1>3, <1>4, SwitchPlaces DEF Next

LEMMA PlaceStart == ASSUME Init PROVE PlaceInv
<1>1. chosen = 0 /\ dropped = {} /\ live = {} /\ chips = [c \in Channels |-> <<>>]
      /\ send = [m \in Messages |-> NoSend]
  BY DEF Init
<1>2. Chosen = {} /\ \A m \in Messages : ~Away(m)
  BY <1>1 DEF Chosen, Away, NoSend
<1>3. \A c \in Channels : IsInjective(chips[c]) /\ Chips(c) = {}
  BY <1>1 DEF IsInjective, Chips, ToSet
<1> QED
  BY <1>1, <1>2, <1>3 DEF PlaceInv, ChipInv, AwayInv, CoverInv, AwaitedInv

LEMMA PlaceInvariance == Spec => [](AttachmentsInv /\ PlaceInv)
<1>1. Init => AttachmentsInv /\ PlaceInv
  BY InitHolds, PlaceStart
<1>2. AttachmentsInv /\ PlaceInv /\ [Next]_vars => (AttachmentsInv /\ PlaceInv)'
  BY NextKeeps, PlaceKept
<1> QED
  BY <1>1, <1>2, PTL DEF Spec

(* A set that is empty, or of one element. *)
LEMMA AtMostOne ==
  ASSUME NEW T, \A x, y \in T : x = y
  PROVE  Cardinality(T) = IF T = {} THEN 0 ELSE 1
<1>1. CASE T = {}
  BY <1>1, FS_EmptySet
<1>2. CASE T # {}
  <2>1. PICK x : T = {x}
    BY <1>2
  <2> QED
    BY <1>2, <2>1, FS_Singleton
<1> QED
  BY <1>1, <1>2

(* uploads.ts 13-15, useMessages.ts 394-401: a file chosen is in exactly   *)
(* one place, a chip, a send awaited, a message acknowledged, or dropped   *)
(* by the person, whatever uploads, sends and switches are under way, for  *)
(* any channels, messages and limits.                                      *)
THEOREM FilesHaveOnePlace == Spec => []OnePlace
<1>1. ASSUME AttachmentsInv, PlaceInv PROVE OnePlace
  <2>1. TypeOK
    <3>1. \A c \in Channels : chips[c] \in Seq(Files)
      BY <1>1 DEF AttachmentsInv, Types
    <3>2. ASSUME NEW f \in Files
          PROVE  /\ look[f] \in {"none", "uploading", "ready", "failed"}
                 /\ claim[f] \in Messages \cup {None}
                 /\ Cardinality({m \in Messages : f \in send[m].locks}) <= 1
                 /\ f \in live => ~Gone(f) /\ look[f] = "uploading"
      <4>1. look[f] \in {"none", "uploading", "ready", "failed"} /\ claim[f] \in Messages \cup {None}
        BY <1>1 DEF AttachmentsInv, Types
      <4>2. Cardinality({m \in Messages : f \in send[m].locks}) <= 1
        <5> DEFINE T == {m \in Messages : f \in send[m].locks}
        <5>1. \A m, n \in T : m = n
          BY <1>1 DEF AttachmentsInv, LockInv
        <5> HIDE DEF T
        <5>2. Cardinality(T) = IF T = {} THEN 0 ELSE 1
          BY <5>1, AtMostOne
        <5> QED
          BY <5>2 DEF T
      <4>3. f \in live => ~Gone(f) /\ look[f] = "uploading"
        BY <1>1 DEF PlaceInv, AwaitedInv
      <4> QED
        BY <4>1, <4>2, <4>3
    <3>3. \A m \in Messages : send[m].locks \subseteq ToSet(send[m].ids)
      BY <1>1 DEF AttachmentsInv, LockInv, Ids
    <3> QED
      BY <3>1, <3>2, <3>3 DEF TypeOK
  <2>2. ASSUME NEW f \in 1 .. chosen
        PROVE  1 = Cardinality(UNION {{<<c, i>> : i \in {j \in DOMAIN chips[c] : chips[c][j] = f}} :
                                        c \in Channels})
                   + Cardinality({m \in Messages : /\ send[m].tab \in {"waiting", "acked"}
                                                   /\ f \in ToSet(send[m].ids)})
                   + (IF f \in dropped THEN 1 ELSE 0)
    <3> DEFINE At == UNION {{<<c, i>> : i \in {j \in DOMAIN chips[c] : chips[c][j] = f}} :
                              c \in Channels}
               With == {m \in Messages : send[m].tab \in {"waiting", "acked"} /\ f \in ToSet(send[m].ids)}
    <3>1. \A p \in At : \E c \in Channels : \E i \in DOMAIN chips[c] : p = <<c, i>> /\ chips[c][i] = f
      OBVIOUS
    <3>2. \A c \in Channels : \A i \in DOMAIN chips[c] : chips[c][i] = f => <<c, i>> \in At
      OBVIOUS
    <3>3. \A m \in Messages : m \in With <=> Away(m) /\ f \in Ids(m)
      BY DEF Away, Ids
    <3>4. With \subseteq Messages
      OBVIOUS
    <3>5. f \in Chosen /\ \A c \in Channels : f \in Chips(c) <=> \E i \in DOMAIN chips[c] : chips[c][i] = f
      BY DEF Chosen, Chips, ToSet
    <3> HIDE DEF At, With
    <3>6. At # {} <=> ~Gone(f)
      BY <3>1, <3>2, <3>5 DEF Gone
    <3>7. \A p, q \in At : p = q
      <4> SUFFICES ASSUME NEW p \in At, NEW q \in At PROVE p = q
        OBVIOUS
      <4>1. PICK c \in Channels : \E i \in DOMAIN chips[c] : p = <<c, i>> /\ chips[c][i] = f
        BY <3>1
      <4>2. PICK i \in DOMAIN chips[c] : p = <<c, i>> /\ chips[c][i] = f
        BY <4>1
      <4>3. PICK d \in Channels : \E j \in DOMAIN chips[d] : q = <<d, j>> /\ chips[d][j] = f
        BY <3>1
      <4>4. PICK j \in DOMAIN chips[d] : q = <<d, j>> /\ chips[d][j] = f
        BY <4>3
      <4>5. c = d
        BY <1>1, <3>5, <4>2, <4>4 DEF PlaceInv, ChipInv
      <4>6. i = j
        BY <1>1, <4>2, <4>4, <4>5 DEF PlaceInv, ChipInv, IsInjective
      <4> QED
        BY <4>2, <4>4, <4>5, <4>6
    <3>8. \A m, n \in With : m = n
      BY <1>1, <3>3, <3>4 DEF PlaceInv, AwayInv
    <3>9. /\ Cardinality(At) = IF Gone(f) THEN 0 ELSE 1
          /\ Cardinality(With) = IF With = {} THEN 0 ELSE 1
      <4>1. Cardinality(At) = IF At = {} THEN 0 ELSE 1
        BY <3>7, AtMostOne
      <4>2. Cardinality(With) = IF With = {} THEN 0 ELSE 1
        BY <3>8, AtMostOne
      <4> QED
        BY <3>6, <4>1, <4>2
    <3>10. Gone(f) \/ With = {}
      BY <1>1, <3>3, <3>4 DEF PlaceInv, ChipInv, Gone
    <3>11. f \in dropped => Gone(f) /\ With = {}
      BY <1>1, <3>3, <3>4 DEF PlaceInv, ChipInv, AwayInv, Gone
    <3>12. ~Gone(f) \/ f \in dropped \/ With # {}
      BY <1>1, <3>3, <3>5 DEF PlaceInv, CoverInv
    <3>13. 1 = Cardinality(At) + Cardinality(With) + (IF f \in dropped THEN 1 ELSE 0)
      <4>1. CASE ~Gone(f)
        BY <3>9, <3>10, <3>11, <4>1
      <4>2. CASE Gone(f) /\ With # {}
        BY <3>9, <3>11, <4>2
      <4>3. CASE Gone(f) /\ With = {}
        BY <3>9, <3>12, <4>3
      <4> QED
        BY <4>1, <4>2, <4>3
    <3> QED
      BY <3>13 DEF At, With
  <2> QED
    BY <2>1, <2>2 DEF OnePlace
<1> QED
  BY <1>1, PlaceInvariance, PTL

=============================================================================
