--------------------------- MODULE Attachments ---------------------------
(***************************************************************************)
(* Files on their way to a message: the chips of one tab's composers and   *)
(* the uploads behind them (frontend: uploads.ts, attachments.ts,          *)
(* MessageComposer.tsx, useMessages.ts), the Asset service that reserves,  *)
(* confirms and claims (routers/assets.py, routers/internal.py), and the   *)
(* send of Messaging that claims before it inserts (attachments.py).       *)
(*                                                                         *)
(* A file chosen is a number; choosing it anew is another one.  An upload  *)
(* reserves at most one asset, which has its file's number, and Asset      *)
(* locks rows in this order.                                               *)
(***************************************************************************)
EXTENDS Naturals, Sequences, SequencesExt, FiniteSets

CONSTANTS
  Channels,   \* channels with a composer
  Messages,   \* ids sends are given
  None,       \* no message
  MaxFiles,   \* files a message may have
  MaxChosen,  \* bound on the files chosen
  MaxFaults   \* bound on failures, lost answers, early confirms, switches

ASSUME AttachmentsAssumption ==
  /\ None \notin Messages /\ MaxFiles \in Nat /\ MaxChosen \in Nat /\ MaxFaults \in Nat

Files == 1 .. MaxChosen

VARIABLES
  (* the tab *)
  chips,   \* of each channel, in order
  look,    \* what a chip shows
  live,    \* the uploads not cancelled
  (* the uploads and Asset *)
  net,     \* the request of each upload: step, where it is, its answer
  object,  \* what object storage holds
  status,  \* of the asset
  claim,   \* the message an asset is on
  other,   \* a second confirm of the asset, by another client
  (* sends *)
  send,
  (* history, not in the code *)
  chosen,  \* files chosen
  dropped, \* those removed, or left behind by a workspace switch
  faults

browser == <<chips, look, live, chosen, dropped>>
asset == <<object, status, claim>>
vars == <<browser, net, asset, other, send, faults>>

Chips(c) == ToSet(chips[c])

Request(step, at, with) == [step |-> step, at |-> at, with |-> with]

Over == Request("over", "asked", "none")

NoSend == [at |-> "none", ids |-> <<>>, to |-> None, locks |-> {}, tab |-> "no"]

Init ==
  /\ chips = [c \in Channels |-> <<>>] /\ look = [f \in Files |-> "none"]
  /\ live = {} /\ net = [f \in Files |-> Over]
  /\ object = [f \in Files |-> "none"] /\ status = [f \in Files |-> "none"]
  /\ claim = [f \in Files |-> None] /\ other = [f \in Files |-> "no"]
  /\ send = [m \in Messages |-> NoSend]
  /\ chosen = 0 /\ dropped = {} /\ faults = 0

Fault == faults < MaxFaults /\ faults' = faults + 1

-----------------------------------------------------------------------------
(* The composer and its uploads. *)

(* batchRefusal: a batch is refused whole past the limit. *)
BatchFits(attached, added) == attached + added <= MaxFiles

(* A file that breaks a rule is a failed chip and is never uploaded.       *)
AddFiles(c, n, bad) ==
  LET batch == chosen + 1 .. chosen + n
  IN  /\ chosen + n <= MaxChosen /\ BatchFits(Len(chips[c]), n) /\ bad \subseteq batch
      /\ chosen' = chosen + n
      /\ chips' = [chips EXCEPT ![c] = @ \o [i \in 1 .. n |-> chosen + i]]
      /\ look' = [f \in Files |-> IF f \in bad THEN "failed"
                                  ELSE IF f \in batch THEN "uploading" ELSE look[f]]
      /\ live' = live \cup (batch \ bad)
      /\ net' = [f \in Files |-> IF f \in batch \ bad THEN Request("reserve", "asked", "none")
                                 ELSE net[f]]
      /\ UNCHANGED <<dropped, asset, other, send, faults>>

Gone(f) == \A c \in Channels : f \notin Chips(c)

(* A write to a chip that is gone is none. *)
Update(f, what) ==
  /\ look' = IF Gone(f) THEN look ELSE [look EXCEPT ![f] = what]
  /\ UNCHANGED chips

(* The runner takes an answer, unless it was cancelled. *)
Advance(f) ==
  /\ f \in live /\ net[f].at = "answered"
  /\ \/ /\ net[f].with = "ok" /\ UNCHANGED <<chips, look, live>>
        /\ net' = [net EXCEPT ![f] =
             Request(IF @.step = "reserve" THEN "put" ELSE "confirm", "asked", "none")]
     \/ /\ net[f].with # "ok" /\ live' = live \ {f} /\ net' = [net EXCEPT ![f] = Over]
        /\ Update(f, IF net[f].with = "ready" THEN "ready" ELSE "failed")
  /\ UNCHANGED <<chosen, dropped, asset, other, send, faults>>

(* Nothing further is requested: of what was, an answer is not awaited. *)
Cancel(fs) == live' = live \ fs

(* The cross on a chip. *)
Discard(c, i) ==
  /\ chips' = [chips EXCEPT ![c] = RemoveAt(@, i)]
  /\ Cancel({chips[c][i]}) /\ dropped' = dropped \cup {chips[c][i]}
  /\ UNCHANGED <<look, chosen, net, asset, other, send, faults>>

(* Another workspace: uploads stop, and every chip is dropped. *)
Switch ==
  /\ Fault /\ chips # [c \in Channels |-> <<>>] /\ chips' = [c \in Channels |-> <<>>]
  /\ Cancel(live)
  /\ dropped' = dropped \cup UNION {Chips(c) : c \in Channels}
  /\ UNCHANGED <<look, chosen, net, asset, other, send>>

-----------------------------------------------------------------------------
(* Asset and object storage. *)

(* An answer, which may be lost; nobody waits for that of a cancelled one. *)
Answer(f, with) ==
  \/ net' = [net EXCEPT ![f] = IF f \in live THEN Request(@.step, "answered", with) ELSE Over]
     /\ UNCHANGED faults
  \/ f \in live /\ Fault /\ net' = [net EXCEPT ![f] = Request(@.step, "answered", "error")]

Fails(f) ==
  /\ net[f].at = "asked" /\ net[f] # Over /\ f \in live
  /\ Fault /\ net' = [net EXCEPT ![f] = Request(@.step, "answered", "error")]
  /\ UNCHANGED <<browser, asset, other, send>>

Asked(f, step) == net[f].step = step /\ net[f].at = "asked"

Reserve(f) ==
  /\ Asked(f, "reserve") /\ status' = [status EXCEPT ![f] = "pending"] /\ Answer(f, "ok")
  /\ UNCHANGED <<browser, object, claim, other, send>>

(* The PUT; what arrives may not have the size declared. *)
Put(f) ==
  /\ Asked(f, "put")
  /\ \/ object' = [object EXCEPT ![f] = "whole"] /\ Answer(f, "ok")
     \/ /\ Fault /\ object' = [object EXCEPT ![f] = "short"]
        /\ net' = [net EXCEPT ![f] = IF f \in live THEN Request("put", "answered", "ok") ELSE Over]
  /\ UNCHANGED <<browser, status, claim, other, send>>

Outcome(f) == IF object[f] = "whole" THEN "ready" ELSE "failed"

(* confirm_upload: an asset judged before is answered as it is; else the   *)
(* store is asked, with no lock held.                                      *)
AskStore(f) ==
  /\ Asked(f, "confirm")
  /\ IF status[f] # "pending"
       THEN Answer(f, status[f])
       ELSE net' = [net EXCEPT ![f] = Request("confirm", "judged", Outcome(f))] /\ UNCHANGED faults
  /\ UNCHANGED <<browser, asset, other, send>>

Judged(f, outcome) == IF status[f] = "pending" THEN outcome ELSE status[f]

Unlocked(f) == \A m \in Messages : f \notin send[m].locks

(* The update, then the row as it is by now. *)
Confirm(f) ==
  /\ net[f].at = "judged" /\ Unlocked(f)
  /\ status' = [status EXCEPT ![f] = Judged(f, net[f].with)]
  /\ Answer(f, status'[f])
  /\ UNCHANGED <<browser, object, claim, other, send>>

(* A client that confirms by itself, early or again. *)
AskElsewhere(f) ==
  /\ other[f] = "no" /\ status[f] = "pending" /\ Fault
  /\ other' = [other EXCEPT ![f] = Outcome(f)]
  /\ UNCHANGED <<browser, net, asset, send>>

ConfirmElsewhere(f) ==
  /\ other[f] \in {"ready", "failed"} /\ Unlocked(f)
  /\ status' = [status EXCEPT ![f] = Judged(f, other[f])]
  /\ other' = [other EXCEPT ![f] = "done"]
  /\ UNCHANGED <<browser, net, object, claim, send, faults>>

-----------------------------------------------------------------------------
(* Sends. *)

Sent(ids, to, tab) == [at |-> "sent", ids |-> ids, to |-> to, locks |-> {}, tab |-> tab]

(* Every chip is ready and there are not too many: the chips leave. *)
Submit(c, m) ==
  /\ send[m] = NoSend /\ chips[c] # <<>> /\ Len(chips[c]) <= MaxFiles
  /\ \A f \in Chips(c) : look[f] = "ready"
  /\ send' = [send EXCEPT ![m] = Sent(chips[c], c, "waiting")]
  /\ chips' = [chips EXCEPT ![c] = <<>>]
  /\ UNCHANGED <<look, live, chosen, dropped, net, asset, other, faults>>

FewAndDifferent(ids) == Len(ids) <= MaxFiles /\ IsInjective(ids)

(* Another client of the person sends over REST, with ids as it likes. *)
Post(m, ids) ==
  /\ send[m] = NoSend /\ FewAndDifferent(ids)
  /\ \A f \in ToSet(ids) : status[f] # "none"
  /\ send' = [send EXCEPT ![m] = Sent(ids, None, "no")]
  /\ UNCHANGED <<browser, net, asset, other, faults>>

Wanted(m) == ToSet(send[m].ids) \ send[m].locks

(* Mutant: rows are locked in the order they are named. *)
NextLockAsNamed(m) == send[m].ids[CHOOSE i \in DOMAIN send[m].ids :
                        /\ send[m].ids[i] \in Wanted(m)
                        /\ \A j \in 1 .. i - 1 : send[m].ids[j] \notin Wanted(m)]

NextLock(m) == CHOOSE f \in Wanted(m) : \A g \in Wanted(m) : f <= g

CanLock(m) == Wanted(m) # {} => Unlocked(NextLock(m))

Lock(m) ==
  /\ send[m].at = "sent" /\ Wanted(m) # {} /\ CanLock(m)
  /\ send' = [send EXCEPT ![m].locks = @ \cup {NextLock(m)}]
  /\ UNCHANGED <<browser, net, asset, other, faults>>

(* Mutant: an asset on another message goes on this one too. *)
ClaimableShared(m, f) == status[f] = "ready"

Claimable(m, f) == status[f] = "ready" /\ claim[f] \in {None, m}

(* Mutant: what can be claimed is, though the rest is refused. *)
ClaimedInPart(m) ==
  [f \in Files |-> IF f \in send[m].locks /\ Claimable(m, f) THEN m ELSE claim[f]]

(* All are judged before any is written. *)
Claimed(m) ==
  IF \A f \in send[m].locks : Claimable(m, f)
    THEN [f \in Files |-> IF f \in send[m].locks /\ claim[f] = None THEN m ELSE claim[f]]
    ELSE claim

Claim(m) ==
  /\ send[m].at = "sent" /\ Wanted(m) = {}
  /\ claim' = Claimed(m)
  /\ send' = [send EXCEPT ![m].locks = {},
       ![m].at = IF \A f \in send[m].locks : Claimable(m, f) THEN "claimed" ELSE "refused"]
  /\ UNCHANGED <<browser, net, object, status, other, faults>>

(* Asset does not answer, before the claim or after it, or the insert      *)
(* fails: the send is refused, and what was claimed stays claimed.         *)
Unavailable(m) ==
  /\ send[m].at \in {"sent", "claimed"} /\ Fault
  /\ send' = [send EXCEPT ![m].locks = {}, ![m].at = "refused"]
  /\ UNCHANGED <<browser, net, asset, other>>

Save(m) ==
  /\ send[m].at = "claimed" /\ send' = [send EXCEPT ![m].at = "saved"]
  /\ UNCHANGED <<browser, net, asset, other, faults>>

(* A tombstone: what it had attached stays in both databases. *)
Delete(m) ==
  /\ send[m].at = "saved" /\ send' = [send EXCEPT ![m].at = "deleted"]
  /\ UNCHANGED <<browser, net, asset, other, faults>>

(* Messaging's own record: nothing is on a message that was deleted. *)
OnMessage(m, f) == send[m].at = "saved" /\ f \in ToSet(send[m].ids)

Opens(m, f) == claim[f] = m /\ status[f] = "ready"

(* attachment_download_url: what the link to a file of a message answers.  *)
(* Asset, which knows of no deletion, is asked last.                       *)
Link(m, f) == IF OnMessage(m, f) /\ Opens(m, f) THEN "url" ELSE "not found"

(* onSuccess, on the ack; the message may be deleted by then. *)
Acked(m) ==
  /\ send[m].tab = "waiting" /\ send[m].at \in {"saved", "deleted"}
  /\ send' = [send EXCEPT ![m].tab = "acked"]
  /\ UNCHANGED <<browser, net, asset, other, faults>>

(* Mutant: what was attached meanwhile is replaced. *)
RestoredOver(m) == [chips EXCEPT ![send[m].to] = send[m].ids]

(* The chips of a send go in front of what was attached meanwhile. *)
Restored(m) == [chips EXCEPT ![send[m].to] = send[m].ids \o @]

(* onError: a refusal, or five seconds without an ack, whatever the server *)
(* makes of the send.                                                      *)
Failed(m) ==
  /\ send[m].tab = "waiting"
  /\ IF send[m].at = "refused" THEN UNCHANGED faults ELSE Fault
  /\ chips' = Restored(m)
  /\ send' = [send EXCEPT ![m].tab = "failed"]
  /\ UNCHANGED <<look, live, chosen, dropped, net, asset, other>>

Next ==
  \/ \E c \in Channels :
       \/ \E n \in 1 .. MaxFiles : \E bad \in SUBSET (chosen + 1 .. chosen + n) : AddFiles(c, n, bad)
       \/ \E i \in DOMAIN chips[c] : Discard(c, i)
       \/ \E m \in Messages : Submit(c, m)
  \/ Switch
  \/ \E f \in Files :
       \/ Advance(f) \/ Fails(f) \/ Reserve(f) \/ Put(f)
       \/ AskStore(f) \/ Confirm(f) \/ AskElsewhere(f) \/ ConfirmElsewhere(f)
  \/ \E m \in Messages :
       \/ \E n \in 1 .. MaxFiles : \E ids \in [1 .. n -> Files] : Post(m, ids)
       \/ Lock(m) \/ Claim(m) \/ Unavailable(m) \/ Save(m) \/ Delete(m) \/ Acked(m) \/ Failed(m)

Spec == Init /\ [][Next]_vars

-----------------------------------------------------------------------------
(* The state is well formed; one send at a time holds the lock of a row,   *)
(* and an upload still awaited has its chip (uploads.ts 65-75).            *)
TypeOK ==
  /\ \A c \in Channels : chips[c] \in Seq(Files)
  /\ \A f \in Files :
       /\ look[f] \in {"none", "uploading", "ready", "failed"}
       /\ claim[f] \in Messages \cup {None}
       /\ Cardinality({m \in Messages : f \in send[m].locks}) <= 1
       /\ f \in live => ~Gone(f) /\ look[f] = "uploading"
  /\ \A m \in Messages : send[m].locks \subseteq ToSet(send[m].ids)

(* uploads.ts 13-15, useMessages.ts 394-401: a file chosen is in exactly    *)
(* one place, a chip, a send awaited, a message acknowledged, or dropped by *)
(* the person, whatever uploads and sends are under way.                   *)
OnePlace ==
  TypeOK /\ \A f \in 1 .. chosen :
    1 = Cardinality(UNION {{<<c, i>> : i \in {j \in DOMAIN chips[c] : chips[c][j] = f}} :
                              c \in Channels})
        + Cardinality({m \in Messages : send[m].tab \in {"waiting", "acked"} /\ f \in ToSet(send[m].ids)})
        + (IF f \in dropped THEN 1 ELSE 0)

(* internal.py 50-57, 113-117, attachments.py 103-108: every file a saved  *)
(* message names can be fetched through that message until it is deleted,  *)
(* and from then on through no message, whatever was sent with it; and an  *)
(* asset that was ready once is never judged again (assets.py 158-160), so *)
(* a chip that says ready can be sent.                                     *)
SavedFilesOpen ==
  /\ \A m \in Messages : \A f \in ToSet(send[m].ids) :
       /\ send[m].at = "saved" => Link(m, f) = "url"
       /\ send[m].at = "deleted" => \A n \in Messages : Link(n, f) # "url"
  /\ \A f \in Files : look[f] = "ready" => status[f] = "ready"

(* internal.py 12-13: a message holds all the assets its send named, or    *)
(* none of them, however the claim, its answer and the insert fail.        *)
AllOrNone ==
  \A m \in Messages :
    LET held == {f \in Files : claim[f] = m}
    IN  held = {} \/ held = ToSet(send[m].ids)

(* internal.py 55-56: sends that name the same assets in other orders      *)
(* never wait for each other in a circle.                                  *)
NoStandoff ==
  LET sent == {m \in Messages : send[m].at = "sent"}
  IN  sent = {} \/ \E m \in sent : CanLock(m)
=============================================================================
