---------------------------- MODULE KeyCache ----------------------------
(***************************************************************************)
(* Checking a token (shared: keys.py, security.py, denylist.py): a service *)
(* caches the keys Auth publishes, refreshes them under a lock, on a       *)
(* schedule and when a token names a key it does not hold, and asks the    *)
(* denylist in R1 whether the token was revoked.  A socket's token is      *)
(* checked so once, as it connects (messaging: realtime.py); what the      *)
(* connection then sends is checked again for the rest                     *)
(* (realtime_writes.py), as a token can expire or be revoked meanwhile.    *)
(*                                                                         *)
(* Times are what their comparisons say: `stale` is the hour since the     *)
(* last good fetch, `retry` and `missed` the floors after a failed fetch   *)
(* and after a kid-miss.                                                   *)
(***************************************************************************)
EXTENDS Naturals

CONSTANTS
  Kids,       \* keys Auth comes to publish
  Forged,     \* a kid that will never exist
  Requests,   \* requests and connections, each with a token of its own
  MaxChanges  \* bound on rotations, outages, revocations and expiries

ASSUME KeyCacheAssumption ==
  /\ Kids # {} /\ Forged \notin Kids
  /\ "nobody" \notin Requests
  /\ MaxChanges \in Nat

VARIABLES
  published,  \* the kids Auth serves
  gone,       \* those it has served and no longer does
  authUp,     \* Auth answers
  r1Up,       \* R1 answers
  revoked,    \* the requests whose token has been revoked
  listed,     \* those of them that R1's denylist holds
  expired,    \* the requests whose token has expired
  keys,       \* the kids held
  stale, retry, missed,
  failed,     \* the last fetch failed
  lock,       \* the request that holds the lock
  req,        \* the requests
  changes,
  fetches     \* fetches since each floor was last lifted

vars == <<published, gone, authUp, r1Up, revoked, listed, expired, keys, stale, retry, missed, failed, lock, req,
          changes, fetches>>

world == <<published, gone, authUp, r1Up, revoked, listed, expired, changes>>

cache == <<keys, stale, retry, missed, failed, fetches>>

Nobody == "nobody"

Routes == {"ordinary", "sensitive", "socket"}

(* `dead` and `over`, which are history: whether its token was revoked, or *)
(* had expired, when the request or the event came; and `blind`: that R1   *)
(* could not be asked about it.                                            *)
Idle == [pc |-> "idle", kid |-> Forged, route |-> "ordinary", reason |-> "none", got |-> {},
         ok |-> FALSE, held |-> FALSE, good |-> FALSE, floored |-> FALSE,
         dead |-> FALSE, over |-> FALSE, blind |-> FALSE]

(* A service that has just started, or one that has fetched. *)
Init ==
  /\ \E k \in Kids : published = {k}
  /\ gone = {} /\ authUp = TRUE /\ r1Up = TRUE /\ revoked = {} /\ listed = {} /\ expired = {}
  /\ stale \in BOOLEAN /\ keys = (IF stale THEN {} ELSE published)
  /\ retry = FALSE /\ missed = FALSE /\ failed = FALSE
  /\ lock = Nobody
  /\ req = [r \in Requests |-> Idle]
  /\ changes = 0
  /\ fetches = [missed |-> 0, retry |-> 0]

-----------------------------------------------------------------------------
(* The world. *)

Changes == changes < MaxChanges /\ changes' = changes + 1

(* A rotation publishes the next key beside the ones there are. *)
Publish ==
  /\ Changes
  /\ \E k \in Kids \ (published \cup gone) : published' = published \cup {k}
  /\ UNCHANGED <<gone, authUp, r1Up, revoked, listed, expired, cache, lock, req>>

(* A key withdrawn spoils the requests that bear it. *)
Withdraw ==
  /\ Changes
  /\ \E k \in published :
       /\ published # {k} /\ published' = published \ {k} /\ gone' = gone \cup {k}
       /\ req' = [r \in Requests |-> IF req[r].kid = k THEN [req[r] EXCEPT !.good = FALSE, !.held = FALSE]
                                     ELSE req[r]]
  /\ UNCHANGED <<authUp, r1Up, revoked, listed, expired, cache, lock>>

AuthFails ==
  /\ Changes /\ authUp /\ authUp' = FALSE
  /\ UNCHANGED <<published, gone, r1Up, revoked, listed, expired, cache, lock, req>>

AuthReturns ==
  /\ ~authUp /\ authUp' = TRUE
  /\ UNCHANGED <<published, gone, r1Up, revoked, listed, expired, changes, cache, lock, req>>

R1Fails ==
  /\ Changes /\ r1Up /\ r1Up' = FALSE
  /\ UNCHANGED <<published, gone, authUp, revoked, listed, expired, cache, lock, req>>

(* After a restart R1 holds what its last snapshot did, which may miss the *)
(* latest revocations.                                                     *)
R1Returns ==
  /\ ~r1Up /\ r1Up' = TRUE
  /\ listed' \in SUBSET listed
  /\ UNCHANGED <<published, gone, authUp, revoked, expired, changes, cache, lock, req>>

(* Time passes. *)
Stales ==
  /\ ~stale /\ Changes /\ stale' = TRUE
  /\ UNCHANGED <<published, gone, authUp, r1Up, revoked, listed, expired, keys, retry, missed, failed, fetches, lock, req>>

RetryLifts ==
  /\ retry /\ retry' = FALSE /\ fetches' = [fetches EXCEPT !.retry = 0]
  /\ UNCHANGED <<world, keys, stale, missed, failed, lock, req>>

MissLifts ==
  /\ missed /\ missed' = FALSE /\ fetches' = [fetches EXCEPT !.missed = 0]
  /\ UNCHANGED <<world, keys, stale, retry, failed, lock, req>>

(* The token of a request under way is revoked: its owner signs out. *)
Revoke(r) ==
  /\ Changes /\ r \notin revoked /\ r1Up
  /\ revoked' = revoked \cup {r} /\ listed' = listed \cup ({r} \ expired)
  /\ UNCHANGED <<published, gone, authUp, r1Up, expired, cache, lock, req>>

(* A revocation is kept until the token would have expired. *)
Expire(r) ==
  /\ Changes /\ r \notin expired
  /\ expired' = expired \cup {r} /\ listed' = listed \ {r}
  /\ UNCHANGED <<published, gone, authUp, r1Up, revoked, cache, lock, req>>

-----------------------------------------------------------------------------
(* key_for. *)

IsStale == stale /\ ~retry

(* What key_for and decode_claims make of a token's kid once no fetch is   *)
(* left to wait for: a key, an outage or an unknown key, and with a key    *)
(* the token's expiry.                                                     *)
Outcome(r, kid, held, fetchFailed) ==
  IF kid \in held THEN IF r \in expired THEN "denied" ELSE "verified"
  ELSE IF fetchFailed THEN "unavailable" ELSE "unknown"

To(r, pc) == req' = [req EXCEPT ![r].pc = pc]

(* The keys a token can name: one that Auth signed it with, withdrawn      *)
(* since or not, or none of Auth's.                                        *)
Signed == published \cup gone \cup {Forged}

(* A key that is held answers at once. *)
Arrive(r) ==
  /\ req[r].pc = "idle"
  /\ \E k \in Signed, route \in Routes :
       LET reason == IF IsStale THEN "scheduled" ELSE IF k \notin keys THEN "kid-miss" ELSE "none"
       IN  req' = [req EXCEPT ![r] = [
                     pc |-> IF reason = "none" THEN Outcome(r, k, keys, failed) ELSE "waiting",
                     kid |-> k, route |-> route, reason |-> reason, got |-> {}, ok |-> FALSE,
                     held |-> k \in keys /\ k \in published, good |-> k \in published,
                     floored |-> FALSE, dead |-> r \in revoked, over |-> r \in expired,
                     blind |-> FALSE]]
  /\ UNCHANGED <<world, cache, lock>>

Fetching(r) ==
  /\ lock' = r /\ To(r, "fetching")
  /\ missed' = (missed \/ req[r].reason = "kid-miss")
  /\ fetches' = IF req[r].reason = "kid-miss" THEN [fetches EXCEPT !.missed = @ + 1] ELSE fetches
  /\ UNCHANGED <<world, keys, stale, retry, failed>>

(* Mutant: a kid-miss that passed its check before it waited. *)
RefreshUnfloored(r) ==
  /\ req[r].pc = "waiting" /\ lock = Nobody
  /\ Fetching(r)

(* _refresh, once it has the lock: another request may have refreshed, or  *)
(* failed, or missed, while this one waited.                               *)
Refresh(r) ==
  /\ req[r].pc = "waiting" /\ lock = Nobody
  /\ IF (req[r].reason = "scheduled" /\ IsStale) \/ (req[r].reason = "kid-miss" /\ ~missed)
       THEN Fetching(r)
       ELSE /\ req' = [req EXCEPT ![r].pc = Outcome(r, req[r].kid, keys, failed),
                                  ![r].floored = req[r].reason = "kid-miss"]
            /\ UNCHANGED <<world, cache, lock>>

(* Auth serves the set it has, or nothing. *)
Serve(r) ==
  /\ req[r].pc = "fetching"
  /\ req' = [req EXCEPT ![r].pc = "served", ![r].got = published, ![r].ok = authUp]
  /\ UNCHANGED <<world, cache, lock>>

Answered(r, held, fetchFailed) ==
  lock' = Nobody /\ To(r, Outcome(r, req[r].kid, held, fetchFailed))

Fetched(r) ==
  /\ req[r].ok
  /\ keys' = req[r].got /\ stale' = FALSE /\ retry' = FALSE /\ failed' = FALSE
  /\ fetches' = [fetches EXCEPT !.retry = 0]
  /\ Answered(r, req[r].got, FALSE)
  /\ UNCHANGED <<world, missed>>

NotFetched(r, left, noted) ==
  /\ ~req[r].ok
  /\ keys' = left /\ retry' = TRUE /\ failed' = noted
  /\ fetches' = IF req[r].reason = "scheduled" THEN [fetches EXCEPT !.retry = @ + 1] ELSE fetches
  /\ Answered(r, left, noted)
  /\ UNCHANGED <<world, stale, missed>>

(* Mutant: a failed fetch leaves no keys. *)
StoredEmpty(r) == req[r].pc = "served" /\ (Fetched(r) \/ NotFetched(r, {}, TRUE))

(* Mutant: a failed fetch is not remembered as a failure. *)
StoredForgetful(r) == req[r].pc = "served" /\ (Fetched(r) \/ NotFetched(r, keys, FALSE))

(* The whole set replaces the one held; a failure keeps it, and sets the   *)
(* floor before the next scheduled fetch.                                  *)
Stored(r) == req[r].pc = "served" /\ (Fetched(r) \/ NotFetched(r, keys, TRUE))

(* state: R1's answer, or that there is none. *)
Asked(r, pc) == req' = [req EXCEPT ![r].pc = pc, ![r].blind = ~r1Up]

(* _check_denylist: without R1 only the sensitive routes refuse. *)
CheckDenylist(r) ==
  /\ req[r].pc = "verified"
  /\ Asked(r, IF r1Up THEN IF r \in listed THEN "revoked" ELSE "accepted"
              ELSE IF req[r].route = "sensitive" THEN "unavailable" ELSE "accepted")
  /\ UNCHANGED <<world, cache, lock>>

-----------------------------------------------------------------------------
(* What a connection sends, once its handshake was accepted. *)

Connected(r) == req[r].route = "socket" /\ req[r].pc \in {"accepted", "refused", "wrote", "typed"}

(* principal_of: the expiry, again, on every event. *)
Event(r, allowed) ==
  /\ Connected(r)
  /\ req' = [req EXCEPT ![r].pc = IF r \in expired THEN "refused" ELSE allowed,
                         ![r].dead = r \in revoked, ![r].over = r \in expired, ![r].blind = FALSE]
  /\ UNCHANGED <<world, cache, lock>>

(* typing: nothing is kept, so the denylist is not asked. *)
Typing(r) == Event(r, "typed")

Write(r) == Event(r, "writing")

(* Mutant: a connection that was let in once is not asked about again. *)
CheckNotRevoked(r) ==
  /\ req[r].pc = "writing"
  /\ To(r, "wrote")
  /\ UNCHANGED <<world, cache, lock>>

(* check_revoked: of the denylist's answers only a revocation refuses. *)
CheckRevoked(r) ==
  /\ req[r].pc = "writing"
  /\ Asked(r, IF r1Up /\ r \in listed THEN "refused" ELSE "wrote")
  /\ UNCHANGED <<world, cache, lock>>

Step(r) ==
  \/ Refresh(r) \/ Serve(r) \/ Stored(r) \/ CheckDenylist(r) \/ CheckRevoked(r)

Next ==
  \/ \E r \in Requests : Arrive(r) \/ Step(r) \/ Typing(r) \/ Write(r) \/ Revoke(r) \/ Expire(r)
  \/ Publish \/ Withdraw \/ AuthFails \/ AuthReturns \/ R1Fails \/ R1Returns
  \/ Stales \/ RetryLifts \/ MissLifts

Spec == Init /\ [][Next]_vars

-----------------------------------------------------------------------------
TypeOK ==
  /\ published \subseteq Kids /\ gone \subseteq Kids /\ keys \subseteq Kids
  /\ revoked \cup expired \subseteq Requests /\ listed \subseteq revoked
  /\ lock \in Requests \cup {Nobody}
  /\ changes \in 0 .. MaxChanges
  /\ \A r \in Requests :
       /\ req[r].pc \in {"idle", "waiting", "fetching", "served", "verified", "revoked",
                         "denied", "unavailable", "unknown", "accepted", "writing", "refused",
                         "wrote", "typed"}
       /\ req[r].pc \in {"fetching", "served"} <=> lock = r

(* keys.py 152-158: a key that verified a token a moment ago still does:   *)
(* while Auth publishes it no outage and no race of refreshes evicts it.   *)
HeldKeyServes ==
  \A r \in Requests : req[r].held => req[r].pc # "unknown"
    /\ (req[r].pc = "unavailable" => req[r].route = "sensitive" /\ req[r].blind)

(* keys.py 40-48: a token whose key was already published when its request *)
(* came is told to sign in again only if the floor after another miss hid  *)
(* the key, or the request waited for a scheduled fetch begun before the   *)
(* key was published: never because Auth could not be asked.               *)
OutageIsNotRefusal ==
  \A r \in Requests : req[r].pc = "unknown" /\ req[r].good =>
    req[r].floored \/ (req[r].reason = "scheduled" /\ req[r].got = {})

(* keys.py 92-100, 139-150: however many requests meet one unknown or      *)
(* stale key at once, one of them fetches at a time (TypeOK's last part)   *)
(* and each floor lets through one fetch.                                  *)
FloorsHold == TypeOK /\ fetches.missed <= 1 /\ fetches.retry <= 1

(* denylist.py 6-13 and realtime_writes.py 31-35: a token revoked before a *)
(* request, or before a write on its connection, came is good for neither  *)
(* while the denylist holds it, whatever R1 and Auth did meanwhile, unless *)
(* R1 could not be asked and the route is not a sensitive one; one that    *)
(* had expired is good for nothing, however long its connection has been   *)
(* open.                                                                   *)
DeadTokensAreOut ==
  \A r \in Requests :
    /\ req[r].pc \in {"accepted", "wrote"} /\ req[r].dead /\ r \in listed =>
         req[r].blind /\ req[r].route # "sensitive"
    /\ req[r].pc \in {"accepted", "wrote", "typed"} => ~req[r].over
=============================================================================
