-------------------------- MODULE StreamConsumer --------------------------
(***************************************************************************)
(* The Worker's job consumers on one Redis stream: services/worker,        *)
(* consumer.py.  Several consumer processes of one consumer group read,    *)
(* run, complete, reclaim and dead-letter the same entries; each action is *)
(* one Redis command (or MULTI block), or one outcome of a handler, so the *)
(* model interleaves the consumers wherever the code awaits.               *)
(*                                                                         *)
(* Time is abstracted to what the visibility timeout tells apart: `fresh`  *)
(* lists the delivered batches, oldest first, whose entries are not yet    *)
(* idle for the timeout, and Age makes the oldest of them idle.            *)
(***************************************************************************)
EXTENDS Naturals, Sequences, FiniteSets

CONSTANTS
  Consumers,     \* the consumer processes of the group
  MaxEntries,    \* how many jobs producers add
  EntryKind,     \* what each entry holds: a known job, an unknown type, junk
  BatchSize,     \* ConsumerConfig.batch_size
  MaxAttempts,   \* ConsumerConfig.max_attempts
  MaxFaults      \* bound on faults: Redis errors, stops, crashes, lost streams

Entries == 1 .. MaxEntries
Kinds == {"job", "unknown-type", "malformed"}

ASSUME ConsumerConfigAssumption ==
  /\ MaxEntries \in Nat
  /\ EntryKind \in [Entries -> Kinds]
  /\ BatchSize \in Nat \ {0}
  /\ MaxAttempts \in Nat \ {0}
  /\ MaxFaults \in Nat

VARIABLES
  (* Redis R3 *)
  lastAdded,  \* the id of the newest entry ever added
  stream,     \* entries in the stream
  hasGroup,   \* whether the consumer group exists
  lastRead,   \* the group's last-delivered id
  pending,    \* the group's pending entries list
  times,      \* delivery count of each entry
  fresh,      \* delivered batches not yet idle for the visibility timeout
  dead,       \* the dead-letter stream: entry, reason, reported deliveries
  (* each consumer process *)
  pc,         \* where it is
  stop,       \* its stop event
  ready,      \* group_ready
  mode,       \* whether the entries in hand were read new or reclaimed
  cursor,     \* XAUTOCLAIM start id of the next page; 0 is "0-0"
  todo,       \* entries in hand, taken in id order
  told,       \* the delivery count the consumer has for each entry in hand
  reason,     \* why the entry in hand is to be dead-lettered
  (* history, not in the code *)
  mine,       \* which delivery gave a consumer each entry in hand
  ran,        \* for each entry, the deliveries that ran its handler
  done,       \* entries a handler run succeeded for
  lost,       \* entries that went with a lost stream
  faults      \* faults so far

redisVars == <<lastAdded, stream, hasGroup, lastRead, pending, times, fresh, dead>>
procVars  == <<pc, stop, ready, mode, cursor, todo, told, reason>>
ghostVars == <<mine, ran, done, lost, faults>>
vars == <<redisVars, procVars, ghostVars>>

-----------------------------------------------------------------------------
(* Sets of stream ids stand for the id-ordered lists Redis returns. *)

First(ids) == CHOOSE e \in ids : \A f \in ids : e <= f

Last(ids) == CHOOSE e \in ids : \A f \in ids : f <= e

(* The n lowest ids: what COUNT n leaves of an id-ordered reply. *)
Lowest(ids, n) == {e \in ids : Cardinality({f \in ids : f < e}) < n}

Idle(e) == \A i \in 1 .. Len(fresh) : e \notin fresh[i]

Reasons == {"malformed-envelope", "max-attempts", "unknown-type", "permanent"}

Commands == {"body", "claim", "counts", "read", "complete", "bury"}

Labels == Commands \cup {"loop", "entry", "run", "exited"}

(* Mutant: an attempts test that no longer guards a job. *)
TriageForgetsAttempts(kind, deliveries) ==
  IF kind = "job" THEN "run" ELSE "malformed-envelope"

(* triage: what happens to an entry before any handler is called.  The     *)
(* order is malformed, then attempts, then type.                           *)
Triage(kind, deliveries) ==
  CASE kind = "malformed"        -> "malformed-envelope"
    [] kind # "malformed" /\ deliveries > MaxAttempts -> "max-attempts"
    [] kind = "unknown-type" /\ deliveries <= MaxAttempts -> "unknown-type"
    [] OTHER -> "run"

-----------------------------------------------------------------------------
(* Where a consumer goes next. *)

(* The loop body: past the `while not stop.is_set()` test with the group   *)
(* ensured.                                                                *)
InLoop(c) == pc[c] = "body" \/ (pc[c] = "loop" /\ ~stop[c] /\ ready[c])

GoTo(c, label) == pc' = [pc EXCEPT ![c] = label]

(* The consumer keeps the entries of ids in hand, with what it knows of    *)
(* them, and forgets the rest.                                             *)
Keep(c, ids) ==
  LET kept(f) == [f EXCEPT ![c] = [e \in Entries |-> IF e \in ids THEN @[e] ELSE 0]]
  IN  /\ todo' = [todo EXCEPT ![c] = ids]
      /\ told' = kept(told)
      /\ mine' = kept(mine)

(* An exception leaves the loop body: the entries in hand are dropped and  *)
(* the group is ensured again before anything else.                        *)
Abort(c) ==
  /\ GoTo(c, "loop")
  /\ ready' = [ready EXCEPT ![c] = FALSE]
  /\ cursor' = [cursor EXCEPT ![c] = 0]
  /\ Keep(c, {})
  /\ UNCHANGED <<stop, mode, reason>>

(* The reply of a command that did take effect is lost on its way back. *)
LostReply(c) ==
  /\ faults < MaxFaults
  /\ faults' = faults + 1
  /\ Abort(c)

(* Where the loops of _read_new and _reclaim go when nothing is in hand:   *)
(* _read_new returns to `run`; _reclaim asks for the next page or, at the  *)
(* end of the pending list, lets `run` go on to _read_new.                 *)
AfterBatch(m, cur) ==
  IF m = "new" THEN "loop" ELSE IF cur = 0 THEN "read" ELSE "claim"

(* The entry in hand is finished with, one way or another.  _read_new      *)
(* returns here once stop is set; the loop in _reclaim does not look.      *)
EntryDone(c) ==
  LET left == IF mode[c] = "new" /\ stop[c]
                THEN {} ELSE todo[c] \ {First(todo[c])}
  IN  /\ Keep(c, left)
      /\ GoTo(c, IF left = {} THEN AfterBatch(mode[c], cursor[c]) ELSE "entry")
      /\ UNCHANGED <<stop, ready, mode, cursor, reason>>

-----------------------------------------------------------------------------
Init ==
  /\ lastAdded = 0
  /\ stream = {}
  /\ hasGroup = FALSE
  /\ lastRead = 0
  /\ pending = {}
  /\ times = [e \in Entries |-> 0]
  /\ fresh = <<>>
  /\ dead = {}
  /\ pc = [c \in Consumers |-> "loop"]
  /\ stop = [c \in Consumers |-> FALSE]
  /\ ready = [c \in Consumers |-> FALSE]
  /\ mode = [c \in Consumers |-> "new"]
  /\ cursor = [c \in Consumers |-> 0]
  /\ todo = [c \in Consumers |-> {}]
  /\ told = [c \in Consumers |-> [e \in Entries |-> 0]]
  /\ reason = [c \in Consumers |-> "permanent"]
  /\ mine = [c \in Consumers |-> [e \in Entries |-> 0]]
  /\ ran = [e \in Entries |-> {}]
  /\ done = {}
  /\ lost = {}
  /\ faults = 0

(* JobQueue.enqueue: a producer XADDs the next entry. *)
Enqueue ==
  /\ lastAdded < MaxEntries
  /\ lastAdded' = lastAdded + 1
  /\ stream' = stream \cup {lastAdded + 1}
  /\ UNCHANGED <<hasGroup, lastRead, pending, times, fresh, dead>>
  /\ UNCHANGED <<procVars, ghostVars>>

(* Mutant: a group created at "$" starts behind what was already added. *)
EnsureGroupAtEnd(c) ==
  /\ pc[c] = "loop" /\ ~stop[c] /\ ~ready[c]
  /\ hasGroup' = TRUE
  /\ lastRead' = IF hasGroup THEN lastRead ELSE lastAdded
  /\ ready' = [ready EXCEPT ![c] = TRUE]
  /\ GoTo(c, "body")
  /\ UNCHANGED <<lastAdded, stream, pending, times, fresh, dead>>
  /\ UNCHANGED <<stop, mode, cursor, todo, told, reason, ghostVars>>

(* _ensure_group: XGROUP CREATE ... id="0" MKSTREAM; BUSYGROUP is fine. *)
EnsureGroup(c) ==
  /\ pc[c] = "loop" /\ ~stop[c] /\ ~ready[c]
  /\ hasGroup' = TRUE
  /\ lastRead' = IF hasGroup THEN lastRead ELSE 0
  /\ ready' = [ready EXCEPT ![c] = TRUE]
  /\ GoTo(c, "body")
  /\ UNCHANGED <<lastAdded, stream, pending, times, fresh, dead>>
  /\ UNCHANGED <<stop, mode, cursor, todo, told, reason, ghostVars>>

(* Redis delivers the entries of got: their counts go up and they are not  *)
(* idle any more.                                                          *)
Deliver(got) ==
  /\ pending' = pending \cup got
  /\ times' = [e \in Entries |-> IF e \in got THEN times[e] + 1 ELSE times[e]]
  /\ fresh' = IF got = {} THEN fresh ELSE Append(fresh, got)

(* The consumer has them in hand, with `count` as their delivery count. *)
Take(c, got, count) ==
  /\ todo' = [todo EXCEPT ![c] = got]
  /\ told' = [told EXCEPT ![c] = [e \in Entries |-> IF e \in got THEN count ELSE 0]]
  /\ mine' = [mine EXCEPT ![c] =
                [e \in Entries |-> IF e \in got THEN times[e] + 1 ELSE 0]]

(* _read_new: XREADGROUP ">" COUNT batch.  Every entry of the reply has    *)
(* been delivered, whether or not the consumer gets to it.                 *)
ReadNew(c) ==
  /\ InLoop(c) \/ pc[c] = "read"
  /\ hasGroup
  /\ LET got == Lowest({e \in stream : e > lastRead}, BatchSize) IN
       /\ Deliver(got)
       /\ lastRead' = IF got = {} THEN lastRead ELSE Last(got)
       /\ \/ /\ Take(c, got, 1)
             /\ mode' = [mode EXCEPT ![c] = "new"]
             /\ GoTo(c, IF got = {} THEN "loop" ELSE "entry")
             /\ UNCHANGED <<stop, ready, cursor, reason, faults>>
          \/ LostReply(c)
  /\ UNCHANGED <<lastAdded, stream, hasGroup, dead, ran, done, lost>>

(* One page of _reclaim: XAUTOCLAIM from the cursor.  The page ends at the *)
(* COUNT-th idle entry, and the next cursor is the pending entry after it. *)
Claim(c) ==
  /\ InLoop(c) \/ pc[c] = "claim"
  /\ ~stop[c]
  /\ hasGroup
  /\ LET idle == {e \in pending : e >= cursor[c] /\ Idle(e)}
         got  == Lowest(idle, BatchSize)
         rest == IF Cardinality(got) < BatchSize
                   THEN {} ELSE {e \in pending : e > Last(got)}
         next == IF rest = {} THEN 0 ELSE First(rest)
     IN  /\ Deliver(got)
         /\ \/ /\ Take(c, got, 0)
               /\ mode' = [mode EXCEPT ![c] = "reclaim"]
               /\ cursor' = [cursor EXCEPT ![c] = next]
               /\ GoTo(c, IF got = {} THEN AfterBatch("reclaim", next) ELSE "counts")
               /\ UNCHANGED <<stop, ready, reason, faults>>
            \/ LostReply(c)
  /\ UNCHANGED <<lastAdded, stream, hasGroup, lastRead, dead, ran, done, lost>>

(* _delivery_counts: XPENDING over the page's id range, COUNT entries of   *)
(* the whole group, and max_attempts + 1 for an entry it did not report.   *)
Counts(c) ==
  /\ pc[c] = "counts"
  /\ hasGroup
  /\ LET page == {e \in pending : First(todo[c]) <= e /\ e <= Last(todo[c])}
         rows == Lowest(page, Cardinality(todo[c]))
     IN  told' = [told EXCEPT ![c] =
                   [e \in Entries |-> IF e \notin todo[c] THEN @[e]
                                       ELSE IF e \in rows THEN times[e]
                                       ELSE MaxAttempts + 1]]
  /\ GoTo(c, "entry")
  /\ UNCHANGED <<redisVars, stop, ready, mode, cursor, todo, reason, ghostVars>>

(* `while not stop.is_set()` ends _reclaim; `run` still calls _read_new. *)
StopReclaim(c) ==
  /\ pc[c] = "claim" /\ stop[c]
  /\ cursor' = [cursor EXCEPT ![c] = 0]
  /\ GoTo(c, "read")
  /\ UNCHANGED <<redisVars, stop, ready, mode, todo, told, reason, ghostVars>>

(* _process up to the handler call: triage the lowest entry in hand. *)
Process(c) ==
  /\ pc[c] = "entry"
  /\ LET e == First(todo[c])
         verdict == Triage(EntryKind[e], told[c][e])
     IN  IF verdict = "run"
           THEN /\ GoTo(c, "run")
                /\ ran' = [ran EXCEPT ![e] = @ \cup {mine[c][e]}]
                /\ UNCHANGED reason
           ELSE /\ GoTo(c, "bury")
                /\ reason' = [reason EXCEPT ![c] = verdict]
                /\ UNCHANGED ran
  /\ UNCHANGED <<redisVars, stop, ready, mode, cursor, todo, told>>
  /\ UNCHANGED <<mine, done, lost, faults>>

(* The handler returns. *)
HandlerSucceeds(c) ==
  /\ pc[c] = "run"
  /\ done' = done \cup {First(todo[c])}
  /\ GoTo(c, "complete")
  /\ UNCHANGED <<redisVars, stop, ready, mode, cursor, todo, told, reason>>
  /\ UNCHANGED <<mine, ran, lost, faults>>

(* The handler raises PermanentJobError. *)
HandlerRefuses(c) ==
  /\ pc[c] = "run"
  /\ reason' = [reason EXCEPT ![c] = "permanent"]
  /\ GoTo(c, "bury")
  /\ UNCHANGED <<redisVars, stop, ready, mode, cursor, todo, told, ghostVars>>

(* The handler raises anything else: the entry stays pending. *)
HandlerFails(c) ==
  /\ pc[c] = "run"
  /\ EntryDone(c)
  /\ UNCHANGED <<redisVars, ran, done, lost, faults>>

(* Mutant: XACK without XDEL. *)
RemoveAckOnly(e) ==
  /\ pending' = pending \ {e}
  /\ fresh' = [i \in 1 .. Len(fresh) |-> fresh[i] \ {e}]
  /\ UNCHANGED <<stream, lastAdded, hasGroup, lastRead, times>>

(* XACK and XDEL of the entry in hand, both or neither. *)
Remove(e) ==
  /\ stream' = stream \ {e}
  /\ pending' = pending \ {e}
  /\ fresh' = [i \in 1 .. Len(fresh) |-> fresh[i] \ {e}]
  /\ UNCHANGED <<lastAdded, hasGroup, lastRead, times>>

(* _complete: MULTI XACK, XDEL. *)
Complete(c) ==
  /\ pc[c] = "complete"
  /\ Remove(First(todo[c]))
  /\ (EntryDone(c) /\ UNCHANGED faults) \/ LostReply(c)
  /\ UNCHANGED <<dead, ran, done, lost>>

(* _dead_letter: MULTI XADD to the dead stream, XACK, XDEL. *)
Bury(c) ==
  /\ pc[c] = "bury"
  /\ LET e == First(todo[c]) IN
       /\ Remove(e)
       /\ dead' = dead \cup {[entry |-> e, reason |-> reason[c], deliveries |-> told[c][e]]}
  /\ (EntryDone(c) /\ UNCHANGED faults) \/ LostReply(c)
  /\ UNCHANGED <<ran, done, lost>>

(* A command fails without taking effect: Redis is unreachable. *)
RedisError(c) ==
  /\ \/ pc[c] \in Commands
     \/ pc[c] = "loop" /\ ~stop[c]
  /\ faults < MaxFaults
  /\ faults' = faults + 1
  /\ Abort(c)
  /\ UNCHANGED <<redisVars, ran, done, lost>>

(* XREADGROUP, XAUTOCLAIM and XPENDING answer NOGROUP. *)
NoGroup(c) ==
  /\ ~hasGroup
  /\ InLoop(c) \/ pc[c] \in {"claim", "counts", "read"}
  /\ pc[c] = "claim" => ~stop[c]
  /\ Abort(c)
  /\ UNCHANGED <<redisVars, ran, done, lost, faults>>

(* SIGTERM sets the stop event, from the event loop: where the consumer    *)
(* awaits, never between two entries.                                      *)
Stop(c) ==
  /\ ~stop[c] /\ pc[c] \notin {"entry", "exited"}
  /\ faults < MaxFaults
  /\ faults' = faults + 1
  /\ stop' = [stop EXCEPT ![c] = TRUE]
  /\ UNCHANGED <<redisVars, pc, ready, mode, cursor, todo, told, reason>>
  /\ UNCHANGED <<mine, ran, done, lost>>

Exit(c) ==
  /\ pc[c] = "loop" /\ stop[c]
  /\ GoTo(c, "exited")
  /\ UNCHANGED <<redisVars, stop, ready, mode, cursor, todo, told, reason, ghostVars>>

(* A process starts with nothing in hand: after an exit, or after a crash. *)
Begin(c) ==
  /\ GoTo(c, "loop")
  /\ stop' = [stop EXCEPT ![c] = FALSE]
  /\ ready' = [ready EXCEPT ![c] = FALSE]
  /\ cursor' = [cursor EXCEPT ![c] = 0]
  /\ Keep(c, {})
  /\ UNCHANGED <<redisVars, mode, reason, ran, done, lost>>

Restart(c) == pc[c] = "exited" /\ Begin(c) /\ UNCHANGED faults

Crash(c) ==
  /\ pc[c] # "exited"
  /\ faults < MaxFaults
  /\ faults' = faults + 1
  /\ Begin(c)

(* The visibility timeout of the oldest delivered batch passes. *)
Age ==
  /\ fresh # <<>>
  /\ fresh' = Tail(fresh)
  /\ UNCHANGED <<lastAdded, stream, hasGroup, lastRead, pending, times, dead>>
  /\ UNCHANGED <<procVars, ghostVars>>

(* R3 loses the stream: the key and its group are gone. *)
LoseStream ==
  /\ hasGroup
  /\ faults < MaxFaults
  /\ faults' = faults + 1
  /\ lost' = lost \cup stream
  /\ stream' = {}
  /\ hasGroup' = FALSE
  /\ pending' = {}
  /\ fresh' = <<>>
  /\ UNCHANGED <<lastAdded, lastRead, times, dead, procVars, mine, ran, done>>

Work(c) ==
  \/ EnsureGroup(c) \/ ReadNew(c) \/ Claim(c) \/ Counts(c) \/ StopReclaim(c)
  \/ Process(c) \/ HandlerSucceeds(c) \/ HandlerRefuses(c) \/ HandlerFails(c)
  \/ Complete(c) \/ Bury(c) \/ NoGroup(c) \/ Exit(c) \/ Restart(c)

Next ==
  \/ Enqueue \/ Age \/ LoseStream
  \/ \E c \in Consumers : Work(c) \/ RedisError(c) \/ Stop(c) \/ Crash(c)

Spec == Init /\ [][Next]_vars

(* Every loop keeps turning: an await returns or raises, a process that    *)
(* exited is started again by its deployment, timeouts pass, and since     *)
(* next_reclaim is a time the reclaim comes round again and again.         *)
Fairness ==
  /\ WF_vars(Age)
  /\ \A c \in Consumers : WF_vars(Work(c)) /\ SF_vars(Claim(c)) /\ SF_vars(ReadNew(c))

FairSpec == Spec /\ Fairness

-----------------------------------------------------------------------------
(* Properties *)

DeadEntries == {d.entry : d \in dead}

(* Type invariant, with what a consumer's program counter says of its hand:*)
(* it has entries in hand exactly where the code is inside a batch.        *)
TypeOK ==
  /\ lastAdded \in 0 .. MaxEntries
  /\ stream \subseteq 1 .. lastAdded
  /\ hasGroup \in BOOLEAN
  /\ lastRead \in 0 .. lastAdded
  /\ pending \subseteq stream
  /\ times \in [Entries -> Nat]
  /\ fresh \in Seq(SUBSET Entries)
  /\ dead \subseteq [entry : Entries, reason : Reasons, deliveries : Nat]
  /\ pc \in [Consumers -> Labels]
  /\ stop \in [Consumers -> BOOLEAN]
  /\ ready \in [Consumers -> BOOLEAN]
  /\ mode \in [Consumers -> {"new", "reclaim"}]
  /\ cursor \in [Consumers -> 0 .. MaxEntries]
  /\ todo \in [Consumers -> SUBSET Entries]
  /\ told \in [Consumers -> [Entries -> Nat]]
  /\ reason \in [Consumers -> Reasons]
  /\ mine \in [Consumers -> [Entries -> Nat]]
  /\ ran \in [Entries -> SUBSET Nat]
  /\ done \subseteq Entries
  /\ lost \subseteq Entries
  /\ faults \in 0 .. MaxFaults
  /\ \A c \in Consumers :
       todo[c] # {} <=> pc[c] \in {"counts", "entry", "run", "complete", "bury"}

(* While the group exists, an entry still in the stream is either unread   *)
(* or pending, so some XREADGROUP or XAUTOCLAIM can still deliver it: none *)
(* is in the stream with nobody ever to process or delete it.              *)
NoLimbo ==
  hasGroup => \A e \in stream : e > lastRead \/ e \in pending

(* The consumers implement the contract of a job stream. *)
Delivery == INSTANCE JobDelivery WITH
  added <- 1 .. lastAdded, live <- stream, buried <- DeadEntries

ImplementsJobDelivery == Delivery!Spec

(* Whatever fails a bounded number of times, every job leaves the stream.  *)
EveryJobLeaves ==
  \A e \in Entries : e \in stream ~> e \notin stream
============================================================================
