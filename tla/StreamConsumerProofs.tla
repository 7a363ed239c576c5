------------------------ MODULE StreamConsumerProofs ------------------------
(* Theorems of StreamConsumer, for every value of its constants: the       *)
(* consumers implement the contract of a job stream.                       *)
EXTENDS StreamConsumer, FiniteSetTheorems, SequenceTheorems, WellFoundedInduction, TLAPS

-----------------------------------------------------------------------------
(* The inductive invariant. *)

(* An entry the group has not read has not been delivered, one it has read *)
(* is pending for as long as it is in the stream, and a new group starts   *)
(* with a stream none of whose entries has been delivered.                 *)
ReadInv ==
  /\ \A e \in pending : e <= lastRead
  /\ \A e \in Entries : e > lastAdded => times[e] = 0
  /\ \A e \in stream : e > lastRead => times[e] = 0
  /\ hasGroup => \A e \in stream : e > lastRead \/ e \in pending
  /\ ~hasGroup => pending = {} /\ \A e \in stream : times[e] = 0

Handling == {"run", "complete", "bury"}

Current(c) == First(todo[c])

(* Each entry in hand came with a delivery, the consumer's own.  It has    *)
(* not run the handler yet, unless the entry is the one being handled, and *)
(* the count the consumer was told is no lower or is beyond the limit.     *)
HandInv ==
  \A c \in Consumers : \A e \in todo[c] :
    /\ e <= lastAdded
    /\ mine[c][e] \in 1 .. times[e]
    /\ \A d \in Consumers \ {c} : e \in todo[d] => mine[c][e] # mine[d][e]
    /\ (pc[c] \in Handling /\ e = Current(c)) \/ mine[c][e] \notin ran[e]
    /\ pc[c] # "counts" => mine[c][e] <= told[c][e] \/ told[c][e] > MaxAttempts

(* Only deliveries run the handler, a handler that runs was run, and one   *)
(* whose entry is to be completed has returned.                            *)
RunInv ==
  /\ \A e \in Entries : \A n \in ran[e] : n <= times[e]
  /\ \A c \in Consumers : pc[c] = "run" => ran[Current(c)] # {}
  /\ \A c \in Consumers : pc[c] = "complete" => Current(c) \in done

Inv == TypeOK /\ ReadInv /\ HandInv /\ RunInv

-----------------------------------------------------------------------------
(* Sets of ids *)

(* The sets 0 .. e, e in ids, are finite, so one of them has none of the   *)
(* others as a strict subset.                                              *)
LEMMA Least ==
  ASSUME NEW ids \in SUBSET Nat, ids # {}
  PROVE  \E e \in ids : \A f \in ids : e <= f
<1> DEFINE Below == {0 .. e : e \in ids}
<1>1. Below \subseteq FiniteSubsetsOf(Nat) /\ Below # {}
  <2>1. \A e \in ids : 0 .. e \in SUBSET Nat /\ IsFiniteSet(0 .. e)
    BY FS_Interval
  <2>2. QED
    BY <2>1 DEF FiniteSubsetsOf
<1>2. \E X \in Below : \A Y \in Below : <<Y, X>> \notin StrictSubsetOrdering(Nat)
  <2> HIDE DEF Below
  <2>1. IsWellFoundedOn(StrictSubsetOrdering(Nat), FiniteSubsetsOf(Nat))
    BY FS_StrictSubsetOrderingWellFounded
  <2>2. QED
    BY <1>1, <2>1, WFMin
<1>3. PICK e \in ids : \A f \in ids : <<0 .. f, 0 .. e>> \notin StrictSubsetOrdering(Nat)
  BY <1>2
<1>4. ASSUME NEW f \in ids, f < e PROVE FALSE
  <2>1. 0 .. f \subseteq 0 .. e /\ e \in 0 .. e /\ e \notin 0 .. f
    BY <1>4
  <2>2. <<0 .. f, 0 .. e>> \in StrictSubsetOrdering(Nat)
    BY <2>1 DEF StrictSubsetOrdering
  <2>3. QED
    BY <1>3, <2>2
<1>5. QED
  BY <1>4

LEMMA FirstIsLeast ==
  ASSUME NEW ids \in SUBSET Entries, ids # {}
  PROVE  First(ids) \in ids /\ \A f \in ids : First(ids) <= f
<1>1. ids \in SUBSET Nat
  BY DEF Entries
<1>2. QED
  BY <1>1, Least DEF First

LEMMA LastIsGreatest ==
  ASSUME NEW ids \in SUBSET Entries, ids # {}
  PROVE  Last(ids) \in ids /\ \A f \in ids : f <= Last(ids)
<1> USE ConsumerConfigAssumption DEF Entries
<1> DEFINE Mirror == {MaxEntries - e : e \in ids}
<1>1. Mirror \in SUBSET Nat /\ Mirror # {}
  <2>1. \A e \in ids : MaxEntries - e \in Nat
    OBVIOUS
  <2>2. QED
    BY <2>1
<1>2. PICK d \in Mirror : \A f \in Mirror : d <= f
  <2> HIDE DEF Mirror
  <2>1. QED
    BY <1>1, Least
<1>3. PICK e \in ids : d = MaxEntries - e
  OBVIOUS
<1>4. ASSUME NEW f \in ids PROVE f <= e
  <2>1. MaxEntries - f \in Mirror
    OBVIOUS
  <2>2. e \in Nat /\ f \in Nat
    OBVIOUS
  <2> HIDE DEF Mirror, Entries
  <2>3. MaxEntries - e <= MaxEntries - f
    BY <1>2, <1>3, <2>1
  <2>4. QED
    BY <2>2, <2>3
<1>5. \E x \in ids : \A f \in ids : f <= x
  BY <1>4
<1>6. QED
  BY <1>5 DEF Last

(* COUNT n of an id-ordered reply leaves a prefix of it. *)
LEMMA LowestIsPrefix ==
  ASSUME NEW ids \in SUBSET Entries, NEW n \in Nat
  PROVE  /\ Lowest(ids, n) \subseteq ids
         /\ \A e \in ids : \A f \in Lowest(ids, n) : e < f => e \in Lowest(ids, n)
<1> DEFINE Under(x) == {g \in ids : g < x}
<1>1. Lowest(ids, n) = {x \in ids : Cardinality(Under(x)) < n}
  BY DEF Lowest
<1>2. IsFiniteSet(ids)
  <2>1. IsFiniteSet(Entries)
    BY ConsumerConfigAssumption, FS_Interval DEF Entries
  <2>2. QED
    BY <2>1, FS_Subset
<1>3. ASSUME NEW x \in ids
      PROVE  IsFiniteSet(Under(x)) /\ Cardinality(Under(x)) \in Nat
  <2>1. Under(x) \in SUBSET ids
    OBVIOUS
  <2> HIDE DEF Under
  <2>2. QED
    BY <1>2, <2>1, FS_Subset, FS_CardinalityType
<1>4. ASSUME NEW e \in ids, NEW f \in ids, e < f
      PROVE  Cardinality(Under(e)) <= Cardinality(Under(f))
  <2>1. Under(e) \in SUBSET Under(f)
    <3>1. ids \subseteq Nat
      BY ConsumerConfigAssumption DEF Entries
    <3>2. \A g \in ids : g < e => g < f
      BY <1>4, <3>1
    <3>3. QED
      BY <3>2
  <2> HIDE DEF Under
  <2>2. QED
    BY <1>3, <2>1, FS_Subset
<1> HIDE DEF Under
<1>5. QED
  BY <1>1, <1>3, <1>4

(* A consumer with entries in hand has a current one. *)
LEMMA CurrentInHand ==
  ASSUME TypeOK, NEW c \in Consumers, todo[c] # {}
  PROVE  Current(c) \in todo[c] /\ Current(c) \in Entries /\ todo[c] \subseteq Entries
<1>1. todo[c] \in SUBSET Entries
  BY DEF TypeOK
<1>2. QED
  BY <1>1, FirstIsLeast DEF Current

-----------------------------------------------------------------------------
(* What the parts of the actions do, pointwise. *)

FreshLists == Seq(SUBSET Entries)

Forgotten(c, ids) ==
  /\ todo' \in [Consumers -> SUBSET Entries]
  /\ told' \in [Consumers -> [Entries -> Nat]]
  /\ mine' \in [Consumers -> [Entries -> Nat]]
  /\ todo'[c] = ids
  /\ \A d \in Consumers \ {c} : todo'[d] = todo[d] /\ told'[d] = told[d] /\ mine'[d] = mine[d]
  /\ \A e \in ids : told'[c][e] = told[c][e] /\ mine'[c][e] = mine[c][e]

LEMMA KeepForgets ==
  ASSUME TypeOK, NEW c \in Consumers, NEW ids \in SUBSET Entries, Keep(c, ids)
  PROVE  Forgotten(c, ids)
BY DEF Keep, Forgotten, TypeOK

(* The consumer's control moves and everyone else's stays. *)
Moved(c, label) ==
  /\ pc' \in [Consumers -> Labels]
  /\ pc'[c] = label
  /\ \A d \in Consumers \ {c} : pc'[d] = pc[d]

LEMMA GoToMoves ==
  ASSUME TypeOK, NEW c \in Consumers, NEW label \in Labels, GoTo(c, label)
  PROVE  Moved(c, label)
BY DEF GoTo, Moved, TypeOK

(* What is left of a consumer that drops everything. *)
Dropped(c) ==
  /\ Forgotten(c, {})
  /\ Moved(c, "loop")
  /\ stop' \in [Consumers -> BOOLEAN]
  /\ ready' \in [Consumers -> BOOLEAN]
  /\ cursor' \in [Consumers -> 0 .. MaxEntries]
  /\ UNCHANGED <<mode, reason>>

LEMMA AbortDrops ==
  ASSUME TypeOK, NEW c \in Consumers, Abort(c)
  PROVE  Dropped(c)
<1>1. Forgotten(c, {})
  BY KeepForgets DEF Abort
<1>2. Moved(c, "loop")
  BY GoToMoves DEF Abort, Labels
<1>3. QED
  BY <1>1, <1>2, ConsumerConfigAssumption DEF Abort, Dropped, TypeOK

LEMMA BeginDrops ==
  ASSUME TypeOK, NEW c \in Consumers, Begin(c)
  PROVE  Dropped(c) /\ UNCHANGED <<redisVars, ran, done, lost>>
<1>1. Forgotten(c, {})
  BY KeepForgets DEF Begin
<1>2. Moved(c, "loop")
  BY GoToMoves DEF Begin, Labels
<1>3. QED
  BY <1>1, <1>2, ConsumerConfigAssumption DEF Begin, Dropped, TypeOK

(* The entry in hand is finished with. *)
Finished(c) ==
  /\ \E left \in SUBSET Entries :
       /\ Forgotten(c, left)
       /\ left \subseteq todo[c] \ {Current(c)}
       /\ \E label \in {"loop", "read", "claim", "entry"} :
            Moved(c, label) /\ (left # {} <=> label = "entry")
  /\ UNCHANGED <<stop, ready, mode, cursor, reason>>

LEMMA EntryDoneFinishes ==
  ASSUME TypeOK, NEW c \in Consumers, EntryDone(c)
  PROVE  Finished(c)
<1> DEFINE left == IF mode[c] = "new" /\ stop[c] THEN {} ELSE todo[c] \ {First(todo[c])}
           label == IF left = {} THEN AfterBatch(mode[c], cursor[c]) ELSE "entry"
<1>1. left \in SUBSET Entries /\ left \subseteq todo[c] \ {Current(c)}
  BY DEF TypeOK, Current
<1>2. Keep(c, left) /\ GoTo(c, label) /\ UNCHANGED <<stop, ready, mode, cursor, reason>>
  BY DEF EntryDone
<1>3. label \in {"loop", "read", "claim", "entry"} /\ (left # {} <=> label = "entry")
  BY DEF AfterBatch
<1> HIDE DEF left, label
<1>4. Forgotten(c, left)
  BY <1>1, <1>2, KeepForgets
<1>5. Moved(c, label)
  BY <1>2, <1>3, GoToMoves DEF Labels, Commands
<1>6. QED
  BY <1>1, <1>2, <1>3, <1>4, <1>5 DEF Finished

(* Redis delivers the entries of got. *)
Delivered(got) ==
  /\ pending' = pending \cup got
  /\ times' \in [Entries -> Nat]
  /\ \A e \in Entries : times'[e] = IF e \in got THEN times[e] + 1 ELSE times[e]
  /\ fresh' \in FreshLists

LEMMA DeliverDelivers ==
  ASSUME TypeOK, NEW got \in SUBSET Entries, Deliver(got)
  PROVE  Delivered(got)
<1>1. fresh' \in FreshLists
  BY AppendProperties DEF Deliver, FreshLists, TypeOK
<1>2. QED
  BY <1>1 DEF Deliver, Delivered, TypeOK

(* A consumer takes what was delivered to it. *)
Taken(c, got, count) ==
  /\ todo' \in [Consumers -> SUBSET Entries]
  /\ told' \in [Consumers -> [Entries -> Nat]]
  /\ mine' \in [Consumers -> [Entries -> Nat]]
  /\ todo'[c] = got
  /\ \A d \in Consumers \ {c} : todo'[d] = todo[d] /\ told'[d] = told[d] /\ mine'[d] = mine[d]
  /\ \A e \in got : told'[c][e] = count /\ mine'[c][e] = times[e] + 1

LEMMA TakeTakes ==
  ASSUME TypeOK, NEW c \in Consumers, NEW got \in SUBSET Entries, NEW count \in Nat,
         Take(c, got, count)
  PROVE  Taken(c, got, count)
BY DEF Take, Taken, TypeOK

LEMMA RemoveRemoves ==
  ASSUME TypeOK, NEW e \in Entries, Remove(e)
  PROVE  fresh' \in FreshLists
<1>1. Len(fresh) \in Nat /\ \A i \in 1 .. Len(fresh) : fresh[i] \in SUBSET Entries
  BY DEF TypeOK
<1>2. fresh' \in [1 .. Len(fresh) -> SUBSET Entries]
  BY <1>1 DEF Remove
<1>3. QED
  BY <1>1, <1>2, SeqDef DEF FreshLists

(* What is in the stream or pending is an entry.                           *)
LEMMA Ids ==
  ASSUME TypeOK
  PROVE  stream \subseteq Entries /\ pending \subseteq Entries
<1>1. lastAdded \in 0 .. MaxEntries /\ stream \subseteq 1 .. lastAdded /\ pending \subseteq stream
  BY DEF TypeOK
<1>2. QED
  BY <1>1, ConsumerConfigAssumption DEF Entries

(* A command that delivers entries: the consumer takes them, or drops      *)
(* everything because the reply is lost.                                   *)
TakenOrDropped(c, got, count, label) ==
  \/ /\ Taken(c, got, count)
     /\ Moved(c, label)
     /\ mode' \in [Consumers -> {"new", "reclaim"}]
     /\ cursor' \in [Consumers -> 0 .. MaxEntries]
     /\ UNCHANGED <<stop, ready, reason, faults>>
  \/ Dropped(c) /\ faults < MaxFaults /\ faults' = faults + 1

ReadEffect(c, got) ==
  /\ hasGroup
  /\ got \subseteq stream
  /\ \A e \in got : e > lastRead
  /\ \A e \in stream : e > lastRead => \A f \in got : e < f => e \in got
  /\ Delivered(got)
  /\ IF got = {} THEN lastRead' = lastRead
                 ELSE lastRead' \in got /\ \A e \in got : e <= lastRead'
  /\ TakenOrDropped(c, got, 1, IF got = {} THEN "loop" ELSE "entry")
  /\ UNCHANGED <<lastAdded, stream, hasGroup, dead, ran, done, lost>>

LEMMA LostReplyDrops ==
  ASSUME TypeOK, NEW c \in Consumers, LostReply(c)
  PROVE  Dropped(c) /\ faults < MaxFaults /\ faults' = faults + 1
BY AbortDrops DEF LostReply

LEMMA ReadNewReads ==
  ASSUME TypeOK, NEW c \in Consumers, ReadNew(c)
  PROVE  \E got \in SUBSET Entries : ReadEffect(c, got)
<1> DEFINE unread == {e \in stream : e > lastRead}
           got == Lowest(unread, BatchSize)
           label == IF got = {} THEN "loop" ELSE "entry"
<1>1. unread \in SUBSET Entries
  BY Ids
<1>2. /\ got \subseteq unread
      /\ \A e \in unread : \A f \in got : e < f => e \in got
  <2> HIDE DEF unread
  <2>1. QED
    BY <1>1, LowestIsPrefix, ConsumerConfigAssumption
<1>3. /\ Deliver(got)
      /\ lastRead' = IF got = {} THEN lastRead ELSE Last(got)
      /\ \/ /\ Take(c, got, 1)
            /\ mode' = [mode EXCEPT ![c] = "new"]
            /\ GoTo(c, label)
            /\ UNCHANGED <<stop, ready, cursor, reason, faults>>
         \/ LostReply(c)
      /\ hasGroup
      /\ UNCHANGED <<lastAdded, stream, hasGroup, dead, ran, done, lost>>
  BY DEF ReadNew
<1>4. label \in Labels /\ got \in SUBSET Entries
  BY <1>1, <1>2 DEF Labels
<1> HIDE DEF got, label
<1>5. Delivered(got)
  BY <1>3, <1>4, DeliverDelivers
<1>6. TakenOrDropped(c, got, 1, label)
  <2>1. CASE LostReply(c)
    BY <2>1, LostReplyDrops DEF TakenOrDropped
  <2>2. CASE /\ Take(c, got, 1)
             /\ mode' = [mode EXCEPT ![c] = "new"]
             /\ GoTo(c, label)
             /\ UNCHANGED <<stop, ready, cursor, reason, faults>>
    <3>1. Taken(c, got, 1) /\ Moved(c, label)
      BY <1>4, <2>2, TakeTakes, GoToMoves
    <3>2. QED
      BY <2>2, <3>1 DEF TakenOrDropped, TypeOK
  <2>3. QED
    BY <1>3, <2>1, <2>2
<1>7. got # {} => Last(got) \in got /\ \A e \in got : e <= Last(got)
  BY <1>4, LastIsGreatest
<1>8. ReadEffect(c, got)
  BY <1>2, <1>3, <1>5, <1>6, <1>7 DEF ReadEffect, label
<1>9. QED
  BY <1>4, <1>8

ClaimEffect(c, got) ==
  /\ hasGroup
  /\ got \subseteq pending
  /\ Delivered(got)
  /\ \E label \in {"read", "claim", "counts"} :
       (got = {} <=> label # "counts") /\ TakenOrDropped(c, got, 0, label)
  /\ UNCHANGED <<lastAdded, stream, hasGroup, lastRead, dead, ran, done, lost>>

LEMMA ClaimClaims ==
  ASSUME TypeOK, NEW c \in Consumers, Claim(c)
  PROVE  \E got \in SUBSET Entries : ClaimEffect(c, got)
<1> DEFINE idle == {e \in pending : e >= cursor[c] /\ Idle(e)}
           got == Lowest(idle, BatchSize)
           rest == IF Cardinality(got) < BatchSize THEN {} ELSE {e \in pending : e > Last(got)}
           next == IF rest = {} THEN 0 ELSE First(rest)
           label == IF got = {} THEN AfterBatch("reclaim", next) ELSE "counts"
<1>1. pending \in SUBSET Entries /\ idle \in SUBSET Entries
  BY Ids
<1>2. got \subseteq idle
  <2> HIDE DEF idle
  <2>1. QED
    BY <1>1, LowestIsPrefix, ConsumerConfigAssumption
<1>3. /\ Deliver(got)
      /\ \/ /\ Take(c, got, 0)
            /\ mode' = [mode EXCEPT ![c] = "reclaim"]
            /\ cursor' = [cursor EXCEPT ![c] = next]
            /\ GoTo(c, label)
            /\ UNCHANGED <<stop, ready, reason, faults>>
         \/ LostReply(c)
      /\ hasGroup
      /\ UNCHANGED <<lastAdded, stream, hasGroup, lastRead, dead, ran, done, lost>>
  BY DEF Claim
<1>4. label \in {"read", "claim", "counts"} /\ (got = {} <=> label # "counts")
  BY DEF AfterBatch
<1>5. next \in 0 .. MaxEntries
  <2>1. rest \in SUBSET Entries
    BY <1>1
  <2> HIDE DEF rest
  <2>2. CASE rest = {}
    BY <2>2, ConsumerConfigAssumption
  <2>3. CASE rest # {}
    <3>1. First(rest) \in Entries
      BY <2>1, <2>3, FirstIsLeast
    <3>2. QED
      BY <2>3, <3>1, ConsumerConfigAssumption DEF Entries
  <2>4. QED
    BY <2>2, <2>3
<1>6. got \in SUBSET Entries /\ got \subseteq pending
  BY <1>1, <1>2
<1> HIDE DEF got, label, next
<1>7. Delivered(got)
  BY <1>3, <1>6, DeliverDelivers
<1>8. TakenOrDropped(c, got, 0, label)
  <2>1. CASE LostReply(c)
    BY <2>1, LostReplyDrops DEF TakenOrDropped
  <2>2. CASE /\ Take(c, got, 0)
             /\ mode' = [mode EXCEPT ![c] = "reclaim"]
             /\ cursor' = [cursor EXCEPT ![c] = next]
             /\ GoTo(c, label)
             /\ UNCHANGED <<stop, ready, reason, faults>>
    <3>1. Taken(c, got, 0) /\ Moved(c, label)
      BY <1>4, <1>6, <2>2, TakeTakes, GoToMoves DEF Labels, Commands
    <3>2. QED
      BY <1>5, <2>2, <3>1 DEF TakenOrDropped, TypeOK
  <2>3. QED
    BY <1>3, <2>1, <2>2
<1>9. ClaimEffect(c, got)
  BY <1>3, <1>4, <1>6, <1>7, <1>8 DEF ClaimEffect
<1>10. QED
  BY <1>6, <1>9

(* The counts a page asks for, or one beyond the limit. *)
CountsEffect(c) ==
  /\ pc[c] = "counts"
  /\ Moved(c, "entry")
  /\ told' \in [Consumers -> [Entries -> Nat]]
  /\ \A d \in Consumers \ {c} : told'[d] = told[d]
  /\ \A e \in todo[c] : told'[c][e] = times[e] \/ told'[c][e] > MaxAttempts
  /\ UNCHANGED <<redisVars, stop, ready, mode, cursor, todo, reason, ghostVars>>

LEMMA CountsCounts ==
  ASSUME TypeOK, NEW c \in Consumers, Counts(c)
  PROVE  CountsEffect(c)
<1> DEFINE page == {e \in pending : First(todo[c]) <= e /\ e <= Last(todo[c])}
           rows == Lowest(page, Cardinality(todo[c]))
           row == [e \in Entries |-> IF e \notin todo[c] THEN told[c][e]
                                     ELSE IF e \in rows THEN times[e] ELSE MaxAttempts + 1]
<1>1. told' = [told EXCEPT ![c] = row]
  BY DEF Counts, TypeOK
<1> HIDE DEF rows
<1>2. row \in [Entries -> Nat]
  BY ConsumerConfigAssumption DEF TypeOK
<1>3. \A e \in todo[c] : row[e] = times[e] \/ row[e] > MaxAttempts
  BY ConsumerConfigAssumption DEF TypeOK
<1> HIDE DEF row
<1>4. Moved(c, "entry")
  BY GoToMoves DEF Counts, Labels
<1>5. /\ told' \in [Consumers -> [Entries -> Nat]]
      /\ told'[c] = row
      /\ \A d \in Consumers \ {c} : told'[d] = told[d]
  BY <1>1, <1>2 DEF TypeOK
<1>6. QED
  BY <1>3, <1>4, <1>5 DEF Counts, CountsEffect

(* The current entry is triaged. *)
RunEffect(c) ==
  /\ pc[c] = "entry"
  /\ told[c][Current(c)] <= MaxAttempts
  /\ Moved(c, "run")
  /\ ran' \in [Entries -> SUBSET Nat]
  /\ \A e \in Entries :
       ran'[e] = IF e = Current(c) THEN ran[e] \cup {mine[c][e]} ELSE ran[e]
  /\ UNCHANGED <<redisVars, stop, ready, mode, cursor, todo, told, reason, mine, done, lost, faults>>

ToBuryEffect(c) ==
  /\ pc[c] \in {"entry", "run"}
  /\ Moved(c, "bury")
  /\ reason' \in [Consumers -> Reasons]
  /\ UNCHANGED <<redisVars, stop, ready, mode, cursor, todo, told, ghostVars>>

LEMMA ProcessProcesses ==
  ASSUME TypeOK, NEW c \in Consumers, Process(c)
  PROVE  RunEffect(c) \/ ToBuryEffect(c)
<1> DEFINE verdict == Triage(EntryKind[Current(c)], told[c][Current(c)])
<1>1. todo[c] # {} /\ Current(c) \in todo[c] /\ Current(c) \in Entries
  BY CurrentInHand DEF Process, TypeOK
<1>2. EntryKind[Current(c)] \in Kinds /\ told[c][Current(c)] \in Nat /\ MaxAttempts \in Nat
  BY <1>1, ConsumerConfigAssumption DEF TypeOK
<1>3. CASE verdict = "run"
  <2>1. told[c][Current(c)] <= MaxAttempts
    BY <1>2, <1>3 DEF Triage, Kinds
  <2>2. GoTo(c, "run") /\ ran' = [ran EXCEPT ![Current(c)] = @ \cup {mine[c][Current(c)]}]
    BY <1>3 DEF Process, Current
  <2>3. Moved(c, "run")
    BY <2>2, GoToMoves DEF Labels
  <2>4. mine[c][Current(c)] \in Nat
    BY <1>1 DEF TypeOK
  <2>5. QED
    BY <1>1, <1>3, <2>1, <2>2, <2>3, <2>4 DEF Process, RunEffect, TypeOK, Current
<1>4. CASE verdict # "run"
  <2>1. verdict \in Reasons
    BY <1>2, <1>4 DEF Triage, Kinds, Reasons
  <2>2. GoTo(c, "bury") /\ reason' = [reason EXCEPT ![c] = verdict] /\ UNCHANGED ran
    BY <1>4 DEF Process, Current
  <2>3. Moved(c, "bury")
    BY <2>2, GoToMoves DEF Labels, Commands
  <2> HIDE DEF verdict
  <2>4. QED
    BY <2>1, <2>2, <2>3 DEF Process, ToBuryEffect, TypeOK, ghostVars
<1>5. QED
  BY <1>3, <1>4

(* The current entry leaves the stream, whether or not the consumer hears. *)
RemoveEffect(c) ==
  /\ todo[c] # {} /\ pc[c] \in Handling
  /\ stream' = stream \ {Current(c)}
  /\ pending' = pending \ {Current(c)}
  /\ fresh' \in FreshLists
  /\ UNCHANGED <<lastAdded, hasGroup, lastRead, times>>
  /\ \/ pc[c] = "complete" /\ UNCHANGED dead
     \/ \E d \in [entry : {Current(c)}, reason : Reasons, deliveries : Nat] :
          dead' = dead \cup {d}
  /\ \/ Finished(c) /\ UNCHANGED faults
     \/ Dropped(c) /\ faults < MaxFaults /\ faults' = faults + 1
  /\ UNCHANGED <<ran, done, lost>>

LEMMA RemovalRemoves ==
  ASSUME TypeOK, NEW c \in Consumers, Complete(c) \/ Bury(c)
  PROVE  RemoveEffect(c)
<1>1. /\ pc[c] \in {"complete", "bury"}
      /\ Remove(Current(c))
      /\ (EntryDone(c) /\ UNCHANGED faults) \/ LostReply(c)
      /\ UNCHANGED <<ran, done, lost>>
  BY DEF Complete, Bury, Current
<1>2. todo[c] # {} /\ Current(c) \in Entries
  BY <1>1, CurrentInHand DEF TypeOK
<1>3. fresh' \in FreshLists
  BY <1>1, <1>2, RemoveRemoves
<1>4. (Finished(c) /\ UNCHANGED faults) \/ (Dropped(c) /\ faults < MaxFaults /\ faults' = faults + 1)
  BY <1>1, EntryDoneFinishes, LostReplyDrops
<1>5. CASE Complete(c)
  BY <1>1, <1>2, <1>3, <1>4, <1>5 DEF Complete, Remove, RemoveEffect, Handling
<1>6. CASE Bury(c)
  <2>1. [entry |-> Current(c), reason |-> reason[c], deliveries |-> told[c][Current(c)]]
          \in [entry : {Current(c)}, reason : Reasons, deliveries : Nat]
    BY <1>2 DEF TypeOK
  <2>2. dead' = dead \cup {[entry |-> Current(c), reason |-> reason[c],
                            deliveries |-> told[c][Current(c)]]}
    BY <1>6 DEF Bury, Current
  <2>3. QED
    BY <1>1, <1>2, <1>3, <1>4, <2>1, <2>2 DEF Remove, RemoveEffect, Handling
<1>7. QED
  BY <1>5, <1>6

(* The consumer drops everything, or is done with its current entry.       *)
DropEffect(c) ==
  /\ Dropped(c)
  /\ faults' = faults \/ (faults < MaxFaults /\ faults' = faults + 1)
  /\ UNCHANGED <<redisVars, ran, done, lost>>

FailEffect(c) ==
  /\ todo[c] # {} /\ pc[c] \in Handling
  /\ Finished(c)
  /\ UNCHANGED <<redisVars, ran, done, lost, faults>>

SucceedEffect(c) ==
  /\ pc[c] = "run"
  /\ Moved(c, "complete")
  /\ done' = done \cup {Current(c)}
  /\ UNCHANGED <<redisVars, stop, ready, mode, cursor, todo, told, reason, mine, ran, lost, faults>>

(* It moves with nothing in hand, or is told to stop. *)
Holding == {"counts", "entry"} \cup Handling

WalkEffect(c) ==
  /\ \/ UNCHANGED pc
     \/ pc[c] \notin Holding /\ \E label \in Labels \ Holding : Moved(c, label)
  /\ stop' \in [Consumers -> BOOLEAN]
  /\ ready' \in [Consumers -> BOOLEAN]
  /\ cursor' \in [Consumers -> 0 .. MaxEntries]
  /\ faults' = faults \/ (faults < MaxFaults /\ faults' = faults + 1)
  /\ hasGroup' \in BOOLEAN /\ (hasGroup => hasGroup')
  /\ lastRead' = IF hasGroup' /\ ~hasGroup THEN 0 ELSE lastRead
  /\ UNCHANGED <<lastAdded, stream, pending, times, fresh, dead>>
  /\ UNCHANGED <<mode, todo, told, reason, mine, ran, done, lost>>

Effect(c) ==
  \/ \E got \in SUBSET Entries : ReadEffect(c, got) \/ ClaimEffect(c, got)
  \/ CountsEffect(c) \/ RunEffect(c) \/ ToBuryEffect(c) \/ RemoveEffect(c)
  \/ DropEffect(c) \/ FailEffect(c) \/ SucceedEffect(c) \/ WalkEffect(c)

(* Every action of a consumer has one of the effects above.                *)
LEMMA EveryStepHasAnEffect ==
  ASSUME TypeOK, [Next]_vars
  PROVE  Enqueue \/ Age \/ LoseStream \/ UNCHANGED vars \/ \E c \in Consumers : Effect(c)
<1> SUFFICES ASSUME NEW c \in Consumers, Work(c) \/ RedisError(c) \/ Stop(c) \/ Crash(c)
             PROVE  Effect(c)
  BY DEF Next
<1>1. CASE EnsureGroup(c)
  <2>1. pc[c] \notin Holding /\ Moved(c, "body") /\ "body" \in Labels \ Holding
    BY <1>1, GoToMoves DEF EnsureGroup, Holding, Handling, Labels, Commands
  <2>2. WalkEffect(c)
    BY <1>1, <2>1 DEF EnsureGroup, WalkEffect, TypeOK, ghostVars
  <2>3. QED
    BY <2>2 DEF Effect
<1>2. CASE ReadNew(c)
  BY <1>2, ReadNewReads DEF Effect
<1>3. CASE Claim(c)
  BY <1>3, ClaimClaims DEF Effect
<1>4. CASE Counts(c)
  BY <1>4, CountsCounts DEF Effect
<1>5. CASE StopReclaim(c)
  <2>1. pc[c] \notin Holding /\ Moved(c, "read") /\ "read" \in Labels \ Holding
    BY <1>5, GoToMoves DEF StopReclaim, Holding, Handling, Labels, Commands
  <2>2. WalkEffect(c)
    BY <1>5, <2>1, ConsumerConfigAssumption
       DEF StopReclaim, WalkEffect, TypeOK, redisVars, ghostVars
  <2>3. QED
    BY <2>2 DEF Effect
<1>6. CASE Process(c)
  BY <1>6, ProcessProcesses DEF Effect
<1>7. CASE HandlerSucceeds(c)
  <2>1. Moved(c, "complete")
    BY <1>7, GoToMoves DEF HandlerSucceeds, Labels, Commands
  <2>2. SucceedEffect(c)
    BY <1>7, <2>1 DEF HandlerSucceeds, SucceedEffect, Current
  <2>3. QED
    BY <2>2 DEF Effect
<1>8. CASE HandlerRefuses(c)
  <2>1. Moved(c, "bury")
    BY <1>8, GoToMoves DEF HandlerRefuses, Labels, Commands
  <2>2. ToBuryEffect(c)
    BY <1>8, <2>1 DEF HandlerRefuses, ToBuryEffect, TypeOK, Reasons
  <2>3. QED
    BY <2>2 DEF Effect
<1>9. CASE HandlerFails(c)
  <2>1. todo[c] # {} /\ pc[c] \in Handling /\ Finished(c)
    BY <1>9, EntryDoneFinishes DEF HandlerFails, Handling, TypeOK
  <2>2. QED
    BY <1>9, <2>1 DEF HandlerFails, FailEffect, Effect
<1>10. CASE Complete(c) \/ Bury(c)
  BY <1>10, RemovalRemoves DEF Effect
<1>11. CASE NoGroup(c)
  BY <1>11, AbortDrops DEF NoGroup, DropEffect, Effect
<1>12. CASE Exit(c)
  <2>1. pc[c] \notin Holding /\ Moved(c, "exited") /\ "exited" \in Labels \ Holding
    BY <1>12, GoToMoves DEF Exit, Holding, Handling, Labels
  <2>2. WalkEffect(c)
    BY <1>12, <2>1 DEF Exit, WalkEffect, TypeOK, redisVars, ghostVars
  <2>3. QED
    BY <2>2 DEF Effect
<1>13. CASE Restart(c) \/ Crash(c)
  BY <1>13, BeginDrops DEF Restart, Crash, DropEffect, Effect
<1>14. CASE RedisError(c)
  BY <1>14, AbortDrops DEF RedisError, DropEffect, Effect
<1>15. CASE Stop(c)
  BY <1>15 DEF Stop, WalkEffect, Effect, TypeOK, redisVars
<1>16. QED
  BY <1>1, <1>2, <1>3, <1>4, <1>5, <1>6, <1>7, <1>8, <1>9, <1>10, <1>11, <1>12, <1>13, <1>14,
     <1>15 DEF Work

-----------------------------------------------------------------------------
(* Types *)

HandShape ==
  \A c \in Consumers :
    todo[c] # {} <=> pc[c] \in {"counts", "entry", "run", "complete", "bury"}

(* One consumer's part of the hand's shape is enough when the others stay. *)
LEMMA OtherHandsKeepShape ==
  ASSUME TypeOK, NEW c \in Consumers,
         \A d \in Consumers \ {c} : todo'[d] = todo[d] /\ pc'[d] = pc[d],
         todo'[c] # {} <=> pc'[c] \in {"counts", "entry", "run", "complete", "bury"}
  PROVE  HandShape'
BY DEF HandShape, TypeOK

LEMMA DroppedShape ==
  ASSUME TypeOK, NEW c \in Consumers, Dropped(c)
  PROVE  HandShape'
BY OtherHandsKeepShape DEF Dropped, Forgotten, Moved

LEMMA FinishedShape ==
  ASSUME TypeOK, NEW c \in Consumers, Finished(c)
  PROVE  /\ HandShape'
         /\ todo' \in [Consumers -> SUBSET Entries]
         /\ told' \in [Consumers -> [Entries -> Nat]]
         /\ mine' \in [Consumers -> [Entries -> Nat]]
         /\ pc' \in [Consumers -> Labels]
BY OtherHandsKeepShape DEF Finished, Forgotten, Moved

ProcTypes ==
  /\ pc \in [Consumers -> Labels]
  /\ stop \in [Consumers -> BOOLEAN]
  /\ ready \in [Consumers -> BOOLEAN]
  /\ mode \in [Consumers -> {"new", "reclaim"}]
  /\ cursor \in [Consumers -> 0 .. MaxEntries]
  /\ todo \in [Consumers -> SUBSET Entries]
  /\ told \in [Consumers -> [Entries -> Nat]]
  /\ reason \in [Consumers -> Reasons]
  /\ mine \in [Consumers -> [Entries -> Nat]]
  /\ faults \in 0 .. MaxFaults
  /\ HandShape

RedisTypes ==
  /\ lastAdded \in 0 .. MaxEntries
  /\ stream \subseteq 1 .. lastAdded
  /\ hasGroup \in BOOLEAN
  /\ lastRead \in 0 .. lastAdded
  /\ pending \subseteq stream
  /\ times \in [Entries -> Nat]
  /\ fresh \in FreshLists
  /\ dead \subseteq [entry : Entries, reason : Reasons, deliveries : Nat]
  /\ ran \in [Entries -> SUBSET Nat]
  /\ done \subseteq Entries
  /\ lost \subseteq Entries

LEMMA TypeParts ==
  /\ TypeOK <=> ProcTypes /\ RedisTypes
  /\ TypeOK' <=> ProcTypes' /\ RedisTypes'
BY DEF TypeOK, ProcTypes, RedisTypes, HandShape, FreshLists

Fault == faults' = faults \/ (faults < MaxFaults /\ faults' = faults + 1)

LEMMA FaultTypes ==
  ASSUME TypeOK, Fault
  PROVE  faults' \in 0 .. MaxFaults
<1>1. faults \in 0 .. MaxFaults /\ MaxFaults \in Nat
  BY ConsumerConfigAssumption DEF TypeOK
<1>2. QED
  BY <1>1 DEF Fault

LEMMA DroppedTypes ==
  ASSUME TypeOK, NEW c \in Consumers, Dropped(c), Fault
  PROVE  ProcTypes'
BY DroppedShape, FaultTypes DEF Dropped, Forgotten, Moved, TypeOK, ProcTypes

LEMMA FinishedTypes ==
  ASSUME TypeOK, NEW c \in Consumers, Finished(c), UNCHANGED faults
  PROVE  ProcTypes'
BY FinishedShape DEF Finished, TypeOK, ProcTypes

LEMMA TakenTypes ==
  ASSUME TypeOK, NEW c \in Consumers, NEW got \in SUBSET Entries, NEW count \in Nat,
         NEW label \in Labels,
         got # {} <=> label \in {"counts", "entry", "run", "complete", "bury"},
         TakenOrDropped(c, got, count, label)
  PROVE  ProcTypes'
<1>1. CASE Dropped(c) /\ faults < MaxFaults /\ faults' = faults + 1
  BY <1>1, DroppedTypes DEF Fault
<1>2. CASE /\ Taken(c, got, count)
           /\ Moved(c, label)
           /\ mode' \in [Consumers -> {"new", "reclaim"}]
           /\ cursor' \in [Consumers -> 0 .. MaxEntries]
           /\ UNCHANGED <<stop, ready, reason, faults>>
  <2>1. HandShape'
    BY <1>2, OtherHandsKeepShape DEF Taken, Moved
  <2>2. QED
    BY <1>2, <2>1 DEF Taken, Moved, TypeOK, ProcTypes
<1>3. QED
  BY <1>1, <1>2 DEF TakenOrDropped

(* Every step keeps the types.                                             *)
LEMMA TypesStep ==
  ASSUME TypeOK, [Next]_vars
  PROVE  TypeOK'
<1>1. CASE Enqueue
  <2>1. lastAdded' \in 0 .. MaxEntries /\ stream' \subseteq 1 .. lastAdded' /\ lastRead \in 0 .. lastAdded'
    BY <1>1, ConsumerConfigAssumption DEF Enqueue, TypeOK
  <2>2. QED
    BY <1>1, <2>1 DEF Enqueue, TypeOK, procVars, ghostVars
<1>2. CASE Age
  <2>1. fresh' \in Seq(SUBSET Entries)
    BY <1>2, HeadTailProperties DEF Age, TypeOK
  <2>2. QED
    BY <1>2, <2>1 DEF Age, TypeOK, procVars, ghostVars
<1>3. CASE LoseStream
  <2>1. fresh' \in FreshLists /\ lost' \subseteq Entries
    BY <1>3, EmptySeq, Ids DEF LoseStream, FreshLists, TypeOK
  <2>2. faults' \in 0 .. MaxFaults
    BY <1>3, FaultTypes DEF LoseStream, Fault
  <2>3. ProcTypes' /\ RedisTypes'
    BY <1>3, <2>1, <2>2 DEF LoseStream, procVars, TypeOK, ProcTypes, RedisTypes, HandShape
  <2>4. QED
    BY <2>3, TypeParts
<1>4. CASE UNCHANGED vars
  BY <1>4 DEF vars, redisVars, procVars, ghostVars, TypeOK
<1>5. ASSUME NEW c \in Consumers, NEW got \in SUBSET Entries, ReadEffect(c, got) PROVE TypeOK'
  <2>1. ProcTypes'
    BY <1>5, TakenTypes DEF ReadEffect, Labels
  <2>2. lastRead' \in 0 .. lastAdded
    <3>1. CASE got = {}
      BY <1>5, <3>1 DEF ReadEffect, TypeOK
    <3>2. CASE got # {}
      <4>1. stream \subseteq 1 .. lastAdded /\ lastAdded \in Nat
        BY ConsumerConfigAssumption DEF TypeOK
      <4>2. lastRead' \in stream
        BY <1>5, <3>2 DEF ReadEffect
      <4>3. QED
        BY <4>1, <4>2
    <3>3. QED
      BY <3>1, <3>2
  <2>3. RedisTypes'
    BY <1>5, <2>2 DEF ReadEffect, Delivered, TypeOK, RedisTypes
  <2>4. QED
    BY <2>1, <2>3, TypeParts
<1>6. ASSUME NEW c \in Consumers, NEW got \in SUBSET Entries, ClaimEffect(c, got) PROVE TypeOK'
  <2>1. ProcTypes'
    BY <1>6, TakenTypes DEF ClaimEffect, Labels, Commands
  <2>2. RedisTypes'
    BY <1>6 DEF ClaimEffect, Delivered, TypeOK, RedisTypes
  <2>3. QED
    BY <2>1, <2>2, TypeParts
<1>7. ASSUME NEW c \in Consumers, CountsEffect(c) PROVE TypeOK'
  BY <1>7 DEF CountsEffect, Moved, redisVars, ghostVars, TypeOK
<1>8. ASSUME NEW c \in Consumers, RunEffect(c) PROVE TypeOK'
  BY <1>8 DEF RunEffect, Moved, redisVars, TypeOK
<1>9. ASSUME NEW c \in Consumers, ToBuryEffect(c) PROVE TypeOK'
  BY <1>9 DEF ToBuryEffect, Moved, redisVars, ghostVars, TypeOK
<1>10. ASSUME NEW c \in Consumers, RemoveEffect(c) PROVE TypeOK'
  <2>1. ProcTypes'
    BY <1>10, FinishedTypes, DroppedTypes DEF RemoveEffect, Fault
  <2>2. Current(c) \in Entries
    BY <1>10, CurrentInHand DEF RemoveEffect
  <2>3. dead' \subseteq [entry : Entries, reason : Reasons, deliveries : Nat]
    BY <1>10, <2>2 DEF RemoveEffect, TypeOK
  <2>4. RedisTypes'
    BY <1>10, <2>3 DEF RemoveEffect, TypeOK, RedisTypes
  <2>5. QED
    BY <2>1, <2>4, TypeParts
<1>11. ASSUME NEW c \in Consumers, DropEffect(c) PROVE TypeOK'
  <2>1. ProcTypes'
    BY <1>11, DroppedTypes DEF DropEffect, Fault
  <2>2. RedisTypes'
    BY <1>11, TypeParts DEF DropEffect, redisVars, RedisTypes
  <2>3. QED
    BY <2>1, <2>2, TypeParts
<1>12. ASSUME NEW c \in Consumers, FailEffect(c) PROVE TypeOK'
  <2>1. ProcTypes'
    BY <1>12, FinishedTypes DEF FailEffect
  <2>2. RedisTypes'
    BY <1>12, TypeParts DEF FailEffect, redisVars, RedisTypes
  <2>3. QED
    BY <2>1, <2>2, TypeParts
<1>13. ASSUME NEW c \in Consumers, SucceedEffect(c) PROVE TypeOK'
  <2>1. Current(c) \in Entries
    BY <1>13, CurrentInHand DEF SucceedEffect, TypeOK
  <2>2. QED
    BY <1>13, <2>1 DEF SucceedEffect, Moved, redisVars, TypeOK
<1>14. ASSUME NEW c \in Consumers, WalkEffect(c) PROVE TypeOK'
  <2>1. pc' \in [Consumers -> Labels] /\ HandShape'
    BY <1>14 DEF WalkEffect, Moved, Holding, Handling, HandShape, TypeOK
  <2>2. faults' \in 0 .. MaxFaults
    BY <1>14, FaultTypes DEF WalkEffect, Fault
  <2>3. ProcTypes'
    BY <1>14, <2>1, <2>2 DEF WalkEffect, TypeOK, ProcTypes
  <2>4. lastRead' \in 0 .. lastAdded
    BY <1>14 DEF WalkEffect, TypeOK
  <2>5. RedisTypes'
    BY <1>14, <2>4, TypeParts DEF WalkEffect, RedisTypes
  <2>6. QED
    BY <2>3, <2>5, TypeParts
<1>15. QED
  BY <1>1, <1>2, <1>3, <1>4, <1>5, <1>6, <1>7, <1>8, <1>9, <1>10, <1>11, <1>12, <1>13, <1>14,
     EveryStepHasAnEffect DEF Effect

-----------------------------------------------------------------------------
(* What has been read and delivered *)

(* Only reads move the group's last-delivered id, and they make what they  *)
(* pass pending; only completions and dead-letters take it off again.      *)
LEMMA ReadStep ==
  ASSUME Inv, [Next]_vars
  PROVE  ReadInv'
<1>0. /\ lastAdded \in Nat /\ lastRead \in 0 .. lastAdded
      /\ stream \subseteq 1 .. lastAdded /\ pending \subseteq stream
      /\ stream \subseteq Entries /\ Entries \subseteq Nat
  BY Ids, ConsumerConfigAssumption DEF Inv, TypeOK, Entries
<1>1. CASE Enqueue
  <2>1. lastAdded + 1 \in Entries
    BY <1>0, <1>1, ConsumerConfigAssumption DEF Enqueue, Entries
  <2>2. lastAdded' = lastAdded + 1 /\ stream' = stream \cup {lastAdded + 1}
        /\ UNCHANGED <<hasGroup, lastRead, pending, times>>
    BY <1>1 DEF Enqueue
  <2>3. lastAdded + 1 > lastRead
    BY <1>0
  <2>4. QED
    BY <1>0, <2>1, <2>2, <2>3 DEF Inv, ReadInv
<1>2. CASE Age
  BY <1>2 DEF Age, Inv, ReadInv
<1>3. CASE LoseStream
  BY <1>3 DEF LoseStream, Inv, ReadInv
<1>4. CASE UNCHANGED vars
  BY <1>4 DEF vars, redisVars, Inv, ReadInv
<1>5. ASSUME NEW c \in Consumers, NEW got \in SUBSET Entries, ReadEffect(c, got) PROVE ReadInv'
  <2>1. /\ \A e \in Entries : e \notin got => times'[e] = times[e]
        /\ pending' = pending \cup got
        /\ got \subseteq stream /\ \A e \in got : e > lastRead
        /\ UNCHANGED <<lastAdded, stream, hasGroup>>
        /\ hasGroup
    BY <1>5 DEF ReadEffect, Delivered
  <2>2. CASE got = {}
    BY <1>0, <1>5, <2>1, <2>2 DEF ReadEffect, Inv, ReadInv
  <2>3. CASE got # {}
    <3>1. lastRead' \in got /\ \A e \in got : e <= lastRead'
      BY <1>5, <2>3 DEF ReadEffect
    <3>2. \A e \in stream : e > lastRead /\ e <= lastRead' => e \in got
      BY <1>0, <1>5, <3>1 DEF ReadEffect
    <3>3. QED
      BY <1>0, <2>1, <3>1, <3>2 DEF Inv, ReadInv
  <2>4. QED
    BY <2>2, <2>3
<1>6. ASSUME NEW c \in Consumers, NEW got \in SUBSET Entries, ClaimEffect(c, got) PROVE ReadInv'
  <2>1. /\ \A e \in Entries : e \notin got => times'[e] = times[e]
        /\ pending' = pending
        /\ got \subseteq pending
        /\ UNCHANGED <<lastAdded, stream, hasGroup, lastRead>>
        /\ hasGroup
    BY <1>6 DEF ClaimEffect, Delivered
  <2>2. \A e \in got : e <= lastRead /\ e <= lastAdded
    BY <1>0, <2>1 DEF Inv, ReadInv
  <2>3. QED
    BY <1>0, <2>1, <2>2 DEF Inv, ReadInv
<1>7. ASSUME NEW c \in Consumers, CountsEffect(c) \/ RunEffect(c) \/ ToBuryEffect(c) PROVE ReadInv'
  BY <1>7 DEF CountsEffect, RunEffect, ToBuryEffect, redisVars, Inv, ReadInv
<1>8. ASSUME NEW c \in Consumers, RemoveEffect(c) PROVE ReadInv'
  BY <1>8 DEF RemoveEffect, Inv, ReadInv
<1>9. ASSUME NEW c \in Consumers, DropEffect(c) \/ FailEffect(c) \/ SucceedEffect(c) PROVE ReadInv'
  BY <1>9 DEF DropEffect, FailEffect, SucceedEffect, redisVars, Inv, ReadInv
<1>10. ASSUME NEW c \in Consumers, WalkEffect(c) PROVE ReadInv'
  BY <1>0, <1>10 DEF WalkEffect, Inv, ReadInv
<1>11. QED
  BY <1>1, <1>2, <1>3, <1>4, <1>5, <1>6, <1>7, <1>8, <1>9, <1>10, EveryStepHasAnEffect
     DEF Effect, Inv

-----------------------------------------------------------------------------
(* What is in hand and what has run *)

(* A consumer whose entries in hand were a part of what it had. *)
LEMMA ShrinkKeepsHands ==
  ASSUME Inv, NEW c \in Consumers, NEW ids \in SUBSET todo[c], Forgotten(c, ids),
         \A d \in Consumers \ {c} : pc'[d] = pc[d],
         ids # {} => /\ pc[c] # "counts" /\ Current(c) \notin ids
                     /\ pc'[c] = "entry",
         lastAdded' = lastAdded,
         \A e \in Entries : times'[e] \in Nat /\ times'[e] >= times[e],
         UNCHANGED ran
  PROVE  HandInv'
<1> SUFFICES ASSUME NEW d \in Consumers, NEW e \in todo'[d]
             PROVE  /\ e <= lastAdded'
                    /\ mine'[d][e] \in 1 .. times'[e]
                    /\ \A x \in Consumers \ {d} : e \in todo'[x] => mine'[d][e] # mine'[x][e]
                    /\ (pc'[d] \in Handling /\ e = Current(d)') \/ mine'[d][e] \notin ran'[e]
                    /\ pc'[d] # "counts" => mine'[d][e] <= told'[d][e] \/ told'[d][e] > MaxAttempts
  BY DEF HandInv
<1>1. \A x \in Consumers :
        /\ todo'[x] \subseteq todo[x]
        /\ \A y \in todo'[x] : mine'[x][y] = mine[x][y] /\ told'[x][y] = told[x][y]
        /\ x # c => todo'[x] = todo[x]
  BY DEF Forgotten
<1>2. e \in Entries /\ times[e] \in Nat
  BY <1>1 DEF Inv, TypeOK
<1>3. e <= lastAdded' /\ mine'[d][e] \in 1 .. times'[e]
  BY <1>1, <1>2 DEF Inv, HandInv
<1>4. \A x \in Consumers \ {d} : e \in todo'[x] => mine'[d][e] # mine'[x][e]
  BY <1>1 DEF Inv, HandInv
<1>5. CASE d = c
  BY <1>1, <1>3, <1>4, <1>5 DEF Forgotten, Inv, HandInv, Handling
<1>6. CASE d # c
  BY <1>1, <1>3, <1>4, <1>6 DEF Inv, HandInv, Current
<1>7. QED
  BY <1>5, <1>6

LEMMA DroppedKeepsHands ==
  ASSUME Inv, NEW c \in Consumers, Dropped(c),
         lastAdded' = lastAdded,
         \A e \in Entries : times'[e] \in Nat /\ times'[e] >= times[e],
         UNCHANGED ran
  PROVE  HandInv'
BY ShrinkKeepsHands DEF Dropped, Moved

LEMMA FinishedKeepsHands ==
  ASSUME Inv, NEW c \in Consumers, Finished(c), pc[c] \in Handling,
         UNCHANGED <<lastAdded, times, ran>>
  PROVE  HandInv'
<1>1. PICK left \in SUBSET Entries :
        /\ Forgotten(c, left)
        /\ left \subseteq todo[c] \ {Current(c)}
        /\ \E label \in {"loop", "read", "claim", "entry"} :
             Moved(c, label) /\ (left # {} <=> label = "entry")
  BY DEF Finished
<1>2. \A e \in Entries : times'[e] \in Nat /\ times'[e] >= times[e]
  BY DEF Inv, TypeOK
<1>3. QED
  BY <1>1, <1>2, ShrinkKeepsHands DEF Moved, Handling

(* A consumer that takes what was delivered to it. *)
LEMMA TakenKeepsHands ==
  ASSUME Inv, NEW c \in Consumers, NEW got \in SUBSET Entries, NEW count \in Nat,
         NEW label \in Labels, Taken(c, got, count), Moved(c, label), Delivered(got),
         \A e \in got : e <= lastAdded,
         label = "counts" \/ \A e \in got : times[e] + 1 <= count,
         UNCHANGED <<lastAdded, ran>>
  PROVE  HandInv'
<1> SUFFICES ASSUME NEW d \in Consumers, NEW e \in todo'[d]
             PROVE  /\ e <= lastAdded'
                    /\ mine'[d][e] \in 1 .. times'[e]
                    /\ \A x \in Consumers \ {d} : e \in todo'[x] => mine'[d][e] # mine'[x][e]
                    /\ (pc'[d] \in Handling /\ e = Current(d)') \/ mine'[d][e] \notin ran'[e]
                    /\ pc'[d] # "counts" => mine'[d][e] <= told'[d][e] \/ told'[d][e] > MaxAttempts
  BY DEF HandInv
<1>1. e \in Entries /\ times[e] \in Nat /\ times'[e] = IF e \in got THEN times[e] + 1 ELSE times[e]
  BY DEF Taken, Delivered, Inv, TypeOK
<1>2. \A x \in Consumers \ {c} : e \in todo[x] => mine[x][e] \in 1 .. times[e]
  BY DEF Inv, HandInv
<1>3. \A n \in ran[e] : n <= times[e]
  BY <1>1 DEF Inv, RunInv
<1>4. CASE d = c
  <2>1. e \in got /\ mine'[d][e] = times[e] + 1 /\ told'[d][e] = count /\ pc'[d] = label
    BY <1>4 DEF Taken, Moved
  <2>2. mine'[d][e] \in 1 .. times'[e] /\ mine'[d][e] \notin ran'[e]
    BY <1>1, <1>3, <2>1
  <2>3. \A x \in Consumers \ {d} : e \in todo'[x] => mine'[d][e] # mine'[x][e]
    BY <1>1, <1>2, <1>4, <2>1 DEF Taken
  <2>4. pc'[d] # "counts" => mine'[d][e] <= told'[d][e]
    BY <2>1
  <2>5. QED
    BY <2>1, <2>2, <2>3, <2>4
<1>5. CASE d # c
  <2>1. e \in todo[d] /\ mine'[d][e] = mine[d][e] /\ told'[d][e] = told[d][e] /\ pc'[d] = pc[d]
        /\ todo'[d] = todo[d]
    BY <1>5 DEF Taken, Moved
  <2>2. mine'[d][e] \in 1 .. times'[e]
    BY <1>1, <1>2, <1>5, <2>1
  <2>3. ASSUME NEW x \in Consumers \ {d}, e \in todo'[x] PROVE mine'[d][e] # mine'[x][e]
    <3>1. CASE x = c
      BY <1>1, <1>2, <1>5, <2>1, <2>3, <3>1 DEF Taken
    <3>2. CASE x # c
      BY <2>1, <2>3, <3>2 DEF Taken, Inv, HandInv
    <3>3. QED
      BY <3>1, <3>2
  <2>4. QED
    BY <2>1, <2>2, <2>3 DEF Inv, HandInv, Current
<1>6. QED
  BY <1>4, <1>5

(* A delivery is new to whoever it goes to, so deliveries in hand stay     *)
(* distinct; a handler runs the current one and then it leaves the hand.   *)
LEMMA HandStep ==
  ASSUME Inv, [Next]_vars
  PROVE  HandInv'
<1>0. TypeOK /\ \A e \in Entries : times[e] \in Nat
  BY DEF Inv, TypeOK
<1>1. CASE Enqueue
  <2>1. lastAdded' = lastAdded + 1 /\ lastAdded \in Nat
    BY <1>1, ConsumerConfigAssumption DEF Enqueue, Inv, TypeOK
  <2>2. \A c \in Consumers : \A e \in todo[c] : e \in Nat
    BY ConsumerConfigAssumption DEF Inv, TypeOK, Entries
  <2>3. UNCHANGED <<times, pc, todo, told, mine, ran>>
    BY <1>1 DEF Enqueue, procVars, ghostVars
  <2>4. QED
    BY <2>1, <2>2, <2>3 DEF Inv, HandInv, Current
<1>2. CASE Age \/ LoseStream \/ UNCHANGED vars
  BY <1>2 DEF Age, LoseStream, vars, redisVars, procVars, ghostVars, Inv, HandInv, Current
<1>3. ASSUME NEW c \in Consumers, NEW got \in SUBSET Entries,
             ReadEffect(c, got) \/ ClaimEffect(c, got)
      PROVE  HandInv'
  <2>1. /\ Delivered(got) /\ UNCHANGED <<lastAdded, ran>>
        /\ got \subseteq stream
    BY <1>0, <1>3 DEF ReadEffect, ClaimEffect, TypeOK
  <2>2. \A e \in got : e <= lastAdded
    BY <1>0, <2>1, ConsumerConfigAssumption DEF TypeOK
  <2>3. \A e \in Entries : times'[e] \in Nat /\ times'[e] >= times[e]
    BY <1>0, <2>1 DEF Delivered
  <2>4. CASE Dropped(c)
    BY <2>1, <2>3, <2>4, DroppedKeepsHands
  <2>5. CASE ReadEffect(c, got) /\ ~Dropped(c)
    <3>1. PICK label \in {"loop", "entry"} : Taken(c, got, 1) /\ Moved(c, label)
      BY <2>5 DEF ReadEffect, TakenOrDropped
    <3>2. \A e \in got : times[e] + 1 <= 1
      BY <1>0, <2>5 DEF ReadEffect, Inv, ReadInv
    <3>3. QED
      BY <2>1, <2>2, <3>1, <3>2, TakenKeepsHands DEF Labels
  <2>6. CASE ClaimEffect(c, got) /\ ~Dropped(c)
    <3>1. PICK label \in {"read", "claim", "counts"} :
            Taken(c, got, 0) /\ Moved(c, label) /\ (got = {} <=> label # "counts")
      BY <2>6 DEF ClaimEffect, TakenOrDropped
    <3>2. QED
      BY <2>1, <2>2, <3>1, TakenKeepsHands DEF Labels, Commands
  <2>7. QED
    BY <1>3, <2>4, <2>5, <2>6
<1>4. ASSUME NEW c \in Consumers, CountsEffect(c) PROVE HandInv'
  <2>1. /\ UNCHANGED <<lastAdded, times, todo, mine, ran>>
        /\ \A d \in Consumers \ {c} : told'[d] = told[d] /\ pc'[d] = pc[d]
        /\ pc[c] = "counts" /\ pc'[c] = "entry"
        /\ \A e \in todo[c] : told'[c][e] = times[e] \/ told'[c][e] > MaxAttempts
    BY <1>4 DEF CountsEffect, Moved, redisVars, ghostVars
  <2>2. \A e \in todo[c] : mine[c][e] <= times[e]
    BY DEF Inv, HandInv
  <2>3. QED
    BY <2>1, <2>2 DEF Inv, HandInv, Handling, Current
<1>5. ASSUME NEW c \in Consumers, RunEffect(c) PROVE HandInv'
  <2>1. /\ UNCHANGED <<lastAdded, times, todo, mine, told>>
        /\ \A d \in Consumers \ {c} : pc'[d] = pc[d]
        /\ pc[c] = "entry" /\ pc'[c] = "run"
        /\ \A e \in Entries : ran'[e] = IF e = Current(c) THEN ran[e] \cup {mine[c][e]} ELSE ran[e]
    BY <1>5 DEF RunEffect, Moved, redisVars
  <2>2. \A d \in Consumers : todo[d] \subseteq Entries
    BY DEF Inv, TypeOK
  <2>3. Current(c) \in todo[c] /\ \A d \in Consumers : Current(d)' = Current(d)
    BY <1>0, <2>1, CurrentInHand DEF TypeOK, Current
  <2>4. ASSUME NEW d \in Consumers, NEW e \in todo[d]
        PROVE  (pc'[d] \in Handling /\ e = Current(d)) \/ mine[d][e] \notin ran'[e]
    <3>1. (pc[d] \in Handling /\ e = Current(d)) \/ mine[d][e] \notin ran[e]
      BY DEF Inv, HandInv
    <3>2. CASE d = c
      BY <2>1, <2>2, <3>1, <3>2 DEF Handling
    <3>3. CASE d # c
      <4>1. pc'[d] = pc[d] /\ (e \in todo[c] => mine[d][e] # mine[c][e])
        BY <2>1, <3>3 DEF Inv, HandInv
      <4>2. QED
        BY <2>1, <2>2, <2>3, <3>1, <4>1
    <3>4. QED
      BY <3>2, <3>3
  <2>5. QED
    BY <2>1, <2>3, <2>4 DEF Inv, HandInv
<1>6. ASSUME NEW c \in Consumers, ToBuryEffect(c) \/ SucceedEffect(c) PROVE HandInv'
  <2>1. /\ UNCHANGED <<lastAdded, times, todo, mine, told, ran>>
        /\ \A d \in Consumers \ {c} : pc'[d] = pc[d]
        /\ pc[c] \in {"entry", "run"} /\ pc'[c] \in Handling
    BY <1>6 DEF ToBuryEffect, SucceedEffect, Moved, redisVars, ghostVars, Handling
  <2>2. QED
    BY <2>1 DEF Inv, HandInv, Handling, Current
<1>7. ASSUME NEW c \in Consumers, RemoveEffect(c) \/ FailEffect(c) PROVE HandInv'
  <2>1. UNCHANGED <<lastAdded, times, ran>> /\ pc[c] \in Handling
    BY <1>7 DEF RemoveEffect, FailEffect, redisVars
  <2>2. QED
    BY <1>0, <1>7, <2>1, FinishedKeepsHands, DroppedKeepsHands DEF RemoveEffect, FailEffect
<1>8. ASSUME NEW c \in Consumers, DropEffect(c) PROVE HandInv'
  BY <1>0, <1>8, DroppedKeepsHands DEF DropEffect, redisVars
<1>9. ASSUME NEW c \in Consumers, WalkEffect(c) PROVE HandInv'
  <2>1. /\ UNCHANGED <<lastAdded, times, todo, mine, told, ran>>
        /\ \A d \in Consumers : pc'[d] = pc[d] \/ todo[d] = {}
    BY <1>9 DEF WalkEffect, Moved, Holding, Handling, Inv, TypeOK
  <2>2. QED
    BY <2>1 DEF Inv, HandInv, Current
<1>10. QED
  BY <1>0, <1>1, <1>2, <1>3, <1>4, <1>5, <1>6, <1>7, <1>8, <1>9, EveryStepHasAnEffect DEF Effect

(* A handler runs for a delivery there has been, and succeeds after a run. *)
LEMMA RunStep ==
  ASSUME Inv, [Next]_vars
  PROVE  RunInv'
<1>0. /\ TypeOK
      /\ \A e \in Entries : times[e] \in Nat /\ ran[e] \in SUBSET Nat
      /\ \A c \in Consumers : todo[c] # {} => Current(c) \in todo[c] /\ Current(c) \in Entries
      /\ \A c \in Consumers : todo[c] # {} <=> pc[c] \in {"counts", "entry", "run", "complete", "bury"}
  BY CurrentInHand DEF Inv, TypeOK
<1>1. CASE Enqueue \/ Age \/ LoseStream \/ UNCHANGED vars
  BY <1>1 DEF Enqueue, Age, LoseStream, vars, redisVars, procVars, ghostVars, Inv, RunInv, Current
<1>2. ASSUME NEW c \in Consumers, pc'[c] \notin {"run", "complete"},
             \A d \in Consumers \ {c} : pc'[d] = pc[d] /\ todo'[d] = todo[d],
             \A e \in Entries : times'[e] \in Nat /\ times'[e] >= times[e],
             UNCHANGED <<ran, done>>
      PROVE  RunInv'
  <2>1. \A e \in Entries : \A n \in ran'[e] : n <= times'[e]
    BY <1>0, <1>2 DEF Inv, RunInv
  <2>2. QED
    BY <1>2, <2>1 DEF Inv, RunInv, Current
<1>3. ASSUME NEW c \in Consumers, NEW got \in SUBSET Entries,
             ReadEffect(c, got) \/ ClaimEffect(c, got)
      PROVE  RunInv'
  <2>1. Delivered(got) /\ UNCHANGED <<ran, done>>
    BY <1>3 DEF ReadEffect, ClaimEffect
  <2>2. \A e \in Entries : times'[e] \in Nat /\ times'[e] >= times[e]
    BY <1>0, <2>1 DEF Delivered
  <2>3. /\ pc'[c] \notin {"run", "complete"}
        /\ \A d \in Consumers \ {c} : pc'[d] = pc[d] /\ todo'[d] = todo[d]
    BY <1>3 DEF ReadEffect, ClaimEffect, TakenOrDropped, Taken, Dropped, Forgotten, Moved
  <2>4. QED
    BY <1>2, <2>1, <2>2, <2>3
<1>4. ASSUME NEW c \in Consumers, CountsEffect(c) \/ ToBuryEffect(c) PROVE RunInv'
  BY <1>0, <1>2, <1>4 DEF CountsEffect, ToBuryEffect, Moved, redisVars, ghostVars
<1>5. ASSUME NEW c \in Consumers, RunEffect(c) PROVE RunInv'
  <2>1. /\ UNCHANGED <<times, todo, mine, done>>
        /\ \A d \in Consumers \ {c} : pc'[d] = pc[d]
        /\ pc[c] = "entry" /\ pc'[c] = "run"
        /\ \A e \in Entries : ran'[e] = IF e = Current(c) THEN ran[e] \cup {mine[c][e]} ELSE ran[e]
    BY <1>5 DEF RunEffect, Moved, redisVars
  <2>2. Current(c) \in todo[c] /\ Current(c) \in Entries
        /\ mine[c][Current(c)] \in 1 .. times[Current(c)]
    BY <1>0, <2>1 DEF Inv, HandInv
  <2>3. ASSUME NEW e \in Entries, NEW n \in ran'[e] PROVE n <= times'[e]
    <3>1. n \in ran[e] => n <= times[e]
      BY DEF Inv, RunInv
    <3>2. CASE e = Current(c)
      <4>1. n \in ran[e] \/ n = mine[c][e]
        BY <2>1, <3>2
      <4>2. mine[c][e] <= times[e] /\ times'[e] = times[e]
        BY <1>0, <2>1, <2>2, <3>2
      <4>3. QED
        BY <3>1, <4>1, <4>2
    <3>3. CASE e # Current(c)
      BY <2>1, <3>1, <3>3
    <3>4. QED
      BY <3>2, <3>3
  <2>4. \A d \in Consumers : Current(d)' = Current(d)
    BY <2>1 DEF Current
  <2>5. \A d \in Consumers : pc'[d] = "run" => ran'[Current(d)] # {}
    BY <1>0, <2>1, <2>2 DEF Inv, RunInv
  <2>6. \A d \in Consumers : pc'[d] = "complete" => Current(d) \in done
    BY <2>1 DEF Inv, RunInv
  <2>7. QED
    BY <2>1, <2>3, <2>4, <2>5, <2>6 DEF RunInv
<1>6. ASSUME NEW c \in Consumers, SucceedEffect(c) PROVE RunInv'
  <2>1. /\ UNCHANGED <<times, todo, ran>>
        /\ \A d \in Consumers \ {c} : pc'[d] = pc[d]
        /\ pc'[c] = "complete" /\ done' = done \cup {Current(c)}
    BY <1>6 DEF SucceedEffect, Moved, redisVars
  <2>2. QED
    BY <2>1 DEF Inv, RunInv, Current
<1>7. ASSUME NEW c \in Consumers, RemoveEffect(c) \/ FailEffect(c) \/ DropEffect(c) PROVE RunInv'
  <2>1. UNCHANGED <<times, ran, done>> /\ (Finished(c) \/ Dropped(c))
    BY <1>7 DEF RemoveEffect, FailEffect, DropEffect, redisVars
  <2>2. /\ pc'[c] \notin {"run", "complete"}
        /\ \A d \in Consumers \ {c} : pc'[d] = pc[d] /\ todo'[d] = todo[d]
    BY <2>1 DEF Finished, Dropped, Forgotten, Moved
  <2>3. \A e \in Entries : times'[e] \in Nat /\ times'[e] >= times[e]
    BY <1>0, <2>1
  <2>4. QED
    BY <1>2, <2>1, <2>2, <2>3
<1>8. ASSUME NEW c \in Consumers, WalkEffect(c) PROVE RunInv'
  <2>1. /\ UNCHANGED <<times, todo, ran, done>>
        /\ \A d \in Consumers : pc'[d] = pc[d] \/ pc'[d] \notin Holding
    BY <1>8 DEF WalkEffect, Moved
  <2>2. QED
    BY <2>1 DEF Inv, RunInv, Current, Holding, Handling
<1>9. QED
  BY <1>0, <1>1, <1>3, <1>4, <1>5, <1>6, <1>7, <1>8, EveryStepHasAnEffect DEF Effect

-----------------------------------------------------------------------------
(* Steps of the abstract job stream *)

AbstractStep == Delivery!Next \/ UNCHANGED Delivery!jobVars

(* Every command is a step of the contract or does not touch what it says. *)
LEMMA StepRefines ==
  ASSUME Inv, [Next]_vars
  PROVE  AbstractStep
<1>0. /\ TypeOK
      /\ \A c \in Consumers : todo[c] # {} => Current(c) \in todo[c] /\ Current(c) \in Entries
      /\ \A c \in Consumers : todo[c] # {} <=> pc[c] \in {"counts", "entry", "run", "complete", "bury"}
  BY CurrentInHand DEF Inv, TypeOK
<1>1. lastAdded \in Nat
  BY <1>0, ConsumerConfigAssumption DEF TypeOK
<1>2. CASE Enqueue
  <2>1. lastAdded + 1 \in Entries /\ lastAdded + 1 \notin 1 .. lastAdded
    BY <1>0, <1>1, <1>2, ConsumerConfigAssumption DEF Enqueue, Entries
  <2>2. 1 .. lastAdded' = (1 .. lastAdded) \cup {lastAdded + 1}
    BY <1>0, <1>1, <1>2 DEF Enqueue
  <2>3. Delivery!Add(lastAdded + 1)
    BY <1>2, <2>1, <2>2 DEF Enqueue, Delivery!Add, ghostVars, DeadEntries
  <2>4. QED
    BY <2>1, <2>3 DEF AbstractStep, Delivery!Next
<1>3. CASE LoseStream
  BY <1>3 DEF LoseStream, Delivery!Lose, DeadEntries, AbstractStep, Delivery!Next
<1>4. ASSUME UNCHANGED <<lastAdded, stream, dead, ran, done, lost>> PROVE AbstractStep
  BY <1>4 DEF AbstractStep, Delivery!jobVars, DeadEntries
<1>5. CASE Age \/ UNCHANGED vars
  BY <1>4, <1>5 DEF Age, vars, redisVars, ghostVars
<1>6. ASSUME NEW c \in Consumers, NEW got \in SUBSET Entries,
             ReadEffect(c, got) \/ ClaimEffect(c, got)
      PROVE  AbstractStep
  BY <1>4, <1>6 DEF ReadEffect, ClaimEffect
<1>7. ASSUME NEW c \in Consumers,
             \/ CountsEffect(c) \/ ToBuryEffect(c) \/ DropEffect(c) \/ FailEffect(c)
             \/ WalkEffect(c)
      PROVE  AbstractStep
  BY <1>4, <1>7
     DEF CountsEffect, ToBuryEffect, DropEffect, FailEffect, WalkEffect, redisVars, ghostVars
<1>8. ASSUME NEW c \in Consumers, RunEffect(c) PROVE AbstractStep
  <2> DEFINE e == Current(c)
             n == mine[c][e]
  <2>1. e \in Entries /\ e \in todo[c] /\ pc[c] = "entry"
    BY <1>0, <1>8 DEF RunEffect
  <2>2. n \in 1 .. times[e] /\ n \notin ran[e] /\ e <= lastAdded
        /\ (n <= told[c][e] \/ told[c][e] > MaxAttempts)
    BY <2>1 DEF Inv, HandInv, Handling
  <2>3. n \in 1 .. MaxAttempts
    <3>1. told[c][e] <= MaxAttempts /\ told[c][e] \in Nat /\ times[e] \in Nat
      BY <1>0, <1>8, <2>1 DEF RunEffect, TypeOK
    <3>2. QED
      BY <2>2, <3>1, ConsumerConfigAssumption
  <2>4. e \in 1 .. lastAdded
    BY <1>0, <1>1, <2>1, <2>2, ConsumerConfigAssumption DEF Entries
  <2>5. ran' = [ran EXCEPT ![e] = @ \cup {n}]
    BY <1>0, <1>8, <2>1 DEF RunEffect, TypeOK
  <2>6. UNCHANGED <<lastAdded, stream, dead, done, lost>>
    BY <1>8 DEF RunEffect, redisVars
  <2> HIDE DEF e, n
  <2>7. Delivery!Run(e, n)
    BY <2>2, <2>4, <2>5, <2>6 DEF Delivery!Run, DeadEntries
  <2>8. QED
    BY <2>1, <2>3, <2>7 DEF AbstractStep, Delivery!Next
<1>9. ASSUME NEW c \in Consumers, SucceedEffect(c) PROVE AbstractStep
  <2>1. Current(c) \in Entries /\ ran[Current(c)] # {}
    BY <1>0, <1>9 DEF SucceedEffect, Inv, RunInv
  <2>2. Delivery!Succeed(Current(c))
    BY <1>9, <2>1 DEF SucceedEffect, redisVars, Delivery!Succeed, DeadEntries
  <2>3. QED
    BY <2>1, <2>2 DEF AbstractStep, Delivery!Next
<1>10. ASSUME NEW c \in Consumers, RemoveEffect(c) PROVE AbstractStep
  <2>1. Current(c) \in Entries /\ Current(c) <= lastAdded
    BY <1>0, <1>10 DEF RemoveEffect, Inv, HandInv
  <2>2. CASE pc[c] = "complete" /\ UNCHANGED dead
    <3>1. Current(c) \in done
      BY <2>2 DEF Inv, RunInv
    <3>2. Delivery!Retire(Current(c))
      BY <1>10, <2>2, <3>1 DEF RemoveEffect, Delivery!Retire, DeadEntries
    <3>3. QED
      BY <2>1, <3>2 DEF AbstractStep, Delivery!Next
  <2>3. CASE \E d \in [entry : {Current(c)}, reason : Reasons, deliveries : Nat] :
               dead' = dead \cup {d}
    <3>1. DeadEntries' = DeadEntries \cup {Current(c)}
      BY <2>3 DEF DeadEntries
    <3>2. Current(c) \in 1 .. lastAdded
      BY <1>0, <1>1, <2>1, ConsumerConfigAssumption DEF Entries
    <3>3. Delivery!Bury(Current(c))
      BY <1>10, <3>1, <3>2 DEF RemoveEffect, Delivery!Bury
    <3>4. QED
      BY <2>1, <3>3 DEF AbstractStep, Delivery!Next
  <2>4. QED
    BY <1>10, <2>2, <2>3 DEF RemoveEffect
<1>11. QED
  BY <1>0, <1>2, <1>3, <1>5, <1>6, <1>7, <1>8, <1>9, <1>10, EveryStepHasAnEffect DEF Effect

-----------------------------------------------------------------------------
(* Theorems *)

LEMMA InitInv == Init => Inv
<1>1. CASE Init
  <2>1. ProcTypes
    BY <1>1, ConsumerConfigAssumption DEF Init, ProcTypes, HandShape, Labels, Reasons
  <2>2. fresh \in FreshLists /\ MaxEntries \in Nat
    BY <1>1, ConsumerConfigAssumption, EmptySeq DEF Init, FreshLists
  <2>3. RedisTypes
    <3>1. lastAdded \in 0 .. MaxEntries /\ lastRead \in 0 .. lastAdded
      BY <1>1, <2>2 DEF Init
    <3>2. stream \subseteq 1 .. lastAdded /\ hasGroup \in BOOLEAN /\ pending \subseteq stream
      BY <1>1 DEF Init
    <3>3. times \in [Entries -> Nat] /\ ran \in [Entries -> SUBSET Nat]
      BY <1>1 DEF Init
    <3>4. /\ dead \subseteq [entry : Entries, reason : Reasons, deliveries : Nat]
          /\ done \subseteq Entries /\ lost \subseteq Entries
      BY <1>1 DEF Init
    <3>5. QED
      BY <2>2, <3>1, <3>2, <3>3, <3>4 DEF RedisTypes
  <2>4. TypeOK
    BY <2>1, <2>3, TypeParts
  <2>5. ReadInv
    BY <1>1 DEF Init, ReadInv
  <2>6. HandInv /\ RunInv
    BY <1>1 DEF Init, HandInv, RunInv
  <2>7. QED
    BY <2>4, <2>5, <2>6 DEF Inv
<1>2. QED
  BY <1>1

LEMMA InvStep == Inv /\ [Next]_vars => Inv'
BY TypesStep, ReadStep, HandStep, RunStep DEF Inv

LEMMA InvHolds == Spec => []Inv
BY InitInv, InvStep, PTL DEF Spec

(* Every variable keeps its type, and a consumer has entries in hand       *)
(* exactly where consumer.py is inside a batch.                            *)
THEOREM TypeCorrect == Spec => []TypeOK
<1>1. Inv => TypeOK
  BY DEF Inv
<1>2. QED
  BY <1>1, InvHolds, PTL

(* While the group exists every entry in the stream is unread or pending:  *)
(* no completion, dead-letter, error, lost reply, restart or new group     *)
(* leaves one behind that nobody will process.                             *)
THEOREM NobodyInLimbo == Spec => []NoLimbo
<1>1. Inv => NoLimbo
  BY DEF Inv, ReadInv, NoLimbo
<1>2. QED
  BY <1>1, InvHolds, PTL

(* The consumers of worker/consumer.py, however many, implement the        *)
(* contract of a job stream.                                               *)
THEOREM ConsumersImplementJobDelivery == Spec => ImplementsJobDelivery
<1>1. Init => Delivery!Init
  BY DEF Init, Delivery!Init, DeadEntries
<1>2. Inv /\ [Next]_vars => [Delivery!Next]_(Delivery!jobVars)
  BY StepRefines DEF AbstractStep
<1>3. QED
  BY <1>1, <1>2, InvHolds, PTL DEF Spec, ImplementsJobDelivery, Delivery!Spec
============================================================================
