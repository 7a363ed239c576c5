----------------------- MODULE MessagePipelineProofs -----------------------
(* Theorems of MessagePipeline and, further down, of HistoryCache, which   *)
(* reads what the pipeline stores: for every value of their constants.     *)
EXTENDS MessagePipeline, HistoryCache, FiniteSetTheorems, SequenceTheorems,
        WellFoundedInduction, TLAPS

-----------------------------------------------------------------------------
(* The inductive invariant. *)

Answered(r) == at[r] \in {"committed", "announced"}

(* A row's text is the one its newest edit wrote, and a tombstone's is older.*)
RowShape(s) ==
  \/ s = None
  \/ s \in States /\ s.version >= 0 /\ s.body \in Nat /\ (~s.deleted => s.body = s.version)

(* A loaded edit expects a version its row, now s, had before any delete.  *)
LoadedOk(q, s) ==
  /\ s.version >= 0
  /\ q.op \in {"edit", "delete"}
  /\ q.op = "edit" => q.expected <= s.version /\ (s.deleted => q.expected < s.version)

(* A request that answered holds a state its row, now s, has been in, and  *)
(* a tombstone answers a delete and nothing else.                          *)
ResponseOk(q, s) ==
  /\ q.response \in Copy!Published(s)
  /\ q.response.version >= 0
  /\ q.response.deleted <=> q.op = "delete"

LoadedInv ==
  \A r \in Requests : at[r] = "loaded" => LoadedOk(req[r], row[req[r].msg])

ResponseInv ==
  \A r \in Requests : Answered(r) => ResponseOk(req[r], row[req[r].msg])

JobInv ==
  \A j \in 1 .. Len(jobs) : Document(jobs[j]) \in Copy!Published(row[jobs[j].msg])

IndexInv ==
  \A m \in Messages :
    \/ index[m] = None
    \/ index[m].version >= 0 /\ index[m] \in Copy!Published(row[m])

Places == {"idle", "loaded", "committed", "announced"}

RequestRecords == [op : Operations, msg : Messages, expected : Nat,
                   deletedNow : BOOLEAN, response : States]

Types ==
  /\ row \in [Messages -> States]
  /\ \A m \in Messages : RowShape(row[m])
  /\ at \in [Requests -> Places]
  /\ req \in [Requests -> RequestRecords]
  /\ jobs \in Seq(Payloads)
  /\ index \in [Messages -> States]

DataInv == JobInv /\ IndexInv

Inv == Types /\ LoadedInv /\ ResponseInv /\ DataInv

-----------------------------------------------------------------------------
(* How one row and one document may change. *)

RowNext(old, new) ==
  \/ new = old
  \/ old = None /\ new = [version |-> 0, deleted |-> FALSE, body |-> 0]
  \/ /\ old.version >= 0 /\ ~old.deleted
     /\ \/ new = [version |-> old.version + 1, deleted |-> FALSE, body |-> old.version + 1]
        \/ new = [version |-> old.version + 1, deleted |-> TRUE, body |-> old.body]

(* A row's shape is kept, and what it has published stays published. *)
LEMMA RowStep ==
  ASSUME NEW old \in States, NEW new, RowShape(old), RowNext(old, new)
  PROVE  /\ new \in States
         /\ RowShape(new)
         /\ old.version <= new.version
         /\ old.deleted => new = old
         /\ new.deleted /\ ~old.deleted => old.version < new.version
         /\ \A s \in Copy!Published(old) : s.version >= 0 => s \in Copy!Published(new)
<1>1. CASE new = old
  BY <1>1 DEF States
<1>2. CASE old = None /\ new = [version |-> 0, deleted |-> FALSE, body |-> 0]
  BY <1>2 DEF States, RowShape, None, NoText, Copy!Published, Copy!Redacted
<1>3. CASE /\ old.version >= 0 /\ ~old.deleted
           /\ new = [version |-> old.version + 1, deleted |-> FALSE, body |-> old.version + 1]
  BY <1>3 DEF States, RowShape, None, NoText, Copy!Published, Copy!Redacted
<1>4. CASE /\ old.version >= 0 /\ ~old.deleted
           /\ new = [version |-> old.version + 1, deleted |-> TRUE, body |-> old.body]
  BY <1>4 DEF States, RowShape, None, NoText, Copy!Published, Copy!Redacted
<1>5. QED
  BY <1>1, <1>2, <1>3, <1>4 DEF RowNext

(* What the rows' steps leave of the rest of the invariant. *)
LEMMA RowFrame ==
  ASSUME Inv, row' \in [Messages -> States],
         \A m \in Messages : RowNext(row[m], row'[m])
  PROVE  /\ \A m \in Messages : RowShape(row'[m])
         /\ \A r \in Requests :
              /\ LoadedOk(req[r], row[req[r].msg]) => LoadedOk(req[r], row'[req[r].msg])
              /\ ResponseOk(req[r], row[req[r].msg]) => ResponseOk(req[r], row'[req[r].msg])
         /\ \A j \in 1 .. Len(jobs) :
              Document(jobs[j]) \in Copy!Published(row'[jobs[j].msg])
         /\ \A m \in Messages :
              \/ index[m] = None
              \/ index[m].version >= 0 /\ index[m] \in Copy!Published(row'[m])
<1>1. \A m \in Messages :
        /\ RowShape(row'[m])
        /\ row[m].version <= row'[m].version
        /\ row[m].deleted => row'[m] = row[m]
        /\ row'[m].deleted /\ ~row[m].deleted => row[m].version < row'[m].version
        /\ \A s \in Copy!Published(row[m]) : s.version >= 0 => s \in Copy!Published(row'[m])
  BY RowStep DEF Inv, Types
<1>2. \A m \in Messages : row[m] \in States /\ row'[m] \in States
  BY DEF Inv, Types
<1>3. ASSUME NEW r \in Requests
      PROVE  /\ LoadedOk(req[r], row[req[r].msg]) => LoadedOk(req[r], row'[req[r].msg])
             /\ ResponseOk(req[r], row[req[r].msg]) => ResponseOk(req[r], row'[req[r].msg])
  <2>1. req[r].msg \in Messages /\ req[r].expected \in Nat
    BY DEF Inv, Types, RequestRecords
  <2>2. LoadedOk(req[r], row[req[r].msg]) => LoadedOk(req[r], row'[req[r].msg])
    BY <1>1, <1>2, <2>1 DEF LoadedOk, States
  <2>3. ResponseOk(req[r], row[req[r].msg]) => ResponseOk(req[r], row'[req[r].msg])
    BY <1>1, <2>1 DEF ResponseOk
  <2>4. QED
    BY <2>2, <2>3
<1>4. ASSUME NEW j \in 1 .. Len(jobs)
      PROVE  Document(jobs[j]) \in Copy!Published(row'[jobs[j].msg])
  <2>1. jobs[j] \in Payloads
    BY DEF Inv, Types
  <2>2. Document(jobs[j]).version >= 0 /\ jobs[j].msg \in Messages
    BY <2>1 DEF Payloads, Document
  <2>3. QED
    BY <1>1, <2>2 DEF Inv, DataInv, JobInv
<1>5. ASSUME NEW m \in Messages
      PROVE  \/ index[m] = None
             \/ index[m].version >= 0 /\ index[m] \in Copy!Published(row'[m])
  BY <1>1 DEF Inv, DataInv, IndexInv
<1>6. QED
  BY <1>1, <1>3, <1>4, <1>5

(* A step of one request handler that leaves jobs and index alone keeps    *)
(* the invariant if its row step is one and its own record is right.       *)
LEMMA RequestFrame ==
  ASSUME Inv, NEW r \in Requests,
         row' \in [Messages -> States],
         \A m \in Messages : RowNext(row[m], row'[m]),
         at' \in [Requests -> Places], req' \in [Requests -> RequestRecords],
         \A x \in Requests \ {r} : at'[x] = at[x] /\ req'[x] = req[x],
         at'[r] = "loaded" => LoadedOk(req'[r], row'[req'[r].msg]),
         at'[r] \in {"committed", "announced"} => ResponseOk(req'[r], row'[req'[r].msg]),
         UNCHANGED <<jobs, index>>
  PROVE  Inv'
<1>1. Types'
  BY RowFrame DEF Inv, Types
<1>2. LoadedInv'
  <2>1. SUFFICES ASSUME NEW x \in Requests, at'[x] = "loaded"
                 PROVE  LoadedOk(req'[x], row'[req'[x].msg])
    BY DEF LoadedInv, LoadedOk
  <2>2. CASE x = r
    BY <2>1, <2>2
  <2>3. CASE x # r
    BY <2>1, <2>3, RowFrame DEF Inv, LoadedInv
  <2>4. QED
    BY <2>2, <2>3
<1>3. ResponseInv'
  <2>1. SUFFICES ASSUME NEW x \in Requests, at'[x] \in {"committed", "announced"}
                 PROVE  ResponseOk(req'[x], row'[req'[x].msg])
    BY DEF ResponseInv, ResponseOk, Answered, Copy!Published, Copy!Redacted
  <2>2. CASE x = r
    BY <2>1, <2>2
  <2>3. CASE x # r
    BY <2>1, <2>3, RowFrame DEF Inv, ResponseInv, Answered
  <2>4. QED
    BY <2>2, <2>3
<1>4. DataInv'
  BY RowFrame DEF Inv, DataInv, JobInv, IndexInv, Document, Copy!Published, Copy!Redacted
<1>5. QED
  BY <1>1, <1>2, <1>3, <1>4 DEF Inv

-----------------------------------------------------------------------------
(* Every step keeps the invariant and is a step of every row. *)

LEMMA NothingType == Nothing \in RequestRecords
<1>1. (CHOOSE m \in Messages : TRUE) \in Messages
  BY PipelineAssumption
<1>2. None \in States
  BY DEF None, States, NoText
<1>3. QED
  BY <1>1, <1>2 DEF Nothing, Starts, RequestRecords, Operations

(* A response is a state its row, now s, has been in: the current one. *)
LEMMA AnswerIsPublished ==
  ASSUME NEW s \in States
  PROVE  /\ AsMessage(s) \in States
         /\ AsMessage(s).version = s.version
         /\ AsMessage(s).deleted = s.deleted
         /\ AsMessage(s) \in Copy!Published(s)
BY DEF AsMessage, States, NoText, Copy!NoText, Copy!Published, Copy!Redacted

LEMMA InvInit == Init => Inv
<1> SUFFICES ASSUME Init PROVE Inv
  OBVIOUS
<1>1. None \in States /\ RowShape(None)
  BY DEF None, States, NoText, RowShape
<1>2. Types
  BY <1>1, NothingType DEF Init, Types, Places
<1>3. LoadedInv /\ ResponseInv
  BY DEF Init, LoadedInv, ResponseInv, Answered
<1>4. DataInv
  BY DEF Init, DataInv, JobInv, IndexInv
<1>5. QED
  BY <1>2, <1>3, <1>4 DEF Inv

RowsStep == /\ row' \in [Messages -> States]
            /\ \A m \in Messages : RowNext(row[m], row'[m])

(* A step that answers with the row as it has just become. *)
LEMMA RespondStep ==
  ASSUME Inv, RowsStep, NEW r \in Requests, NEW op \in Operations, NEW m \in Messages,
         NEW d \in BOOLEAN, Respond(r, op, m, d, row'[m]),
         row'[m].version >= 0, row'[m].deleted <=> op = "delete",
         UNCHANGED <<jobs, index>>
  PROVE  Inv'
<1> DEFINE q == [op |-> op, msg |-> m, expected |-> 0,
                 deletedNow |-> d, response |-> AsMessage(row'[m])]
<1>1. /\ row'[m] \in States
      /\ AsMessage(row'[m]) \in States
      /\ AsMessage(row'[m]).version = row'[m].version
      /\ AsMessage(row'[m]).deleted = row'[m].deleted
      /\ AsMessage(row'[m]) \in Copy!Published(row'[m])
  BY AnswerIsPublished DEF RowsStep
<1>2. at' = [at EXCEPT ![r] = "committed"] /\ req' = [req EXCEPT ![r] = q]
  BY DEF Respond, GoTo
<1>3. q \in RequestRecords
  BY <1>1 DEF RequestRecords
<1>4. ResponseOk(q, row'[m])
  BY <1>1 DEF ResponseOk
<1>5. at' \in [Requests -> Places] /\ req' \in [Requests -> RequestRecords]
  BY <1>2, <1>3 DEF Inv, Types, Places
<1>6. at'[r] = "committed" /\ req'[r] = q
  BY <1>2 DEF Inv, Types
<1>7. \A x \in Requests \ {r} : at'[x] = at[x] /\ req'[x] = req[x]
  BY <1>2 DEF Inv, Types
<1>8. ResponseOk(req'[r], row'[req'[r].msg])
  BY <1>4, <1>6
<1>9. QED
  BY <1>5, <1>6, <1>7, <1>8, RequestFrame DEF RowsStep

LEMMA SendStep ==
  ASSUME Inv, NEW r \in Requests, NEW m \in Messages, Send(r, m)
  PROVE  Inv' /\ RowsStep
<1> DEFINE new == [version |-> 0, deleted |-> FALSE, body |-> 0]
<1>1. new \in States /\ row' = [row EXCEPT ![m] = new]
  BY DEF States, Send
<1>2. row[m] = None
  BY DEF Send, Exists, Inv, Types, RowShape
<1>3. RowsStep
  BY <1>1, <1>2 DEF RowsStep, RowNext, Inv, Types
<1>4. row'[m] = new
  BY <1>1 DEF Inv, Types
<1>5. Respond(r, "send", m, FALSE, row'[m]) /\ UNCHANGED <<jobs, index>>
  BY <1>4 DEF Send, queueVars
<1>6. row'[m].version >= 0 /\ (row'[m].deleted <=> "send" = "delete")
  BY <1>4
<1>7. QED
  BY <1>3, <1>5, <1>6, RespondStep DEF Operations

(* A step that loads a row, or gives a request up, moves no row. *)
LEMMA RowsStay ==
  ASSUME Inv, UNCHANGED row
  PROVE  RowsStep
BY DEF RowsStep, RowNext, Inv, Types

LEMMA LoadStep ==
  ASSUME Inv, NEW r \in Requests, NEW op \in {"edit", "delete"}, NEW m \in Messages,
         NEW v \in Nat, GoTo(r, "loaded"), req' = [req EXCEPT ![r] = Starts(op, m, v)],
         LoadedOk(Starts(op, m, v), row[m]), UNCHANGED <<row, jobs, index>>
  PROVE  Inv' /\ RowsStep
<1>1. Starts(op, m, v) \in RequestRecords /\ Starts(op, m, v).msg = m
  BY DEF Starts, RequestRecords, Operations, None, States, NoText
<1>2. at' \in [Requests -> Places] /\ req' \in [Requests -> RequestRecords]
  BY <1>1 DEF GoTo, Inv, Types, Places
<1>3. at'[r] = "loaded" /\ req'[r] = Starts(op, m, v)
  BY DEF GoTo, Inv, Types
<1>4. \A x \in Requests \ {r} : at'[x] = at[x] /\ req'[x] = req[x]
  BY DEF GoTo, Inv, Types
<1>5. LoadedOk(req'[r], row'[req'[r].msg])
  BY <1>1, <1>3
<1>6. QED
  BY <1>2, <1>3, <1>4, <1>5, RowsStay, RequestFrame DEF RowsStep

LEMMA FinishStep ==
  ASSUME Inv, NEW r \in Requests, Finish(r), UNCHANGED <<row, jobs, index>>
  PROVE  Inv' /\ RowsStep
<1>1. at' \in [Requests -> Places] /\ req' \in [Requests -> RequestRecords]
  BY NothingType DEF Finish, GoTo, Inv, Types, Places
<1>2. at'[r] = "idle" /\ \A x \in Requests \ {r} : at'[x] = at[x] /\ req'[x] = req[x]
  BY DEF Finish, GoTo, Inv, Types
<1>3. QED
  BY <1>1, <1>2, RowsStay, RequestFrame DEF RowsStep

LEMMA LoadForEditStep ==
  ASSUME Inv, NEW r \in Requests, NEW m \in Messages, NEW v \in 0 .. MaxEdits - 1,
         LoadForEdit(r, m, v)
  PROVE  Inv' /\ RowsStep
<1>1. LoadedOk(Starts("edit", m, v), row[m])
  BY DEF LoadForEdit, Editable, LoadedOk, Starts, Exists
<1>2. v \in Nat
  BY PipelineAssumption
<1>3. QED
  BY <1>1, <1>2, LoadStep DEF LoadForEdit, queueVars

LEMMA CommitEditStep ==
  ASSUME Inv, NEW r \in Requests, CommitEdit(r)
  PROVE  Inv' /\ RowsStep
<1> DEFINE m == req[r].msg
           next == [version |-> row[m].version + 1, deleted |-> row[m].deleted,
                    body |-> row[m].version + 1]
<1>1. m \in Messages /\ row[m] \in States /\ LoadedOk(req[r], row[m])
  BY DEF Inv, Types, RequestRecords, LoadedInv, CommitEdit
<1>2. CASE row[m].version = req[r].expected
  <2>1. row[m].version \in Nat /\ ~row[m].deleted
    BY <1>1, <1>2 DEF LoadedOk, CommitEdit, States
  <2>2. row' = [row EXCEPT ![m] = next] /\ Respond(r, "edit", m, FALSE, next)
    BY <1>2 DEF CommitEdit
  <2>3. next = [version |-> row[m].version + 1, deleted |-> FALSE,
                body |-> row[m].version + 1]
    BY <1>1, <2>1 DEF States
  <2>4. next \in States /\ RowNext(row[m], next)
    BY <1>1, <2>1, <2>3 DEF States, RowNext
  <2>5. RowsStep
    <3> HIDE DEF next
    <3>1. QED
      BY <1>1, <2>2, <2>4 DEF RowsStep, RowNext, Inv, Types
  <2>6. row'[m] = next
    BY <1>1, <2>2 DEF Inv, Types
  <2>7. row'[m].version >= 0 /\ (row'[m].deleted <=> "edit" = "delete")
    BY <2>1, <2>3, <2>6
  <2>8. QED
    BY <1>1, <2>2, <2>5, <2>6, <2>7, RespondStep DEF CommitEdit, Operations, queueVars
<1>3. CASE row[m].version # req[r].expected
  BY <1>3, FinishStep DEF CommitEdit, queueVars
<1>4. QED
  BY <1>2, <1>3

LEMMA LoadForDeleteStep ==
  ASSUME Inv, NEW r \in Requests, NEW m \in Messages, LoadForDelete(r, m)
  PROVE  Inv' /\ RowsStep
<1>1. row[m] \in States /\ row[m].version >= 0
  BY DEF LoadForDelete, Exists, Inv, Types
<1>2. CASE row[m].deleted
  <2>1. Respond(r, "delete", m, FALSE, row'[m]) /\ UNCHANGED <<row, jobs, index>>
    BY <1>2 DEF LoadForDelete, queueVars
  <2>2. QED
    BY <1>1, <1>2, <2>1, RowsStay, RespondStep DEF Operations
<1>3. CASE ~row[m].deleted
  <2>1. LoadedOk(Starts("delete", m, 0), row[m])
    BY <1>1 DEF LoadedOk, Starts
  <2>2. QED
    BY <1>3, <2>1, LoadStep DEF LoadForDelete, queueVars
<1>4. QED
  BY <1>2, <1>3

LEMMA CommitDeleteStep ==
  ASSUME Inv, NEW r \in Requests, CommitDelete(r)
  PROVE  Inv' /\ RowsStep
<1> DEFINE m == req[r].msg
           next == IF row[m].deleted THEN row[m]
                   ELSE [version |-> row[m].version + 1, deleted |-> TRUE,
                         body |-> row[m].body]
<1>1. m \in Messages /\ row[m] \in States /\ row[m].version >= 0
  BY DEF Inv, Types, RequestRecords, LoadedInv, LoadedOk, CommitDelete
<1>2. row' = [row EXCEPT ![m] = next] /\ Respond(r, "delete", m, TRUE, next)
  BY DEF CommitDelete
<1>3. next \in States /\ next.version >= 0 /\ next.deleted /\ RowNext(row[m], next)
  BY <1>1 DEF States, RowNext
<1>4. RowsStep
  BY <1>1, <1>2, <1>3 DEF RowsStep, RowNext, Inv, Types
<1>5. row'[m] = next
  BY <1>1, <1>2 DEF Inv, Types
<1>6. QED
  BY <1>1, <1>2, <1>3, <1>4, <1>5, RespondStep DEF CommitDelete, Operations, queueVars

LEMMA BroadcastStep ==
  ASSUME Inv, NEW r \in Requests, Broadcast(r)
  PROVE  Inv' /\ RowsStep
<1>1. CASE Enqueues(req[r])
  <2>1. GoTo(r, "announced") /\ UNCHANGED <<req, row, jobs, index>>
    BY <1>1 DEF Broadcast, queueVars
  <2>2. at' \in [Requests -> Places] /\ at'[r] = "announced"
        /\ \A x \in Requests \ {r} : at'[x] = at[x]
    BY <2>1 DEF GoTo, Inv, Types, Places
  <2>3. ResponseOk(req'[r], row'[req'[r].msg])
    BY <2>1 DEF Broadcast, Inv, ResponseInv, Answered
  <2>4. req' \in [Requests -> RequestRecords]
    BY <2>1 DEF Inv, Types
  <2>5. QED
    BY <2>1, <2>2, <2>3, <2>4, RowsStay, RequestFrame DEF RowsStep
<1>2. CASE ~Enqueues(req[r])
  BY <1>2, FinishStep DEF Broadcast, queueVars
<1>3. QED
  BY <1>1, <1>2

(* A payload's document is the state its request answered with. *)
LEMMA PayloadFaithful ==
  ASSUME NEW q \in RequestRecords, NEW s \in States, ResponseOk(q, s)
  PROVE  /\ Payload(q) \in Payloads
         /\ Document(Payload(q)) = q.response
<1>1. q.response \in States /\ q.msg \in Messages
  BY DEF RequestRecords
<1>2. q.response.version \in Nat
  BY <1>1 DEF ResponseOk, States
<1>3. q.response.deleted => q.response.body = NoText
  BY DEF ResponseOk, Copy!Published, Copy!Redacted, NoText, Copy!NoText
<1>4. Payload(q) \in Payloads
  BY <1>1, <1>2 DEF Payload, Payloads, States
<1>5. q.response.deleted = (q.op = "delete")
  BY <1>1 DEF ResponseOk, States
<1>6. Document(Payload(q)) = [version |-> q.response.version, deleted |-> q.response.deleted,
                              body |-> q.response.body]
  BY <1>3, <1>5 DEF Document, Payload
<1>7. QED
  BY <1>1, <1>4, <1>6 DEF States

LEMMA EnqueueStep ==
  ASSUME Inv, NEW r \in Requests, Enqueue(r)
  PROVE  Inv' /\ RowsStep
<1> DEFINE p == Payload(req[r])
<1>1. Finish(r) /\ UNCHANGED <<row, index>> /\ jobs' = Append(jobs, p)
  BY DEF Enqueue
<1>2. /\ at' \in [Requests -> Places] /\ req' \in [Requests -> RequestRecords]
      /\ at'[r] = "idle" /\ \A x \in Requests \ {r} : at'[x] = at[x] /\ req'[x] = req[x]
  BY <1>1, NothingType DEF Finish, GoTo, Inv, Types, Places
<1>3. /\ req[r] \in RequestRecords /\ row[req[r].msg] \in States
      /\ ResponseOk(req[r], row[req[r].msg])
  BY DEF Enqueue, Inv, Types, ResponseInv, Answered, RequestRecords
<1>4. p \in Payloads /\ Document(p) \in Copy!Published(row[p.msg])
  BY <1>3, PayloadFaithful DEF ResponseOk, Payload
<1>5. jobs' \in Seq(Payloads) /\ Len(jobs') = Len(jobs) + 1
      /\ \A j \in 1 .. Len(jobs') : jobs'[j] = IF j \in 1 .. Len(jobs) THEN jobs[j] ELSE p
  BY <1>1, <1>4 DEF Inv, Types
<1>6. Types'
  BY <1>1, <1>2, <1>5 DEF Inv, Types
<1>7. LoadedInv'
  <2>1. SUFFICES ASSUME NEW x \in Requests, at'[x] = "loaded"
                 PROVE  LoadedOk(req'[x], row'[req'[x].msg])
    BY DEF LoadedInv, LoadedOk
  <2>2. QED
    BY <1>1, <1>2, <2>1 DEF Inv, LoadedInv
<1>8. ResponseInv'
  <2>1. SUFFICES ASSUME NEW x \in Requests, at'[x] \in {"committed", "announced"}
                 PROVE  ResponseOk(req'[x], row'[req'[x].msg])
    BY DEF ResponseInv, ResponseOk, Answered, Copy!Published, Copy!Redacted
  <2>2. QED
    BY <1>1, <1>2, <2>1 DEF Inv, ResponseInv, Answered
<1>9. JobInv'
  <2>1. SUFFICES ASSUME NEW j \in 1 .. Len(jobs')
                 PROVE  Document(jobs'[j]) \in Copy!Published(row'[jobs'[j].msg])
    BY DEF JobInv, Document, Copy!Published, Copy!Redacted
  <2>2. QED
    BY <1>1, <1>4, <1>5 DEF Inv, DataInv, JobInv
<1>10. IndexInv'
  BY <1>1 DEF Inv, DataInv, IndexInv, Copy!Published, Copy!Redacted
<1>11. QED
  BY <1>1, <1>6, <1>7, <1>8, <1>9, <1>10, RowsStay DEF Inv, DataInv

LEMMA GiveUpStep ==
  ASSUME Inv, NEW r \in Requests, EnqueueFails(r) \/ Abandon(r)
  PROVE  Inv' /\ RowsStep
BY FinishStep DEF EnqueueFails, Abandon, queueVars

(* A step of the stream, or of the handler, which writes one document. *)
IndexStep == \A m \in Messages :
  \/ index'[m] = index[m]
  \/ /\ index'[m] \in Copy!Published(row[m])
     /\ index'[m].version > index[m].version /\ index'[m].version >= 0

LEMMA WorkerFrame ==
  ASSUME Inv, UNCHANGED <<row, at, req, jobs>>, index' \in [Messages -> States], IndexStep
  PROVE  Inv' /\ RowsStep
<1>1. Types' /\ LoadedInv' /\ ResponseInv' /\ JobInv'
  BY DEF Inv, DataInv, Types, LoadedInv, ResponseInv, Answered, JobInv, LoadedOk, ResponseOk,
    Document, Copy!Published, Copy!Redacted
<1>2. IndexInv'
  <2>1. SUFFICES ASSUME NEW m \in Messages
                 PROVE  \/ index'[m] = None
                        \/ index'[m].version >= 0 /\ index'[m] \in Copy!Published(row'[m])
    BY DEF IndexInv, Copy!Published, Copy!Redacted
  <2>2. QED
    BY DEF Inv, DataInv, IndexInv, IndexStep
<1>3. QED
  BY <1>1, <1>2, RowsStay DEF Inv, DataInv

LEMMA IndexDocumentStep ==
  ASSUME Inv, NEW j \in 1 .. Len(jobs), IndexDocument(jobs[j]), UNCHANGED <<row, jobs>>
  PROVE  /\ index' \in [Messages -> States]
         /\ IndexStep
         /\ \A m \in Messages : index'[m].version >= index[m].version
         /\ index'[jobs[j].msg].version >= jobs[j].version
<1> DEFINE p == jobs[j]
           m == p.msg
<1>1. p \in Payloads /\ m \in Messages
  <2>1. p \in Payloads
    BY DEF Inv, Types
  <2>2. QED
    BY <2>1 DEF Payloads
<1>2. Document(p) \in States /\ Document(p).version = p.version /\ p.version \in Nat
  BY <1>1 DEF Document, Payloads, States, NoText
<1>3. Document(p) \in Copy!Published(row[m])
  BY DEF Inv, DataInv, JobInv
<1>4. index[m] \in States /\ index[m].version \in Int
  BY <1>1 DEF Inv, Types, States
<1>5. index' = [index EXCEPT ![m] = ExternalWrite(Document(p), index[m])]
  BY DEF IndexDocument
<1>6. CASE Document(p).version > index[m].version
  <2>1. index' = [index EXCEPT ![m] = Document(p)]
    BY <1>5, <1>6 DEF ExternalWrite
  <2>2. QED
    BY <1>1, <1>2, <1>3, <1>4, <1>6, <2>1 DEF IndexStep, Inv, Types, States
<1>7. CASE ~(Document(p).version > index[m].version)
  <2>1. index' = index
    BY <1>1, <1>5, <1>7 DEF ExternalWrite, Inv, Types
  <2>2. QED
    BY <1>1, <1>2, <1>4, <1>7, <2>1 DEF IndexStep, Inv, Types, States
<1>8. QED
  BY <1>6, <1>7

LEMMA WorkStep ==
  ASSUME Inv, NEW j \in JobIds, Work(j)
  PROVE  Inv' /\ RowsStep /\ index' \in [Messages -> States] /\ IndexStep
<1>1. CASE RunJob(j)
  BY <1>1, WorkerFrame DEF RunJob, IndexStep, Inv, Types
<1>2. CASE HandlerWrites(j)
  BY <1>2, WorkerFrame, IndexDocumentStep DEF HandlerWrites
<1>3. CASE HandlerLosesReply(j)
  BY <1>3, WorkerFrame, IndexDocumentStep DEF HandlerLosesReply, queueVars
<1>4. QED
  BY <1>1, <1>2, <1>3 DEF Work

LEMMA StreamStepStep ==
  ASSUME Inv, StreamStep
  PROVE  Inv' /\ RowsStep /\ UNCHANGED index
BY WorkerFrame DEF StreamStep, IndexStep, Inv, Types

LEMMA RequestStep ==
  ASSUME Inv, NEW r \in Requests, Request(r)
  PROVE  Inv' /\ RowsStep
BY SendStep, LoadForEditStep, CommitEditStep, LoadForDeleteStep, CommitDeleteStep,
   BroadcastStep, EnqueueStep, GiveUpStep DEF Request

LEMMA InvNext ==
  ASSUME Inv, [Next]_vars
  PROVE  Inv' /\ RowsStep
<1>1. CASE UNCHANGED vars
  BY <1>1, WorkerFrame DEF vars, queueVars, IndexStep, Inv, Types
<1>2. CASE Next
  BY <1>2, RequestStep, WorkStep, StreamStepStep DEF Next
<1>3. QED
  BY <1>1, <1>2

LEMMA InvAlways == Spec => []Inv
<1>1. Init => Inv
  BY InvInit
<1>2. Inv /\ [Next]_vars => Inv'
  BY InvNext
<1>3. QED
  BY <1>1, <1>2, PTL DEF Spec

-----------------------------------------------------------------------------
(* Theorems. *)

(* An index document is a state the message was in, at its own version,    *)
(* whatever the jobs' order, repetition or loss.                           *)
THEOREM IndexIsFaithful == Spec => []IndexFaithful
<1>1. Inv => IndexFaithful
  BY DEF Inv, DataInv, IndexInv, IndexFaithful
<1>2. QED
  BY <1>1, InvAlways, PTL

(* Only the handler of a job writes the index, and it moves no row. *)
LEMMA OneSideMoves ==
  ASSUME Inv, [Next]_vars
  PROVE  \/ UNCHANGED index /\ RowsStep
         \/ UNCHANGED row /\ IndexStep
<1>1. CASE UNCHANGED vars
  BY <1>1, RowsStay DEF vars
<1>2. ASSUME NEW r \in Requests, Request(r)
      PROVE  UNCHANGED index
  BY <1>2 DEF Request, Send, LoadForEdit, CommitEdit, LoadForDelete, CommitDelete, Broadcast,
       Enqueue, EnqueueFails, Abandon
<1>3. ASSUME NEW j \in JobIds, Work(j)
      PROVE  UNCHANGED row /\ IndexStep
  BY <1>3, WorkStep DEF Work, RunJob, HandlerWrites, HandlerLosesReply
<1>4. QED
  BY <1>1, <1>2, <1>3, InvNext, StreamStepStep DEF Next

(* A tombstone is final, in the database and in the index. *)
THEOREM TombstonesAreFinal == Spec => TombstoneIsFinal
<1>1. ASSUME Inv, [Next]_vars, NEW m \in Messages, row[m].deleted
      PROVE  row'[m] = row[m]
  BY <1>1, OneSideMoves, RowStep DEF RowsStep, Inv, Types
<1>2. ASSUME Inv, [Next]_vars, NEW m \in Messages, index[m].deleted
      PROVE  index'[m] = index[m]
  <2>1. row[m] \in States /\ index[m] # None /\ index[m] \in Copy!Published(row[m])
    BY <1>2 DEF Inv, Types, DataInv, IndexInv, None
  <2>2. index[m].version = row[m].version
    BY <1>2, <2>1 DEF Copy!Published, Copy!Redacted
  <2>3. \A s \in Copy!Published(row[m]) : ~(s.version > row[m].version)
    BY <2>1 DEF Copy!Published, Copy!Redacted, States
  <2>4. QED
    BY <1>2, <2>2, <2>3, OneSideMoves DEF IndexStep
<1>3. Inv /\ [Next]_vars => KeepsTombstones
  BY <1>1, <1>2 DEF KeepsTombstones
<1>4. QED
  BY <1>3, InvAlways, PTL DEF Spec, TombstoneIsFinal

(* A step of the pipeline is a step of the abstract copy, or a stutter. *)
LEMMA RowsRefine ==
  ASSUME Inv, RowsStep, UNCHANGED index, NEW m \in Messages, NEW s,
         row' = [row EXCEPT ![m] = s]
  PROVE  [Copy!Next]_<<row, index>>
<1>1. RowNext(row[m], s)
  BY DEF RowsStep, Inv, Types
<1>2. CASE s = row[m]
  BY <1>2 DEF Inv, Types
<1>3. CASE row[m] = None /\ s = [version |-> 0, deleted |-> FALSE, body |-> 0]
  BY <1>3 DEF Copy!Next, Copy!Create, None, NoText, Copy!None, Copy!NoText
<1>4. CASE row[m].version >= 0 /\ ~row[m].deleted
           /\ \/ s = [version |-> row[m].version + 1, deleted |-> FALSE,
                       body |-> row[m].version + 1]
              \/ s = [version |-> row[m].version + 1, deleted |-> TRUE, body |-> row[m].body]
  <2>1. row[m] # Copy!None
    BY <1>4 DEF Copy!None
  <2>2. Copy!Rewrite(m) \/ Copy!Erase(m)
    BY <1>4, <2>1 DEF Copy!Rewrite, Copy!Erase
  <2>3. QED
    BY <2>2 DEF Copy!Next
<1>5. QED
  BY <1>1, <1>2, <1>3, <1>4 DEF RowNext

LEMMA IndexRefines ==
  ASSUME Inv, UNCHANGED <<row, jobs>>, NEW j \in 1 .. Len(jobs), IndexDocument(jobs[j])
  PROVE  [Copy!Next]_<<row, index>>
<1> DEFINE m == jobs[j].msg
<1>1. m \in Messages
  <2>1. jobs[j] \in Payloads
    BY DEF Inv, Types
  <2>2. QED
    BY <2>1 DEF Payloads
<1>2. index' = [index EXCEPT ![m] = index'[m]]
  BY <1>1 DEF IndexDocument, Inv, Types
<1>3. CASE index'[m] = index[m]
  BY <1>1, <1>2, <1>3 DEF Inv, Types
<1>4. CASE index'[m] # index[m]
  <2>1. index'[m] \in Copy!Published(row[m]) /\ index[m].version < index'[m].version
    <3>1. /\ index'[m] \in Copy!Published(row[m])
          /\ index'[m].version > index[m].version
      BY <1>1, <1>4, IndexDocumentStep DEF IndexStep
    <3>2. index[m].version \in Int /\ index'[m].version \in Int
      BY <1>1, IndexDocumentStep DEF Inv, Types, States
    <3>3. QED
      BY <3>1, <3>2
  <2>2. Copy!CatchUp(m)
    BY <1>2, <2>1 DEF Copy!CatchUp
  <2>3. QED
    BY <1>1, <2>2 DEF Copy!Next
<1>5. QED
  BY <1>3, <1>4

(* The table and the index implement the abstract copy. *)
THEOREM PipelineImplementsLaggingCopy == Spec => ImplementsLaggingCopy
<1>1. Init => Copy!Init
  BY DEF Init, Copy!Init, None, NoText, Copy!None, Copy!NoText
<1>2. ASSUME Inv, [Next]_vars
      PROVE  [Copy!Next]_<<row, index>>
  <2>1. ASSUME NEW r \in Requests, Request(r)
        PROVE  [Copy!Next]_<<row, index>>
    <3>1. UNCHANGED index /\ RowsStep
      BY <1>2, <2>1, RequestStep DEF Request, Send, LoadForEdit, CommitEdit, LoadForDelete,
           CommitDelete, Broadcast, Enqueue, EnqueueFails, Abandon
    <3>2. req[r].msg \in Messages
      BY <1>2 DEF Inv, Types, RequestRecords
    <3>3. ASSUME NEW m \in Messages, Send(r, m)
          PROVE  [Copy!Next]_<<row, index>>
      BY <1>2, <3>1, <3>3, RowsRefine DEF Send
    <3>4. CASE CommitEdit(r)
      BY <1>2, <3>1, <3>2, <3>4, RowsRefine DEF CommitEdit
    <3>5. CASE CommitDelete(r)
      BY <1>2, <3>1, <3>2, <3>5, RowsRefine DEF CommitDelete
    <3>6. CASE UNCHANGED row
      BY <3>1, <3>6
    <3>7. QED
      BY <2>1, <3>3, <3>4, <3>5, <3>6 DEF Request, LoadForEdit, LoadForDelete, Broadcast,
           Enqueue, EnqueueFails, Abandon
  <2>2. ASSUME NEW j \in JobIds, Work(j)
        PROVE  [Copy!Next]_<<row, index>>
    BY <1>2, <2>2, IndexRefines DEF Work, RunJob, HandlerWrites, HandlerLosesReply, queueVars
  <2>3. CASE StreamStep
    BY <2>3 DEF StreamStep
  <2>4. CASE UNCHANGED vars
    BY <2>4 DEF vars
  <2>5. QED
    BY <1>2, <2>1, <2>2, <2>3, <2>4 DEF Next
<1>3. Inv /\ [Next]_vars => [Copy!Next]_Copy!copyVars
  BY <1>2 DEF Copy!copyVars
<1>4. QED
  BY <1>1, <1>3, InvAlways, PTL DEF Spec, ImplementsLaggingCopy, Copy!Spec

-----------------------------------------------------------------------------
(* The job stream's side. *)

QueueInv ==
  /\ Len(jobs) <= MaxJobs
  /\ live \subseteq 1 .. Len(jobs)
  /\ ran \in [JobIds -> SUBSET {1}]
  /\ done \subseteq 1 .. Len(jobs)
  /\ buried \subseteq 1 .. Len(jobs)
  /\ lost \subseteq 1 .. Len(jobs)
  /\ missed \subseteq Messages \X Nat

(* A job whose handler succeeded is reflected in the index, or overtaken. *)
DoneInv == \A j \in done : index[jobs[j].msg].version >= jobs[j].version

(* What the steps of a request handler do to jobs and to the stream. *)
AddsJob(r) ==
  /\ jobs' = Append(jobs, Payload(req[r]))
  /\ live' = live \cup {Len(jobs) + 1}
  /\ UNCHANGED <<ran, done, buried, lost>>

LEMMA EnqueueAdds ==
  ASSUME NEW r, Enqueue(r)
  PROVE  AddsJob(r)
BY DEF Enqueue, Queue!Add, AddsJob

LEMMA MissType ==
  ASSUME Inv, QueueInv, NEW r \in Requests, Miss(r)
  PROVE  missed' \subseteq Messages \X Nat
<1>1. CASE at[r] \in {"committed", "announced"} /\ Enqueues(req[r])
  <2>1. req[r].msg \in Messages /\ req[r].response.version \in Nat
    BY <1>1 DEF Inv, Types, RequestRecords, States, ResponseInv, Answered, ResponseOk
  <2>2. QED
    BY <1>1, <2>1 DEF Miss, QueueInv
<1>2. CASE ~(at[r] \in {"committed", "announced"} /\ Enqueues(req[r]))
  BY <1>2 DEF Miss, QueueInv
<1>3. QED
  BY <1>1, <1>2

LEMMA QueueNext ==
  ASSUME Inv, QueueInv, [Next]_vars
  PROVE  QueueInv'
<1>1. CASE UNCHANGED vars
  BY <1>1 DEF vars, queueVars, QueueInv
<1>2. ASSUME NEW r \in Requests, Enqueue(r)
      PROVE  QueueInv'
  <2>1. Len(jobs') = Len(jobs) + 1 /\ Len(jobs) \in Nat
    BY <1>2, EnqueueAdds DEF AddsJob, Inv, Types
  <2>2. Len(jobs') <= MaxJobs
    BY <1>2, <2>1, PipelineAssumption DEF Enqueue
  <2>3. UNCHANGED missed
    BY <1>2 DEF Enqueue
  <2>4. 1 .. Len(jobs') = (1 .. Len(jobs)) \cup {Len(jobs) + 1}
    BY <2>1
  <2>5. live' = live \cup {Len(jobs) + 1} /\ UNCHANGED <<ran, done, buried, lost>>
    BY <1>2, EnqueueAdds DEF AddsJob
  <2>6. QED
    BY <2>2, <2>3, <2>4, <2>5 DEF QueueInv
<1>3. ASSUME NEW r \in Requests, EnqueueFails(r) \/ Abandon(r)
      PROVE  QueueInv'
  BY <1>3, MissType DEF EnqueueFails, Abandon, queueVars, QueueInv
<1>4. ASSUME NEW r \in Requests, Request(r), ~Enqueue(r), ~EnqueueFails(r), ~Abandon(r)
      PROVE  UNCHANGED <<queueVars, missed>>
  BY <1>4 DEF Request, Send, LoadForEdit, CommitEdit, LoadForDelete, CommitDelete, Broadcast
<1>5. ASSUME NEW j \in JobIds, Work(j)
      PROVE  QueueInv'
  <2>1. CASE RunJob(j)
    BY <2>1 DEF RunJob, Queue!Run, QueueInv, JobIds
  <2>2. CASE HandlerWrites(j)
    BY <2>2 DEF HandlerWrites, Queue!Succeed, QueueInv
  <2>3. CASE HandlerLosesReply(j)
    BY <2>3 DEF HandlerLosesReply, queueVars, QueueInv
  <2>4. QED
    BY <1>5, <2>1, <2>2, <2>3 DEF Work
<1>6. CASE StreamStep
  BY <1>6 DEF StreamStep, Queue!Retire, Queue!Bury, Queue!Lose, QueueInv
<1>7. QED
  BY <1>1, <1>2, <1>3, <1>4, <1>5, <1>6 DEF Next, queueVars, QueueInv

LEMMA QueueInit == Init => QueueInv
BY PipelineAssumption DEF Init, Queue!Init, QueueInv

(* Type correctness. *)
THEOREM TypeCorrect == Spec => []TypeOK
<1>1. Inv /\ QueueInv => TypeOK
  BY DEF Inv, Types, ResponseInv, Answered, ResponseOk, QueueInv, TypeOK, Places, RequestRecords
<1>2. Init => QueueInv
  BY QueueInit
<1>3. Inv /\ QueueInv /\ [Next]_vars => QueueInv'
  BY QueueNext
<1>4. QED
  BY <1>1, <1>2, <1>3, InvAlways, PTL DEF Spec

-----------------------------------------------------------------------------
(* No committed change is forgotten. *)

(* Who still knows of version v of message m. *)
Promised(r, m, v) ==
  /\ Answered(r) /\ Enqueues(req[r])
  /\ req[r].msg = m /\ req[r].response.version = v

Queued(j, m, v) == jobs[j].msg = m /\ jobs[j].version = v

Accounted(m, v) ==
  \/ index[m].version >= v
  \/ \E r \in Requests : Promised(r, m, v)
  \/ \E j \in live \cup buried \cup lost : Queued(j, m, v)
  \/ <<m, v>> \in missed

AccountInv == \A m \in Messages : \A v \in 0 .. row[m].version : Accounted(m, v)

(* A step that changes neither rows nor versions keeps the accounts if     *)
(* every promise and every queued job is kept, or turned into another.     *)
LEMMA AccountsKept ==
  ASSUME Inv, AccountInv, UNCHANGED row,
         \A m \in Messages : index'[m].version >= index[m].version,
         \A m \in Messages : index[m].version \in Int /\ index'[m].version \in Int,
         \A r \in Requests, m \in Messages, v \in Nat :
           Promised(r, m, v) => Accounted(m, v)',
         \A j \in live \cup buried \cup lost, m \in Messages, v \in Nat :
           Queued(j, m, v) => Accounted(m, v)',
         missed \subseteq missed'
  PROVE  AccountInv'
<1>1. SUFFICES ASSUME NEW m \in Messages, NEW v \in 0 .. row[m].version
               PROVE  Accounted(m, v)'
  BY DEF AccountInv
<1>2. v \in Nat
  BY DEF Inv, Types, States
<1>3. CASE index[m].version >= v
  <2>1. index'[m].version >= v
    BY <1>2, <1>3
  <2>2. QED
    BY <2>1 DEF Accounted
<1>4. CASE \E r \in Requests : Promised(r, m, v)
  BY <1>2, <1>4
<1>5. CASE \E j \in live \cup buried \cup lost : Queued(j, m, v)
  BY <1>2, <1>5
<1>6. CASE <<m, v>> \in missed
  BY <1>6 DEF Accounted
<1>7. QED
  BY <1>3, <1>4, <1>5, <1>6 DEF AccountInv, Accounted

LEMMA IndexVersions ==
  ASSUME Inv, Inv'
  PROVE  \A m \in Messages : index[m].version \in Int /\ index'[m].version \in Int
BY DEF Inv, Types, States

(* A step of a handler that had promised nothing and leaves the rest. *)
LEMMA UnpromisedStep ==
  ASSUME Inv, Inv', AccountInv, NEW r \in Requests, ~(\E m, v : Promised(r, m, v)),
         \A x \in Requests \ {r} : at'[x] = at[x] /\ req'[x] = req[x],
         UNCHANGED <<row, index, queueVars, missed>>
  PROVE  AccountInv'
<1>1. ASSUME NEW x \in Requests, NEW m \in Messages, NEW v \in Nat, Promised(x, m, v)
      PROVE  Promised(x, m, v)'
  BY <1>1 DEF Promised, Answered, Enqueues
<1>2. QED
  BY <1>1, AccountsKept, IndexVersions DEF Accounted, Queued, queueVars, Inv, Types, States

(* A handler that commits a change answers with it, and so promises it. *)
LEMMA AnswerStep ==
  ASSUME Inv, Inv', AccountInv, NEW r \in Requests, NEW op \in Operations, NEW m \in Messages,
         NEW d \in BOOLEAN, NEW s \in States, ~Answered(r),
         Respond(r, op, m, d, s), op = "delete" => d,
         row' = [row EXCEPT ![m] = s],
         s.version = row[m].version \/ s.version = row[m].version + 1,
         UNCHANGED <<index, queueVars, missed>>
  PROVE  AccountInv'
<1>1. /\ at' = [at EXCEPT ![r] = "committed"]
      /\ req' = [req EXCEPT ![r] = [op |-> op, msg |-> m, expected |-> 0,
                                    deletedNow |-> d, response |-> AsMessage(s)]]
  BY DEF Respond, GoTo
<1>2. Promised(r, m, s.version)'
  BY <1>1 DEF Promised, Answered, Enqueues, AsMessage, Inv, Types
<1>3. ASSUME NEW x \in Requests, NEW n \in Messages, NEW v \in Nat, Promised(x, n, v)
      PROVE  Promised(x, n, v)'
  <2>1. x # r
    BY <1>3 DEF Promised
  <2>2. at'[x] = at[x] /\ req'[x] = req[x]
    BY <1>1, <2>1 DEF Inv, Types
  <2>3. QED
    BY <1>3, <2>2 DEF Promised, Answered, Enqueues
<1>4. ASSUME NEW n \in Messages, NEW v \in 0 .. row'[n].version
      PROVE  Accounted(n, v)'
  <2>1. v \in Nat /\ row[n].version \in Int
    BY DEF Inv, Types, States
  <2>2. CASE v \in 0 .. row[n].version
    BY <1>3, <2>1, <2>2 DEF AccountInv, Accounted, Queued, queueVars
  <2>3. CASE v \notin 0 .. row[n].version
    <3>1. n = m /\ row'[n] = s
      BY <2>1, <2>3 DEF Inv, Types
    <3>2. v = s.version
      BY <2>1, <2>3, <3>1 DEF States
    <3>3. QED
      BY <1>2, <3>1, <3>2 DEF Accounted
  <2>4. QED
    BY <2>2, <2>3
<1>5. QED
  BY <1>4 DEF AccountInv

LEMMA EnqueueAccounts ==
  ASSUME Inv, Inv', QueueInv, AccountInv, NEW r \in Requests, Enqueue(r)
  PROVE  AccountInv'
<1>1. /\ jobs' = Append(jobs, Payload(req[r])) /\ live' = live \cup {Len(jobs) + 1}
      /\ UNCHANGED <<row, index, missed, buried, lost>>
      /\ \A x \in Requests \ {r} : at'[x] = at[x] /\ req'[x] = req[x]
  BY EnqueueAdds DEF AddsJob, Enqueue, Finish, GoTo, Inv, Types
<1>2. /\ \A j \in 1 .. Len(jobs) : jobs'[j] = jobs[j]
      /\ jobs'[Len(jobs) + 1] = Payload(req[r])
  BY <1>1 DEF Inv, Types
<1>3. ASSUME NEW x \in Requests, NEW m \in Messages, NEW v \in Nat, Promised(x, m, v)
      PROVE  Accounted(m, v)'
  <2>1. CASE x = r
    <3>1. \E j \in live' : jobs'[j].msg = m /\ jobs'[j].version = v
      BY <1>1, <1>2, <1>3, <2>1 DEF Promised, Payload
    <3>2. QED
      BY <3>1 DEF Accounted, Queued
  <2>2. CASE x # r
    <3>1. Promised(x, m, v)'
      BY <1>1, <1>3, <2>2 DEF Promised, Answered, Enqueues
    <3>2. QED
      BY <3>1 DEF Accounted
  <2>3. QED
    BY <2>1, <2>2
<1>4. ASSUME NEW j \in live \cup buried \cup lost, NEW m \in Messages, NEW v \in Nat,
             Queued(j, m, v)
      PROVE  Accounted(m, v)'
  <2>1. Queued(j, m, v)'
    BY <1>2, <1>4 DEF Queued, QueueInv
  <2>2. QED
    BY <1>1, <2>1 DEF Accounted
<1>5. QED
  BY <1>1, <1>3, <1>4, AccountsKept, IndexVersions DEF Inv, Types, States

LEMMA GiveUpAccounts ==
  ASSUME Inv, Inv', AccountInv, NEW r \in Requests, EnqueueFails(r) \/ Abandon(r)
  PROVE  AccountInv'
<1>1. /\ Miss(r) /\ UNCHANGED <<row, index, queueVars>>
      /\ \A x \in Requests \ {r} : at'[x] = at[x] /\ req'[x] = req[x]
  BY DEF EnqueueFails, Abandon, Finish, GoTo, Inv, Types
<1>2. ASSUME NEW x \in Requests, NEW m \in Messages, NEW v \in Nat, Promised(x, m, v)
      PROVE  Accounted(m, v)'
  <2>1. CASE x = r
    BY <1>1, <1>2, <2>1 DEF Promised, Answered, Miss, Accounted
  <2>2. CASE x # r
    <3>1. Promised(x, m, v)'
      BY <1>1, <1>2, <2>2 DEF Promised, Answered, Enqueues
    <3>2. QED
      BY <3>1 DEF Accounted
  <2>3. QED
    BY <2>1, <2>2
<1>3. missed \subseteq missed'
  BY <1>1 DEF Miss
<1>4. QED
  BY <1>1, <1>2, <1>3, AccountsKept, IndexVersions DEF Accounted, Queued, queueVars, Inv, Types, States

LEMMA RequestAccounts ==
  ASSUME Inv, Inv', QueueInv, AccountInv, NEW r \in Requests, Request(r)
  PROVE  AccountInv'
<1>1. ASSUME NEW m \in Messages, Send(r, m)
      PROVE  AccountInv'
  <2> DEFINE new == [version |-> 0, deleted |-> FALSE, body |-> 0]
  <2>1. new \in States /\ ~Answered(r) /\ row[m].version = -1
    BY <1>1 DEF States, Send, Answered, Exists, Inv, Types
  <2>2. Respond(r, "send", m, FALSE, new) /\ row' = [row EXCEPT ![m] = new]
        /\ UNCHANGED <<index, queueVars, missed>>
    BY <1>1 DEF Send
  <2>3. new.version = row[m].version + 1
    BY <2>1
  <2>4. QED
    BY <2>1, <2>2, <2>3, AnswerStep DEF Operations
<1>2. ASSUME NEW m \in Messages, NEW v \in 0 .. MaxEdits - 1, LoadForEdit(r, m, v)
      PROVE  AccountInv'
  BY <1>2, UnpromisedStep DEF LoadForEdit, GoTo, Promised, Answered, Inv, Types
<1>3. CASE CommitEdit(r)
  <2> DEFINE m == req[r].msg
             next == [version |-> row[m].version + 1, deleted |-> row[m].deleted,
                      body |-> row[m].version + 1]
  <2>1. m \in Messages /\ row[m] \in States /\ row[m].version >= 0 /\ ~Answered(r)
    BY <1>3 DEF CommitEdit, Answered, Inv, Types, RequestRecords, LoadedInv, LoadedOk
  <2>2. CASE row[m].version = req[r].expected
    <3>1. next \in States /\ next.version = row[m].version + 1
      BY <2>1 DEF States
    <3>2. Respond(r, "edit", m, FALSE, next) /\ row' = [row EXCEPT ![m] = next]
          /\ UNCHANGED <<index, queueVars, missed>>
      BY <1>3, <2>2 DEF CommitEdit
    <3>3. QED
      BY <2>1, <3>1, <3>2, AnswerStep DEF Operations
  <2>3. CASE row[m].version # req[r].expected
    BY <1>3, <2>1, <2>3, UnpromisedStep DEF CommitEdit, Finish, GoTo, Promised, Inv, Types
  <2>4. QED
    BY <2>2, <2>3
<1>4. ASSUME NEW m \in Messages, LoadForDelete(r, m)
      PROVE  AccountInv'
  <2>1. /\ ~Answered(r)
        /\ \A x \in Requests \ {r} : at'[x] = at[x] /\ req'[x] = req[x]
        /\ UNCHANGED <<row, index, queueVars, missed>>
    BY <1>4 DEF LoadForDelete, Respond, GoTo, Answered, Inv, Types
  <2>2. QED
    BY <2>1, UnpromisedStep DEF Promised
<1>5. CASE CommitDelete(r)
  <2> DEFINE m == req[r].msg
             next == IF row[m].deleted THEN row[m]
                     ELSE [version |-> row[m].version + 1, deleted |-> TRUE,
                           body |-> row[m].body]
  <2>1. m \in Messages /\ row[m] \in States /\ row[m].version >= 0 /\ ~Answered(r)
    BY <1>5 DEF CommitDelete, Answered, Inv, Types, RequestRecords, LoadedInv, LoadedOk
  <2>2. /\ next \in States
        /\ next.version = row[m].version \/ next.version = row[m].version + 1
    BY <2>1 DEF States
  <2>3. Respond(r, "delete", m, TRUE, next) /\ row' = [row EXCEPT ![m] = next]
        /\ UNCHANGED <<index, queueVars, missed>>
    BY <1>5 DEF CommitDelete
  <2>4. QED
    BY <2>1, <2>2, <2>3, AnswerStep DEF Operations
<1>6. CASE Broadcast(r)
  <2>1. /\ \A x \in Requests \ {r} : at'[x] = at[x] /\ req'[x] = req[x]
        /\ UNCHANGED <<row, index, queueVars, missed>>
    BY <1>6 DEF Broadcast, Finish, GoTo, Inv, Types
  <2>2. CASE Enqueues(req[r])
    <3>1. ASSUME NEW x \in Requests, NEW m \in Messages, NEW v \in Nat, Promised(x, m, v)
          PROVE  Promised(x, m, v)'
      BY <1>6, <2>1, <2>2, <3>1 DEF Broadcast, GoTo, Promised, Answered, Enqueues, Inv, Types
    <3>2. QED
      BY <2>1, <3>1, AccountsKept, IndexVersions DEF Accounted, Queued, queueVars, Inv, Types, States
  <2>3. CASE ~Enqueues(req[r])
    BY <2>1, <2>3, UnpromisedStep DEF Promised
  <2>4. QED
    BY <2>2, <2>3
<1>7. CASE Enqueue(r)
  BY <1>7, EnqueueAccounts
<1>8. CASE EnqueueFails(r) \/ Abandon(r)
  BY <1>8, GiveUpAccounts
<1>9. QED
  BY <1>1, <1>2, <1>3, <1>4, <1>5, <1>6, <1>7, <1>8 DEF Request

(* A write of the index, or none, while no handler moves. *)
LEMMA WorkerAccounts ==
  ASSUME Inv, Inv', AccountInv,
         UNCHANGED <<row, at, req, jobs, missed>>,
         \A m \in Messages : index'[m].version >= index[m].version,
         \A j \in live \cup buried \cup lost :
           \/ j \in live' \cup buried' \cup lost'
           \/ index'[jobs[j].msg].version >= jobs[j].version
  PROVE  AccountInv'
<1>1. ASSUME NEW x \in Requests, NEW m \in Messages, NEW v \in Nat, Promised(x, m, v)
      PROVE  Accounted(m, v)'
  BY <1>1 DEF Promised, Answered, Enqueues, Accounted
<1>2. ASSUME NEW j \in live \cup buried \cup lost, NEW m \in Messages, NEW v \in Nat,
             Queued(j, m, v)
      PROVE  Accounted(m, v)'
  BY <1>2 DEF Queued, Accounted
<1>3. QED
  BY <1>1, <1>2, AccountsKept, IndexVersions

LEMMA AccountNext ==
  ASSUME Inv, Inv', QueueInv, DoneInv, AccountInv, [Next]_vars
  PROVE  DoneInv' /\ AccountInv'
<1>1. CASE UNCHANGED vars
  <2>1. DoneInv'
    BY <1>1 DEF vars, queueVars, DoneInv
  <2>2. AccountInv'
    BY <1>1, WorkerAccounts, IndexVersions DEF vars, queueVars
  <2>3. QED
    BY <2>1, <2>2
<1>2. ASSUME NEW r \in Requests, Request(r)
      PROVE  DoneInv' /\ AccountInv'
  <2>1. UNCHANGED <<index, done>> /\ (UNCHANGED jobs \/ jobs' = Append(jobs, Payload(req[r])))
    BY <1>2, EnqueueAdds DEF Request, Send, LoadForEdit, CommitEdit, LoadForDelete,
         CommitDelete, Broadcast, EnqueueFails, Abandon, AddsJob, Enqueue, queueVars
  <2>2. \A j \in 1 .. Len(jobs) : jobs'[j] = jobs[j]
    BY <2>1 DEF Inv, Types
  <2>3. DoneInv'
    BY <2>1, <2>2 DEF DoneInv, QueueInv
  <2>4. QED
    BY <1>2, <2>3, RequestAccounts
<1>3. ASSUME NEW j \in JobIds, Work(j)
      PROVE  DoneInv' /\ AccountInv'
  <2>1. CASE RunJob(j)
    <3>1. UNCHANGED <<row, at, req, jobs, missed, index, live, done, buried, lost>>
      BY <2>1 DEF RunJob, Queue!Run
    <3>2. QED
      BY <3>1, WorkerAccounts, IndexVersions DEF DoneInv
  <2>2. CASE HandlerWrites(j) \/ HandlerLosesReply(j)
    <3>1. /\ j \in 1 .. Len(jobs) /\ IndexDocument(jobs[j]) /\ done' \subseteq done \cup {j}
          /\ UNCHANGED <<row, at, req, jobs, missed, live, buried, lost>>
      BY <2>2 DEF HandlerWrites, HandlerLosesReply, Queue!Succeed, queueVars
    <3>2. /\ \A m \in Messages : index'[m].version >= index[m].version
          /\ index'[jobs[j].msg].version >= jobs[j].version
      BY <3>1, IndexDocumentStep
    <3>3. ASSUME NEW i \in done'
          PROVE  index'[jobs'[i].msg].version >= jobs'[i].version
      <4>1. CASE i = j
        BY <3>1, <3>2, <4>1
      <4>2. CASE i # j
        <5>1. i \in 1 .. Len(jobs) /\ index[jobs[i].msg].version >= jobs[i].version
          BY <3>1, <4>2 DEF DoneInv, QueueInv
        <5>2. jobs[i] \in Payloads
          BY <5>1 DEF Inv, Types
        <5>3. jobs[i].msg \in Messages /\ jobs[i].version \in Int
          BY <5>2 DEF Payloads
        <5>4. QED
          BY <3>1, <3>2, <5>1, <5>3, IndexVersions
      <4>3. QED
        BY <4>1, <4>2
    <3>4. QED
      BY <3>1, <3>2, <3>3, WorkerAccounts DEF DoneInv
  <2>3. QED
    BY <1>3, <2>1, <2>2 DEF Work
<1>4. CASE StreamStep
  <2>1. UNCHANGED <<row, at, req, jobs, missed, index, done>>
    BY <1>4 DEF StreamStep, Queue!Retire, Queue!Bury, Queue!Lose
  <2>2. \A j \in live \cup buried \cup lost :
          \/ j \in live' \cup buried' \cup lost'
          \/ index'[jobs[j].msg].version >= jobs[j].version
    BY <1>4, <2>1 DEF StreamStep, Queue!Retire, Queue!Bury, Queue!Lose, DoneInv
  <2>3. QED
    BY <2>1, <2>2, WorkerAccounts, IndexVersions DEF DoneInv
<1>5. QED
  BY <1>1, <1>2, <1>3, <1>4 DEF Next

LEMMA AccountInit == Init => DoneInv /\ AccountInv
BY DEF Init, Queue!Init, DoneInv, AccountInv, None

(* Every committed change is in the index, on its way, or known to be lost.*)
THEOREM NoChangeForgotten == Spec => []EveryChangeAccounted
<1>1. AccountInv => EveryChangeAccounted
  BY DEF AccountInv, Accounted, Promised, Answered, Queued, EveryChangeAccounted
<1>2. Inv /\ Inv' /\ QueueInv /\ DoneInv /\ AccountInv /\ [Next]_vars => DoneInv' /\ AccountInv'
  BY AccountNext
<1>3. Inv /\ QueueInv /\ [Next]_vars => QueueInv'
  BY QueueNext
<1>4. QED
  BY <1>1, <1>2, <1>3, InvAlways, QueueInit, AccountInit, PTL DEF Spec

-----------------------------------------------------------------------------
(* Search. *)

(* Who a search finds: the messages whose document has the text and whose  *)
(* row is there and not deleted.                                           *)
LEMMA FoundBy ==
  ASSUME NEW text
  PROVE  DOMAIN SearchMessages(text) =
           {m \in Messages : Matches(index[m], text) /\ Exists(m) /\ ~row[m].deleted}
BY DEF SearchMessages, Hydrate, CandidateIds

(* With every change accounted for and none under way, lost or given up,   *)
(* the index has the newest version of a message.                          *)
LEMMA SettledIndexIsNew ==
  ASSUME Inv, EveryChangeAccounted, Settled, NEW m \in Messages, Exists(m)
  PROVE  index[m].version >= row[m].version
<1>1. row[m].version \in 0 .. row[m].version
  BY DEF Inv, Types, States, Exists
<1>2. ~\E r \in Requests : at[r] \in {"committed", "announced"}
  BY DEF Settled
<1>3. live \cup buried \cup lost = {} /\ missed = {}
  BY DEF Settled
<1>4. QED
  BY <1>1, <1>2, <1>3 DEF EveryChangeAccounted

(* ...and so, faithful as it is, the newest state.                         *)
LEMMA SettledIndexIsRight ==
  ASSUME Inv, EveryChangeAccounted, Settled, NEW m \in Messages, Exists(m)
  PROVE  index[m] = Copy!Redacted(row[m])
<1>1. index[m].version >= row[m].version /\ row[m].version >= 0
  BY SettledIndexIsNew DEF Exists
<1>2. row[m] \in States /\ index[m] \in States
  BY DEF Inv, Types
<1>3. index[m] \in Copy!Published(row[m])
  BY <1>1, <1>2 DEF Inv, DataInv, IndexInv, None, States
<1>4. QED
  BY <1>1, <1>2, <1>3 DEF Copy!Published, States

(* The text of a row that is not deleted is the version that wrote it, so  *)
(* the document has a text exactly when the row does.                      *)
LEMMA SettledMatches ==
  ASSUME Inv, EveryChangeAccounted, Settled, NEW m \in Messages, Exists(m), ~row[m].deleted,
         NEW text
  PROVE  Matches(index[m], text) <=> row[m].body = text
<1>1. index[m] = [version |-> row[m].version, deleted |-> FALSE, body |-> row[m].body]
  BY SettledIndexIsRight DEF Copy!Redacted, Inv, Types, States
<1>2. index[m] # None
  BY <1>1 DEF None, Exists, Inv, Types, States
<1>3. QED
  BY <1>1, <1>2 DEF Matches

(* search.py 15-18: search never answers a deleted message, and once the   *)
(* jobs have run it answers exactly the messages that say the text now.    *)
THEOREM SearchAnswersRight == Spec => []SearchIsRight
<1>1. ASSUME Inv, EveryChangeAccounted PROVE SearchIsRight
  <2>1. ASSUME NEW text \in 0 .. MaxEdits
        PROVE  \A m \in DOMAIN SearchMessages(text) : ~row[m].deleted
    BY FoundBy
  <2>2. ASSUME NEW text \in 0 .. MaxEdits, Settled
        PROVE  DOMAIN SearchMessages(text) =
                 {m \in Messages : Exists(m) /\ ~row[m].deleted /\ row[m].body = text}
    <3>1. \A m \in Messages :
            Exists(m) /\ ~row[m].deleted => (Matches(index[m], text) <=> row[m].body = text)
      BY <1>1, <2>2, SettledMatches
    <3>2. QED
      BY <3>1, FoundBy
  <2>3. QED
    BY <2>1, <2>2 DEF SearchIsRight
<1>2. QED
  BY <1>1, InvAlways, NoChangeForgotten, PTL

-----------------------------------------------------------------------------
(* The history cached in the browser, a component of its own: what its     *)
(* invariant says of the cache, the fetch and what is on its way.          *)

(* The event of a message's latest version, and the one that adds it.      *)
Latest(i) == Event(i, version[i], version[i] = 0)

Adding(i) == Event(i, 0, TRUE)

Among(s) == {s[k] : k \in DOMAIN s}

Waiting == Among(listeners)

Coming == Among(inbox)

(* A refetch is still to come that reads what was missed, or never will.   *)
Rejoining == join # "acked" \/ Ack \in Coming \/ Ack \in Waiting \/ unasked

(* Whatever an event says was committed once.                              *)
Said(e) ==
  /\ e.id \in stored /\ e.version \in Nat /\ e.version <= version[e.id]
  /\ e.adds <=> e.version = 0
  /\ e.version = 0 => e.id \notin Older

EventInv ==
  /\ \A e \in unpublished : e # Ack /\ Said(e)
  /\ \A e \in Coming : e = Ack \/ Said(e)
  /\ \A e \in Waiting : e = Ack \/ Said(e)
  /\ answer # Ack => Said(answer) /\ ~answer.adds

LinkInv ==
  /\ link = "down" <=> join = "no"
  /\ Coming # {} => member
  /\ Waiting # {} => Fetching
  /\ changes <= MaxChanges /\ \A i \in Ids : version[i] <= changes
  /\ Older \subseteq stored /\ \A i \in Ids \ stored : version[i] = 0

Distinct(rows) == \A k, l \in DOMAIN rows : rows[k].id = rows[l].id => k = l

(* Rows are of messages stored, each once, at a version it has had.        *)
RowsOf(rows) ==
  /\ Distinct(rows)
  /\ \A k \in DOMAIN rows : rows[k].id \in stored /\ rows[k].version <= version[rows[k].id]

AnswersOlder == fetch.answered /\ (paged \/ fetch.kind = "page")

(* Which pages the rows are of.                                            *)
PageInv ==
  /\ RowsOf(cache) /\ RowsOf(fetch.rows)
  /\ ~fetch.answered /\ fetch.kind # "page" => fetch.rows = <<>>
  /\ fetch.answered => Fetching
  /\ fetch.kind = "page" => loaded /\ ~paged
  /\ ~loaded => cache = <<>> /\ ~paged /\ (fetch.kind = "history" \/ gaveUp)
  /\ \A i \in Older : Has(cache, i) <=> paged
  /\ \A i \in Older : Has(fetch.rows, i) <=> AnswersOlder

(* A message once broadcast, or to be, is cached or will be.               *)
InHand(i) ==
  /\ Has(cache, i) \/ gaveUp \/ fetch.kind = "history"
  /\ \/ ~Fetching \/ (fetch.kind = "history" /\ ~fetch.answered)
     \/ Has(fetch.rows, i) \/ Adding(i) \in Waiting \/ (fetch.kind = "page" /\ gaveUp)

KnownInv ==
  \A i \in (stored \ Older) \ dropped :
    Rejoining \/ Adding(i) \in unpublished \cup Coming \/ InHand(i)

InOrder(s, i) == \A k, l \in DOMAIN s : k < l /\ s[k].id = i /\ s[l].id = i =>
                                          s[k].version <= s[l].version

(* The broadcasts of a message in order, but for those overtaken.          *)
InTurn(i) ==
  /\ \A e \in unpublished : e.id = i =>
       /\ \A f \in Coming : f.id = i => f.version < e.version
       /\ \A f \in Waiting : f.id = i => f.version < e.version
  /\ \A e \in Coming : e.id = i => \A f \in Waiting : f.id = i => f.version <= e.version
  /\ InOrder(inbox, i) /\ InOrder(listeners, i)

OrderInv == \A i \in stored \ overtaken : InTurn(i)

Steady == stored \ (dropped \cup overtaken \cup held)

(* After an older version of a message the latest still comes.             *)
Followed(i) ==
  /\ \A e \in unpublished : e.id = i => Latest(i) \in unpublished
  /\ \A e \in Coming : e.id = i => Latest(i) \in Coming \cup unpublished
  /\ \A e \in Waiting : e.id = i => /\ Latest(i) \in Waiting \cup Coming \cup unpublished
                                    /\ member

ChaseInv == \A i \in Steady : Followed(i)

FreshRow(r) ==
  \/ r.version = version[r.id] \/ Latest(r.id) \in unpublished \cup Coming
  \/ Rejoining \/ gaveUp \/ fetch.kind = "history"

FreshFetched(r) ==
  \/ r.version = version[r.id] \/ Latest(r.id) \in unpublished \cup Coming \cup Waiting
  \/ Rejoining \/ (fetch.kind = "page" /\ gaveUp)

(* A row that is not the latest version will be replaced.                  *)
FreshInv ==
  /\ \A k \in DOMAIN cache : cache[k].id \in Steady => FreshRow(cache[k])
  /\ \A k \in DOMAIN fetch.rows : fetch.rows[k].id \in Steady => FreshFetched(fetch.rows[k])

HistoryInv ==
  /\ HistoryTypeOK /\ EventInv /\ LinkInv /\ PageInv
  /\ KnownInv /\ OrderInv /\ ChaseInv /\ FreshInv

-----------------------------------------------------------------------------
(* Rows *)

(* Messages are numbers, from 1 on.                                        *)
LEMMA IdsAreNumbers == Ids \subseteq Nat /\ MaxMessages \in Nat /\ Older \subseteq Ids /\ 0 \notin Ids
BY HistoryAssumption DEF Ids

(* A set of numbers that is not empty has a least one.                     *)
LEMMA LeastNumber ==
  ASSUME NEW T, T \subseteq Nat, T # {}
  PROVE  \E x \in T : \A y \in T : x <= y
<1> DEFINE Less == {p \in Nat \X Nat : p[1] < p[2]}
<1>1. IsWellFoundedOn(Less, Nat)
  BY NatLessThanWellFounded DEF OpToRel
<1>2. \A x, y \in Nat : x < y => <<x, y>> \in Less
  OBVIOUS
<1> HIDE DEF Less
<1>3. \E x \in T : \A y \in T : ~(<<y, x>> \in Less)
  BY <1>1, WFMin
<1>4. PICK x \in T : \A y \in T : ~(<<y, x>> \in Less)
  BY <1>3
<1>5. ASSUME NEW y \in T PROVE x <= y
  <2>1. x \in Nat /\ y \in Nat /\ ~(y < x)
    BY <1>2, <1>4
  <2>2. QED
    BY <2>1
<1>6. QED
  BY <1>5

Descends(s) == \A k, l \in DOMAIN s : k < l => s[k] > s[l]

(* A finite set of numbers has one listing, the greatest first. *)
LEMMA DescendingExists ==
  ASSUME NEW ids, ids \subseteq Ids
  PROVE  /\ IsFiniteSet(ids) /\ Cardinality(ids) \in Nat
         /\ \E s \in [1 .. Cardinality(ids) -> ids] : Descends(s)
<1>1. ASSUME NEW T \in SUBSET Ids PROVE IsFiniteSet(T) /\ Cardinality(T) \in Nat
  <2>1. IsFiniteSet(Ids)
    BY IdsAreNumbers, FS_Interval DEF Ids
  <2>2. IsFiniteSet(T)
    BY <2>1, FS_Subset
  <2> QED
    BY <2>2, FS_CardinalityType
<1> DEFINE Bad == {n \in Nat : \E T \in SUBSET Ids : /\ Cardinality(T) = n
                                                     /\ ~\E s \in [1 .. n -> T] : Descends(s)}
<1>2. ASSUME Bad # {} PROVE FALSE
  <2>1. PICK n \in Bad : \A k \in Bad : n <= k
    <3>1. Bad \subseteq Nat
      OBVIOUS
    <3> HIDE DEF Bad
    <3> QED
      BY <1>2, <3>1, LeastNumber
  <2>2. n \in Nat
    OBVIOUS
  <2>3. PICK T \in SUBSET Ids : Cardinality(T) = n /\ ~\E s \in [1 .. n -> T] : Descends(s)
    OBVIOUS
  <2>4. IsFiniteSet(T)
    BY <1>1
  <2>5. n # 0
    <3>1. ASSUME n = 0 PROVE FALSE
      <4>1. [k \in 1 .. 0 |-> 0] \in [1 .. n -> T] /\ Descends([k \in 1 .. 0 |-> 0])
        BY <3>1 DEF Descends
      <4> QED
        BY <2>3, <4>1
    <3> QED
      BY <3>1
  <2>6. T # {}
    BY <2>3, <2>5, FS_EmptySet
  <2>7. PICK x \in T : \A y \in T : y <= x
    <3> DEFINE Rest == {MaxMessages - y : y \in T}
    <3>1. Rest \subseteq Nat /\ Rest # {}
      <4>1. \A y \in T : y \in 1 .. MaxMessages
        BY DEF Ids
      <4>2. \A y \in T : MaxMessages - y \in Nat
        BY <4>1, IdsAreNumbers
      <4> QED
        BY <2>6, <4>2
    <3>2. PICK r \in Rest : \A y \in Rest : r <= y
      <4> HIDE DEF Rest
      <4> QED
        BY <3>1, LeastNumber
    <3>3. PICK x \in T : r = MaxMessages - x
      OBVIOUS
    <3>4. ASSUME NEW y \in T PROVE y <= x
      <4>1. MaxMessages - y \in Rest
        OBVIOUS
      <4>2. MaxMessages - x <= MaxMessages - y /\ x \in Nat /\ y \in Nat
        BY <3>2, <3>3, <4>1, IdsAreNumbers
      <4> QED
        BY <4>2, IdsAreNumbers
    <3> QED
      BY <3>4
  <2>8. Cardinality(T \ {x}) = n - 1 /\ n - 1 \in Nat /\ T \ {x} \in SUBSET Ids
    BY <2>2, <2>3, <2>4, <2>5, FS_RemoveElement
  <2>9. PICK s \in [1 .. n - 1 -> T \ {x}] : Descends(s)
    <3>1. n - 1 \notin Bad
      <4> HIDE DEF Bad
      <4> QED
        BY <2>1, <2>2, <2>8
    <3> QED
      BY <2>8, <3>1
  <2>10. [k \in 1 .. n |-> IF k = 1 THEN x ELSE s[k - 1]] \in [1 .. n -> T]
    <3>1. \A k \in 1 .. n : k # 1 => k - 1 \in 1 .. n - 1
      BY <2>2
    <3>2. \A k \in 1 .. n : k # 1 => s[k - 1] \in T
      BY <2>9, <3>1
    <3> QED
      BY <3>2
  <2>11. Descends([k \in 1 .. n |-> IF k = 1 THEN x ELSE s[k - 1]])
    <3> SUFFICES ASSUME NEW k \in 1 .. n, NEW l \in 1 .. n, k < l
                 PROVE  (IF k = 1 THEN x ELSE s[k - 1]) > (IF l = 1 THEN x ELSE s[l - 1])
      BY DEF Descends
    <3>1. l # 1 /\ l - 1 \in 1 .. n - 1 /\ s[l - 1] \in T \ {x}
      BY <2>2, <2>9
    <3>2. CASE k = 1
      <4>1. s[l - 1] <= x /\ s[l - 1] # x /\ s[l - 1] \in Nat /\ x \in Nat
        BY <2>7, <3>1, IdsAreNumbers
      <4> QED
        BY <3>1, <3>2, <4>1
    <3>3. CASE k # 1
      <4>1. k - 1 \in 1 .. n - 1 /\ k - 1 < l - 1
        BY <2>2, <3>3
      <4>2. s[k - 1] > s[l - 1]
        BY <2>9, <3>1, <4>1 DEF Descends
      <4> QED
        BY <3>1, <3>3, <4>2
    <3> QED
      BY <3>2, <3>3
  <2> QED
    BY <2>3, <2>10, <2>11
<1>3. IsFiniteSet(ids) /\ Cardinality(ids) \in Nat
  BY <1>1
<1>4. Cardinality(ids) \notin Bad
  <2> HIDE DEF Bad
  <2> QED
    BY <1>2
<1> QED
  BY <1>3, <1>4

(* The server's answer has each message asked for once, as it is now.      *)
LEMMA RowsAnswered ==
  ASSUME NEW ids, ids \subseteq Ids, version \in [Ids -> Nat]
  PROVE  /\ Rows(ids) \in Seq(Row) /\ Distinct(Rows(ids))
         /\ \A i : Has(Rows(ids), i) <=> i \in ids
         /\ \A k \in DOMAIN Rows(ids) : Rows(ids)[k].version = version[Rows(ids)[k].id]
<1>1. PICK n \in Nat : n = Cardinality(ids)
  BY DescendingExists
<1>2. PICK order : order = CHOOSE s \in [1 .. n -> ids] : \A k, l \in DOMAIN s : k < l => s[k] > s[l]
  OBVIOUS
<1>3. order \in [1 .. n -> ids] /\ \A k, l \in DOMAIN order : k < l => order[k] > order[l]
  <2>1. \E s \in [1 .. n -> ids] : \A k, l \in DOMAIN s : k < l => s[k] > s[l]
    BY <1>1, DescendingExists DEF Descends
  <2> QED
    BY <1>2, <2>1
<1>4. DOMAIN order = 1 .. n /\ \A k \in 1 .. n : order[k] \in ids /\ order[k] \in Nat
  BY <1>3, IdsAreNumbers
<1>5. \A k, l \in 1 .. n : order[k] = order[l] => k = l
  <2> SUFFICES ASSUME NEW k \in 1 .. n, NEW l \in 1 .. n, order[k] = order[l] PROVE k = l
    OBVIOUS
  <2>1. ~(order[k] > order[l]) /\ ~(order[l] > order[k])
    BY <1>4
  <2>2. ~(k < l) /\ ~(l < k)
    BY <1>3, <1>4, <2>1
  <2> QED
    BY <1>1, <2>2
<1>6. \A i \in ids : \E k \in 1 .. n : order[k] = i
  <2> DEFINE T == {order[k] : k \in 1 .. n}
  <2>1. T \in SUBSET ids /\ IsFiniteSet(ids) /\ Cardinality(ids) = n
    BY <1>1, <1>4, DescendingExists
  <2>2. order \in [1 .. n -> T] /\ \A t \in T : \E k \in 1 .. n : order[k] = t
    BY <1>3, <1>4
  <2> HIDE DEF T
  <2>3. order \in Bijection(1 .. n, T)
    BY <1>4, <1>5, <2>2 DEF Bijection, Injection, IsInjective, Surjection
  <2>4. IsFiniteSet(1 .. n) /\ Cardinality(1 .. n) = n
    BY FS_Interval
  <2>5. Cardinality(T) = n
    BY <2>3, <2>4, FS_Bijection DEF ExistsBijection
  <2>6. T = ids
    BY <2>1, <2>5, FS_Subset
  <2> QED
    BY <2>2, <2>6
<1>7. PICK rows : rows = [k \in 1 .. n |-> [id |-> order[k], version |-> version[order[k]]]]
  OBVIOUS
<1>8. Rows(ids) = rows
  BY <1>1, <1>2, <1>4, <1>7 DEF Rows
<1>9. DOMAIN rows = 1 .. n /\ \A k \in 1 .. n : /\ rows[k] \in Row /\ rows[k].id = order[k]
                                                /\ rows[k].version = version[order[k]]
  BY <1>4, <1>7 DEF Row
<1>10. rows \in Seq(Row)
  BY <1>7, <1>9
<1>11. Distinct(rows)
  BY <1>5, <1>9 DEF Distinct
<1>12. ASSUME NEW i PROVE Has(rows, i) <=> i \in ids
  <2>1. Has(rows, i) <=> \E k \in 1 .. n : order[k] = i
    BY <1>9 DEF Has
  <2> QED
    BY <1>4, <1>6, <2>1
<1> QED
  BY <1>8, <1>9, <1>10, <1>11, <1>12

(* Two pages of different messages are one history.                        *)
LEMMA RowsAppended ==
  ASSUME NEW a \in Seq(Row), NEW b \in Seq(Row)
  PROVE  /\ a \o b \in Seq(Row)
         /\ \A i : Has(a \o b, i) <=> Has(a, i) \/ Has(b, i)
         /\ \A k \in DOMAIN (a \o b) : \/ \E l \in DOMAIN a : (a \o b)[k] = a[l]
                                       \/ \E l \in DOMAIN b : (a \o b)[k] = b[l]
         /\ Distinct(a) /\ Distinct(b) /\ (\A i : ~Has(a, i) \/ ~Has(b, i)) => Distinct(a \o b)
<1>1. /\ a \o b \in Seq(Row) /\ Len(a \o b) = Len(a) + Len(b)
      /\ \A i \in 1 .. Len(a) + Len(b) : (a \o b)[i] = IF i <= Len(a) THEN a[i] ELSE b[i - Len(a)]
  BY ConcatProperties
<1>2. Len(a) \in Nat /\ Len(b) \in Nat
  OBVIOUS
<1>3. /\ DOMAIN a = 1 .. Len(a) /\ DOMAIN b = 1 .. Len(b)
      /\ DOMAIN (a \o b) = 1 .. Len(a) + Len(b)
  BY <1>1
<1>4. /\ \A i \in 1 .. Len(a) : i \in 1 .. Len(a) + Len(b) /\ (a \o b)[i] = a[i]
      /\ \A i \in 1 .. Len(b) : /\ i + Len(a) \in 1 .. Len(a) + Len(b)
                                /\ (a \o b)[i + Len(a)] = b[i]
  BY <1>1, <1>2
<1>5. \A i \in 1 .. Len(a) + Len(b) : \/ i \in 1 .. Len(a) /\ (a \o b)[i] = a[i]
                                      \/ i - Len(a) \in 1 .. Len(b) /\ (a \o b)[i] = b[i - Len(a)]
  BY <1>1, <1>2
<1> DEFINE u == a \o b
<1> HIDE DEF u
<1>6. \A i : Has(u, i) <=> Has(a, i) \/ Has(b, i)
  <2>1. ASSUME NEW i, Has(u, i) PROVE Has(a, i) \/ Has(b, i)
    BY <1>3, <1>5, <2>1 DEF Has, u
  <2>2. ASSUME NEW i, Has(a, i) PROVE Has(u, i)
    BY <1>3, <1>4, <2>2 DEF Has, u
  <2>3. ASSUME NEW i, Has(b, i) PROVE Has(u, i)
    BY <1>3, <1>4, <2>3 DEF Has, u
  <2> QED
    BY <2>1, <2>2, <2>3
<1>7. \A k \in DOMAIN u : (\E l \in DOMAIN a : u[k] = a[l]) \/ \E l \in DOMAIN b : u[k] = b[l]
  BY <1>3, <1>5 DEF u
<1>8. ASSUME Distinct(a), Distinct(b), \A i : ~Has(a, i) \/ ~Has(b, i) PROVE Distinct(u)
  <2> SUFFICES ASSUME NEW k \in 1 .. Len(a) + Len(b), NEW l \in 1 .. Len(a) + Len(b),
                      u[k].id = u[l].id
               PROVE  k = l
    BY <1>3 DEF Distinct, u
  <2>1. CASE k \in 1 .. Len(a) /\ u[k] = a[k]
    <3>1. CASE l \in 1 .. Len(a) /\ u[l] = a[l]
      BY <1>3, <1>8, <2>1, <3>1 DEF Distinct
    <3>2. CASE l - Len(a) \in 1 .. Len(b) /\ u[l] = b[l - Len(a)]
      BY <1>3, <1>8, <2>1, <3>2 DEF Has
    <3> QED
      BY <1>5, <3>1, <3>2 DEF u
  <2>2. CASE k - Len(a) \in 1 .. Len(b) /\ u[k] = b[k - Len(a)]
    <3>1. CASE l \in 1 .. Len(a) /\ u[l] = a[l]
      BY <1>3, <1>8, <2>2, <3>1 DEF Has
    <3>2. CASE l - Len(a) \in 1 .. Len(b) /\ u[l] = b[l - Len(a)]
      <4>1. k - Len(a) = l - Len(a)
        BY <1>3, <1>8, <2>2, <3>2 DEF Distinct
      <4> QED
        BY <1>2, <4>1
    <3> QED
      BY <1>5, <3>1, <3>2 DEF u
  <2> QED
    BY <1>5, <2>1, <2>2 DEF u
<1> QED
  BY <1>1, <1>6, <1>7, <1>8 DEF u

RealEvents == [id : Ids, version : Nat, adds : BOOLEAN]

(* An event replaces the row of its message, or adds one, and no more.     *)
LEMMA UpsertSays ==
  ASSUME NEW rows \in Seq(Row), NEW e \in RealEvents
  PROVE  /\ Upsert(rows, e) \in Seq(Row)
         /\ \A i : Has(Upsert(rows, e), i) <=> Has(rows, i) \/ (e.adds /\ i = e.id)
         /\ \A k \in DOMAIN Upsert(rows, e) : LET r == Upsert(rows, e)[k] IN
              \/ r.id = e.id /\ r.version = e.version
              \/ r.id # e.id /\ \E l \in DOMAIN rows : r = rows[l]
         /\ Distinct(rows) => Distinct(Upsert(rows, e))
<1>1. PICK new \in Row : new = [id |-> e.id, version |-> e.version]
  BY DEF Row, RealEvents
<1>2. new.id = e.id /\ new.version = e.version /\ e.adds \in BOOLEAN
  BY <1>1 DEF RealEvents
<1>3. CASE Has(rows, e.id)
  <2>1. PICK u : u = [k \in DOMAIN rows |-> IF rows[k].id = e.id THEN new ELSE rows[k]]
    OBVIOUS
  <2>2. Upsert(rows, e) = u
    BY <1>1, <1>3, <2>1 DEF Upsert
  <2>3. /\ DOMAIN u = DOMAIN rows
        /\ \A k \in DOMAIN rows : u[k] = IF rows[k].id = e.id THEN new ELSE rows[k]
    BY <2>1
  <2>4. u \in Seq(Row)
    <3>1. Len(rows) \in Nat /\ DOMAIN rows = 1 .. Len(rows) /\ \A k \in DOMAIN rows : rows[k] \in Row
      OBVIOUS
    <3>2. \A k \in 1 .. Len(rows) : u[k] \in Row
      BY <2>3, <3>1
    <3>3. u = [k \in 1 .. Len(rows) |-> u[k]]
      BY <2>1, <2>3, <3>1
    <3> QED
      BY <3>1, <3>2, <3>3
  <2>5. \A k \in DOMAIN rows : u[k].id = rows[k].id
    BY <1>2, <2>3
  <2>6. /\ \A i : Has(u, i) <=> Has(rows, i)
        /\ Distinct(rows) => Distinct(u)
    BY <2>3, <2>5 DEF Has, Distinct
  <2>7. \A k \in DOMAIN u : \/ u[k].id = e.id /\ u[k].version = e.version
                            \/ u[k].id # e.id /\ \E l \in DOMAIN rows : u[k] = rows[l]
    BY <1>2, <2>3
  <2> QED
    BY <1>3, <2>2, <2>4, <2>6, <2>7
<1>4. CASE ~Has(rows, e.id) /\ e.adds
  <2>1. PICK a \in Seq(Row) : a = <<new>>
    <3>1. <<new>> \in Seq(Row)
      OBVIOUS
    <3> QED
      BY <3>1
  <2>2. Upsert(rows, e) = a \o rows
    BY <1>1, <1>4, <2>1 DEF Upsert
  <2>3. DOMAIN a = {1} /\ a[1] = new
    BY <2>1
  <2>4. Distinct(a) /\ \A i : Has(a, i) <=> i = e.id
    BY <1>2, <2>3 DEF Distinct, Has
  <2>5. /\ a \o rows \in Seq(Row)
        /\ \A i : Has(a \o rows, i) <=> Has(a, i) \/ Has(rows, i)
        /\ \A k \in DOMAIN (a \o rows) : \/ \E l \in DOMAIN a : (a \o rows)[k] = a[l]
                                         \/ \E l \in DOMAIN rows : (a \o rows)[k] = rows[l]
        /\ Distinct(a) /\ Distinct(rows) /\ (\A i : ~Has(a, i) \/ ~Has(rows, i))
             => Distinct(a \o rows)
    BY <2>1, RowsAppended
  <2>6. \A l \in DOMAIN rows : rows[l].id # e.id
    BY <1>4 DEF Has
  <2>7. \A k \in DOMAIN (a \o rows) : LET r == (a \o rows)[k] IN
          \/ r.id = e.id /\ r.version = e.version
          \/ r.id # e.id /\ \E l \in DOMAIN rows : r = rows[l]
    BY <1>2, <2>3, <2>5, <2>6
  <2>8. Distinct(rows) => Distinct(a \o rows)
    BY <1>4, <2>4, <2>5
  <2> QED
    BY <1>4, <2>2, <2>4, <2>5, <2>7, <2>8
<1>5. CASE ~Has(rows, e.id) /\ ~e.adds
  <2>1. Upsert(rows, e) = rows
    BY <1>5 DEF Upsert
  <2>2. \A l \in DOMAIN rows : rows[l].id # e.id
    BY <1>5 DEF Has
  <2> QED
    BY <1>5, <2>1, <2>2
<1> QED
  BY <1>2, <1>3, <1>4, <1>5

(* The listeners that run when a fetch settles are events, up to the first *)
(* that starts a refetch.                                                  *)
LEMMA DueSays ==
  ASSUME listeners \in Seq(Events)
  PROVE  /\ Due \in Nat /\ Due <= Len(listeners) /\ Len(listeners) \in Nat
         /\ DOMAIN listeners = 1 .. Len(listeners)
         /\ \A k \in 1 .. Due : k \in DOMAIN listeners /\ listeners[k] \in RealEvents
         /\ Stops = {} => Due = Len(listeners)
         /\ Stops # {} => /\ FirstStop \in DOMAIN listeners /\ FirstStop \in Nat
                          /\ listeners[FirstStop] = Ack /\ Due = FirstStop - 1
<1>1. /\ Len(listeners) \in Nat /\ DOMAIN listeners = 1 .. Len(listeners)
      /\ \A k \in DOMAIN listeners : listeners[k] \in Events
  OBVIOUS
<1>2. CASE Stops = {}
  <2>1. Due = Len(listeners)
    BY <1>2 DEF Due
  <2>2. \A k \in DOMAIN listeners : listeners[k] \in RealEvents
    BY <1>1, <1>2 DEF Stops, Events, RealEvents
  <2> QED
    BY <1>1, <1>2, <2>1, <2>2
<1>3. CASE Stops # {}
  <2>1. Stops \subseteq Nat
    BY <1>1 DEF Stops
  <2>2. \E k \in Stops : \A l \in Stops : k <= l
    BY <1>3, <2>1, LeastNumber
  <2>3. FirstStop \in Stops /\ \A l \in Stops : FirstStop <= l
    BY <2>2 DEF FirstStop
  <2>4. FirstStop \in 1 .. Len(listeners) /\ listeners[FirstStop] = Ack
    BY <1>1, <2>3 DEF Stops
  <2>5. Due = FirstStop - 1
    BY <1>3 DEF Due
  <2>6. Due \in Nat /\ Due <= Len(listeners)
    BY <1>1, <2>4, <2>5
  <2>7. \A k \in 1 .. Due : k \in DOMAIN listeners /\ k \notin Stops
    BY <1>1, <2>3, <2>4, <2>5
  <2>8. \A k \in 1 .. Due : listeners[k] \in RealEvents
    BY <1>1, <2>7 DEF Stops, Events, RealEvents
  <2> QED
    BY <1>1, <1>3, <2>4, <2>5, <2>6, <2>7, <2>8
<1> QED
  BY <1>2, <1>3

(* Applying the due events again goes one listener at a time.              *)
LEMMA ReappliedSteps ==
  ASSUME NEW rows, listeners \in Seq(Events)
  PROVE  \E f : /\ f[0] = rows /\ Reapplied(rows) = f[Due]
                /\ \A k \in 1 .. Due : f[k] = Upsert(f[k - 1], listeners[k])
<1>0. Due \in Nat
  BY DueSays
<1> DEFINE Is(f, n) == f = [k \in 0 .. n |-> IF k = 0 THEN rows ELSE Upsert(f[k - 1], listeners[k])]
<1> DEFINE Bad == {n \in Nat : ~\E f : Is(f, n)}
<1>1. ASSUME Bad # {} PROVE FALSE
  <2>1. PICK n \in Bad : \A k \in Bad : n <= k
    <3>1. Bad \subseteq Nat
      OBVIOUS
    <3> HIDE DEF Bad
    <3> QED
      BY <1>1, <3>1, LeastNumber
  <2>2. n \in Nat /\ ~\E f : Is(f, n)
    OBVIOUS
  <2>3. CASE n = 0
    <3>1. PICK f : f = [k \in 0 .. 0 |-> rows]
      OBVIOUS
    <3>2. Is(f, 0)
      <4>1. \A k \in 0 .. 0 : k = 0
        OBVIOUS
      <4>2. [k \in 0 .. 0 |-> rows] = [k \in 0 .. 0 |-> IF k = 0 THEN rows ELSE Upsert(f[k - 1], listeners[k])]
        BY <4>1
      <4> QED
        BY <3>1, <4>2
    <3> QED
      BY <2>2, <2>3, <3>2
  <2>4. CASE n # 0
    <3>1. n - 1 \in Nat /\ n - 1 \notin Bad
      <4>1. n - 1 \in Nat /\ ~(n <= n - 1)
        BY <2>2, <2>4
      <4> HIDE DEF Bad
      <4> QED
        BY <2>1, <4>1
    <3>2. PICK g : Is(g, n - 1)
      BY <3>1
    <3>3. PICK f : f = [k \in 0 .. n |-> IF k = n THEN Upsert(g[n - 1], listeners[n]) ELSE g[k]]
      OBVIOUS
    <3>4. \A k \in 0 .. n : k # n => k \in 0 .. n - 1 /\ (k # 0 => k - 1 \in 0 .. n - 1)
      BY <2>2, <2>4
    <3>5. \A k \in 0 .. n - 1 : f[k] = g[k]
      BY <2>2, <3>3
    <3>6. \A k \in 0 .. n - 1 : g[k] = IF k = 0 THEN rows ELSE Upsert(g[k - 1], listeners[k])
      BY <3>2
    <3>7. \A k \in 0 .. n : f[k] = IF k = 0 THEN rows ELSE Upsert(f[k - 1], listeners[k])
      <4>1. ASSUME NEW k \in 0 .. n, k = n PROVE f[k] = Upsert(f[k - 1], listeners[k])
        <5>1. f[n] = Upsert(g[n - 1], listeners[n])
          BY <2>2, <3>3
        <5>2. f[n - 1] = g[n - 1]
          BY <2>2, <2>4, <3>5
        <5> QED
          BY <4>1, <5>1, <5>2
      <4>2. ASSUME NEW k \in 0 .. n, k # n
            PROVE  f[k] = IF k = 0 THEN rows ELSE Upsert(f[k - 1], listeners[k])
        <5>1. k \in 0 .. n - 1 /\ f[k] = g[k] /\ (k # 0 => f[k - 1] = g[k - 1])
          BY <3>4, <3>5, <4>2
        <5> QED
          BY <3>6, <5>1
      <4> QED
        BY <2>4, <4>1, <4>2
    <3>8. Is(f, n)
      <4>1. f = [k \in 0 .. n |-> f[k]]
        BY <3>3
      <4> QED
        BY <3>7, <4>1
    <3> QED
      BY <2>2, <3>8
  <2> QED
    BY <2>3, <2>4
<1>2. \E f : Is(f, Due)
  <2>1. Due \notin Bad
    <3> HIDE DEF Bad
    <3> QED
      BY <1>1
  <2> QED
    BY <1>0, <2>1
<1> DEFINE after == CHOOSE f : Is(f, Due)
<1>3. Is(after, Due)
  BY <1>2
<1>4. Reapplied(rows) = after[Due]
  BY DEF Reapplied
<1> HIDE DEF after
<1>5. \A k \in 0 .. Due : after[k] = IF k = 0 THEN rows ELSE Upsert(after[k - 1], listeners[k])
  BY <1>3
<1>6. after[0] = rows /\ \A k \in 1 .. Due : after[k] = Upsert(after[k - 1], listeners[k])
  BY <1>0, <1>5
<1> QED
  BY <1>4, <1>6

(* A row as the first k listeners leave it.                                *)
LeftBy(k, rows, r) ==
  \/ \E l \in 1 .. k : /\ listeners[l].id = r.id /\ listeners[l].version = r.version
                       /\ \A q \in 1 .. k : l < q => listeners[q].id # r.id
  \/ (\A l \in 1 .. k : listeners[l].id # r.id) /\ \E l \in DOMAIN rows : r = rows[l]

(* What was fetched, with the due events applied again.                    *)
LEMMA ReappliedSays ==
  ASSUME NEW rows \in Seq(Row), listeners \in Seq(Events)
  PROVE  /\ Reapplied(rows) \in Seq(Row)
         /\ Distinct(rows) => Distinct(Reapplied(rows))
         /\ \A i : Has(Reapplied(rows), i) <=>
                     Has(rows, i) \/ \E l \in 1 .. Due : listeners[l].adds /\ listeners[l].id = i
         /\ \A m \in DOMAIN Reapplied(rows) : LeftBy(Due, rows, Reapplied(rows)[m])
<1>0. Due \in Nat /\ \A k \in 1 .. Due : listeners[k] \in RealEvents
  BY DueSays
<1>1. PICK f : /\ f[0] = rows /\ Reapplied(rows) = f[Due]
               /\ \A k \in 1 .. Due : f[k] = Upsert(f[k - 1], listeners[k])
  BY ReappliedSteps
<1> DEFINE Fine(k) == /\ f[k] \in Seq(Row)
                      /\ Distinct(rows) => Distinct(f[k])
                      /\ \A i : Has(f[k], i) <=>
                           Has(rows, i) \/ \E l \in 1 .. k : listeners[l].adds /\ listeners[l].id = i
                      /\ \A m \in DOMAIN f[k] : LeftBy(k, rows, f[k][m])
<1>2. Fine(0)
  <2>1. f[0] = rows /\ 1 .. 0 = {}
    BY <1>1
  <2>2. \A m \in DOMAIN rows : LeftBy(0, rows, rows[m])
    BY <2>1 DEF LeftBy
  <2> QED
    BY <2>1, <2>2
<1>3. ASSUME NEW k \in Nat, k + 1 <= Due, Fine(k) PROVE Fine(k + 1)
  <2>0. /\ k + 1 \in 1 .. Due /\ (k + 1) - 1 = k
        /\ \A l : l \in 1 .. k + 1 <=> l \in 1 .. k \/ l = k + 1
        /\ \A l \in 1 .. k : l < k + 1
        /\ \A l \in 1 .. k + 1 : ~(k + 1 < l)
    BY <1>0, <1>3
  <2>1. PICK e \in RealEvents : e = listeners[k + 1]
    BY <1>0, <2>0
  <2>2. f[k + 1] = Upsert(f[k], e)
    BY <1>1, <2>0, <2>1
  <2>3. PICK old \in Seq(Row) : old = f[k]
    BY <1>3
  <2>4. /\ Upsert(old, e) \in Seq(Row)
        /\ \A i : Has(Upsert(old, e), i) <=> Has(old, i) \/ (e.adds /\ i = e.id)
        /\ \A m \in DOMAIN Upsert(old, e) : LET r == Upsert(old, e)[m] IN
             \/ r.id = e.id /\ r.version = e.version
             \/ r.id # e.id /\ \E l \in DOMAIN old : r = old[l]
        /\ Distinct(old) => Distinct(Upsert(old, e))
    BY UpsertSays
  <2>5. PICK new : new = Upsert(old, e) /\ new = f[k + 1]
    BY <2>2, <2>3
  <2>6. ASSUME NEW i
        PROVE  Has(new, i) <=>
                 Has(rows, i) \/ \E l \in 1 .. k + 1 : listeners[l].adds /\ listeners[l].id = i
    <3>1. Has(new, i) <=> Has(old, i) \/ (e.adds /\ i = e.id)
      BY <2>4, <2>5
    <3>2. Has(old, i) <=> Has(rows, i) \/ \E l \in 1 .. k : listeners[l].adds /\ listeners[l].id = i
      BY <1>3, <2>3
    <3>3. (\E l \in 1 .. k + 1 : listeners[l].adds /\ listeners[l].id = i) <=>
            (\E l \in 1 .. k : listeners[l].adds /\ listeners[l].id = i) \/ (e.adds /\ i = e.id)
      BY <2>0, <2>1
    <3> QED
      BY <3>1, <3>2, <3>3
  <2>7. ASSUME NEW m \in DOMAIN new PROVE LeftBy(k + 1, rows, new[m])
    <3>1. PICK r : r = new[m]
      OBVIOUS
    <3>2. (r.id = e.id /\ r.version = e.version) \/ (r.id # e.id /\ \E l \in DOMAIN old : r = old[l])
      BY <2>4, <2>5, <3>1
    <3>3. CASE r.id = e.id /\ r.version = e.version
      <4>1. /\ listeners[k + 1].id = r.id /\ listeners[k + 1].version = r.version
            /\ \A q \in 1 .. k + 1 : k + 1 < q => listeners[q].id # r.id
        BY <2>0, <2>1, <3>3
      <4> QED
        BY <2>0, <3>1, <4>1 DEF LeftBy
    <3>4. CASE r.id # e.id /\ \E l \in DOMAIN old : r = old[l]
      <4>1. LeftBy(k, rows, r)
        BY <1>3, <2>3, <3>4
      <4>2. listeners[k + 1].id # r.id
        BY <2>1, <3>4
      <4>3. CASE \E l \in 1 .. k : /\ listeners[l].id = r.id /\ listeners[l].version = r.version
                                   /\ \A q \in 1 .. k : l < q => listeners[q].id # r.id
        BY <2>0, <3>1, <4>2, <4>3 DEF LeftBy
      <4>4. CASE (\A l \in 1 .. k : listeners[l].id # r.id) /\ \E l \in DOMAIN rows : r = rows[l]
        BY <2>0, <3>1, <4>2, <4>4 DEF LeftBy
      <4> QED
        BY <4>1, <4>3, <4>4 DEF LeftBy
    <3> QED
      BY <3>2, <3>3, <3>4
  <2>8. new \in Seq(Row) /\ (Distinct(rows) => Distinct(new))
    BY <1>3, <2>3, <2>4, <2>5
  <2> QED
    BY <2>5, <2>6, <2>7, <2>8
<1>4. Fine(Due)
  <2> HIDE DEF Fine
  <2> DEFINE Bad == {k \in Nat : k <= Due /\ ~Fine(k)}
  <2>1. ASSUME Bad # {} PROVE FALSE
    <3>1. PICK n \in Bad : \A k \in Bad : n <= k
      <4>1. Bad \subseteq Nat
        OBVIOUS
      <4> HIDE DEF Bad
      <4> QED
        BY <2>1, <4>1, LeastNumber
    <3>2. n \in Nat /\ n <= Due /\ ~Fine(n) /\ n # 0
      BY <1>2
    <3>3. n - 1 \in Nat /\ n - 1 <= Due /\ ~(n <= n - 1) /\ (n - 1) + 1 = n
      BY <1>0, <3>2
    <3>4. n - 1 \notin Bad
      <4> HIDE DEF Bad
      <4> QED
        BY <3>1, <3>3
    <3>5. Fine(n - 1)
      BY <3>3, <3>4
    <3>6. PICK m \in Nat : m = n - 1
      BY <3>3
    <3>7. Fine(m + 1)
      BY <1>3, <3>2, <3>3, <3>5, <3>6
    <3> QED
      BY <3>2, <3>3, <3>6, <3>7
  <2>2. Due \notin Bad
    <3> HIDE DEF Bad
    <3> QED
      BY <2>1
  <2>3. Due <= Due
    BY <1>0
  <2> QED
    BY <1>0, <2>2, <2>3
<1>5. PICK g : g = f[Due] /\ g = Reapplied(rows)
  BY <1>1
<1>6. /\ g \in Seq(Row) /\ (Distinct(rows) => Distinct(g))
      /\ \A i : Has(g, i) <=> Has(rows, i) \/ \E l \in 1 .. Due : listeners[l].adds /\ listeners[l].id = i
      /\ \A m \in DOMAIN g : LeftBy(Due, rows, g[m])
  BY <1>4, <1>5
<1> QED
  BY <1>5, <1>6

-----------------------------------------------------------------------------
(* Events and the queues they wait in *)

(* An event is known by its fields, and is never the acknowledgement.      *)
LEMMA EventSays ==
  /\ Ack \in Events /\ Ack \notin RealEvents /\ Ack.id = 0 /\ Events = RealEvents \cup {Ack}
  /\ \A e \in RealEvents : e # Ack /\ e.id \in Ids /\ e.version \in Nat /\ e.adds \in BOOLEAN
  /\ \A i \in Ids, v \in Nat, a \in BOOLEAN :
       /\ Event(i, v, a) \in RealEvents /\ Event(i, v, a).id = i
       /\ Event(i, v, a).version = v /\ Event(i, v, a).adds = a
  /\ \A e, f \in RealEvents : e.id = f.id /\ e.version = f.version /\ e.adds = f.adds => e = f
<1>1. Ack.id = 0 /\ Ack \in Events /\ Events = RealEvents \cup {Ack}
  BY DEF Ack, Event, Events, RealEvents
<1>2. \A e \in RealEvents : e.id \in Ids /\ e.version \in Nat /\ e.adds \in BOOLEAN /\ e # Ack
  BY <1>1, IdsAreNumbers DEF RealEvents
<1>3. \A i \in Ids, v \in Nat, a \in BOOLEAN :
       /\ Event(i, v, a) \in RealEvents /\ Event(i, v, a).id = i
       /\ Event(i, v, a).version = v /\ Event(i, v, a).adds = a
  BY DEF Event, RealEvents
<1>4. \A e, f \in RealEvents : e.id = f.id /\ e.version = f.version /\ e.adds = f.adds => e = f
  BY DEF RealEvents
<1> QED
  BY <1>1, <1>2, <1>3, <1>4

(* What is among a queue is at one of its places.                          *)
LEMMA AmongSays ==
  ASSUME NEW s \in Seq(Events)
  PROVE  /\ Among(s) \subseteq Events /\ (Among(s) = {} <=> s = <<>>)
         /\ \A k \in DOMAIN s : s[k] \in Among(s)
         /\ \A e \in Among(s) : \E k \in DOMAIN s : e = s[k]
<1>1. /\ Len(s) \in Nat /\ DOMAIN s = 1 .. Len(s)
      /\ \A k \in DOMAIN s : s[k] \in Events
  OBVIOUS
<1>2. s = <<>> => DOMAIN s = {}
  OBVIOUS
<1>3. s # <<>> => 1 \in DOMAIN s
  BY <1>1, EmptySeq
<1> QED
  BY <1>1, <1>2, <1>3 DEF Among

(* A queue stays in order when nothing newer is ahead of what is added.    *)
LEMMA AppendSays ==
  ASSUME NEW s \in Seq(Events), NEW e \in Events
  PROVE  /\ Append(s, e) \in Seq(Events) /\ Append(s, e) # <<>>
         /\ Among(Append(s, e)) = Among(s) \cup {e}
         /\ \A i : InOrder(s, i) /\ (e.id = i => \A f \in Among(s) : f.id = i => f.version <= e.version)
                     => InOrder(Append(s, e), i)
<1>1. PICK n \in Nat : n = Len(s)
  OBVIOUS
<1>2. PICK t : t = Append(s, e)
  OBVIOUS
<1>3. /\ t \in Seq(Events) /\ DOMAIN t = 1 .. n + 1 /\ DOMAIN s = 1 .. n
      /\ t[n + 1] = e /\ \A k \in 1 .. n : t[k] = s[k]
  BY <1>1, <1>2
<1>4. \A k \in 1 .. n + 1 : k \in 1 .. n \/ k = n + 1
  OBVIOUS
<1>5. Among(t) = Among(s) \cup {e}
  BY <1>3, <1>4 DEF Among
<1>6. ASSUME NEW i, InOrder(s, i), e.id = i => \A f \in Among(s) : f.id = i => f.version <= e.version
      PROVE  InOrder(t, i)
  <2> SUFFICES ASSUME NEW k \in 1 .. n + 1, NEW l \in 1 .. n + 1, k < l, t[k].id = i, t[l].id = i
               PROVE  t[k].version <= t[l].version
    BY <1>3 DEF InOrder
  <2>1. k \in 1 .. n /\ t[k] = s[k] /\ s[k] \in Among(s)
    BY <1>3 DEF Among
  <2>2. CASE l \in 1 .. n
    BY <1>3, <1>6, <2>1, <2>2 DEF InOrder
  <2>3. CASE l = n + 1
    BY <1>3, <1>6, <2>1, <2>3
  <2> QED
    BY <1>4, <2>2, <2>3
<1>7. t # <<>>
  BY <1>1, <1>3
<1> QED
  BY <1>2, <1>3, <1>5, <1>6, <1>7

(* A queue stays in order when its head is taken.                          *)
LEMMA TailSays ==
  ASSUME NEW s \in Seq(Events), s # <<>>
  PROVE  /\ Head(s) \in Events /\ Tail(s) \in Seq(Events)
         /\ Among(s) = {Head(s)} \cup Among(Tail(s))
         /\ \A i : InOrder(s, i) =>
              /\ InOrder(Tail(s), i)
              /\ Head(s).id = i => \A f \in Among(Tail(s)) : f.id = i => Head(s).version <= f.version
<1>1. PICK n \in Nat : n = Len(s) /\ n >= 1
  OBVIOUS
<1>2. PICK t : t = Tail(s)
  OBVIOUS
<1>3. /\ t \in Seq(Events) /\ DOMAIN t = 1 .. n - 1 /\ DOMAIN s = 1 .. n
      /\ \A k \in 1 .. n - 1 : t[k] = s[k + 1]
      /\ Head(s) = s[1] /\ s[1] \in Events
  BY <1>1, <1>2
<1>4. \A k \in 1 .. n : k = 1 \/ (k - 1 \in 1 .. n - 1 /\ s[k] = t[k - 1])
  <2> SUFFICES ASSUME NEW k \in 1 .. n, k # 1 PROVE k - 1 \in 1 .. n - 1 /\ s[k] = t[k - 1]
    OBVIOUS
  <2>1. k - 1 \in 1 .. n - 1 /\ (k - 1) + 1 = k
    BY <1>1
  <2> QED
    BY <1>3, <2>1
<1>5. \A k \in 1 .. n - 1 : k + 1 \in 1 .. n /\ 1 < k + 1 /\ 1 \in 1 .. n
  BY <1>1
<1>6. Among(s) = {Head(s)} \cup Among(t)
  <2>1. \A k \in 1 .. n : s[k] \in {Head(s)} \cup Among(t)
    BY <1>3, <1>4 DEF Among
  <2>2. \A k \in 1 .. n - 1 : t[k] \in Among(s)
    BY <1>3, <1>5 DEF Among
  <2>3. Head(s) \in Among(s)
    BY <1>1, <1>3 DEF Among
  <2> QED
    BY <1>3, <2>1, <2>2, <2>3 DEF Among
<1>7. ASSUME NEW i, InOrder(s, i)
      PROVE  /\ InOrder(t, i)
             /\ Head(s).id = i => \A f \in Among(t) : f.id = i => Head(s).version <= f.version
  <2>1. \A k, l \in 1 .. n - 1 : k < l => k + 1 < l + 1
    OBVIOUS
  <2>2. InOrder(t, i)
    BY <1>3, <1>5, <1>7, <2>1 DEF InOrder
  <2>3. \A k \in 1 .. n - 1 : s[1].id = i /\ t[k].id = i => s[1].version <= t[k].version
    BY <1>3, <1>5, <1>7 DEF InOrder
  <2> QED
    BY <1>3, <2>2, <2>3 DEF Among
<1> QED
  BY <1>2, <1>3, <1>6, <1>7

(* The listeners that remain once some have run. *)
LEMMA RestSays ==
  ASSUME NEW s \in Seq(Events), NEW n \in DOMAIN s
  PROVE  LET rest == SubSeq(s, n + 1, Len(s)) IN
         /\ rest \in Seq(Events) /\ Among(rest) \subseteq Among(s)
         /\ \A i : InOrder(s, i) => InOrder(rest, i)
         /\ \A e \in Among(rest) : \E l \in DOMAIN s : n < l /\ e = s[l]
         /\ \A l \in DOMAIN s : n < l => s[l] \in Among(rest)
<1> DEFINE rest == SubSeq(s, n + 1, Len(s))
<1>1. Len(s) \in Nat /\ DOMAIN s = 1 .. Len(s) /\ n \in 1 .. Len(s)
  OBVIOUS
<1>2. PICK m \in Nat : m = Len(s) - n
  BY <1>1
<1>3. /\ rest \in Seq(Events) /\ DOMAIN rest = 1 .. m
      /\ \A k \in 1 .. m : rest[k] = s[n + k]
  <2>1. \A k \in n + 1 .. Len(s) : s[k] \in Events
    BY <1>1
  <2>2. /\ rest \in Seq(Events) /\ Len(rest) = IF n + 1 <= Len(s) THEN Len(s) - (n + 1) + 1 ELSE 0
        /\ \A k \in 1 .. Len(s) - (n + 1) + 1 : rest[k] = s[(n + 1) + k - 1]
    BY <1>1, <2>1, SubSeqProperties
  <2>3. Len(rest) = m /\ Len(s) - (n + 1) + 1 = m /\ \A k \in 1 .. m : (n + 1) + k - 1 = n + k
    <3> HIDE DEF rest
    <3>1. /\ Len(s) - (n + 1) + 1 = m /\ \A k \in 1 .. m : (n + 1) + k - 1 = n + k
          /\ n + 1 <= Len(s) \/ m = 0
      BY <1>1, <1>2
    <3>2. Len(rest) = IF n + 1 <= Len(s) THEN m ELSE 0
      BY <2>2, <3>1
    <3> QED
      BY <3>1, <3>2
  <2>4. DOMAIN rest = 1 .. Len(rest)
    BY <2>2
  <2>5. DOMAIN rest = 1 .. m
    BY <2>3, <2>4
  <2>6. \A k \in 1 .. m : rest[k] = s[n + k]
    <3> SUFFICES ASSUME NEW k \in 1 .. m PROVE rest[k] = s[n + k]
      OBVIOUS
    <3>1. rest[k] = s[(n + 1) + k - 1]
      BY <2>2, <2>3
    <3>2. (n + 1) + k - 1 = n + k
      BY <2>3
    <3> HIDE DEF rest
    <3> QED
      BY <3>1, <3>2
  <2> HIDE DEF rest
  <2> QED
    BY <2>2, <2>5, <2>6
<1> HIDE DEF rest
<1>4. \A k \in 1 .. m : n + k \in 1 .. Len(s) /\ n < n + k
  BY <1>1, <1>2
<1>5. \A l \in 1 .. Len(s) : n < l => l - n \in 1 .. m /\ rest[l - n] = s[l]
  <2> SUFFICES ASSUME NEW l \in 1 .. Len(s), n < l PROVE l - n \in 1 .. m /\ rest[l - n] = s[l]
    OBVIOUS
  <2>1. l - n \in 1 .. m /\ n + (l - n) = l
    BY <1>1, <1>2
  <2> QED
    BY <1>3, <2>1
<1>6. \A i : InOrder(s, i) => InOrder(rest, i)
  <2>1. \A k, l \in 1 .. m : k < l => n + k < n + l
    BY <1>1
  <2> QED
    BY <1>1, <1>3, <1>4, <2>1 DEF InOrder
<1>7. \A e \in Among(rest) : \E l \in DOMAIN s : n < l /\ e = s[l]
  BY <1>1, <1>3, <1>4 DEF Among
<1>8. \A l \in DOMAIN s : n < l => s[l] \in Among(rest)
  BY <1>1, <1>3, <1>5 DEF Among
<1>9. Among(rest) \subseteq Among(s)
  BY <1>7 DEF Among
<1> QED
  BY <1>3, <1>6, <1>7, <1>8, <1>9 DEF rest

(* The facts of the type invariant the steps below use.                    *)
LEMMA HistoryTyped ==
  ASSUME HistoryInv
  PROVE  /\ stored \subseteq Ids /\ dropped \subseteq Ids /\ overtaken \subseteq Ids
         /\ changes \in Nat /\ \A i \in Ids : version[i] \in Nat
         /\ inbox \in Seq(Events) /\ listeners \in Seq(Events)
         /\ cache \in Seq(Row) /\ fetch.rows \in Seq(Row)
         /\ fetch.kind \in {"none", "history", "page"} /\ fetch.answered \in BOOLEAN
         /\ {loaded, paged, gaveUp, unasked} \subseteq BOOLEAN
<1>1. changes \in Nat /\ \A i \in Ids : version[i] \in Nat
  BY IdsAreNumbers DEF HistoryInv, HistoryTypeOK
<1>2. fetch.kind \in {"none", "history", "page"} /\ fetch.answered \in BOOLEAN /\ fetch.rows \in Seq(Row)
  BY DEF HistoryInv, HistoryTypeOK
<1> QED
  BY <1>1, <1>2 DEF HistoryInv, HistoryTypeOK

(* What is on its way is an event that says a version once committed, or   *)
(* the acknowledgement of a join.                                          *)
LEMMA OnItsWay ==
  ASSUME HistoryInv
  PROVE  /\ \A e \in unpublished : e \in RealEvents /\ Said(e)
         /\ \A e \in Coming : e = Ack \/ (e \in RealEvents /\ Said(e))
         /\ \A e \in Waiting : e = Ack \/ (e \in RealEvents /\ Said(e))
         /\ answer = Ack \/ (answer \in RealEvents /\ Said(answer) /\ ~answer.adds)
         /\ \A e \in RealEvents : Said(e) => /\ e.id \in stored /\ e.id \in Ids
                                             /\ e.version <= version[e.id]
                                             /\ e.adds => e.id \notin Older
<1>1. Coming \subseteq Events /\ Waiting \subseteq Events
  BY HistoryTyped, AmongSays DEF Coming, Waiting
<1>2. unpublished \subseteq Events /\ answer \in Events
  BY DEF HistoryInv, HistoryTypeOK
<1>3. EventInv
  BY DEF HistoryInv
<1>4. \A e \in unpublished : e \in RealEvents /\ Said(e)
  BY <1>2, <1>3, EventSays DEF EventInv
<1>5. \A e \in Coming : e = Ack \/ (e \in RealEvents /\ Said(e))
  BY <1>1, <1>3, EventSays DEF EventInv
<1>6. \A e \in Waiting : e = Ack \/ (e \in RealEvents /\ Said(e))
  BY <1>1, <1>3, EventSays DEF EventInv
<1>7. answer = Ack \/ (answer \in RealEvents /\ Said(answer) /\ ~answer.adds)
  BY <1>2, <1>3, EventSays DEF EventInv
<1>8. \A e \in RealEvents : Said(e) => /\ e.id \in stored /\ e.id \in Ids
                                       /\ e.version <= version[e.id]
                                       /\ e.adds => e.id \notin Older
  BY EventSays DEF Said
<1> QED
  BY <1>4, <1>5, <1>6, <1>7, <1>8

(* An event is known by its message and version. *)
LEMMA SameEvent ==
  ASSUME HistoryInv, NEW e \in RealEvents, Said(e)
  PROVE  /\ \A f \in RealEvents : Said(f) /\ f.id = e.id /\ f.version = e.version => f = e
         /\ e.version >= version[e.id] => e = Latest(e.id)
         /\ \A i \in Ids : /\ Latest(i) \in RealEvents /\ Latest(i).id = i
                           /\ Latest(i).version = version[i] /\ Latest(i) # Ack
                           /\ Adding(i) \in RealEvents /\ Adding(i).id = i /\ Adding(i).adds
                           /\ Adding(i).version = 0 /\ Adding(i) # Ack
<1>1. \A i \in Ids : /\ Latest(i) \in RealEvents /\ Latest(i).id = i
                     /\ Latest(i).version = version[i] /\ Latest(i) # Ack
                     /\ Latest(i).adds = (version[i] = 0)
                     /\ Adding(i) \in RealEvents /\ Adding(i).id = i /\ Adding(i).adds
                     /\ Adding(i).version = 0 /\ Adding(i) # Ack
  <2> SUFFICES ASSUME NEW i \in Ids
               PROVE  /\ Latest(i) \in RealEvents /\ Latest(i).id = i
                      /\ Latest(i).version = version[i] /\ Latest(i) # Ack
                      /\ Latest(i).adds = (version[i] = 0)
                      /\ Adding(i) \in RealEvents /\ Adding(i).id = i /\ Adding(i).adds
                      /\ Adding(i).version = 0 /\ Adding(i) # Ack
    OBVIOUS
  <2>1. version[i] \in Nat /\ 0 \in Nat
    BY HistoryTyped
  <2>2. /\ Event(i, version[i], version[i] = 0) \in RealEvents
        /\ Event(i, version[i], version[i] = 0).id = i
        /\ Event(i, version[i], version[i] = 0).version = version[i]
        /\ Event(i, version[i], version[i] = 0).adds = (version[i] = 0)
    BY <2>1 DEF Event, RealEvents
  <2>3. /\ Event(i, 0, TRUE) \in RealEvents /\ Event(i, 0, TRUE).id = i
        /\ Event(i, 0, TRUE).version = 0 /\ Event(i, 0, TRUE).adds = TRUE
    BY <2>1 DEF Event, RealEvents
  <2> QED
    BY <2>2, <2>3, EventSays DEF Latest, Adding
<1>2. ASSUME NEW f \in RealEvents, Said(f), f.id = e.id, f.version = e.version PROVE f = e
  <2>1. f.adds = e.adds
    BY <1>2, EventSays DEF Said
  <2> QED
    BY <1>2, <2>1, EventSays
<1>3. ASSUME e.version >= version[e.id] PROVE e = Latest(e.id)
  <2>1. e.id \in Ids /\ e.version \in Nat /\ version[e.id] \in Nat /\ e.version <= version[e.id]
    BY HistoryTyped, EventSays DEF Said
  <2>2. e.version = version[e.id]
    BY <1>3, <2>1
  <2>3. PICK l \in RealEvents : l = Latest(e.id)
    BY <1>1, <2>1
  <2>4. l.id = e.id /\ l.version = e.version
    BY <1>1, <2>1, <2>2, <2>3
  <2>5. l.adds <=> e.adds
    <3>1. l.adds = (version[e.id] = 0)
      BY <1>1, <2>1, <2>3
    <3>2. e.adds <=> version[e.id] = 0
      BY <2>2 DEF Said
    <3> QED
      BY <3>1, <3>2, Zenon
  <2>6. l.adds \in BOOLEAN /\ e.adds \in BOOLEAN
    BY EventSays
  <2>7. l.adds = e.adds
    BY <2>5, <2>6
  <2>8. l = e
    BY <2>4, <2>7, EventSays
  <2> QED
    BY <2>3, <2>8
<1> QED
  BY <1>1, <1>2, <1>3

(* Rows that are not touched by a change of the server's data stay rows of *)
(* it.                                                                     *)
LEMMA PageFrame ==
  ASSUME HistoryInv, UNCHANGED <<cache, fetch, loaded, paged, gaveUp>>,
         stored \subseteq stored',
         \A i \in Ids : version'[i] \in Nat /\ version[i] <= version'[i]
  PROVE  PageInv'
<1>1. ASSUME NEW rows \in Seq(Row), RowsOf(rows)
      PROVE  \A k \in DOMAIN rows : rows[k].id \in stored' /\ rows[k].version <= version'[rows[k].id]
  <2> SUFFICES ASSUME NEW k \in DOMAIN rows
               PROVE  rows[k].id \in stored' /\ rows[k].version <= version'[rows[k].id]
    OBVIOUS
  <2>1. rows[k] \in Row
    OBVIOUS
  <2>2. PICK i \in Ids, v \in Nat : i = rows[k].id /\ v = rows[k].version
    BY <2>1 DEF Row
  <2>3. i \in stored /\ v <= version[i]
    BY <1>1, <2>2 DEF RowsOf
  <2>4. version[i] \in Nat /\ version'[i] \in Nat /\ version[i] <= version'[i]
    BY HistoryTyped
  <2>5. v <= version'[i]
    BY <2>3, <2>4
  <2> QED
    BY <2>2, <2>3, <2>5
<1>2. PageInv /\ cache \in Seq(Row) /\ fetch.rows \in Seq(Row)
  BY HistoryTyped DEF HistoryInv
<1>3. /\ \A k \in DOMAIN cache : cache[k].id \in stored' /\ cache[k].version <= version'[cache[k].id]
      /\ \A k \in DOMAIN fetch.rows : /\ fetch.rows[k].id \in stored'
                                      /\ fetch.rows[k].version <= version'[fetch.rows[k].id]
  BY <1>1, <1>2 DEF PageInv
<1>4. RowsOf(cache)' /\ RowsOf(fetch.rows)'
  BY <1>2, <1>3 DEF PageInv, RowsOf, Distinct
<1> QED
  BY <1>2, <1>4 DEF PageInv, AnswersOlder, Fetching, Has

(* What settling a fetch leaves to wait for. *)
LEMMA SettleSays ==
  ASSUME HistoryInv, Settle
  PROVE  /\ listeners' \in Seq(Events) /\ Waiting' \subseteq Waiting
         /\ fetch' = NoFetch \/ fetch' = Fetch("history", <<>>)
         /\ fetch'.rows = <<>> /\ ~fetch'.answered /\ fetch'.kind \in {"none", "history"}
         /\ unasked' \in BOOLEAN /\ (Waiting' # {} => fetch'.kind = "history")
         /\ listeners' # <<>> => fetch'.kind # "none"
         /\ Stops = {} => /\ Ack \notin Waiting /\ fetch'.kind = "none" /\ unasked' = unasked
                          /\ Waiting' = {}
         /\ Stops # {} => fetch'.kind = "history"
         /\ \A i : InOrder(listeners, i) => InOrder(listeners', i)
         /\ \A e \in Waiting, f \in Waiting' : \/ e \in Waiting' \/ e = Ack
                                               \/ /\ InOrder(listeners, e.id)
                                                  /\ f.id = e.id => e.version <= f.version
                                               \/ ~InOrder(listeners, e.id)
<1>1. listeners \in Seq(Events) /\ unasked \in BOOLEAN
  BY HistoryTyped
<1>2. /\ NoFetch.rows = <<>> /\ ~NoFetch.answered /\ NoFetch.kind = "none"
      /\ Fetch("history", <<>>).rows = <<>> /\ ~Fetch("history", <<>>).answered
      /\ Fetch("history", <<>>).kind = "history"
  BY DEF NoFetch, Fetch
<1>3. CASE Stops = {}
  <2>1. listeners' = <<>> /\ fetch' = NoFetch /\ unasked' = unasked
    BY <1>3 DEF Settle
  <2>2. Ack \notin Waiting
    BY <1>3 DEF Stops, Waiting, Among
  <2>3. Waiting' = {} /\ \A i : InOrder(listeners', i)
    BY <2>1 DEF Waiting, Among, InOrder
  <2>4. <<>> \in Seq(Events)
    OBVIOUS
  <2> QED
    BY <1>1, <1>2, <1>3, <2>1, <2>2, <2>3, <2>4
<1>4. CASE Stops # {}
  <2>1. /\ listeners' = SubSeq(listeners, FirstStop + 1, Len(listeners))
        /\ fetch' = Fetch("history", <<>>) /\ unasked' = FALSE
    BY <1>4 DEF Settle
  <2>2. /\ FirstStop \in DOMAIN listeners /\ FirstStop \in Nat /\ listeners[FirstStop] = Ack
        /\ DOMAIN listeners = 1 .. Len(listeners) /\ Len(listeners) \in Nat
    BY <1>1, <1>4, DueSays
  <2>3. PICK n \in DOMAIN listeners : n = FirstStop
    BY <2>2
  <2>4. /\ listeners' \in Seq(Events) /\ Among(listeners') \subseteq Among(listeners)
        /\ \A i : InOrder(listeners, i) => InOrder(listeners', i)
        /\ \A e \in Among(listeners') : \E l \in DOMAIN listeners : n < l /\ e = listeners[l]
        /\ \A l \in DOMAIN listeners : n < l => listeners[l] \in Among(listeners')
    <3>1. LET rest == SubSeq(listeners, n + 1, Len(listeners)) IN
         /\ rest \in Seq(Events) /\ Among(rest) \subseteq Among(listeners)
         /\ \A i : InOrder(listeners, i) => InOrder(rest, i)
         /\ \A e \in Among(rest) : \E l \in DOMAIN listeners : n < l /\ e = listeners[l]
         /\ \A l \in DOMAIN listeners : n < l => listeners[l] \in Among(rest)
      BY <1>1, RestSays
    <3>2. listeners' = SubSeq(listeners, n + 1, Len(listeners))
      BY <2>1, <2>3
    <3> QED
      BY <3>1, <3>2
  <2>5. Waiting' = Among(listeners') /\ Waiting = Among(listeners)
    BY DEF Waiting, Among
  <2>6. ASSUME NEW e \in Waiting, NEW f \in Waiting', e \notin Waiting', e # Ack,
               InOrder(listeners, e.id), f.id = e.id
        PROVE  e.version <= f.version
    <3>1. PICK k \in DOMAIN listeners : e = listeners[k]
      BY <2>5 DEF Among
    <3>2. PICK l \in DOMAIN listeners : n < l /\ f = listeners[l]
      BY <2>4, <2>5
    <3>3. ~(n < k) /\ k # n
      BY <2>2, <2>3, <2>4, <2>5, <2>6, <3>1
    <3>4. k < l
      BY <2>2, <2>3, <3>2, <3>3
    <3> QED
      BY <2>6, <3>1, <3>2, <3>4 DEF InOrder
  <2>7. \A e \in Waiting, f \in Waiting' : \/ e \in Waiting' \/ e = Ack
                                           \/ /\ InOrder(listeners, e.id)
                                              /\ f.id = e.id => e.version <= f.version
                                           \/ ~InOrder(listeners, e.id)
    BY <2>6
  <2> QED
    BY <1>2, <1>4, <2>1, <2>4, <2>5, <2>7
<1> QED
  BY <1>3, <1>4

(* A message created is one whose event is still to be broadcast.          *)
LEMMA CreateKeeps ==
  ASSUME HistoryInv, NEW i \in Ids, Create(i)
  PROVE  HistoryInv'
<1>1. /\ i \notin stored /\ stored' = stored \cup {i}
      /\ unpublished' = unpublished \cup {Adding(i)}
      /\ UNCHANGED <<version, answer, dropped, overtaken, changes, linkVars, cacheVars, faults>>
  BY DEF Create, Adding
<1>2. /\ Waiting' = Waiting /\ Coming' = Coming /\ Rejoining' = Rejoining /\ Fetching' = Fetching
      /\ \A j : Latest(j)' = Latest(j) /\ Adding(j)' = Adding(j)
      /\ \A s : Ack' = Ack /\ Among(s)' = Among(s)
  BY <1>1 DEF Waiting, Coming, Rejoining, Latest, Adding, Ack, Event, Among, Fetching,
              linkVars, cacheVars
<1>3. \A e : Said(e) => Said(e)'
  BY <1>1 DEF Said
<1>4. Adding(i) \in RealEvents /\ Adding(i).id = i /\ Adding(i).adds = TRUE /\ Adding(i).version = 0
  BY <1>1 DEF Adding, Event, RealEvents
<1>5. Adding(i) # Ack /\ Said(Adding(i))'
  <2>1. i \notin Older
    BY <1>1 DEF HistoryInv, LinkInv
  <2>2. version[i] \in Nat
    BY HistoryTyped
  <2> QED
    BY <1>1, <1>4, <2>1, <2>2, EventSays DEF Said
<1>6. \A e \in Coming \cup Waiting : e.id # i
  BY <1>1, OnItsWay, EventSays, IdsAreNumbers
<1>7. HistoryTypeOK'
  <2>1. unpublished' \subseteq Events /\ stored' \subseteq Ids
    <3>1. unpublished \subseteq Events /\ stored \subseteq Ids
      BY DEF HistoryInv, HistoryTypeOK
    <3>2. Adding(i) \in Events
      BY <1>4, EventSays
    <3> QED
      BY <1>1, <3>1, <3>2
  <2> QED
    BY <1>1, <2>1 DEF HistoryInv, HistoryTypeOK, linkVars, cacheVars, Fetching
<1>8. EventInv'
  <2>1. \A e \in unpublished' : e # Ack /\ Said(e)'
    BY <1>1, <1>3, <1>5 DEF HistoryInv, EventInv
  <2> QED
    BY <1>1, <1>2, <1>3, <2>1 DEF HistoryInv, EventInv
<1>9. LinkInv'
  BY <1>1, <1>2, HistoryTyped DEF HistoryInv, LinkInv, linkVars
<1>10. PageInv'
  <2>1. \A j \in Ids : version'[j] \in Nat /\ version[j] <= version'[j]
    BY <1>1, HistoryTyped
  <2> QED
    BY <1>1, <2>1, PageFrame DEF cacheVars
<1>11. KnownInv'
  <2> SUFFICES ASSUME NEW j \in (stored \ Older) \ dropped, j # i
               PROVE  (Rejoining \/ Adding(j) \in unpublished \cup Coming \/ InHand(j))'
    <3>1. Adding(i)' \in unpublished'
      BY <1>1, <1>2
    <3> QED
      BY <1>1, <3>1 DEF KnownInv
  <2>1. InHand(j) => InHand(j)'
    BY <1>1, <1>2 DEF InHand, Has, cacheVars
  <2> QED
    BY <1>1, <1>2, <2>1 DEF HistoryInv, KnownInv
<1>12. OrderInv'
  <2> SUFFICES ASSUME NEW j \in stored' \ overtaken' PROVE InTurn(j)'
    BY DEF OrderInv
  <2>1. CASE j = i
    <3>1. \A k \in DOMAIN inbox : inbox[k].id # i
      BY <1>6, AmongSays, HistoryTyped DEF Coming
    <3>2. \A k \in DOMAIN listeners : listeners[k].id # i
      BY <1>6, AmongSays, HistoryTyped DEF Waiting
    <3>3. InOrder(inbox, i)' /\ InOrder(listeners, i)'
      BY <1>1, <3>1, <3>2 DEF InOrder, linkVars, cacheVars
    <3> QED
      BY <1>2, <1>6, <2>1, <3>3 DEF InTurn
  <2>2. CASE j # i
    <3>1. InTurn(j)
      BY <1>1, <2>2 DEF HistoryInv, OrderInv
    <3>2. InOrder(inbox, j)' /\ InOrder(listeners, j)'
      BY <1>1, <3>1 DEF InTurn, InOrder, linkVars, cacheVars
    <3>3. \A e \in unpublished' : e.id = j => e \in unpublished
      BY <1>1, <1>4, <2>2
    <3> QED
      BY <1>2, <3>1, <3>2, <3>3 DEF InTurn
  <2> QED
    BY <2>1, <2>2
<1>13. ChaseInv'
  <2> SUFFICES ASSUME NEW j \in Steady' PROVE Followed(j)'
    BY DEF ChaseInv
  <2>1. CASE j = i
    <3>1. Latest(i) = Adding(i)
      <4>1. version[i] = 0
        BY <1>1 DEF HistoryInv, LinkInv
      <4> QED
        BY <4>1 DEF Latest, Adding, Event
    <3>2. \A e \in unpublished : e.id # i
      BY <1>1, OnItsWay
    <3> QED
      BY <1>1, <1>2, <1>4, <1>6, <2>1, <3>1, <3>2 DEF Followed
  <2>2. CASE j # i
    <3>1. Followed(j)
      BY <1>1, <2>2 DEF HistoryInv, ChaseInv, Steady, linkVars
    <3>2. \A e \in unpublished' : e.id = j => e \in unpublished
      BY <1>1, <1>4, <2>2
    <3> QED
      BY <1>1, <1>2, <3>1, <3>2 DEF Followed, linkVars
  <2> QED
    BY <2>1, <2>2
<1>14. FreshInv'
  <2>1. ASSUME NEW r PROVE (FreshRow(r) => FreshRow(r)') /\ (FreshFetched(r) => FreshFetched(r)')
    BY <1>1, <1>2 DEF FreshRow, FreshFetched, cacheVars
  <2>2. \A j : j \in stored /\ j \in Steady' => j \in Steady
    BY <1>1 DEF Steady, linkVars
  <2>3. /\ \A k \in DOMAIN cache : cache[k].id \in stored
        /\ \A k \in DOMAIN fetch.rows : fetch.rows[k].id \in stored
    BY DEF HistoryInv, PageInv, RowsOf
  <2>4. FreshInv /\ cache' = cache /\ fetch' = fetch
    BY <1>1 DEF HistoryInv, cacheVars
  <2> QED
    BY <2>1, <2>2, <2>3, <2>4 DEF FreshInv
<1> QED
  BY <1>7, <1>8, <1>9, <1>10, <1>11, <1>12, <1>13, <1>14 DEF HistoryInv

(* A new version is one whose event is still to be broadcast.              *)
LEMMA CommitKeeps ==
  ASSUME HistoryInv, NEW i \in Ids, Commit(i),
         answer' = answer \/ answer' = Event(i, version[i] + 1, FALSE)
  PROVE  HistoryInv'
<1>0. PICK e0 : e0 = Event(i, version[i] + 1, FALSE)
  OBVIOUS
<1>1. /\ i \in stored /\ changes < MaxChanges /\ changes' = changes + 1
      /\ version' = [version EXCEPT ![i] = @ + 1]
      /\ unpublished' = unpublished \cup {e0}
      /\ UNCHANGED <<stored, dropped, overtaken, linkVars, cacheVars, faults>>
  BY <1>0 DEF Commit
<1>2. /\ version[i] \in Nat /\ version'[i] = version[i] + 1 /\ version' \in [Ids -> Nat]
      /\ \A j \in Ids : j # i => version'[j] = version[j]
      /\ \A j \in Ids : version'[j] \in Nat /\ version[j] \in Nat /\ version[j] <= version'[j]
  <2>1. version \in [Ids -> Nat]
    <3>1. version \in [Ids -> 0 .. MaxChanges] /\ 0 .. MaxChanges \subseteq Nat
      BY IdsAreNumbers DEF HistoryInv, HistoryTypeOK
    <3> QED
      BY <3>1
  <2>2. /\ version[i] \in Nat /\ version'[i] = version[i] + 1
        /\ \A j \in Ids : j # i => version'[j] = version[j]
    BY <1>1, <2>1
  <2>3. version' \in [Ids -> Nat]
    BY <1>1, <2>1
  <2> QED
    BY <2>1, <2>2, <2>3
<1>3. /\ e0 \in RealEvents /\ e0.id = i /\ ~e0.adds /\ e0.version = version'[i] /\ e0 # Ack
  <2>1. e0 \in RealEvents /\ e0.id = i /\ e0.adds = FALSE /\ e0.version = version[i] + 1
    BY <1>0, <1>2 DEF Event, RealEvents
  <2> QED
    BY <1>2, <2>1, EventSays
<1>4. /\ Latest(i)' = e0 /\ \A j \in Ids : j # i => Latest(j)' = Latest(j)
      /\ \A j : Adding(j)' = Adding(j)
  <2>1. (version'[i] = 0) = FALSE
    BY <1>2
  <2> QED
    BY <1>0, <1>2, <2>1 DEF Latest, Adding, Event
<1>16. changes \in Nat /\ changes' \in Nat /\ changes' = changes + 1 /\ changes' <= MaxChanges
  <2>1. changes \in Nat /\ MaxChanges \in Nat /\ changes < MaxChanges /\ changes' = changes + 1
    BY <1>1, HistoryTyped, HistoryAssumption
  <2> QED
    BY <2>1
<1>5. /\ Waiting' = Waiting /\ Coming' = Coming /\ Rejoining' = Rejoining /\ Fetching' = Fetching
      /\ inbox' = inbox /\ listeners' = listeners
  BY <1>1 DEF Waiting, Coming, Rejoining, Ack, Event, Among, Fetching, linkVars, cacheVars
<1>6. \A e \in RealEvents : Said(e) => Said(e)'
  <2> SUFFICES ASSUME NEW e \in RealEvents, Said(e) PROVE Said(e)'
    OBVIOUS
  <2>1. e.id \in Ids /\ e.version \in Nat /\ version[e.id] \in Nat /\ version'[e.id] \in Nat
        /\ version[e.id] <= version'[e.id] /\ e.version <= version[e.id]
    BY <1>2, EventSays DEF Said
  <2>2. e.version <= version'[e.id]
    BY <2>1
  <2> QED
    BY <1>1, <2>2 DEF Said
<1>7. Said(e0)'
  <2>1. e0.version # 0 /\ e0.version \in Nat /\ e0.version <= version'[e0.id]
    BY <1>2, <1>3
  <2> QED
    BY <1>1, <1>3, <2>1 DEF Said
<1>8. HistoryTypeOK'
  <2>1. unpublished' \subseteq Events
    <3>1. unpublished \subseteq Events /\ e0 \in Events
      BY <1>3, EventSays DEF HistoryInv, HistoryTypeOK
    <3> QED
      BY <1>1, <3>1
  <2>2. answer' \in Events
    <3>1. answer \in Events /\ e0 \in Events
      BY <1>3, EventSays DEF HistoryInv, HistoryTypeOK
    <3> QED
      BY <1>0, <3>1
  <2>3. changes' \in 0 .. MaxChanges /\ changes' \in Nat
    BY <1>16, HistoryAssumption
  <2>4. version' \in [Ids -> 0 .. MaxChanges]
    <3>1. \A j \in Ids : version'[j] \in 0 .. MaxChanges
      <4> SUFFICES ASSUME NEW j \in Ids PROVE version'[j] \in 0 .. MaxChanges
        OBVIOUS
      <4>1. version[j] <= changes /\ changes \in Nat /\ version[j] \in Nat /\ changes < MaxChanges
        BY <1>1, HistoryTyped DEF HistoryInv, LinkInv
      <4>2. version'[j] <= version[j] + 1
        BY <1>2, <4>1
      <4> QED
        BY <1>2, <4>1, <4>2, HistoryAssumption
    <3> QED
      BY <1>2, <3>1
  <2>5. Fetching' = Fetching
    BY <1>5
  <2> QED
    BY <1>1, <2>1, <2>2, <2>3, <2>4, <2>5 DEF HistoryInv, HistoryTypeOK, linkVars, cacheVars
<1>9. EventInv'
  <2>1. \A e \in unpublished' : e # Ack /\ Said(e)'
    BY <1>1, <1>3, <1>6, <1>7, OnItsWay, EventSays
  <2>2. \A e \in Coming \cup Waiting : e = Ack \/ Said(e)'
    BY <1>6, OnItsWay
  <2>3. answer' # Ack => Said(answer)' /\ ~(answer').adds
    <3>1. CASE answer' = answer
      BY <1>6, <3>1, OnItsWay
    <3>2. CASE answer' = e0
      BY <1>3, <1>7, <3>2
    <3> QED
      BY <1>0, <3>1, <3>2
  <2>4. Ack' = Ack
    BY DEF Ack, Event
  <2> QED
    BY <1>5, <2>1, <2>2, <2>3, <2>4 DEF EventInv
<1>10. LinkInv'
  <2>1. \A j \in Ids : version'[j] <= changes'
    <3> SUFFICES ASSUME NEW j \in Ids PROVE version'[j] <= changes'
      OBVIOUS
    <3>1. version[j] <= changes /\ changes \in Nat /\ version[j] \in Nat /\ changes' = changes + 1
      BY <1>1, HistoryTyped DEF HistoryInv, LinkInv
    <3> QED
      BY <1>2, <3>1
  <2>2. changes' <= MaxChanges
    BY <1>16
  <2>3. \A j \in Ids \ stored' : version'[j] = 0
    BY <1>1, <1>2 DEF HistoryInv, LinkInv
  <2> QED
    BY <1>1, <1>5, <2>1, <2>2, <2>3 DEF HistoryInv, LinkInv, linkVars
<1>11. PageInv'
  BY <1>1, <1>2, PageFrame DEF cacheVars
<1>12. KnownInv'
  <2> SUFFICES ASSUME NEW j \in (stored \ Older) \ dropped
               PROVE  (Rejoining \/ Adding(j) \in unpublished \cup Coming \/ InHand(j))'
    BY <1>1 DEF KnownInv
  <2>1. InHand(j) => InHand(j)'
    BY <1>1, <1>4, <1>5 DEF InHand, Has, cacheVars
  <2> QED
    BY <1>1, <1>4, <1>5, <2>1 DEF HistoryInv, KnownInv
<1>13. OrderInv'
  <2> SUFFICES ASSUME NEW j \in stored \ overtaken PROVE InTurn(j)'
    BY <1>1 DEF OrderInv
  <2>1. InTurn(j)
    BY DEF HistoryInv, OrderInv
  <2>2. InOrder(inbox, j)' /\ InOrder(listeners, j)'
    BY <1>5, <2>1 DEF InTurn, InOrder
  <2>3. \A f \in Coming \cup Waiting : f.id = i => f.version < e0.version
    <3> SUFFICES ASSUME NEW f \in Coming \cup Waiting, f.id = i PROVE f.version < e0.version
      OBVIOUS
    <3>1. f \in RealEvents /\ Said(f)
      BY OnItsWay, EventSays, IdsAreNumbers
    <3>2. f.version \in Nat /\ f.version <= version[i]
      BY <3>1, EventSays DEF Said
    <3> QED
      BY <1>2, <1>3, <3>2
  <2>4. \A e \in unpublished' : e \in unpublished \/ (e = e0 /\ e.id = i)
    BY <1>1, <1>3
  <2> QED
    BY <1>5, <2>1, <2>2, <2>3, <2>4 DEF InTurn
<1>14. ChaseInv'
  <2> SUFFICES ASSUME NEW j \in Steady PROVE Followed(j)'
    BY <1>1 DEF ChaseInv, Steady, linkVars
  <2>1. Followed(j) /\ j \in Ids
    BY HistoryTyped DEF HistoryInv, ChaseInv, Steady
  <2>2. CASE j = i
    BY <1>1, <1>4, <1>5, <2>1, <2>2 DEF Followed, linkVars
  <2>3. CASE j # i
    <3>1. \A e \in unpublished' : e.id = j => e \in unpublished
      BY <1>1, <1>3, <2>3
    <3> QED
      BY <1>1, <1>4, <1>5, <2>1, <2>3, <3>1 DEF Followed, linkVars
  <2> QED
    BY <2>2, <2>3
<1>15. FreshInv'
  <2>1. ASSUME NEW r \in Row PROVE (FreshRow(r) => FreshRow(r)') /\ (FreshFetched(r) => FreshFetched(r)')
    <3>1. r.id \in Ids
      BY DEF Row
    <3>2. CASE r.id = i
      BY <1>1, <1>4, <3>2 DEF FreshRow, FreshFetched
    <3>3. CASE r.id # i
      BY <1>1, <1>2, <1>4, <1>5, <3>1, <3>3 DEF FreshRow, FreshFetched, cacheVars
    <3> QED
      BY <3>2, <3>3
  <2>2. Steady' = Steady
    BY <1>1 DEF Steady, linkVars
  <2>3. /\ \A k \in DOMAIN cache : cache[k] \in Row
        /\ \A k \in DOMAIN fetch.rows : fetch.rows[k] \in Row
    BY HistoryTyped
  <2>4. FreshInv /\ cache' = cache /\ fetch' = fetch
    BY <1>1 DEF HistoryInv, cacheVars
  <2> QED
    BY <2>1, <2>2, <2>3, <2>4 DEF FreshInv
<1> QED
  BY <1>8, <1>9, <1>10, <1>11, <1>12, <1>13, <1>14, <1>15 DEF HistoryInv

(* The answer to an own change is no older than the row, or overtaken.     *)
LEMMA AnswerOwnKeeps ==
  ASSUME HistoryInv, AnswerOwn
  PROVE  HistoryInv'
<1>1. /\ answer # Ack /\ answer \notin unpublished /\ answer' = Ack
      /\ cache' = Upsert(cache, answer)
      /\ overtaken' = IF \E k \in DOMAIN cache : cache[k].id = answer.id /\ cache[k].version > answer.version
                        THEN overtaken \cup {answer.id} ELSE overtaken
      /\ UNCHANGED <<stored, version, unpublished, dropped, changes, linkVars, faults>>
      /\ UNCHANGED <<loaded, paged, fetch, listeners, gaveUp, unasked>>
  BY DEF AnswerOwn
<1>2. PICK e \in RealEvents : e = answer /\ Said(e) /\ ~e.adds
  BY <1>1, OnItsWay
<1>3. e.id \in stored /\ e.id \in Ids /\ e.version \in Nat /\ e.version <= version[e.id]
  BY <1>2, OnItsWay, EventSays
<1>4. PICK new : new = cache' /\ new = Upsert(cache, e)
  BY <1>1, <1>2
<1>5. /\ new \in Seq(Row)
      /\ \A i : Has(new, i) <=> Has(cache, i)
      /\ \A k \in DOMAIN new : \/ new[k].id = e.id /\ new[k].version = e.version
                               \/ new[k].id # e.id /\ \E l \in DOMAIN cache : new[k] = cache[l]
      /\ Distinct(cache) => Distinct(new)
  <2>1. cache \in Seq(Row)
    BY HistoryTyped
  <2>2. /\ Upsert(cache, e) \in Seq(Row)
        /\ \A i : Has(Upsert(cache, e), i) <=> Has(cache, i) \/ (e.adds /\ i = e.id)
        /\ \A k \in DOMAIN Upsert(cache, e) : LET r == Upsert(cache, e)[k] IN
             \/ r.id = e.id /\ r.version = e.version
             \/ r.id # e.id /\ \E l \in DOMAIN cache : r = cache[l]
        /\ Distinct(cache) => Distinct(Upsert(cache, e))
    BY <2>1, UpsertSays
  <2> QED
    BY <1>2, <1>4, <2>2
<1>6. /\ Waiting' = Waiting /\ Coming' = Coming /\ Rejoining' = Rejoining /\ Fetching' = Fetching
      /\ inbox' = inbox /\ listeners' = listeners
      /\ \A j : Latest(j)' = Latest(j) /\ Adding(j)' = Adding(j)
      /\ Ack' = Ack /\ \A f : Said(f)' = Said(f)
  BY <1>1 DEF Waiting, Coming, Rejoining, Ack, Event, Among, Fetching, Latest, Adding, Said, linkVars
<1>7. overtaken \subseteq overtaken' /\ overtaken' \subseteq Ids
  BY <1>1, <1>2, <1>3, HistoryTyped
<1>8. HistoryTypeOK'
  <2>1. cache' \in Seq(Row) /\ answer' \in Events /\ Ack' \in Events
    BY <1>1, <1>4, <1>5, EventSays
  <2> QED
    BY <1>1, <1>6, <1>7, <2>1 DEF HistoryInv, HistoryTypeOK, linkVars
<1>9. EventInv'
  BY <1>1, <1>6 DEF HistoryInv, EventInv
<1>10. LinkInv'
  BY <1>1, <1>6 DEF HistoryInv, LinkInv, linkVars
<1>11. PageInv'
  <2>1. PageInv /\ RowsOf(cache)
    BY DEF HistoryInv, PageInv
  <2>2. \A k \in DOMAIN new : new[k].id \in stored /\ new[k].version <= version[new[k].id]
    BY <1>3, <1>5, <2>1 DEF RowsOf
  <2>3. RowsOf(cache)'
    BY <1>1, <1>4, <1>5, <2>1, <2>2 DEF RowsOf, Distinct
  <2>4. RowsOf(fetch.rows)'
    BY <1>1, <2>1 DEF PageInv, RowsOf, Distinct
  <2>5. cache = <<>> => cache' = <<>>
    <3>1. ASSUME cache = <<>>, new # <<>> PROVE FALSE
      <4>1. 1 \in DOMAIN new
        BY <1>5, <3>1, EmptySeq
      <4>2. Has(new, new[1].id)
        BY <4>1 DEF Has
      <4>3. Has(cache, new[1].id)
        BY <1>5, <4>2
      <4> QED
        BY <3>1, <4>3 DEF Has
    <3> QED
      BY <1>4, <3>1
  <2>6. \A i : Has(cache, i)' <=> Has(cache, i)
    BY <1>4, <1>5 DEF Has
  <2>7. \A i : Has(fetch.rows, i)' <=> Has(fetch.rows, i)
    BY <1>1 DEF Has
  <2>8. AnswersOlder' = AnswersOlder
    BY <1>1 DEF AnswersOlder
  <2> QED
    BY <1>1, <1>6, <2>1, <2>3, <2>4, <2>5, <2>6, <2>7, <2>8 DEF PageInv
<1>12. KnownInv'
  <2> SUFFICES ASSUME NEW j \in (stored \ Older) \ dropped
               PROVE  (Rejoining \/ Adding(j) \in unpublished \cup Coming \/ InHand(j))'
    BY <1>1 DEF KnownInv
  <2>1. Has(cache, j)' <=> Has(cache, j)
    BY <1>4, <1>5 DEF Has
  <2>2. Has(fetch.rows, j)' <=> Has(fetch.rows, j)
    BY <1>1 DEF Has
  <2>3. InHand(j) => InHand(j)'
    BY <1>1, <1>6, <2>1, <2>2 DEF InHand
  <2> QED
    BY <1>1, <1>6, <2>3 DEF HistoryInv, KnownInv
<1>13. OrderInv'
  <2> SUFFICES ASSUME NEW j \in stored \ overtaken PROVE InTurn(j)'
    BY <1>1, <1>7 DEF OrderInv
  <2>1. InTurn(j)
    BY DEF HistoryInv, OrderInv
  <2> QED
    BY <1>1, <1>6, <2>1 DEF InTurn, InOrder
<1>14. ChaseInv'
  <2> SUFFICES ASSUME NEW j \in Steady PROVE Followed(j)'
    BY <1>1, <1>7 DEF ChaseInv, Steady, linkVars
  <2> QED
    BY <1>1, <1>6 DEF HistoryInv, ChaseInv, Followed, linkVars
<1>15. FreshInv'
  <2>1. ASSUME NEW r PROVE (FreshRow(r) => FreshRow(r)') /\ (FreshFetched(r) => FreshFetched(r)')
    BY <1>1, <1>6 DEF FreshRow, FreshFetched
  <2>2. Steady' \subseteq Steady
    BY <1>1, <1>7 DEF Steady, linkVars
  <2>3. FreshInv
    BY DEF HistoryInv
  <2>4. \A k \in DOMAIN fetch'.rows : fetch'.rows[k].id \in Steady' => FreshFetched(fetch.rows[k])'
    BY <1>1, <2>1, <2>2, <2>3 DEF FreshInv
  <2>5. ASSUME NEW k \in DOMAIN new, new[k].id \in Steady' PROVE FreshRow(new[k])'
    <3>1. CASE new[k].id # e.id
      BY <1>5, <2>1, <2>2, <2>3, <2>5, <3>1 DEF FreshInv
    <3>2. CASE new[k].id = e.id
      <4>1. new[k].version = e.version
        BY <1>5, <3>2
      <4>2. PICK l \in DOMAIN cache : cache[l].id = e.id
        <5>1. Has(new, e.id)
          BY <3>2 DEF Has
        <5> QED
          BY <1>5, <5>1 DEF Has
      <4>3. FreshRow(cache[l])
        BY <2>2, <2>3, <2>5, <3>2, <4>2 DEF FreshInv
      <4>4. cache[l] \in Row /\ cache[l].version \in Nat
        <5>1. cache[l] \in Row
          BY HistoryTyped
        <5> QED
          BY <5>1 DEF Row
      <4>5. ~(cache[l].version > e.version)
        <5>1. e.id \notin overtaken'
          BY <2>5, <3>2 DEF Steady
        <5> QED
          BY <1>1, <1>2, <4>2, <5>1
      <4>6. cache[l].version = version[e.id] => new[k].version = version[e.id]
        BY <1>3, <4>1, <4>4, <4>5, HistoryTyped
      <4>7. FreshRow(new[k])
        BY <3>2, <4>2, <4>3, <4>6 DEF FreshRow
      <4> QED
        BY <2>1, <4>7
    <3> QED
      BY <3>1, <3>2
  <2> QED
    BY <1>1, <1>4, <2>4, <2>5 DEF FreshInv
<1> QED
  BY <1>8, <1>9, <1>10, <1>11, <1>12, <1>13, <1>14, <1>15 DEF HistoryInv

(* Steps that leave the rows and the fetch alone, for what they say of the *)
(* queues: what was sent is still to come, or asked for again.             *)
LEMMA RowsLeftAlone ==
  ASSUME HistoryInv, UNCHANGED <<stored, version, cache, loaded, paged, fetch, gaveUp>>,
         Rejoining => Rejoining', Steady' \subseteq Steady, dropped \subseteq dropped',
         Waiting \subseteq Waiting',
         \A i \in stored' \ dropped' :
            Adding(i) \in unpublished \cup Coming => Adding(i) \in unpublished' \cup Coming' \/ Rejoining',
         \A i \in Steady' : Latest(i) \in unpublished \cup Coming =>
            Latest(i) \in unpublished' \cup Coming' \/ Rejoining'
  PROVE  PageInv' /\ KnownInv' /\ FreshInv'
<1>1. /\ Fetching' = Fetching /\ \A j : Latest(j)' = Latest(j) /\ Adding(j)' = Adding(j)
  BY DEF Fetching, Latest, Adding, Event
<1>2. PageInv'
  BY HistoryTyped, PageFrame
<1>3. KnownInv'
  <2> SUFFICES ASSUME NEW j \in (stored \ Older) \ dropped'
               PROVE  (Rejoining \/ Adding(j) \in unpublished \cup Coming \/ InHand(j))'
    BY DEF KnownInv
  <2>1. InHand(j) => InHand(j)'
    BY <1>1 DEF InHand, Has
  <2> QED
    BY <1>1, <2>1 DEF HistoryInv, KnownInv
<1>4. FreshInv'
  <2>1. ASSUME NEW r, r.id \in Steady' PROVE (FreshRow(r) => FreshRow(r)') /\ (FreshFetched(r) => FreshFetched(r)')
    BY <1>1, <2>1 DEF FreshRow, FreshFetched
  <2>2. FreshInv
    BY DEF HistoryInv
  <2> QED
    BY <2>1, <2>2 DEF FreshInv
<1> QED
  BY <1>2, <1>3, <1>4

(* A broadcast goes to the room, or to a socket that is to join again.     *)
LEMMA PublishKeeps ==
  ASSUME HistoryInv, NEW e \in unpublished, Publish(e)
  PROVE  HistoryInv'
<1>1. /\ unpublished' = unpublished \ {e}
      /\ inbox' = (IF member THEN Append(inbox, e) ELSE inbox)
      /\ overtaken' = IF \E f \in unpublished : f.id = e.id /\ f.version < e.version
                        THEN overtaken \cup {e.id} ELSE overtaken
      /\ UNCHANGED <<stored, version, answer, dropped, changes, member, link, join, held, cacheVars,
                     faults>>
  BY DEF Publish
<1>2. /\ e \in RealEvents /\ Said(e) /\ e.id \in Ids /\ e.id \in stored /\ e.version \in Nat
      /\ e \in Events /\ e # Ack /\ e.version <= version[e.id] /\ version[e.id] \in Nat
  BY OnItsWay, EventSays, HistoryTyped
<1>3. /\ inbox' \in Seq(Events) /\ Coming' = (IF member THEN Coming \cup {e} ELSE Coming)
      /\ \A i : /\ InOrder(inbox, i)
                /\ e.id = i => \A f \in Coming : f.id = i => f.version <= e.version
                => InOrder(inbox', i)
  <2>1. CASE member
    <3>1. inbox' = Append(inbox, e)
      BY <1>1, <2>1
    <3>2. Coming' = Among(inbox') /\ Coming = Among(inbox)
      BY DEF Coming, Among
    <3>3. inbox \in Seq(Events)
      BY HistoryTyped
    <3> QED
      BY <1>2, <2>1, <3>1, <3>2, <3>3, AppendSays
  <2>2. CASE ~member
    <3>1. inbox' = inbox
      BY <1>1, <2>2
    <3> QED
      BY <2>2, <3>1, HistoryTyped DEF Coming, Among
  <2> QED
    BY <2>1, <2>2
<1>4. /\ Waiting' = Waiting /\ Fetching' = Fetching /\ listeners' = listeners
      /\ \A j : Latest(j)' = Latest(j) /\ Adding(j)' = Adding(j)
      /\ Ack' = Ack /\ \A f : Said(f)' = Said(f)
  BY <1>1 DEF Waiting, Ack, Event, Among, Fetching, Latest, Adding, Said, cacheVars
<1>5. overtaken \subseteq overtaken' /\ overtaken' \subseteq Ids
  BY <1>1, <1>2, HistoryTyped
<1>6. /\ member <=> join \in {"entered", "acked"}
      /\ Rejoining => Rejoining'
      /\ ~member => Rejoining'
  <2>1. member <=> join \in {"entered", "acked"}
    BY DEF HistoryInv, HistoryTypeOK
  <2> QED
    BY <1>1, <1>3, <1>4, <2>1 DEF Rejoining, cacheVars
<1>7. ASSUME NEW i \in Ids, i \notin overtaken', e.id = i
      PROVE  \A f \in unpublished' : f.id = i => e.version < f.version
  <2> SUFFICES ASSUME NEW f \in unpublished, f # e, f.id = i PROVE e.version < f.version
    BY <1>1
  <2>1. f \in RealEvents /\ Said(f) /\ f.version \in Nat
    BY OnItsWay, EventSays
  <2>2. f.version # e.version
    BY <1>2, <1>7, <2>1, SameEvent
  <2>3. ~(f.version < e.version)
    BY <1>1, <1>7
  <2> QED
    BY <1>2, <2>1, <2>2, <2>3
<1>8. HistoryTypeOK'
  <2>1. inbox' \in Seq(Events) /\ (link = "down" => inbox' = <<>>)
    <3>1. link = "down" => ~member
      BY <1>6 DEF HistoryInv, LinkInv
    <3> QED
      BY <1>1, <1>3, <3>1 DEF HistoryInv, HistoryTypeOK
  <2> QED
    BY <1>1, <1>4, <1>5, <2>1 DEF HistoryInv, HistoryTypeOK, cacheVars
<1>9. EventInv'
  <2>1. EventInv
    BY DEF HistoryInv
  <2> QED
    BY <1>1, <1>2, <1>3, <1>4, <2>1 DEF EventInv
<1>10. LinkInv'
  BY <1>1, <1>3, <1>4 DEF HistoryInv, LinkInv
<1>11. PageInv' /\ KnownInv' /\ FreshInv'
  <2>1. Steady' \subseteq Steady /\ dropped' = dropped
    BY <1>1, <1>5 DEF Steady
  <2>2. \A f \in unpublished \cup Coming : f \in unpublished' \cup Coming' \/ Rejoining'
    BY <1>1, <1>3, <1>6
  <2>3. UNCHANGED <<stored, version, cache, loaded, paged, fetch, gaveUp>>
    BY <1>1 DEF cacheVars
  <2>4. \A i \in stored' \ dropped' : Adding(i) \in unpublished \cup Coming =>
          Adding(i) \in unpublished' \cup Coming' \/ Rejoining'
    BY <2>2
  <2>5. \A i \in Steady' : Latest(i) \in unpublished \cup Coming =>
          Latest(i) \in unpublished' \cup Coming' \/ Rejoining'
    BY <2>2
  <2>6. Waiting \subseteq Waiting' /\ dropped \subseteq dropped' /\ (Rejoining => Rejoining')
    BY <1>4, <1>6, <2>1
  <2> QED
    BY <2>1, <2>3, <2>4, <2>5, <2>6, RowsLeftAlone
<1>12. OrderInv'
  <2> SUFFICES ASSUME NEW i \in stored \ overtaken' PROVE InTurn(i)'
    BY <1>1 DEF OrderInv
  <2>1. InTurn(i) /\ i \in Ids
    BY <1>5, HistoryTyped DEF HistoryInv, OrderInv
  <2>2. InOrder(inbox', i)
    <3>1. e.id = i => \A f \in Coming : f.id = i => f.version <= e.version
      <4> SUFFICES ASSUME e.id = i, NEW f \in Coming, f.id = i PROVE f.version <= e.version
        OBVIOUS
      <4>1. f.version < e.version
        BY <2>1 DEF InTurn
      <4>2. f.version \in Nat
        BY <2>1, OnItsWay, EventSays, IdsAreNumbers
      <4> QED
        BY <1>2, <4>1, <4>2
    <3>2. InOrder(inbox, i)
      BY <2>1 DEF InTurn
    <3> QED
      BY <1>3, <3>1, <3>2
  <2>3. \A f \in unpublished' : f.id = i =>
          /\ \A g \in Coming' : g.id = i => g.version < f.version
          /\ \A g \in Waiting' : g.id = i => g.version < f.version
    BY <1>1, <1>3, <1>4, <1>7, <2>1 DEF InTurn
  <2>4. \A f \in Coming' : f.id = i => \A g \in Waiting' : g.id = i => g.version <= f.version
    <3> SUFFICES ASSUME NEW f \in Coming', f.id = i, NEW g \in Waiting, g.id = i
                 PROVE  g.version <= f.version
      BY <1>4
    <3>1. CASE f \in Coming
      BY <2>1, <3>1 DEF InTurn
    <3>2. CASE f = e
      <4>1. g.version < e.version
        BY <2>1, <3>2 DEF InTurn
      <4>2. g.version \in Nat
        BY <2>1, OnItsWay, EventSays, IdsAreNumbers
      <4> QED
        BY <1>2, <3>2, <4>1, <4>2
    <3> QED
      BY <1>3, <3>1, <3>2
  <2>5. InOrder(inbox, i)' /\ InOrder(listeners, i)'
    BY <1>4, <2>1, <2>2 DEF InTurn, InOrder
  <2> QED
    BY <2>3, <2>4, <2>5 DEF InTurn
<1>13. ChaseInv'
  <2> SUFFICES ASSUME NEW i \in Steady' PROVE Followed(i)'
    BY DEF ChaseInv
  <2>1. Followed(i) /\ i \in Ids /\ i \notin overtaken' /\ i \in Steady
    BY <1>1, <1>5, HistoryTyped DEF HistoryInv, ChaseInv, Steady
  <2>2. Latest(i).id = i /\ Latest(i).version = version[i] /\ version[i] \in Nat
    BY <1>2, <2>1, SameEvent, HistoryTyped
  <2>3. \A f \in unpublished' : f.id = i => Latest(i) \in unpublished'
    <3> SUFFICES ASSUME NEW f \in unpublished', f.id = i, Latest(i) = e PROVE FALSE
      BY <1>1, <2>1 DEF Followed
    <3>1. e.version < f.version
      BY <1>7, <2>1, <2>2
    <3>2. f \in RealEvents /\ Said(f)
      BY <1>1, OnItsWay
    <3>3. f.version <= version[i] /\ f.version \in Nat
      BY <3>2, OnItsWay, EventSays
    <3> QED
      BY <2>2, <3>1, <3>3
  <2>4. \A f : f \in unpublished \cup Coming /\ member => f \in unpublished' \cup Coming'
    BY <1>1, <1>3
  <2>5. \A f \in Coming' : f.id = i => Latest(i) \in Coming' \cup unpublished'
    <3> SUFFICES ASSUME NEW f \in Coming', f.id = i PROVE Latest(i) \in Coming' \cup unpublished'
      OBVIOUS
    <3>1. CASE f \in Coming
      <4>1. member
        BY <3>1 DEF HistoryInv, LinkInv
      <4> QED
        BY <2>1, <2>4, <3>1, <4>1 DEF Followed
    <3>2. CASE f = e /\ member
      <4>1. Latest(i) \in unpublished
        BY <2>1, <3>2 DEF Followed
      <4> QED
        BY <2>4, <3>2, <4>1
    <3> QED
      BY <1>3, <3>1, <3>2
  <2>6. \A f \in Waiting' : f.id = i => Latest(i) \in Waiting' \cup Coming' \cup unpublished' /\ member'
    BY <1>1, <1>4, <2>1, <2>4 DEF Followed
  <2> QED
    BY <1>4, <2>3, <2>5, <2>6 DEF Followed
<1> QED
  BY <1>8, <1>9, <1>10, <1>11, <1>12, <1>13 DEF HistoryInv

(* A lost broadcast is of a message counted as dropped.                    *)
LEMMA LosePublishKeeps ==
  ASSUME HistoryInv, NEW e \in unpublished, LosePublish(e)
  PROVE  HistoryInv'
<1>1. /\ unpublished' = unpublished \ {e} /\ dropped' = dropped \cup {e.id}
      /\ answer' = Ack \/ answer' = answer
      /\ faults < MaxFaults /\ faults' = faults + 1
      /\ UNCHANGED <<stored, version, overtaken, changes, linkVars, cacheVars>>
  BY DEF LosePublish, Fault
<1>2. e \in RealEvents /\ e.id \in Ids
  BY OnItsWay, EventSays
<1>3. /\ Waiting' = Waiting /\ Coming' = Coming /\ Rejoining' = Rejoining /\ Fetching' = Fetching
      /\ \A j : Latest(j)' = Latest(j) /\ Adding(j)' = Adding(j)
      /\ Ack' = Ack /\ \A f : Said(f)' = Said(f)
      /\ inbox' = inbox /\ listeners' = listeners /\ member' = member
  BY <1>1 DEF Waiting, Coming, Rejoining, Ack, Event, Among, Fetching, Latest, Adding, Said,
              linkVars, cacheVars
<1>4. HistoryTypeOK'
  <2>1. faults' \in 0 .. MaxFaults
    <3>1. faults \in Nat /\ MaxFaults \in Nat
      BY HistoryAssumption DEF HistoryInv, HistoryTypeOK
    <3> QED
      BY <1>1, <3>1
  <2>2. answer' \in Events /\ dropped' \subseteq Ids
    <3>1. answer \in Events /\ dropped \subseteq Ids
      BY DEF HistoryInv, HistoryTypeOK
    <3>2. Ack \in Events
      BY EventSays
    <3> QED
      BY <1>1, <1>2, <3>1, <3>2
  <2> QED
    BY <1>1, <1>3, <2>1, <2>2 DEF HistoryInv, HistoryTypeOK, linkVars, cacheVars
<1>5. EventInv'
  <2>1. EventInv
    BY DEF HistoryInv
  <2> QED
    BY <1>1, <1>3, <2>1 DEF EventInv
<1>6. LinkInv'
  BY <1>1, <1>3 DEF HistoryInv, LinkInv, linkVars
<1>7. Steady' \subseteq Steady /\ e.id \notin Steady'
  BY <1>1 DEF Steady, linkVars
<1>8. PageInv' /\ KnownInv' /\ FreshInv'
  <2>1. \A i \in Ids : i # e.id => Adding(i) # e /\ Latest(i) # e
    BY <1>2, SameEvent, OnItsWay
  <2>2. \A i \in stored' \ dropped' :
            Adding(i) \in unpublished \cup Coming => Adding(i) \in unpublished' \cup Coming'
    BY <1>1, <1>3, <2>1, HistoryTyped
  <2>3. \A i \in Steady' :
            Latest(i) \in unpublished \cup Coming => Latest(i) \in unpublished' \cup Coming'
    BY <1>1, <1>3, <1>7, <2>1, HistoryTyped DEF Steady
  <2> QED
    BY <1>1, <1>3, <1>7, <2>2, <2>3, RowsLeftAlone DEF cacheVars
<1>9. OrderInv'
  <2> SUFFICES ASSUME NEW i \in stored \ overtaken PROVE InTurn(i)'
    BY <1>1 DEF OrderInv
  <2>1. InTurn(i)
    BY DEF HistoryInv, OrderInv
  <2> QED
    BY <1>1, <1>3, <2>1 DEF InTurn, InOrder
<1>10. ChaseInv'
  <2> SUFFICES ASSUME NEW i \in Steady' PROVE Followed(i)'
    BY DEF ChaseInv
  <2>1. Followed(i) /\ i \in Ids /\ i # e.id
    BY <1>7, HistoryTyped DEF HistoryInv, ChaseInv, Steady
  <2>2. Latest(i) # e
    BY <1>2, <2>1, SameEvent, OnItsWay
  <2> QED
    BY <1>1, <1>3, <2>1, <2>2 DEF Followed
<1> QED
  BY <1>4, <1>5, <1>6, <1>8, <1>9, <1>10 DEF HistoryInv

(* Once a refetch that reads everything is to come, nothing more is owed.  *)
LEMMA RejoiningOwesNothing ==
  ASSUME HistoryInv, UNCHANGED <<stored, version, cache, loaded, paged, fetch, gaveUp>>, Rejoining'
  PROVE  PageInv' /\ KnownInv' /\ FreshInv'
<1>1. PageInv'
  BY HistoryTyped, PageFrame
<1>2. KnownInv' /\ FreshInv'
  BY DEF KnownInv, FreshInv, FreshRow, FreshFetched
<1> QED
  BY <1>1, <1>2

(* A connection made is one that is to join.                               *)
LEMMA ConnectKeeps ==
  ASSUME HistoryInv, Connect
  PROVE  HistoryInv'
<1>1. /\ link = "down" /\ link' = "up" /\ join' = "asked"
      /\ UNCHANGED <<member, inbox, held, serverVars, cacheVars, faults>>
  BY DEF Connect
<1>2. /\ Waiting' = Waiting /\ Coming' = Coming /\ Fetching' = Fetching /\ Rejoining'
      /\ \A j : Latest(j)' = Latest(j)
      /\ Ack' = Ack /\ (\A f : Said(f)' = Said(f)) /\ Steady' = Steady
  BY <1>1 DEF Waiting, Coming, Rejoining, Ack, Event, Among, Fetching, Latest, Said, Steady,
              serverVars, cacheVars
<1>3. ~member
  BY <1>1 DEF HistoryInv, LinkInv, HistoryTypeOK
<1>4. HistoryTypeOK'
  BY <1>1, <1>2, <1>3 DEF HistoryInv, HistoryTypeOK, serverVars, cacheVars
<1>5. EventInv' /\ LinkInv'
  BY <1>1, <1>2 DEF HistoryInv, EventInv, LinkInv, serverVars
<1>6. PageInv' /\ KnownInv' /\ FreshInv'
  BY <1>1, <1>2, RejoiningOwesNothing DEF serverVars, cacheVars
<1>7. OrderInv' /\ ChaseInv'
  BY <1>1, <1>2 DEF HistoryInv, OrderInv, ChaseInv, InTurn, InOrder, Followed, serverVars, cacheVars
<1> QED
  BY <1>4, <1>5, <1>6, <1>7 DEF HistoryInv

(* The room is entered before its acknowledgement is sent.                 *)
LEMMA EnterRoomKeeps ==
  ASSUME HistoryInv, EnterRoom
  PROVE  HistoryInv'
<1>1. /\ join = "asked" /\ join' = "entered" /\ member' = TRUE
      /\ UNCHANGED <<link, inbox, held, serverVars, cacheVars, faults>>
  BY DEF EnterRoom
<1>2. /\ Waiting' = Waiting /\ Coming' = Coming /\ Fetching' = Fetching /\ Rejoining'
      /\ \A j : Latest(j)' = Latest(j)
      /\ Ack' = Ack /\ (\A f : Said(f)' = Said(f)) /\ Steady' = Steady
  BY <1>1 DEF Waiting, Coming, Rejoining, Ack, Event, Among, Fetching, Latest, Said, Steady,
              serverVars, cacheVars
<1>3. HistoryTypeOK'
  BY <1>1, <1>2 DEF HistoryInv, HistoryTypeOK, serverVars, cacheVars
<1>4. EventInv' /\ LinkInv'
  BY <1>1, <1>2 DEF HistoryInv, EventInv, LinkInv, serverVars
<1>5. PageInv' /\ KnownInv' /\ FreshInv'
  BY <1>1, <1>2, RejoiningOwesNothing DEF serverVars, cacheVars
<1>6. OrderInv' /\ ChaseInv'
  BY <1>1, <1>2 DEF HistoryInv, OrderInv, ChaseInv, InTurn, InOrder, Followed, serverVars, cacheVars
<1> QED
  BY <1>3, <1>4, <1>5, <1>6 DEF HistoryInv

(* The acknowledgement, behind all that was sent, asks for a refetch.      *)
LEMMA AckJoinKeeps ==
  ASSUME HistoryInv, AckJoin
  PROVE  HistoryInv'
<1>1. /\ join = "entered" /\ join' = "acked" /\ inbox' = Append(inbox, Ack)
      /\ UNCHANGED <<member, link, held, serverVars, cacheVars, faults>>
  BY DEF AckJoin
<1>2. /\ inbox' \in Seq(Events) /\ Coming' = Coming \cup {Ack}
      /\ \A i : InOrder(inbox, i) /\ i # 0 => InOrder(inbox', i)
  <2>1. inbox \in Seq(Events) /\ Ack \in Events /\ Ack.id = 0
    BY HistoryTyped, EventSays
  <2>2. Coming' = Among(inbox') /\ Coming = Among(inbox)
    BY DEF Coming, Among
  <2> QED
    BY <1>1, <2>1, <2>2, AppendSays
<1>3. /\ Waiting' = Waiting /\ Fetching' = Fetching /\ listeners' = listeners
      /\ \A j : Latest(j)' = Latest(j)
      /\ Ack' = Ack /\ (\A f : Said(f)' = Said(f)) /\ Steady' = Steady
  BY <1>1 DEF Waiting, Ack, Event, Among, Fetching, Latest, Said, Steady, serverVars, cacheVars
<1>4. Rejoining'
  BY <1>2, <1>3 DEF Rejoining
<1>5. HistoryTypeOK'
  <2>1. link # "down"
    BY <1>1 DEF HistoryInv, LinkInv
  <2> QED
    BY <1>1, <1>2, <1>3, <2>1 DEF HistoryInv, HistoryTypeOK, serverVars, cacheVars
<1>6. EventInv' /\ LinkInv'
  <2>1. member
    BY <1>1 DEF HistoryInv, HistoryTypeOK
  <2> QED
    BY <1>1, <1>2, <1>3, <2>1 DEF HistoryInv, EventInv, LinkInv, serverVars
<1>7. PageInv' /\ KnownInv' /\ FreshInv'
  BY <1>1, <1>4, RejoiningOwesNothing DEF serverVars, cacheVars
<1>8. OrderInv'
  <2> SUFFICES ASSUME NEW i \in stored \ overtaken PROVE InTurn(i)'
    BY <1>1 DEF OrderInv, serverVars
  <2>1. InTurn(i) /\ i # 0
    BY HistoryTyped, IdsAreNumbers DEF HistoryInv, OrderInv
  <2>2. InOrder(inbox, i)' /\ InOrder(listeners, i)'
    BY <1>2, <1>3, <2>1 DEF InTurn, InOrder
  <2>3. \A f \in Coming' : f.id = i => f \in Coming
    BY <1>2, <2>1, EventSays
  <2> QED
    BY <1>1, <1>3, <2>1, <2>2, <2>3 DEF InTurn, serverVars
<1>9. ChaseInv'
  <2> SUFFICES ASSUME NEW i \in Steady PROVE Followed(i)'
    BY <1>3 DEF ChaseInv
  <2>1. Followed(i) /\ i # 0
    BY HistoryTyped, IdsAreNumbers DEF HistoryInv, ChaseInv, Steady
  <2>2. (\A f \in Coming' : f.id = i => f \in Coming) /\ Coming \subseteq Coming'
    BY <1>2, <2>1, EventSays
  <2> QED
    BY <1>1, <1>3, <2>1, <2>2 DEF Followed, serverVars
<1> QED
  BY <1>5, <1>6, <1>7, <1>8, <1>9 DEF HistoryInv

(* A connection dropped is one that is to join again.                      *)
LEMMA DisconnectKeeps ==
  ASSUME HistoryInv, Disconnect
  PROVE  HistoryInv'
<1>1. /\ link' = "down" /\ join' = "no" /\ member' = FALSE /\ inbox' = <<>>
      /\ faults < MaxFaults /\ faults' = faults + 1
      /\ held' = held \cup {listeners[k].id : k \in DOMAIN listeners}
      /\ UNCHANGED <<serverVars, cacheVars>>
  BY DEF Disconnect, Fault
<1>2. /\ Waiting' = Waiting /\ Fetching' = Fetching /\ listeners' = listeners
      /\ Coming' = {} /\ Rejoining' /\ (\A i : InOrder(inbox', i))
      /\ Ack' = Ack /\ (\A f : Said(f)' = Said(f))
  BY <1>1 DEF Waiting, Coming, Rejoining, InOrder, Ack, Event, Among, Fetching, Said,
              serverVars, cacheVars
<1>3. Steady' \subseteq Steady /\ \A e \in Waiting : e.id \notin Steady'
  BY <1>1 DEF Steady, Waiting, Among, serverVars
<1>4. HistoryTypeOK'
  <2>1. faults' \in 0 .. MaxFaults
    <3>1. faults \in Nat /\ MaxFaults \in Nat
      BY HistoryAssumption DEF HistoryInv, HistoryTypeOK
    <3> QED
      BY <1>1, <3>1
  <2>2. held' \subseteq Ids \cup {0}
    <3>1. \A k \in DOMAIN listeners : listeners[k] \in Events
      BY HistoryTyped
    <3>2. \A e \in Events : e.id \in Ids \cup {0}
      BY EventSays
    <3>3. held \subseteq Ids \cup {0}
      BY DEF HistoryInv, HistoryTypeOK
    <3> QED
      BY <1>1, <3>1, <3>2, <3>3
  <2>3. inbox' \in Seq(Events)
    BY <1>1
  <2> QED
    BY <1>1, <1>2, <2>1, <2>2, <2>3 DEF HistoryInv, HistoryTypeOK, serverVars, cacheVars
<1>5. EventInv' /\ LinkInv'
  BY <1>1, <1>2 DEF HistoryInv, EventInv, LinkInv, serverVars
<1>6. PageInv' /\ KnownInv' /\ FreshInv'
  BY <1>1, <1>2, RejoiningOwesNothing DEF serverVars, cacheVars
<1>7. OrderInv'
  <2> SUFFICES ASSUME NEW i \in stored \ overtaken PROVE InTurn(i)'
    BY <1>1 DEF OrderInv, serverVars
  <2>1. InTurn(i)
    BY DEF HistoryInv, OrderInv
  <2>2. InOrder(inbox, i)' /\ InOrder(listeners, i)'
    BY <1>2, <2>1 DEF InTurn, InOrder
  <2> QED
    BY <1>1, <1>2, <2>1, <2>2 DEF InTurn, serverVars
<1>8. ChaseInv'
  <2> SUFFICES ASSUME NEW i \in Steady' PROVE Followed(i)'
    BY DEF ChaseInv
  <2>1. Followed(i)
    BY <1>3 DEF HistoryInv, ChaseInv
  <2>2. Latest(i)' = Latest(i)
    BY <1>1 DEF Latest, Event, serverVars
  <2> QED
    BY <1>1, <1>2, <1>3, <2>1, <2>2 DEF Followed, serverVars
<1> QED
  BY <1>4, <1>5, <1>6, <1>7, <1>8 DEF HistoryInv

(* The head of the socket's queue is taken. *)
LEMMA HeadTaken ==
  ASSUME HistoryInv, inbox # <<>>, inbox' = Tail(inbox)
  PROVE  /\ inbox' \in Seq(Events) /\ Coming = {Head(inbox)} \cup Coming'
         /\ Head(inbox) = Ack \/ (Head(inbox) \in RealEvents /\ Said(Head(inbox)))
         /\ member /\ Head(inbox) \in Coming
         /\ \A i : InOrder(inbox, i) =>
              /\ InOrder(inbox', i)
              /\ Head(inbox).id = i => \A f \in Coming' : f.id = i => Head(inbox).version <= f.version
<1>1. inbox \in Seq(Events)
  BY HistoryTyped
<1>2. Coming = Among(inbox) /\ Coming' = Among(inbox')
  BY DEF Coming, Among
<1>3. /\ Head(inbox) \in Events /\ Tail(inbox) \in Seq(Events)
      /\ Among(inbox) = {Head(inbox)} \cup Among(Tail(inbox))
      /\ \A i : InOrder(inbox, i) =>
           /\ InOrder(Tail(inbox), i)
           /\ Head(inbox).id = i =>
                \A f \in Among(Tail(inbox)) : f.id = i => Head(inbox).version <= f.version
  BY <1>1, TailSays
<1>4. Head(inbox) \in Coming
  BY <1>2, <1>3
<1>5. Head(inbox) = Ack \/ (Head(inbox) \in RealEvents /\ Said(Head(inbox)))
  BY <1>4, OnItsWay
<1>6. member
  BY <1>4 DEF HistoryInv, LinkInv
<1> QED
  BY <1>2, <1>3, <1>4, <1>5, <1>6

(* What is received is in the rows, and waits for the fetch in flight.     *)
LEMMA ReceiveKeeps ==
  ASSUME HistoryInv, Receive
  PROVE  HistoryInv'
<1>1. /\ inbox # <<>> /\ Head(inbox) # Ack /\ inbox' = Tail(inbox)
      /\ cache' = (IF loaded THEN Upsert(cache, Head(inbox)) ELSE cache)
      /\ listeners' = (IF Fetching THEN Append(listeners, Head(inbox)) ELSE listeners)
      /\ UNCHANGED <<member, link, join, held, loaded, paged, fetch, gaveUp, unasked>>
      /\ UNCHANGED <<serverVars, faults>>
  BY DEF Receive
<1>2. PICK h \in RealEvents : h = Head(inbox) /\ Said(h)
  BY <1>1, HeadTaken
<1>3. /\ inbox' \in Seq(Events) /\ Coming = {h} \cup Coming' /\ member /\ h \in Coming
      /\ \A i : InOrder(inbox, i) =>
           /\ InOrder(inbox', i)
           /\ h.id = i => \A f \in Coming' : f.id = i => h.version <= f.version
  BY <1>1, <1>2, HeadTaken
<1>4. /\ h \in Events /\ h # Ack /\ h.id \in stored /\ h.id \in Ids /\ h.version \in Nat
      /\ h.version <= version[h.id] /\ version[h.id] \in Nat /\ (h.adds => h.id \notin Older)
  BY <1>2, OnItsWay, EventSays, HistoryTyped
<1>5. /\ listeners' \in Seq(Events) /\ Waiting' = (IF Fetching THEN Waiting \cup {h} ELSE Waiting)
      /\ listeners' # <<>> => Fetching
      /\ \A i : /\ InOrder(listeners, i)
                /\ h.id = i => \A f \in Waiting : f.id = i => f.version <= h.version
                => InOrder(listeners', i)
  <2>1. listeners \in Seq(Events) /\ Waiting' = Among(listeners') /\ Waiting = Among(listeners)
    BY HistoryTyped DEF Waiting, Among
  <2>2. CASE Fetching
    <3>1. listeners' = Append(listeners, h)
      BY <1>1, <1>2, <2>2
    <3> QED
      BY <1>4, <2>1, <2>2, <3>1, AppendSays
  <2>3. CASE ~Fetching
    <3>1. listeners' = listeners /\ listeners = <<>>
      BY <1>1, <2>3 DEF HistoryInv, HistoryTypeOK
    <3> QED
      BY <2>1, <2>3, <3>1
  <2> QED
    BY <2>2, <2>3
<1>6. /\ Fetching' = Fetching /\ \A j : Latest(j)' = Latest(j) /\ Adding(j)' = Adding(j)
      /\ Ack' = Ack /\ (\A f : Said(f)' = Said(f)) /\ Steady' = Steady
  BY <1>1 DEF Ack, Event, Fetching, Latest, Adding, Said, Steady, serverVars
<1>7. PICK new : new = cache'
  OBVIOUS
<1>8. /\ new \in Seq(Row)
      /\ \A i : Has(new, i) <=> Has(cache, i) \/ (loaded /\ h.adds /\ i = h.id)
      /\ \A k \in DOMAIN new : \/ loaded /\ new[k].id = h.id /\ new[k].version = h.version
                               \/ /\ loaded => new[k].id # h.id
                                  /\ \E l \in DOMAIN cache : new[k] = cache[l]
      /\ Distinct(cache) => Distinct(new)
      /\ ~loaded => new = cache
  <2>1. cache \in Seq(Row)
    BY HistoryTyped
  <2>2. CASE loaded
    <3>1. /\ Upsert(cache, h) \in Seq(Row)
          /\ \A i : Has(Upsert(cache, h), i) <=> Has(cache, i) \/ (h.adds /\ i = h.id)
          /\ \A k \in DOMAIN Upsert(cache, h) : LET r == Upsert(cache, h)[k] IN
               \/ r.id = h.id /\ r.version = h.version
               \/ r.id # h.id /\ \E l \in DOMAIN cache : r = cache[l]
          /\ Distinct(cache) => Distinct(Upsert(cache, h))
      BY <2>1, UpsertSays
    <3>2. new = Upsert(cache, h)
      BY <1>1, <1>2, <1>7, <2>2
    <3> QED
      BY <2>2, <3>1, <3>2
  <2>3. CASE ~loaded
    <3>1. new = cache
      BY <1>1, <1>7, <2>3
    <3> QED
      BY <2>1, <2>3, <3>1
  <2> QED
    BY <2>2, <2>3
<1>9. Rejoining => Rejoining'
  BY <1>1, <1>3, <1>4, <1>5, <1>6 DEF Rejoining
<1>10. HistoryTypeOK'
  <2>1. inbox' \in Seq(Events) /\ (link = "down" => inbox' = <<>>)
    BY <1>1, <1>3 DEF HistoryInv, HistoryTypeOK
  <2>2. cache' \in Seq(Row)
    BY <1>7, <1>8
  <2> QED
    BY <1>1, <1>5, <1>6, <2>1, <2>2 DEF HistoryInv, HistoryTypeOK, serverVars
<1>11. EventInv'
  <2>1. /\ EventInv /\ Coming' \subseteq Coming
        /\ \A e \in Waiting' : e \in Waiting \/ e = h
    BY <1>3, <1>5 DEF HistoryInv
  <2> QED
    BY <1>1, <1>2, <1>6, <2>1 DEF EventInv, serverVars
<1>12. LinkInv'
  <2>1. Waiting' # {} => Fetching
    BY <1>5 DEF HistoryInv, LinkInv
  <2> QED
    BY <1>1, <1>3, <1>6, <2>1 DEF HistoryInv, LinkInv, serverVars
<1>13. PageInv'
  <2>1. PageInv /\ RowsOf(cache)
    BY DEF HistoryInv, PageInv
  <2>2. \A k \in DOMAIN new : new[k].id \in stored /\ new[k].version <= version[new[k].id]
    BY <1>4, <1>8, <2>1 DEF RowsOf
  <2>3. RowsOf(cache)'
    BY <1>1, <1>7, <1>8, <2>1, <2>2 DEF RowsOf, Distinct, serverVars
  <2>4. RowsOf(fetch.rows)'
    BY <1>1, <2>1 DEF PageInv, RowsOf, Distinct, serverVars
  <2>5. \A i \in Older : Has(cache, i)' <=> Has(cache, i)
    BY <1>4, <1>7, <1>8 DEF Has
  <2>6. \A i : Has(fetch.rows, i)' <=> Has(fetch.rows, i)
    BY <1>1 DEF Has
  <2>7. AnswersOlder' = AnswersOlder
    BY <1>1 DEF AnswersOlder
  <2> QED
    BY <1>1, <1>6, <1>7, <1>8, <2>1, <2>3, <2>4, <2>5, <2>6, <2>7 DEF PageInv
<1>14. KnownInv'
  <2> SUFFICES ASSUME NEW j \in (stored \ Older) \ dropped
               PROVE  (Rejoining \/ Adding(j) \in unpublished \cup Coming \/ InHand(j))'
    BY <1>1 DEF KnownInv, serverVars
  <2>1. Has(cache, j)' <=> Has(cache, j) \/ (loaded /\ h.adds /\ j = h.id)
    BY <1>7, <1>8 DEF Has
  <2>2. Has(fetch.rows, j)' <=> Has(fetch.rows, j)
    BY <1>1 DEF Has
  <2>3. InHand(j) => InHand(j)'
    BY <1>1, <1>5, <1>6, <2>1, <2>2 DEF InHand
  <2>4. ASSUME Adding(j) = h PROVE InHand(j)'
    <3>1. h.adds /\ j = h.id
      BY <1>2, <2>4, HistoryTyped, SameEvent
    <3>2. loaded \/ fetch.kind = "history" \/ gaveUp
      BY DEF HistoryInv, PageInv
    <3> QED
      BY <1>1, <1>5, <1>6, <2>1, <2>4, <3>1, <3>2 DEF InHand
  <2>5. Rejoining \/ Adding(j) \in unpublished \cup Coming \/ InHand(j)
    BY DEF HistoryInv, KnownInv
  <2> QED
    BY <1>1, <1>3, <1>6, <1>9, <2>3, <2>4, <2>5 DEF serverVars
<1>15. ASSUME NEW i \in stored \ overtaken PROVE InTurn(i)'
  <2>1. InTurn(i)
    BY DEF HistoryInv, OrderInv
  <2>2. InOrder(inbox', i) /\ (h.id = i => \A f \in Coming' : f.id = i => h.version <= f.version)
    BY <1>3, <2>1 DEF InTurn
  <2>3. InOrder(listeners', i)
    BY <1>3, <1>5, <2>1 DEF InTurn
  <2>4. InOrder(inbox, i)' /\ InOrder(listeners, i)'
    BY <2>2, <2>3 DEF InOrder
  <2>5. /\ \A f \in Coming' : f \in Coming
        /\ \A f \in Waiting' : f \in Waiting \/ f = h
    BY <1>3, <1>5
  <2>6. \A e \in unpublished' : e.id = i =>
       /\ \A f \in Coming' : f.id = i => f.version < e.version
       /\ \A f \in Waiting' : f.id = i => f.version < e.version
    BY <1>1, <1>3, <2>1, <2>5 DEF InTurn, serverVars
  <2>7. \A e \in Coming' : e.id = i => \A f \in Waiting' : f.id = i => f.version <= e.version
    BY <2>1, <2>2, <2>5 DEF InTurn
  <2> QED
    BY <2>4, <2>6, <2>7 DEF InTurn
<1>16. OrderInv'
  BY <1>1, <1>15 DEF OrderInv, serverVars
<1>17. ASSUME NEW i \in Steady PROVE Followed(i)'
  <2>1. Followed(i) /\ InTurn(i) /\ i \in Ids
    BY HistoryTyped DEF HistoryInv, ChaseInv, OrderInv, Steady
  <2>2. Latest(i).id = i /\ Latest(i).version = version[i]
    BY <1>2, <2>1, SameEvent
  <2>3. \A f \in Coming' : f.id = i => Latest(i) \in Coming' \cup unpublished'
    <3> SUFFICES ASSUME NEW f \in Coming', f.id = i, Latest(i) = h PROVE f = h
      BY <1>1, <1>3, <2>1 DEF Followed, serverVars
    <3>1. h.id = i /\ h.version = version[i]
      BY <2>2
    <3>2. f \in RealEvents /\ Said(f)
      BY <1>3, <2>1, OnItsWay, EventSays, IdsAreNumbers
    <3>3. h.version <= f.version /\ f.version \in Nat /\ f.version <= version[i]
      BY <1>3, <2>1, <3>1, <3>2, OnItsWay, EventSays DEF InTurn
    <3>4. f.version = h.version
      BY <1>4, <3>1, <3>3
    <3> QED
      BY <1>2, <3>1, <3>2, <3>4, SameEvent
  <2>4. \A f \in Waiting' : f.id = i => Latest(i) \in Waiting' \cup Coming' \cup unpublished'
    <3> SUFFICES ASSUME NEW f \in Waiting', f.id = i
                 PROVE  Latest(i) \in Waiting' \cup Coming' \cup unpublished'
      OBVIOUS
    <3>1. Fetching
      BY <1>5 DEF HistoryInv, LinkInv
    <3>2. Waiting' = Waiting \cup {h}
      BY <1>5, <3>1
    <3>3. Latest(i) \in Waiting \cup Coming \cup unpublished
      BY <1>3, <2>1, <3>2 DEF Followed
    <3> QED
      BY <1>1, <1>3, <3>2, <3>3 DEF serverVars
  <2> QED
    BY <1>1, <1>3, <1>6, <2>1, <2>3, <2>4 DEF Followed, serverVars
<1>18. ChaseInv'
  BY <1>6, <1>17 DEF ChaseInv
<1>19. FreshInv'
  <2>1. FreshInv
    BY DEF HistoryInv
  <2>2. ASSUME NEW k \in DOMAIN new, new[k].id \in Steady PROVE FreshRow(new[k])'
    <3>1. CASE loaded /\ new[k].id = h.id /\ new[k].version = h.version
      <4>1. Latest(h.id) \in Coming \cup unpublished
        BY <1>3, <2>2, <3>1 DEF HistoryInv, ChaseInv, Followed
      <4>2. Latest(h.id).version = version[h.id]
        BY <1>2, <1>4, SameEvent
      <4> QED
        BY <1>1, <1>3, <1>6, <3>1, <4>1, <4>2 DEF FreshRow, serverVars
    <3>2. CASE (loaded => new[k].id # h.id) /\ \E l \in DOMAIN cache : new[k] = cache[l]
      <4>1. loaded
        <5>1. ~loaded => cache = <<>>
          BY DEF HistoryInv, PageInv
        <5> QED
          BY <3>2, <5>1
      <4>2. FreshRow(new[k])
        BY <2>1, <2>2, <3>2 DEF FreshInv
      <4>3. new[k].id \in Ids
        BY <2>2, HistoryTyped DEF Steady
      <4>4. Latest(new[k].id) # h
        BY <1>2, <3>2, <4>1, <4>3, SameEvent
      <4> QED
        BY <1>1, <1>3, <1>6, <1>9, <4>2, <4>4 DEF FreshRow, serverVars
    <3> QED
      BY <1>8, <2>2, <3>1, <3>2
  <2>3. ASSUME NEW k \in DOMAIN fetch.rows, fetch.rows[k].id \in Steady
        PROVE  FreshFetched(fetch.rows[k])'
    <3>1. FreshFetched(fetch.rows[k])
      BY <2>1, <2>3 DEF FreshInv
    <3>2. Fetching
      BY <2>3 DEF HistoryInv, PageInv, Fetching
    <3>3. Waiting' = Waiting \cup {h} /\ Coming = {h} \cup Coming' /\ unpublished' = unpublished
      BY <1>1, <1>3, <1>5, <3>2 DEF serverVars
    <3> QED
      BY <1>1, <1>6, <1>9, <3>1, <3>3 DEF FreshFetched, serverVars
  <2> QED
    BY <1>1, <1>6, <1>7, <2>2, <2>3 DEF FreshInv
<1> QED
  BY <1>10, <1>11, <1>12, <1>13, <1>14, <1>16, <1>18, <1>19 DEF HistoryInv

(* Listeners go when those before them have gone. *)
LEMMA ListenersLeave ==
  ASSUME HistoryInv, UNCHANGED <<serverVars, linkVars>>,
         Waiting' \subseteq Waiting, Waiting' # {} => Fetching',
         \A i : InOrder(listeners, i) => InOrder(listeners', i),
         \A e \in Waiting, f \in Waiting' : \/ e \in Waiting' \/ e = Ack
                                            \/ /\ InOrder(listeners, e.id)
                                               /\ f.id = e.id => e.version <= f.version
                                            \/ ~InOrder(listeners, e.id)
  PROVE  EventInv' /\ LinkInv' /\ OrderInv' /\ ChaseInv'
<1>1. /\ Coming' = Coming /\ inbox' = inbox /\ member' = member /\ unpublished' = unpublished
      /\ \A j : Latest(j)' = Latest(j)
      /\ Ack' = Ack /\ (\A f : Said(f)' = Said(f)) /\ Steady' = Steady
  BY DEF Coming, Among, Ack, Event, Latest, Said, Steady, serverVars, linkVars
<1>2. EventInv' /\ LinkInv'
  BY <1>1 DEF HistoryInv, EventInv, LinkInv, serverVars, linkVars
<1>3. OrderInv'
  <2> SUFFICES ASSUME NEW i \in stored \ overtaken PROVE InTurn(i)'
    BY DEF OrderInv, serverVars
  <2>1. InTurn(i)
    BY DEF HistoryInv, OrderInv
  <2>2. InOrder(inbox, i)' /\ InOrder(listeners, i)'
    BY <1>1, <2>1 DEF InTurn, InOrder
  <2> QED
    BY <1>1, <2>1, <2>2 DEF InTurn
<1>4. ChaseInv'
  <2> SUFFICES ASSUME NEW i \in Steady PROVE Followed(i)'
    BY <1>1 DEF ChaseInv
  <2>1. Followed(i) /\ InTurn(i) /\ i \in Ids
    BY HistoryTyped DEF HistoryInv, ChaseInv, OrderInv, Steady
  <2>2. ASSUME NEW f \in Waiting', f.id = i PROVE Latest(i) \in Waiting' \cup Coming \cup unpublished
    <3> SUFFICES ASSUME Latest(i) \in Waiting, Latest(i) \notin Waiting' PROVE f = Latest(i)
      BY <2>1, <2>2 DEF Followed
    <3>1. f \in RealEvents /\ Said(f)
      BY <2>1, <2>2, OnItsWay, EventSays, IdsAreNumbers
    <3>2. /\ Latest(i).id = i /\ Latest(i).version = version[i] /\ Latest(i) # Ack
      BY <2>1, <3>1, SameEvent
    <3>3. InOrder(listeners, i)
      BY <2>1 DEF InTurn
    <3>4. version[i] <= f.version
      BY <2>2, <3>2, <3>3
    <3>5. f.version >= version[f.id]
      BY <2>1, <2>2, <3>1, <3>4, HistoryTyped, EventSays
    <3> QED
      BY <2>2, <3>1, <3>5, SameEvent
  <2> QED
    BY <1>1, <2>1, <2>2 DEF Followed
<1> QED
  BY <1>2, <1>3, <1>4

(* A refetch is started, or waits for a page, or is owed for good.         *)
LEMMA JoinedKeeps ==
  ASSUME HistoryInv, Joined
  PROVE  HistoryInv'
<1>1. /\ inbox # <<>> /\ Head(inbox) = Ack /\ inbox' = Tail(inbox) /\ RefetchHistory
      /\ UNCHANGED <<member, link, join, held, loaded, cache, paged, gaveUp, serverVars, faults>>
  BY DEF Joined
<1>2. /\ inbox' \in Seq(Events) /\ Coming = {Ack} \cup Coming' /\ member
      /\ \A i : InOrder(inbox, i) => InOrder(inbox', i)
  BY <1>1, HeadTaken
<1>3. /\ \A j : Latest(j)' = Latest(j) /\ Adding(j)' = Adding(j)
      /\ Ack' = Ack /\ (\A f : Said(f)' = Said(f)) /\ Steady' = Steady
  BY <1>1 DEF Ack, Event, Latest, Adding, Said, Steady, serverVars
<1>4. /\ listeners' \in Seq(Events) /\ Waiting' \subseteq Waiting \cup {Ack} /\ Waiting \subseteq Waiting'
      /\ \A i : InOrder(listeners, i) /\ i # 0 => InOrder(listeners', i)
      /\ Fetching'
      /\ fetch' = fetch \/ fetch' = Fetch("history", <<>>)
      /\ fetch' # fetch => fetch.kind # "page"
      /\ unasked' \in BOOLEAN
      /\ (Rejoining' /\ fetch' = fetch) \/ fetch' = Fetch("history", <<>>)
  <2>1. listeners \in Seq(Events) /\ Waiting' = Among(listeners') /\ Waiting = Among(listeners)
    BY HistoryTyped DEF Waiting, Among
  <2>2. CASE fetch.kind = "page"
    <3>1. listeners' = Append(listeners, Ack) /\ UNCHANGED <<fetch, unasked>>
      BY <1>1, <2>2 DEF RefetchHistory
    <3>2. /\ listeners' \in Seq(Events) /\ Waiting' = Waiting \cup {Ack}
          /\ \A i : InOrder(listeners, i) /\ i # 0 => InOrder(listeners', i)
      BY <2>1, <3>1, EventSays, AppendSays
    <3>3. Fetching' /\ Rejoining'
      BY <1>3, <2>2, <3>1, <3>2 DEF Fetching, Rejoining
    <3> QED
      BY <3>1, <3>2, <3>3, HistoryTyped
  <2>3. CASE fetch.kind # "page"
    <3>1. /\ fetch' = (IF Fetching /\ ~loaded THEN fetch ELSE Fetch("history", <<>>))
          /\ unasked' = (Fetching /\ ~loaded) /\ listeners' = listeners
      BY <1>1, <2>3 DEF RefetchHistory
    <3>2. Fetch("history", <<>>).kind = "history"
      BY DEF Fetch
    <3>3. unasked' \in BOOLEAN
      BY <3>1, HistoryTyped DEF Fetching
    <3>4. CASE Fetching /\ ~loaded
      <4>1. Rejoining' /\ fetch' = fetch /\ Fetching'
        BY <3>1, <3>4 DEF Rejoining, Fetching
      <4> QED
        BY <2>1, <2>3, <3>1, <3>3, <4>1
    <3>5. CASE ~(Fetching /\ ~loaded)
      <4>1. fetch' = Fetch("history", <<>>) /\ Fetching'
        BY <3>1, <3>2, <3>5 DEF Fetching
      <4> QED
        BY <2>1, <2>3, <3>1, <3>3, <4>1
    <3> QED
      BY <3>4, <3>5
  <2> QED
    BY <2>2, <2>3
<1>5. /\ Fetch("history", <<>>).kind = "history" /\ Fetch("history", <<>>).rows = <<>>
      /\ Fetch("history", <<>>).answered = FALSE
      /\ Fetch("history", <<>>) \in [kind : {"none", "history", "page"}, answered : BOOLEAN, rows : Seq(Row)]
  BY DEF Fetch
<1>6. HistoryTypeOK'
  <2>1. fetch' \in [kind : {"none", "history", "page"}, answered : BOOLEAN, rows : Seq(Row)]
    BY <1>4, <1>5 DEF HistoryInv, HistoryTypeOK
  <2>2. link = "down" => inbox' = <<>>
    BY <1>1 DEF HistoryInv, HistoryTypeOK
  <2> QED
    BY <1>1, <1>2, <1>4, <2>1, <2>2 DEF HistoryInv, HistoryTypeOK, serverVars
<1>7. EventInv'
  BY <1>1, <1>2, <1>3, <1>4 DEF HistoryInv, EventInv, serverVars
<1>8. LinkInv'
  BY <1>1, <1>2, <1>4 DEF HistoryInv, LinkInv, serverVars
<1>9. OrderInv'
  <2> SUFFICES ASSUME NEW i \in stored \ overtaken PROVE InTurn(i)'
    BY <1>1 DEF OrderInv, serverVars
  <2>1. InTurn(i) /\ i # 0
    BY HistoryTyped, IdsAreNumbers DEF HistoryInv, OrderInv
  <2>2. InOrder(inbox, i)' /\ InOrder(listeners, i)'
    BY <1>2, <1>4, <2>1 DEF InTurn, InOrder
  <2>3. /\ \A f \in Waiting' : f.id = i => f \in Waiting
        /\ Coming' \subseteq Coming /\ unpublished' = unpublished
    BY <1>1, <1>2, <1>4, <2>1, EventSays DEF serverVars
  <2> QED
    BY <2>1, <2>2, <2>3 DEF InTurn
<1>10. ChaseInv'
  <2> SUFFICES ASSUME NEW i \in Steady PROVE Followed(i)'
    BY <1>3 DEF ChaseInv
  <2>1. Followed(i) /\ i # 0
    BY HistoryTyped, IdsAreNumbers DEF HistoryInv, ChaseInv, Steady
  <2>2. Latest(i) # Ack
    BY <2>1, EventSays DEF Latest, Event
  <2>3. /\ \A f \in Waiting' : f.id = i => f \in Waiting
        /\ Coming' \subseteq Coming /\ unpublished' = unpublished /\ Waiting \subseteq Waiting'
        /\ \A f \in Coming : f # Ack => f \in Coming'
    BY <1>1, <1>2, <1>4, <2>1, EventSays DEF serverVars
  <2> QED
    BY <1>1, <1>3, <2>1, <2>2, <2>3 DEF Followed
<1>11. PageInv' /\ KnownInv' /\ FreshInv'
  <2>1. CASE Rejoining' /\ fetch' = fetch
    BY <1>1, <2>1, RejoiningOwesNothing DEF serverVars
  <2>2. CASE fetch' = Fetch("history", <<>>)
    <3>1. fetch'.kind = "history" /\ fetch'.rows = <<>> /\ ~fetch'.answered
      BY <1>5, <2>2
    <3>2. PageInv'
      <4>1. PageInv
        BY DEF HistoryInv
      <4>2. RowsOf(cache)'
        BY <1>1, <4>1 DEF PageInv, RowsOf, Distinct, serverVars
      <4>3. RowsOf(fetch.rows)' /\ \A i : ~Has(fetch.rows, i)'
        BY <3>1 DEF RowsOf, Distinct, Has
      <4>4. ~AnswersOlder'
        BY <3>1 DEF AnswersOlder
      <4>5. \A i : Has(cache, i)' = Has(cache, i)
        BY <1>1 DEF Has
      <4> QED
        BY <1>1, <3>1, <4>1, <4>2, <4>3, <4>4, <4>5 DEF PageInv
    <3>3. KnownInv'
      BY <3>1 DEF KnownInv, InHand
    <3>4. FreshInv'
      BY <3>1 DEF FreshInv, FreshRow
    <3> QED
      BY <3>2, <3>3, <3>4
  <2> QED
    BY <1>4, <2>1, <2>2
<1> QED
  BY <1>6, <1>7, <1>8, <1>9, <1>10, <1>11 DEF HistoryInv

(* A page is fetched to go after the rows cached.                          *)
LEMMA LoadOlderKeeps ==
  ASSUME HistoryInv, LoadOlder
  PROVE  HistoryInv'
<1>1. /\ loaded /\ ~paged /\ fetch.kind = "none" /\ fetch' = Fetch("page", cache)
      /\ UNCHANGED <<loaded, cache, paged, listeners, gaveUp, unasked, serverVars, linkVars, faults>>
  BY DEF LoadOlder, Fetching
<1>2. fetch'.kind = "page" /\ fetch'.rows = cache /\ fetch'.answered = FALSE
  BY <1>1 DEF Fetch
<1>3. /\ Waiting' = Waiting /\ Coming' = Coming /\ Rejoining' = Rejoining /\ listeners' = listeners
      /\ \A j : Latest(j)' = Latest(j) /\ Adding(j)' = Adding(j)
      /\ Ack' = Ack /\ Steady' = Steady
  BY <1>1 DEF Waiting, Coming, Rejoining, Among, Ack, Event, Latest, Adding, Steady,
              serverVars, linkVars
<1>4. HistoryTypeOK'
  <2>1. fetch' \in [kind : {"none", "history", "page"}, answered : BOOLEAN, rows : Seq(Row)]
    BY <1>1, HistoryTyped DEF Fetch
  <2>2. Fetching'
    BY <1>2 DEF Fetching
  <2> QED
    BY <1>1, <2>1, <2>2 DEF HistoryInv, HistoryTypeOK, serverVars, linkVars
<1>5. EventInv' /\ LinkInv' /\ OrderInv' /\ ChaseInv'
  <2>1. Waiting' \subseteq Waiting /\ (Waiting' # {} => Fetching')
    BY <1>2, <1>3 DEF Fetching
  <2>2. \A i : InOrder(listeners, i) => InOrder(listeners', i)
    BY <1>3
  <2>3. \A e \in Waiting : e \in Waiting'
    BY <1>3
  <2> QED
    BY <1>1, <2>1, <2>2, <2>3, ListenersLeave
<1>6. PageInv'
  <2>1. PageInv
    BY DEF HistoryInv
  <2>2. RowsOf(cache)' /\ RowsOf(fetch.rows)'
    BY <1>1, <1>2, <2>1 DEF PageInv, RowsOf, Distinct, serverVars
  <2>3. \A i : Has(cache, i)' = Has(cache, i) /\ Has(fetch.rows, i)' = Has(cache, i)
    BY <1>1, <1>2 DEF Has
  <2>4. ~AnswersOlder' /\ Fetching'
    BY <1>2 DEF AnswersOlder, Fetching
  <2> QED
    BY <1>1, <1>2, <2>1, <2>2, <2>3, <2>4 DEF PageInv
<1>7. KnownInv'
  <2> SUFFICES ASSUME NEW j \in (stored \ Older) \ dropped
               PROVE  (Rejoining \/ Adding(j) \in unpublished \cup Coming \/ InHand(j))'
    BY <1>1 DEF KnownInv, serverVars
  <2>1. Has(cache, j)' = Has(cache, j) /\ Has(fetch.rows, j)' = Has(cache, j)
    BY <1>1, <1>2 DEF Has
  <2>2. InHand(j) => InHand(j)'
    BY <1>1, <1>2, <2>1 DEF InHand
  <2>3. Rejoining \/ Adding(j) \in unpublished \cup Coming \/ InHand(j)
    BY DEF HistoryInv, KnownInv
  <2> QED
    BY <1>1, <1>3, <2>2, <2>3 DEF serverVars
<1>8. FreshInv'
  <2>1. ASSUME NEW r, FreshRow(r) PROVE FreshRow(r)' /\ FreshFetched(r)'
    BY <1>1, <1>2, <1>3, <2>1 DEF FreshRow, FreshFetched, serverVars
  <2>2. FreshInv
    BY DEF HistoryInv
  <2> QED
    BY <1>1, <1>2, <1>3, <2>1, <2>2 DEF FreshInv
<1> QED
  BY <1>4, <1>5, <1>6, <1>7, <1>8 DEF HistoryInv

(* The answer has every message asked for, at its version.                 *)
LEMMA AnswerKeeps ==
  ASSUME HistoryInv, Answer
  PROVE  HistoryInv'
<1> DEFINE wanted == CASE fetch.kind = "page" -> Older
                       [] fetch.kind = "history" /\ paged -> stored
                       [] fetch.kind = "history" /\ ~paged -> stored \ Older
<1>1. /\ fetch.kind # "none" /\ ~fetch.answered
      /\ fetch' = [kind |-> fetch.kind, answered |-> TRUE, rows |-> fetch.rows \o Rows(wanted)]
      /\ UNCHANGED <<loaded, cache, paged, listeners, gaveUp, unasked, serverVars, linkVars, faults>>
  BY DEF Answer, Fetching
<1>2. PICK asked \in SUBSET Ids :
        /\ asked = wanted /\ asked \subseteq stored
        /\ fetch.kind = "page" => asked = Older
        /\ fetch.kind = "history" /\ paged => asked = stored
        /\ fetch.kind = "history" /\ ~paged => asked = stored \ Older
  <2>1. fetch.kind \in {"page", "history"} /\ stored \subseteq Ids /\ Older \subseteq stored
    BY <1>1, HistoryTyped DEF HistoryInv, LinkInv
  <2>2. /\ fetch.kind = "page" => wanted = Older
        /\ fetch.kind = "history" /\ paged => wanted = stored
        /\ fetch.kind = "history" /\ ~paged => wanted = stored \ Older
    OBVIOUS
  <2> HIDE DEF wanted
  <2>3. wanted \in SUBSET Ids /\ wanted \subseteq stored
    <3>1. CASE fetch.kind = "page"
      BY <2>1, <2>2, <3>1
    <3>2. CASE fetch.kind = "history"
      BY <2>1, <2>2, <3>2
    <3> QED
      BY <2>1, <3>1, <3>2
  <2> QED
    BY <2>2, <2>3
<1> HIDE DEF wanted
<1>3. PICK rs : rs = Rows(asked)
  OBVIOUS
<1>4. /\ rs \in Seq(Row) /\ Distinct(rs) /\ \A i : Has(rs, i) <=> i \in asked
      /\ \A k \in DOMAIN rs : rs[k].version = version[rs[k].id]
  <2>1. version \in [Ids -> Nat]
    <3>1. version \in [Ids -> 0 .. MaxChanges] /\ 0 .. MaxChanges \subseteq Nat
      BY IdsAreNumbers DEF HistoryInv, HistoryTypeOK
    <3> QED
      BY <3>1
  <2> QED
    BY <1>2, <1>3, <2>1, RowsAnswered
<1>5. PICK old \in Seq(Row) : old = fetch.rows
  BY HistoryTyped
<1>6. PICK all : all = old \o rs
  OBVIOUS
<1>7. fetch'.kind = fetch.kind /\ fetch'.answered = TRUE /\ fetch'.rows = all
  BY <1>1, <1>2, <1>3, <1>5, <1>6
<1>8. /\ fetch.kind = "page" \/ fetch.kind = "history"
      /\ fetch.kind = "page" => ~paged
      /\ fetch.kind # "page" => old = <<>>
      /\ \A i \in Older : ~Has(old, i)
      /\ RowsOf(old) /\ Distinct(old)
  <2>1. PageInv
    BY DEF HistoryInv
  <2>2. ~AnswersOlder
    BY <1>1 DEF AnswersOlder
  <2> QED
    BY <1>1, <1>5, <2>1, <2>2, HistoryTyped DEF PageInv, RowsOf
<1>9. \A i : ~Has(old, i) \/ ~Has(rs, i)
  <2>1. CASE fetch.kind = "page"
    BY <1>2, <1>4, <1>8, <2>1
  <2>2. CASE fetch.kind # "page"
    BY <1>8, <2>2 DEF Has
  <2> QED
    BY <2>1, <2>2
<1>10. /\ all \in Seq(Row) /\ Distinct(all)
       /\ \A i : Has(all, i) <=> Has(old, i) \/ i \in asked
       /\ \A k \in DOMAIN all : \/ \E l \in DOMAIN old : all[k] = old[l]
                                \/ \E l \in DOMAIN rs : all[k] = rs[l]
  <2>1. /\ old \o rs \in Seq(Row)
        /\ \A i : Has(old \o rs, i) <=> Has(old, i) \/ Has(rs, i)
        /\ \A k \in DOMAIN (old \o rs) : \/ \E l \in DOMAIN old : (old \o rs)[k] = old[l]
                                         \/ \E l \in DOMAIN rs : (old \o rs)[k] = rs[l]
        /\ Distinct(old) /\ Distinct(rs) /\ (\A i : ~Has(old, i) \/ ~Has(rs, i))
             => Distinct(old \o rs)
    BY <1>4, RowsAppended
  <2> QED
    BY <1>4, <1>6, <1>8, <1>9, <2>1
<1>11. /\ Waiting' = Waiting /\ Coming' = Coming /\ Rejoining' = Rejoining /\ listeners' = listeners
       /\ \A j : Latest(j)' = Latest(j) /\ Adding(j)' = Adding(j)
       /\ Ack' = Ack /\ Steady' = Steady
  BY <1>1 DEF Waiting, Coming, Rejoining, Among, Ack, Event, Latest, Adding, Steady,
              serverVars, linkVars
<1>12. HistoryTypeOK'
  <2>1. fetch' \in [kind : {"none", "history", "page"}, answered : BOOLEAN, rows : Seq(Row)]
    <3>1. fetch.rows \o Rows(wanted) = all
      BY <1>2, <1>3, <1>5, <1>6
    <3> QED
      BY <1>1, <1>10, <3>1, HistoryTyped
  <2>2. Fetching'
    BY <1>1, <1>7 DEF Fetching
  <2> QED
    BY <1>1, <2>1, <2>2 DEF HistoryInv, HistoryTypeOK, serverVars, linkVars
<1>13. EventInv' /\ LinkInv' /\ OrderInv' /\ ChaseInv'
  <2>1. Waiting' \subseteq Waiting /\ (Waiting' # {} => Fetching')
    BY <1>1, <1>7, <1>11 DEF Fetching
  <2>2. \A i : InOrder(listeners, i) => InOrder(listeners', i)
    BY <1>11
  <2>3. \A e \in Waiting : e \in Waiting'
    BY <1>11
  <2> QED
    BY <1>1, <2>1, <2>2, <2>3, ListenersLeave
<1>14. PageInv'
  <2>1. PageInv
    BY DEF HistoryInv
  <2>2. RowsOf(cache)'
    BY <1>1, <2>1 DEF PageInv, RowsOf, Distinct, serverVars
  <2>3. \A k \in DOMAIN all : all[k].id \in stored /\ all[k].version <= version[all[k].id]
    <3>1. ASSUME NEW l \in DOMAIN old PROVE old[l].id \in stored /\ old[l].version <= version[old[l].id]
      BY <1>8 DEF RowsOf
    <3>2. ASSUME NEW l \in DOMAIN rs PROVE rs[l].id \in stored /\ rs[l].version <= version[rs[l].id]
      <4>1. rs[l].id \in asked /\ rs[l].version = version[rs[l].id]
        BY <1>4 DEF Has
      <4>2. rs[l].id \in stored /\ version[rs[l].id] \in Nat
        BY <1>2, <4>1, HistoryTyped
      <4> QED
        BY <4>1, <4>2
    <3> QED
      BY <1>10, <3>1, <3>2
  <2>4. RowsOf(fetch.rows)'
    <3>1. fetch'.rows = all /\ stored' = stored /\ version' = version
      BY <1>1, <1>7 DEF serverVars
    <3> QED
      BY <1>10, <2>3, <3>1 DEF RowsOf, Distinct
  <2>5. \A i : (Has(cache, i)' <=> Has(cache, i)) /\ (Has(fetch.rows, i)' <=> Has(all, i))
    BY <1>1, <1>7 DEF Has
  <2>6. AnswersOlder' <=> paged \/ fetch.kind = "page"
    BY <1>1, <1>7 DEF AnswersOlder
  <2>7. \A i \in Older : i \in asked <=> paged \/ fetch.kind = "page"
    BY <1>2, <1>8 DEF HistoryInv, LinkInv
  <2>8. \A i \in Older : Has(fetch.rows, i)' <=> AnswersOlder'
    BY <1>8, <1>10, <2>5, <2>6, <2>7
  <2>9. Fetching'
    BY <1>1, <1>7 DEF Fetching
  <2> QED
    BY <1>1, <1>7, <2>1, <2>2, <2>4, <2>5, <2>8, <2>9 DEF PageInv
<1>15. KnownInv'
  <2> SUFFICES ASSUME NEW j \in (stored \ Older) \ dropped
               PROVE  (Rejoining \/ Adding(j) \in unpublished \cup Coming \/ InHand(j))'
    BY <1>1 DEF KnownInv, serverVars
  <2>1. (Has(cache, j)' <=> Has(cache, j)) /\ (Has(fetch.rows, j)' <=> Has(all, j))
    BY <1>1, <1>7 DEF Has
  <2>2. /\ Has(old, j) => Has(all, j)
        /\ fetch.kind = "history" => Has(all, j)
    BY <1>2, <1>8, <1>10
  <2>3. Fetching /\ (Has(fetch.rows, j) <=> Has(old, j))
    BY <1>1, <1>5 DEF Fetching
  <2>4. InHand(j) => InHand(j)'
    BY <1>1, <1>7, <1>8, <1>11, <2>1, <2>2, <2>3 DEF InHand
  <2>5. Rejoining \/ Adding(j) \in unpublished \cup Coming \/ InHand(j)
    BY DEF HistoryInv, KnownInv
  <2> QED
    BY <1>1, <1>11, <2>4, <2>5 DEF serverVars
<1>16. FreshInv'
  <2>1. FreshInv
    BY DEF HistoryInv
  <2>2. ASSUME NEW r PROVE (FreshRow(r) => FreshRow(r)') /\ (FreshFetched(r) => FreshFetched(r)')
    BY <1>1, <1>7, <1>11 DEF FreshRow, FreshFetched, serverVars
  <2>3. ASSUME NEW k \in DOMAIN all, all[k].id \in Steady PROVE FreshFetched(all[k])'
    <3>1. CASE \E l \in DOMAIN old : all[k] = old[l]
      BY <1>5, <2>1, <2>2, <2>3, <3>1 DEF FreshInv
    <3>2. CASE \E l \in DOMAIN rs : all[k] = rs[l]
      <4>1. all[k].version = version[all[k].id]
        BY <1>4, <3>2
      <4> QED
        BY <1>1, <4>1 DEF FreshFetched, serverVars
    <3> QED
      BY <1>10, <3>1, <3>2
  <2>4. \A k \in DOMAIN cache : cache[k].id \in Steady => FreshRow(cache[k])'
    BY <1>1, <2>1, <2>2 DEF FreshInv
  <2> QED
    BY <1>1, <1>7, <1>11, <2>3, <2>4 DEF FreshInv
<1> QED
  BY <1>12, <1>13, <1>14, <1>15, <1>16 DEF HistoryInv

(* The answer with the due events is as good as what it replaces.          *)
LEMMA LandKeeps ==
  ASSUME HistoryInv, Land
  PROVE  HistoryInv'
<1>1. /\ fetch.answered /\ cache' = Reapplied(fetch.rows) /\ loaded' = TRUE
      /\ paged' = (paged \/ fetch.kind = "page") /\ gaveUp' = (gaveUp /\ fetch.kind = "page")
      /\ Settle /\ UNCHANGED <<serverVars, linkVars, faults>>
  BY DEF Land
<1>2. PICK old \in Seq(Row) : old = fetch.rows
  BY HistoryTyped
<1>3. PICK new : new = cache'
  OBVIOUS
<1>4. /\ new \in Seq(Row)
      /\ Distinct(old) => Distinct(new)
      /\ \A i : Has(new, i) <=>
                  Has(old, i) \/ \E l \in 1 .. Due : listeners[l].adds /\ listeners[l].id = i
      /\ \A m \in DOMAIN new : LeftBy(Due, old, new[m])
  <2>1. listeners \in Seq(Events)
    BY HistoryTyped
  <2>2. /\ Reapplied(old) \in Seq(Row)
        /\ Distinct(old) => Distinct(Reapplied(old))
        /\ \A i : Has(Reapplied(old), i) <=>
                    Has(old, i) \/ \E l \in 1 .. Due : listeners[l].adds /\ listeners[l].id = i
        /\ \A m \in DOMAIN Reapplied(old) : LeftBy(Due, old, Reapplied(old)[m])
    BY <2>1, ReappliedSays
  <2>3. new = Reapplied(old)
    BY <1>1, <1>2, <1>3
  <2> QED
    BY <2>2, <2>3
<1>5. /\ Due \in Nat /\ DOMAIN listeners = 1 .. Len(listeners) /\ Len(listeners) \in Nat
      /\ \A k \in 1 .. Due : k \in DOMAIN listeners /\ listeners[k] \in RealEvents
      /\ Stops = {} => Due = Len(listeners)
  BY HistoryTyped, DueSays
<1>6. \A k \in 1 .. Due : listeners[k] \in Waiting /\ listeners[k] \in RealEvents /\ Said(listeners[k])
  <2>1. \A k \in 1 .. Due : listeners[k] \in Waiting /\ listeners[k] # Ack
    BY <1>5, EventSays DEF Waiting, Among
  <2> QED
    BY <1>5, <2>1, OnItsWay
<1>7. Stops = {} => \A e \in Waiting : \E k \in 1 .. Due : e = listeners[k]
  BY <1>5 DEF Waiting, Among
<1>8. /\ listeners' \in Seq(Events) /\ Waiting' \subseteq Waiting
      /\ fetch'.rows = <<>> /\ ~fetch'.answered /\ fetch'.kind \in {"none", "history"}
      /\ unasked' \in BOOLEAN /\ (Waiting' # {} => fetch'.kind = "history")
      /\ Stops = {} => /\ Ack \notin Waiting /\ fetch'.kind = "none" /\ unasked' = unasked
      /\ Stops # {} => fetch'.kind = "history"
  BY <1>1, SettleSays
<1>9. /\ Coming' = Coming
      /\ \A j : Latest(j)' = Latest(j) /\ Adding(j)' = Adding(j)
      /\ Ack' = Ack /\ Steady' = Steady
  BY <1>1 DEF Coming, Among, Ack, Event, Latest, Adding, Steady, serverVars, linkVars
<1>10. Stops = {} /\ Rejoining => Rejoining'
  BY <1>1, <1>8, <1>9 DEF Rejoining, linkVars
<1>11. HistoryTypeOK'
  <2>1. fetch' \in [kind : {"none", "history", "page"}, answered : BOOLEAN, rows : Seq(Row)]
    <3>1. fetch' = NoFetch \/ fetch' = Fetch("history", <<>>)
      BY <1>1, SettleSays
    <3>2. /\ NoFetch \in [kind : {"none", "history", "page"}, answered : BOOLEAN, rows : Seq(Row)]
          /\ Fetch("history", <<>>) \in
               [kind : {"none", "history", "page"}, answered : BOOLEAN, rows : Seq(Row)]
      BY DEF NoFetch, Fetch
    <3> QED
      BY <3>1, <3>2
  <2>2. listeners' # <<>> => Fetching'
    BY <1>1, SettleSays DEF Fetching
  <2>3. cache' \in Seq(Row) /\ {loaded', paged', gaveUp'} \subseteq BOOLEAN
    BY <1>1, <1>3, <1>4, HistoryTyped
  <2> QED
    BY <1>1, <1>8, <2>1, <2>2, <2>3 DEF HistoryInv, HistoryTypeOK, serverVars, linkVars
<1>12. EventInv' /\ LinkInv' /\ OrderInv' /\ ChaseInv'
  <2>1. Waiting' # {} => Fetching'
    BY <1>8 DEF Fetching
  <2>2. /\ \A i : InOrder(listeners, i) => InOrder(listeners', i)
        /\ \A e \in Waiting, f \in Waiting' : \/ e \in Waiting' \/ e = Ack
                                              \/ /\ InOrder(listeners, e.id)
                                                 /\ f.id = e.id => e.version <= f.version
                                              \/ ~InOrder(listeners, e.id)
    BY <1>1, SettleSays
  <2> QED
    BY <1>1, <1>8, <2>1, <2>2, ListenersLeave
<1>13. PageInv'
  <2>1. PageInv /\ RowsOf(old)
    BY <1>2 DEF HistoryInv, PageInv
  <2>2. \A m \in DOMAIN new : new[m].id \in stored /\ new[m].version <= version[new[m].id]
    <3> SUFFICES ASSUME NEW m \in DOMAIN new
                 PROVE  new[m].id \in stored /\ new[m].version <= version[new[m].id]
      OBVIOUS
    <3>1. CASE \E l \in DOMAIN old : new[m] = old[l]
      BY <2>1, <3>1 DEF RowsOf
    <3>2. CASE \E l \in 1 .. Due : listeners[l].id = new[m].id /\ listeners[l].version = new[m].version
      BY <1>6, <3>2, OnItsWay
    <3> QED
      BY <1>4, <3>1, <3>2 DEF LeftBy
  <2>3. RowsOf(cache)'
    BY <1>1, <1>3, <1>4, <2>1, <2>2 DEF RowsOf, Distinct, serverVars
  <2>4. RowsOf(fetch.rows)' /\ \A i : ~Has(fetch.rows, i)'
    BY <1>8 DEF RowsOf, Distinct, Has
  <2>5. ~AnswersOlder'
    BY <1>8 DEF AnswersOlder
  <2>6. \A i \in Older : Has(cache, i)' <=> paged'
    <3> SUFFICES ASSUME NEW i \in Older PROVE Has(cache, i)' <=> paged'
      OBVIOUS
    <3>1. Has(cache, i)' <=> Has(new, i)
      BY <1>3 DEF Has
    <3>2. Has(old, i) <=> AnswersOlder
      BY <1>2, <2>1 DEF PageInv
    <3>3. AnswersOlder <=> paged'
      BY <1>1 DEF AnswersOlder
    <3>4. \A l \in 1 .. Due : ~(listeners[l].adds /\ listeners[l].id = i)
      BY <1>6, OnItsWay
    <3>5. Has(new, i) <=> Has(old, i)
      BY <1>4, <3>4
    <3> QED
      BY <3>1, <3>2, <3>3, <3>5
  <2> QED
    BY <1>1, <1>8, <2>3, <2>4, <2>5, <2>6 DEF PageInv
<1>14. KnownInv'
  <2>1. CASE Stops # {}
    <3>1. fetch'.kind = "history" /\ ~fetch'.answered
      BY <1>8, <2>1
    <3> QED
      BY <3>1 DEF KnownInv, InHand
  <2>2. CASE Stops = {}
    <3> SUFFICES ASSUME NEW j \in (stored \ Older) \ dropped
                 PROVE  (Rejoining \/ Adding(j) \in unpublished \cup Coming \/ InHand(j))'
      BY <1>1 DEF KnownInv, serverVars
    <3>1. Has(cache, j)' <=> Has(new, j)
      BY <1>3 DEF Has
    <3>2. Has(fetch.rows, j) => Has(new, j)
      BY <1>2, <1>4
    <3>3. ASSUME Adding(j) \in Waiting PROVE Has(new, j)
      <4>1. PICK k \in 1 .. Due : Adding(j) = listeners[k]
        BY <1>7, <2>2, <3>3
      <4>2. Adding(j).adds /\ Adding(j).id = j
        BY DEF Adding, Event
      <4> QED
        BY <1>4, <4>1, <4>2
    <3>4. ASSUME InHand(j) PROVE Has(new, j) \/ (fetch.kind = "page" /\ gaveUp)
      <4>1. Fetching
        BY <1>1 DEF HistoryInv, PageInv
      <4> QED
        BY <1>1, <3>2, <3>3, <3>4, <4>1 DEF InHand
    <3>5. InHand(j) => InHand(j)'
      BY <1>1, <1>8, <2>2, <3>1, <3>4 DEF InHand, Fetching
    <3>6. Rejoining \/ Adding(j) \in unpublished \cup Coming \/ InHand(j)
      BY DEF HistoryInv, KnownInv
    <3> QED
      BY <1>1, <1>9, <1>10, <2>2, <3>5, <3>6 DEF serverVars
  <2> QED
    BY <2>1, <2>2
<1>15. FreshInv'
  <2>1. CASE Stops # {}
    BY <1>8, <2>1 DEF FreshInv, FreshRow
  <2>2. CASE Stops = {}
    <3>1. ASSUME NEW m \in DOMAIN new, new[m].id \in Steady PROVE FreshRow(new[m])'
      <4>0. PICK v : v = new[m].version
        OBVIOUS
      <4>1. PICK i \in Steady : i = new[m].id /\ v = new[m].version
        BY <3>1, <4>0
      <4>2. Followed(i) /\ InTurn(i) /\ i \in Ids /\ version[i] \in Nat
        BY HistoryTyped DEF HistoryInv, ChaseInv, OrderInv, Steady
      <4>3. CASE \E l \in 1 .. Due : /\ listeners[l].id = new[m].id /\ listeners[l].version = new[m].version
                                     /\ \A q \in 1 .. Due : l < q => listeners[q].id # new[m].id
        <5>1. PICK l \in 1 .. Due : /\ listeners[l].id = i /\ listeners[l].version = v
                                    /\ \A q \in 1 .. Due : l < q => listeners[q].id # i
          BY <4>1, <4>3
        <5>2. listeners[l] \in Waiting /\ listeners[l] \in RealEvents /\ Said(listeners[l])
          BY <1>6
        <5>3. Latest(i) \in Waiting \cup Coming \cup unpublished
          BY <4>2, <5>1, <5>2 DEF Followed
        <5>4. Latest(i).id = i /\ Latest(i).version = version[i]
          BY <4>2, <5>2, SameEvent
        <5>5. v \in Nat /\ v <= version[i]
          BY <5>1, <5>2, OnItsWay, EventSays
        <5>6. ASSUME Latest(i) \in Waiting PROVE v = version[i]
          <6>1. PICK q \in 1 .. Due : Latest(i) = listeners[q]
            BY <1>7, <2>2, <5>6
          <6>2. ~(l < q) /\ l \in Nat /\ q \in Nat
            <7>1. listeners[q].id = i
              BY <5>4, <6>1
            <7> QED
              BY <5>1, <7>1
          <6>3. CASE q = l
            BY <5>1, <5>4, <6>1, <6>3
          <6>4. CASE q < l
            <7>1. listeners[q].version <= listeners[l].version
              BY <1>5, <4>2, <5>1, <5>4, <6>1, <6>4 DEF InTurn, InOrder
            <7> QED
              BY <4>2, <5>1, <5>4, <5>5, <6>1, <7>1
          <6> QED
            BY <6>2, <6>3, <6>4
        <5> QED
          BY <1>1, <1>9, <4>1, <5>3, <5>6 DEF FreshRow, serverVars
      <4>4. CASE /\ \A l \in 1 .. Due : listeners[l].id # new[m].id
                 /\ \E l \in DOMAIN old : new[m] = old[l]
        <5>1. FreshFetched(new[m])
          BY <1>2, <3>1, <4>4 DEF HistoryInv, FreshInv
        <5>2. Latest(i) \notin Waiting
          <6>1. Latest(i).id = i
            BY DEF Latest, Event
          <6> QED
            BY <1>7, <2>2, <4>1, <4>4, <6>1
        <5> QED
          BY <1>1, <1>9, <1>10, <2>2, <4>1, <5>1, <5>2 DEF FreshFetched, FreshRow, serverVars
      <4> QED
        BY <1>4, <4>3, <4>4 DEF LeftBy
    <3>2. DOMAIN fetch'.rows = {}
      BY <1>8
    <3> QED
      BY <1>3, <1>9, <3>1, <3>2 DEF FreshInv
  <2> QED
    BY <2>1, <2>2
<1> QED
  BY <1>11, <1>12, <1>13, <1>14, <1>15 DEF HistoryInv

(* A fetch that fails leaves the rows, and the history given up.           *)
LEMMA FetchFailsKeeps ==
  ASSUME HistoryInv, FetchFails
  PROVE  HistoryInv'
<1>1. /\ fetch.kind # "none" /\ faults < MaxFaults /\ faults' = faults + 1
      /\ gaveUp' = (gaveUp \/ fetch.kind = "history")
      /\ Settle /\ UNCHANGED <<loaded, cache, paged, serverVars, linkVars>>
  BY DEF FetchFails, Fault, Fetching
<1>2. /\ listeners' \in Seq(Events) /\ Waiting' \subseteq Waiting
      /\ fetch'.rows = <<>> /\ ~fetch'.answered /\ fetch'.kind \in {"none", "history"}
      /\ unasked' \in BOOLEAN /\ (Waiting' # {} => fetch'.kind = "history")
      /\ Stops = {} => /\ Ack \notin Waiting /\ fetch'.kind = "none" /\ unasked' = unasked
      /\ Stops # {} => fetch'.kind = "history"
  BY <1>1, SettleSays
<1>3. /\ Coming' = Coming
      /\ \A j : Latest(j)' = Latest(j) /\ Adding(j)' = Adding(j)
      /\ Ack' = Ack /\ Steady' = Steady
  BY <1>1 DEF Coming, Among, Ack, Event, Latest, Adding, Steady, serverVars, linkVars
<1>4. Stops = {} /\ Rejoining => Rejoining'
  BY <1>1, <1>2, <1>3 DEF Rejoining, linkVars
<1>5. HistoryTypeOK'
  <2>1. fetch' \in [kind : {"none", "history", "page"}, answered : BOOLEAN, rows : Seq(Row)]
    <3>1. fetch' = NoFetch \/ fetch' = Fetch("history", <<>>)
      BY <1>1, SettleSays
    <3>2. /\ NoFetch \in [kind : {"none", "history", "page"}, answered : BOOLEAN, rows : Seq(Row)]
          /\ Fetch("history", <<>>) \in
               [kind : {"none", "history", "page"}, answered : BOOLEAN, rows : Seq(Row)]
      BY DEF NoFetch, Fetch
    <3> QED
      BY <3>1, <3>2
  <2>2. listeners' # <<>> => Fetching'
    BY <1>1, SettleSays DEF Fetching
  <2>3. gaveUp' \in BOOLEAN
    BY <1>1, HistoryTyped
  <2>4. faults' \in 0 .. MaxFaults
    <3>1. faults \in Nat /\ MaxFaults \in Nat
      BY HistoryAssumption DEF HistoryInv, HistoryTypeOK
    <3> QED
      BY <1>1, <3>1
  <2> QED
    BY <1>1, <1>2, <2>1, <2>2, <2>3, <2>4 DEF HistoryInv, HistoryTypeOK, serverVars, linkVars
<1>6. EventInv' /\ LinkInv' /\ OrderInv' /\ ChaseInv'
  <2>1. Waiting' # {} => Fetching'
    BY <1>2 DEF Fetching
  <2>2. /\ \A i : InOrder(listeners, i) => InOrder(listeners', i)
        /\ \A e \in Waiting, f \in Waiting' : \/ e \in Waiting' \/ e = Ack
                                              \/ /\ InOrder(listeners, e.id)
                                                 /\ f.id = e.id => e.version <= f.version
                                              \/ ~InOrder(listeners, e.id)
    BY <1>1, SettleSays
  <2> QED
    BY <1>1, <1>2, <2>1, <2>2, ListenersLeave
<1>7. PageInv'
  <2>1. PageInv
    BY DEF HistoryInv
  <2>2. RowsOf(cache)'
    BY <1>1, <2>1 DEF PageInv, RowsOf, Distinct, serverVars
  <2>3. RowsOf(fetch.rows)' /\ \A i : ~Has(fetch.rows, i)'
    BY <1>2 DEF RowsOf, Distinct, Has
  <2>4. ~AnswersOlder'
    BY <1>2 DEF AnswersOlder
  <2>5. \A i : Has(cache, i)' <=> Has(cache, i)
    BY <1>1 DEF Has
  <2>6. ~loaded => gaveUp'
    BY <1>1, <2>1 DEF PageInv
  <2> QED
    BY <1>1, <1>2, <2>1, <2>2, <2>3, <2>4, <2>5, <2>6 DEF PageInv
<1>8. KnownInv'
  <2>1. CASE Stops # {}
    <3>1. fetch'.kind = "history" /\ ~fetch'.answered
      BY <1>2, <2>1
    <3> QED
      BY <3>1 DEF KnownInv, InHand
  <2>2. CASE Stops = {}
    <3> SUFFICES ASSUME NEW j \in (stored \ Older) \ dropped
                 PROVE  (Rejoining \/ Adding(j) \in unpublished \cup Coming \/ InHand(j))'
      BY <1>1 DEF KnownInv, serverVars
    <3>1. Has(cache, j)' <=> Has(cache, j)
      BY <1>1 DEF Has
    <3>2. InHand(j) => InHand(j)'
      BY <1>1, <1>2, <2>2, <3>1 DEF InHand, Fetching
    <3>3. Rejoining \/ Adding(j) \in unpublished \cup Coming \/ InHand(j)
      BY DEF HistoryInv, KnownInv
    <3> QED
      BY <1>1, <1>3, <1>4, <2>2, <3>2, <3>3 DEF serverVars
  <2> QED
    BY <2>1, <2>2
<1>9. FreshInv'
  <2>1. CASE Stops # {}
    BY <1>2, <2>1 DEF FreshInv, FreshRow
  <2>2. CASE Stops = {}
    <3>1. ASSUME NEW r, FreshRow(r) PROVE FreshRow(r)'
      BY <1>1, <1>3, <1>4, <2>2, <3>1 DEF FreshRow, serverVars
    <3>2. FreshInv
      BY DEF HistoryInv
    <3> QED
      BY <1>1, <1>2, <1>3, <3>1, <3>2 DEF FreshInv
  <2> QED
    BY <2>1, <2>2
<1> QED
  BY <1>5, <1>6, <1>7, <1>8, <1>9 DEF HistoryInv

(* The first states: nothing has been sent, the first fetch is in flight.  *)
LEMMA HistoryStarts == HistoryInit => HistoryInv
<1> SUFFICES ASSUME HistoryInit PROVE HistoryInv
  OBVIOUS
<1>1. /\ stored = Older /\ version = [i \in Ids |-> 0] /\ unpublished = {} /\ answer = Ack
      /\ member = FALSE /\ link = "down" /\ join = "no" /\ inbox = <<>>
      /\ loaded \in BOOLEAN /\ cache = <<>> /\ paged = FALSE /\ fetch = Fetch("history", <<>>)
      /\ listeners = <<>> /\ dropped = {} /\ overtaken = {} /\ held = {}
      /\ gaveUp = FALSE /\ unasked = FALSE /\ changes = 0 /\ faults = 0
  BY DEF HistoryInit
<1>2. /\ fetch.kind = "history" /\ fetch.rows = <<>> /\ fetch.answered = FALSE
      /\ fetch \in [kind : {"none", "history", "page"}, answered : BOOLEAN, rows : Seq(Row)]
  BY <1>1 DEF Fetch
<1>3. Waiting = {} /\ Coming = {}
  BY <1>1 DEF Waiting, Coming, Among
<1>4. HistoryTypeOK
  <2>1. version \in [Ids -> 0 .. MaxChanges] /\ 0 \in 0 .. MaxChanges /\ 0 \in 0 .. MaxFaults
    BY <1>1, HistoryAssumption
  <2>2. Older \subseteq Ids /\ Ack \in Events
    BY IdsAreNumbers, EventSays
  <2>3. inbox \in Seq(Events) /\ cache \in Seq(Row) /\ listeners \in Seq(Events)
    BY <1>1
  <2>4. {loaded, paged, gaveUp, unasked} \subseteq BOOLEAN
    BY <1>1
  <2>5. member <=> join \in {"entered", "acked"}
    BY <1>1
  <2> QED
    BY <1>1, <1>2, <2>1, <2>2, <2>3, <2>4, <2>5 DEF HistoryTypeOK, Fetching
<1>5. EventInv
  BY <1>1, <1>3 DEF EventInv
<1>6. LinkInv
  <2>1. \A i \in Ids : version[i] = 0
    BY <1>1
  <2> QED
    BY <1>1, <1>3, <2>1, HistoryAssumption DEF LinkInv
<1>7. PageInv
  <2>1. RowsOf(<<>>) /\ \A i : ~Has(<<>>, i)
    BY DEF RowsOf, Distinct, Has
  <2> QED
    BY <1>1, <1>2, <2>1 DEF PageInv, AnswersOlder, Fetching
<1>8. KnownInv
  BY <1>1, <1>2 DEF KnownInv, InHand
<1>9. OrderInv
  BY <1>1, <1>3 DEF OrderInv, InTurn, InOrder
<1>10. ChaseInv
  BY <1>1, <1>3 DEF ChaseInv, Followed
<1>11. FreshInv
  BY <1>1, <1>2 DEF FreshInv
<1> QED
  BY <1>4, <1>5, <1>6, <1>7, <1>8, <1>9, <1>10, <1>11 DEF HistoryInv

(* Every step keeps the invariant.                                         *)
LEMMA HistorySteps == HistoryInv /\ [HistoryNext]_historyVars => HistoryInv'
<1> SUFFICES ASSUME HistoryInv, [HistoryNext]_historyVars PROVE HistoryInv'
  OBVIOUS
<1>1. ASSUME NEW i \in Ids, Create(i) PROVE HistoryInv'
  BY <1>1, CreateKeeps
<1>2. ASSUME NEW i \in Ids, Change(i) PROVE HistoryInv'
  BY <1>2, CommitKeeps DEF Change
<1>3. ASSUME NEW i \in Ids, ChangeOwn(i) PROVE HistoryInv'
  BY <1>3, CommitKeeps DEF ChangeOwn
<1>4. ASSUME NEW e \in unpublished, Publish(e) PROVE HistoryInv'
  BY <1>4, PublishKeeps
<1>5. ASSUME NEW e \in unpublished, LosePublish(e) PROVE HistoryInv'
  BY <1>5, LosePublishKeeps
<1>6. CASE UNCHANGED historyVars
  <2>1. /\ UNCHANGED <<stored, version, unpublished, answer, dropped, overtaken, changes>>
        /\ UNCHANGED <<member, link, join, inbox, held>>
        /\ UNCHANGED <<loaded, cache, paged, fetch, listeners, gaveUp, unasked, faults>>
    BY <1>6 DEF historyVars, serverVars, linkVars, cacheVars
  <2>2. HistoryTypeOK'
    BY <2>1 DEF HistoryInv, HistoryTypeOK, Fetching
  <2>3. /\ Waiting' = Waiting /\ Coming' = Coming /\ Rejoining' = Rejoining /\ Fetching' = Fetching
        /\ Steady' = Steady
    BY <2>1 DEF Waiting, Coming, Rejoining, Among, Ack, Event, Fetching, Steady
  <2>4. EventInv' /\ LinkInv' /\ OrderInv' /\ ChaseInv'
    <3>1. UNCHANGED <<serverVars, linkVars>>
      BY <2>1 DEF serverVars, linkVars
    <3>2. Waiting' \subseteq Waiting /\ (Waiting' # {} => Fetching')
      BY <2>3 DEF HistoryInv, LinkInv
    <3>3. (\A i : InOrder(listeners, i) => InOrder(listeners', i)) /\ \A e \in Waiting : e \in Waiting'
      BY <2>1, <2>3
    <3> QED
      BY <3>1, <3>2, <3>3, ListenersLeave
  <2>5. PageInv' /\ KnownInv' /\ FreshInv'
    BY <2>1, <2>3, RowsLeftAlone
  <2> QED
    BY <2>2, <2>4, <2>5 DEF HistoryInv
<1> QED
  BY <1>1, <1>2, <1>3, <1>4, <1>5, <1>6, AnswerOwnKeeps, ConnectKeeps, EnterRoomKeeps, AckJoinKeeps,
     DisconnectKeeps, ReceiveKeeps, JoinedKeeps, LoadOlderKeeps, AnswerKeeps, LandKeeps,
     FetchFailsKeeps DEF HistoryNext

(* The cache, the fetch in flight and what is on its way always account    *)
(* for every message and every version between them.                       *)
THEOREM HistoryInvariant == HistorySpec => []HistoryInv
<1>1. HistoryInit => HistoryInv
  BY HistoryStarts
<1>2. HistoryInv /\ [HistoryNext]_historyVars => HistoryInv'
  BY HistorySteps
<1> QED
  BY <1>1, <1>2, PTL DEF HistorySpec

(* Once nothing is on its way, no refetch is owed either.                  *)
LEMMA QuietOwesNothing ==
  ASSUME HistoryInv, Quiet, ~unasked
  PROVE  ~Rejoining /\ Coming = {} /\ Waiting = {} /\ unpublished = {} /\ ~gaveUp
         /\ fetch.kind = "none"
<1>1. join = "acked" /\ inbox = <<>> /\ ~Fetching /\ unpublished = {} /\ ~gaveUp
  BY DEF Quiet
<1>2. Coming = {}
  BY <1>1 DEF Coming, Among
<1>3. Waiting = {}
  BY <1>1 DEF HistoryInv, LinkInv
<1> QED
  BY <1>1, <1>2, <1>3 DEF Rejoining, Fetching

(* Whatever a fetch, a broadcast, its repetition, a drop of the connection *)
(* and a join do to each other, the cached history has every message       *)
(* broadcast, once.                                                        *)
THEOREM HistoryIsComplete == HistorySpec => []HistoryComplete
<1>1. ASSUME HistoryInv PROVE HistoryComplete
  <2>1. HistoryTypeOK /\ PageInv /\ KnownInv
    BY <1>1 DEF HistoryInv
  <2>2. \A k, l \in DOMAIN cache : cache[k].id = cache[l].id => k = l
    BY <2>1 DEF PageInv, RowsOf, Distinct
  <2>3. ASSUME Quiet, ~unasked, NEW i \in stored \ dropped, i \in Older => paged PROVE Has(cache, i)
    <3>1. CASE i \in Older
      BY <2>1, <2>3, <3>1 DEF PageInv
    <3>2. CASE i \notin Older
      <4>1. Rejoining \/ Adding(i) \in unpublished \cup Coming \/ InHand(i)
        BY <2>1, <3>2 DEF KnownInv
      <4>2. /\ ~Rejoining /\ Coming = {} /\ unpublished = {} /\ ~gaveUp /\ fetch.kind = "none"
        BY <1>1, <2>3, QuietOwesNothing
      <4> QED
        BY <4>1, <4>2 DEF InHand
    <3> QED
      BY <3>1, <3>2
  <2> QED
    BY <2>1, <2>2, <2>3 DEF HistoryComplete
<1> QED
  BY <1>1, HistoryInvariant, PTL

(* Once nothing is on its way, a cached row is the database's version,     *)
(* unless one of the losses its property names has touched its message.    *)
THEOREM HistoryShowsLatest == HistorySpec => []ShowsLatest
<1>1. ASSUME HistoryInv PROVE ShowsLatest
  <2> SUFFICES ASSUME Quiet, ~unasked, NEW k \in DOMAIN cache
               PROVE  \/ cache[k].version = version[cache[k].id]
                      \/ cache[k].id \in dropped \cup overtaken \cup held
    BY DEF ShowsLatest
  <2>1. cache[k].id \in stored
    BY <1>1 DEF HistoryInv, PageInv, RowsOf
  <2>2. cache[k].id \in Steady => FreshRow(cache[k])
    BY <1>1 DEF HistoryInv, FreshInv
  <2>3. /\ ~Rejoining /\ Coming = {} /\ unpublished = {} /\ ~gaveUp /\ fetch.kind = "none"
    BY <1>1, QuietOwesNothing
  <2> QED
    BY <2>1, <2>2, <2>3 DEF Steady, FreshRow
<1> QED
  BY <1>1, HistoryInvariant, PTL

(* A page a reader waits for is fetched or fails: no acknowledgement of a  *)
(* join takes it away.                                                     *)
THEOREM PageFetchIsKept == HistorySpec => PageFetchKept
<1>1. ASSUME HistoryInv, [HistoryNext]_historyVars
      PROVE  [fetch.kind = "page" /\ fetch'.kind # "page" => paged' \/ faults' > faults]_historyVars
  <2> SUFFICES ASSUME HistoryNext, fetch.kind = "page", fetch'.kind # "page"
               PROVE  paged' \/ faults' > faults
    BY <1>1
  <2>1. fetch' # fetch
    OBVIOUS
  <2>2. ASSUME NEW i \in Ids, Create(i) \/ Change(i) \/ ChangeOwn(i) PROVE FALSE
    BY <2>1, <2>2 DEF Create, Change, ChangeOwn, Commit, cacheVars
  <2>3. ASSUME NEW e \in unpublished, Publish(e) \/ LosePublish(e) PROVE FALSE
    BY <2>1, <2>3 DEF Publish, LosePublish, cacheVars
  <2>4. ASSUME AnswerOwn \/ Connect \/ EnterRoom \/ AckJoin \/ Disconnect \/ Receive PROVE FALSE
    BY <2>1, <2>4 DEF AnswerOwn, Connect, EnterRoom, AckJoin, Disconnect, Receive, cacheVars
  <2>5. ASSUME Joined PROVE FALSE
    BY <2>1, <2>5 DEF Joined, RefetchHistory
  <2>6. ASSUME LoadOlder PROVE FALSE
    BY <2>6 DEF LoadOlder, Fetching
  <2>7. ASSUME Answer PROVE FALSE
    BY <2>7 DEF Answer
  <2>8. ASSUME Land PROVE paged'
    BY <2>8 DEF Land
  <2>9. ASSUME FetchFails PROVE faults' > faults
    <3>1. faults \in Nat /\ faults' = faults + 1
      BY <1>1, <2>9, HistoryAssumption DEF FetchFails, Fault, HistoryInv, HistoryTypeOK
    <3> QED
      BY <3>1
  <2> QED
    BY <2>2, <2>3, <2>4, <2>5, <2>6, <2>7, <2>8, <2>9 DEF HistoryNext
<1> QED
  BY <1>1, HistoryInvariant, PTL DEF HistorySpec, PageFetchKept
============================================================================
