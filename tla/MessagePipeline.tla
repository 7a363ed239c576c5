-------------------------- MODULE MessagePipeline --------------------------
(***************************************************************************)
(* A message from its write to its document in the search index.           *)
(*                                                                         *)
(* Request handlers of the Messaging service (REST and socket) send, edit  *)
(* and delete a message: each loads the row, commits one guarded UPDATE,   *)
(* broadcasts, and enqueues an index job; a handler can end anywhere in    *)
(* between.  The job stream is a JobDelivery (which StreamConsumer         *)
(* implements), so jobs run late, twice, in any order, or not at all.  The *)
(* Worker's handler writes the document under the row's version, which     *)
(* Elasticsearch refuses unless it is newer.                               *)
(*                                                                         *)
(* An UPDATE and its commit are one step: the row lock it takes makes      *)
(* every other UPDATE of the row wait for the commit, and a commit that    *)
(* fails leaves nothing.  A text is named by the version that wrote it.    *)
(***************************************************************************)
EXTENDS Integers, Sequences, FiniteSets

CONSTANTS
  Messages,   \* message ids
  Requests,   \* request handlers that may be running at once
  MaxEdits,   \* bound on the versions edits make
  MaxJobs     \* bound on the index jobs added

ASSUME PipelineAssumption ==
  Messages # {} /\ MaxEdits \in Nat /\ MaxJobs \in Nat

VARIABLES
  row,     \* messages table, as committed
  at,      \* where each request handler is
  req,     \* what it works on: operation, message, expected version, response
  jobs,    \* payloads in the order they were enqueued
  index,   \* the documents of the messages index
  (* the job stream, see JobDelivery *)
  live, ran, done, buried, lost,
  (* history, not in the code *)
  missed   \* committed changes whose job was never enqueued

queueVars == <<jobs, live, ran, done, buried, lost>>
vars == <<row, at, req, index, queueVars, missed>>

JobIds == 1 .. MaxJobs

Queue == INSTANCE JobDelivery WITH
  Entries <- JobIds, MaxAttempts <- 1, added <- 1 .. Len(jobs)

Copy == INSTANCE LaggingCopy WITH source <- row, copy <- index

NoText == -1

None == [version |-> -1, deleted |-> FALSE, body |-> NoText]

Exists(m) == row[m].version >= 0

(* _as_message: the DTO, with a deleted row's body redacted. *)
AsMessage(s) == [version |-> s.version, deleted |-> s.deleted,
                 body |-> IF s.deleted THEN NoText ELSE s.body]

Starts(op, m, v) == [op |-> op, msg |-> m, expected |-> v,
                     deletedNow |-> FALSE, response |-> None]

Nothing == Starts("send", CHOOSE m \in Messages : TRUE, 0)

-----------------------------------------------------------------------------
Init ==
  /\ row = [m \in Messages |-> None]
  /\ at = [r \in Requests |-> "idle"]
  /\ req = [r \in Requests |-> Nothing]
  /\ jobs = <<>>
  /\ index = [m \in Messages |-> None]
  /\ Queue!Init
  /\ missed = {}

GoTo(r, label) == at' = [at EXCEPT ![r] = label]

Finish(r) == GoTo(r, "idle") /\ req' = [req EXCEPT ![r] = Nothing]

(* The handler has committed and answers with the row as it is now. *)
Respond(r, op, m, deletedNow, now) ==
  /\ GoTo(r, "committed")
  /\ req' = [req EXCEPT ![r] = [op |-> op, msg |-> m, expected |-> 0,
                 deletedNow |-> deletedNow, response |-> AsMessage(now)]]

(* send_message, create: a row under an id nobody else knows yet. *)
Send(r, m) ==
  /\ at[r] = "idle"
  /\ ~Exists(m)
  /\ LET new == [version |-> 0, deleted |-> FALSE, body |-> 0] IN
       /\ row' = [row EXCEPT ![m] = new]
       /\ Respond(r, "send", m, FALSE, new)
  /\ UNCHANGED <<index, queueVars, missed>>

(* check_editable, for its author: not once it is deleted. *)
Editable(m) == ~row[m].deleted

(* edit up to its UPDATE: the row is loaded and check_editable passes.  The*)
(* expected version is one the client has been shown.                      *)
LoadForEdit(r, m, v) ==
  /\ at[r] = "idle"
  /\ Exists(m)
  /\ Editable(m)
  /\ v <= row[m].version
  /\ GoTo(r, "loaded")
  /\ req' = [req EXCEPT ![r] = Starts("edit", m, v)]
  /\ UNCHANGED <<row, index, queueVars, missed>>

(* Mutant: no refresh after the UPDATE, so the answer is the old row. *)
CommitEditNoRefresh(r) ==
  /\ at[r] = "loaded" /\ req[r].op = "edit"
  /\ LET m == req[r].msg
         next == [version |-> row[m].version + 1, deleted |-> row[m].deleted,
                  body |-> row[m].version + 1]
     IN  IF row[m].version = req[r].expected
           THEN row' = [row EXCEPT ![m] = next] /\ Respond(r, "edit", m, FALSE, row[m])
           ELSE Finish(r) /\ UNCHANGED row
  /\ UNCHANGED <<index, queueVars, missed>>

(* UPDATE ... WHERE version = expected; its rowcount says whether it hit.  *)
CommitEdit(r) ==
  /\ at[r] = "loaded" /\ req[r].op = "edit"
  /\ LET m == req[r].msg
         next == [version |-> row[m].version + 1, deleted |-> row[m].deleted,
                  body |-> row[m].version + 1]
     IN  IF row[m].version = req[r].expected
           THEN /\ row' = [row EXCEPT ![m] = next]
                /\ Respond(r, "edit", m, FALSE, next)
           ELSE Finish(r) /\ UNCHANGED row      \* VersionConflictError
  /\ UNCHANGED <<index, queueVars, missed>>

(* delete up to its UPDATE.  A row already deleted is answered as it is.   *)
LoadForDelete(r, m) ==
  /\ at[r] = "idle"
  /\ Exists(m)
  /\ IF row[m].deleted
       THEN Respond(r, "delete", m, FALSE, row[m])
       ELSE /\ GoTo(r, "loaded")
            /\ req' = [req EXCEPT ![r] = Starts("delete", m, 0)]
  /\ UNCHANGED <<row, index, queueVars, missed>>

(* UPDATE ... WHERE deleted_at IS NULL, then refresh.  The rowcount is not *)
(* looked at: a handler that loses the race also answers deleted_now.      *)
CommitDelete(r) ==
  /\ at[r] = "loaded" /\ req[r].op = "delete"
  /\ LET m == req[r].msg
         next == IF row[m].deleted THEN row[m]
                 ELSE [version |-> row[m].version + 1, deleted |-> TRUE,
                       body |-> row[m].body]
     IN  /\ row' = [row EXCEPT ![m] = next]
         /\ Respond(r, "delete", m, TRUE, next)
  /\ UNCHANGED <<index, queueVars, missed>>

(* A send, an edit and a delete that deleted enqueue; a repeat does not. *)
Enqueues(q) == q.op = "delete" => q.deletedNow

Broadcast(r) ==
  /\ at[r] = "committed"
  /\ IF Enqueues(req[r]) THEN GoTo(r, "announced") /\ UNCHANGED req ELSE Finish(r)
  /\ UNCHANGED <<row, index, queueVars, missed>>

(* enqueue_upsert and enqueue_delete: the payload is the response.  The    *)
(* job type, not the payload, says whether the handler writes a tombstone. *)
Payload(q) == [msg |-> q.msg, version |-> q.response.version,
               deleted |-> q.op = "delete", body |-> q.response.body]

Enqueue(r) ==
  /\ at[r] = "announced"
  /\ Len(jobs) < MaxJobs
  /\ jobs' = Append(jobs, Payload(req[r]))
  /\ Queue!Add(Len(jobs) + 1)
  /\ Finish(r)
  /\ UNCHANGED <<row, index, missed>>

(* The change the handler has committed will not be enqueued by it. *)
Miss(r) ==
  missed' = IF at[r] \in {"committed", "announced"} /\ Enqueues(req[r])
              THEN missed \cup {<<req[r].msg, req[r].response.version>>}
              ELSE missed

(* _enqueue: an unreachable Redis is logged and swallowed. *)
EnqueueFails(r) ==
  /\ at[r] = "announced"
  /\ Miss(r)
  /\ Finish(r)
  /\ UNCHANGED <<row, index, queueVars>>

(* The process dies, or an await of the handler raises. *)
Abandon(r) ==
  /\ at[r] # "idle"
  /\ Miss(r)
  /\ Finish(r)
  /\ UNCHANGED <<row, index, queueVars>>

-----------------------------------------------------------------------------
(* index_request: a tombstone document has no body. *)
Document(p) == [version |-> p.version, deleted |-> p.deleted,
                body |-> IF p.deleted THEN NoText ELSE p.body]

(* Mutant: no external version, the last write wins. *)
ExternalWriteAlways(doc, old) == doc

(* Mutant: op_type create, only the first write succeeds. *)
ExternalWriteOnce(doc, old) == IF old = None THEN doc ELSE old

(* Elasticsearch, version_type external: 409 unless the version is newer.  *)
ExternalWrite(doc, old) == IF doc.version > old.version THEN doc ELSE old

IndexDocument(p) ==
  index' = [index EXCEPT ![p.msg] = ExternalWrite(Document(p), @)]

(* A delivery runs the handler. *)
RunJob(j) ==
  /\ j \in 1 .. Len(jobs)
  /\ UNCHANGED <<row, at, req, jobs, index, missed>>
  /\ Queue!Run(j, 1)

(* _write: written, or 409, which is success. *)
HandlerWrites(j) ==
  /\ j \in 1 .. Len(jobs)
  /\ UNCHANGED <<row, at, req, jobs, missed>>
  /\ Queue!Succeed(j)
  /\ IndexDocument(jobs[j])

(* The document is written, but the handler does not hear of it. *)
HandlerLosesReply(j) ==
  /\ j \in 1 .. Len(jobs)
  /\ ran[j] # {}
  /\ IndexDocument(jobs[j])
  /\ UNCHANGED <<row, at, req, queueVars, missed>>

(* The consumer removes, dead-letters or loses jobs. *)
StreamStep ==
  /\ UNCHANGED <<row, at, req, jobs, index, missed>>
  /\ \/ \E j \in 1 .. Len(jobs) : Queue!Retire(j) \/ Queue!Bury(j)
     \/ Queue!Lose

-----------------------------------------------------------------------------
(* Search, which reads the index and then the table.  One text stands for  *)
(* the words it is searched by.                                            *)

(* candidate_query: the documents not deleted that have the words. *)
Matches(doc, text) == doc # None /\ ~doc.deleted /\ doc.body = text

(* _candidate_ids: ids only. *)
CandidateIds(text) == {m \in Messages : Matches(index[m], text)}

(* _hydrate: the rows behind the hits, deleted ones dropped. *)
Hydrate(ids) == [m \in {i \in ids : Exists(i) /\ ~row[i].deleted} |-> AsMessage(row[m])]

SearchMessages(text) == Hydrate(CandidateIds(text))

-----------------------------------------------------------------------------
Request(r) ==
  \/ \E m \in Messages : Send(r, m) \/ LoadForDelete(r, m)
  \/ \E m \in Messages, v \in 0 .. MaxEdits - 1 : LoadForEdit(r, m, v)
  \/ CommitEdit(r) \/ CommitDelete(r)
  \/ Broadcast(r) \/ Enqueue(r) \/ EnqueueFails(r) \/ Abandon(r)

Work(j) == RunJob(j) \/ HandlerWrites(j) \/ HandlerLosesReply(j)

Next ==
  \/ \E r \in Requests : Request(r)
  \/ \E j \in JobIds : Work(j)
  \/ StreamStep

Spec == Init /\ [][Next]_vars

(* The consumers run every job that stays in the stream, and a run that is *)
(* repeated for ever does not fail for ever: StreamConsumer buries it.     *)
Fairness == \A j \in JobIds :
  WF_vars(j \in live /\ RunJob(j)) /\ WF_vars(j \in live /\ HandlerWrites(j))

FairSpec == Spec /\ Fairness

-----------------------------------------------------------------------------
(* Properties *)

States == [version : Nat \cup {-1}, deleted : BOOLEAN, body : Nat \cup {NoText}]

Operations == {"send", "edit", "delete"}

Payloads == [msg : Messages, version : Nat, deleted : BOOLEAN,
             body : Nat \cup {NoText}]

(* Type invariant.  An answered request's operation agrees with the state  *)
(* it answers: a tombstone answers a delete and nothing else.              *)
TypeOK ==
  /\ row \in [Messages -> States]
  /\ at \in [Requests -> {"idle", "loaded", "committed", "announced"}]
  /\ req \in [Requests -> [op : Operations, msg : Messages, expected : Nat,
                           deletedNow : BOOLEAN, response : States]]
  /\ jobs \in Seq(Payloads)
  /\ Len(jobs) <= MaxJobs
  /\ index \in [Messages -> States]
  /\ live \subseteq 1 .. Len(jobs)
  /\ ran \in [JobIds -> SUBSET {1}]
  /\ done \subseteq 1 .. Len(jobs)
  /\ buried \subseteq 1 .. Len(jobs)
  /\ lost \subseteq 1 .. Len(jobs)
  /\ missed \subseteq Messages \X Nat
  /\ \A r \in Requests : at[r] \in {"committed", "announced"} =>
       /\ req[r].response.version >= 0
       /\ req[r].response.deleted <=> req[r].op = "delete"

(* handlers/messages.py: an index document is a state the message was in,  *)
(* at the very version it had then; it is never ahead of the database, and *)
(* a document that says deleted has no text.                               *)
IndexFaithful ==
  \A m \in Messages : index[m] # None => index[m] \in Copy!Published(row[m])

(* indexing.py: no committed change is forgotten by everyone.  Each version*)
(* a message has had is in the index (or overtaken there), or some handler *)
(* is about to enqueue it, or its job is live, or its job was dead-lettered*)
(* or went with the stream, or its enqueue was lost: search misses it.     *)
EveryChangeAccounted ==
  \A m \in Messages : \A v \in 0 .. row[m].version :
    \/ index[m].version >= v
    \/ \E r \in Requests : /\ at[r] \in {"committed", "announced"}
                           /\ Enqueues(req[r])
                           /\ req[r].msg = m /\ req[r].response.version = v
    \/ \E j \in live \cup buried \cup lost : jobs[j].msg = m /\ jobs[j].version = v
    \/ <<m, v>> \in missed

KeepsTombstones ==
  \A m \in Messages : /\ row[m].deleted => row'[m] = row[m]
                      /\ index[m].deleted => index'[m] = index[m]

(* messages.py: a tombstone is final.  No edit that raced the delete       *)
(* changes the row again, and no late or repeated upsert brings the text   *)
(* back into the index.                                                    *)
TombstoneIsFinal == [][KeepsTombstones]_vars

(* The index is a lagging copy of the table. *)
ImplementsLaggingCopy == Copy!Spec

(* An enqueued change reaches the index, or its job is dead-lettered, or it*)
(* went with the stream.                                                   *)
IndexCatchesUp ==
  \A j \in JobIds :
    j <= Len(jobs) ~> \/ j \in buried \cup lost
                      \/ j <= Len(jobs) /\ index[jobs[j].msg].version >= jobs[j].version

(* Nothing is under way, and no job was given up or lost. *)
Settled ==
  /\ \A r \in Requests : at[r] \in {"idle", "loaded"}
  /\ live \cup buried \cup lost = {} /\ missed = {}

(* search.py 15-18, doc 02: what search answers, from a copy that lags and *)
(* the rows that do not, is never a deleted message, and in the end it is  *)
(* right: once the jobs have run, however often and in whatever order, a   *)
(* text finds the messages that say it now, with nothing left over.        *)
SearchIsRight ==
  \A text \in 0 .. MaxEdits :
    LET found == DOMAIN SearchMessages(text)
        said  == {m \in Messages : Exists(m) /\ ~row[m].deleted /\ row[m].body = text}
    IN  (\A m \in found : ~row[m].deleted) /\ (Settled => found = said)
============================================================================
