# CollabHub: specifications, model checking and proofs

CollabHub is a chat application: Python services (FastAPI, python-socketio,
PostgreSQL, Redis Streams, Elasticsearch), a React client, and a tool that runs
the repository's own delivery process. This directory holds TLA+ modules of
its concurrent and failure-prone parts, TLC configurations that check them on
small instances, and TLAPS proofs of what matters most for every instance.
Paths below are relative to the repository's root; `PROJECT.json` gives the
lines every definition stands for.

1. Inventory. 2. Modules. 3. What is checked. 4. What is proved.
5. Weaknesses. 6. Not modelled.

## 1. Inventory

| Component | Code | State it keeps | Operations | Hard behaviour | Module |
|---|---|---|---|---|---|
| Worker stream consumer | `src/services/worker/worker/consumer.py`, `main.py`, `src/services/shared/shared/jobs.py` | Redis stream, consumer group, pending entries list with idle times and counts, dead stream; per process: entries in hand, cursor, `stop`, `group_ready` | ensure the group, read new, reclaim in pages, triage, run the handler, complete, dead-letter, stop | several processes, at-least-once delivery, crashes, lost replies, a lost stream | `StreamConsumer` |
| Message writes | `src/services/messaging/messaging/messages.py`, `routers/messages.py`, `realtime_writes.py`, `indexing.py` | `messages` rows with a version and `deleted_at` | send, edit by version, delete | check-then-update races; commit, broadcast and enqueue with an await between them | `MessagePipeline` |
| Search index and search | `worker/handlers/messages.py`, `contracts/indexing.py`, `messaging/search.py` | one document per message, external version | upsert, tombstone, query and hydrate | jobs late, twice, out of order, lost | `MessagePipeline` |
| Reactions, reply counts | `messaging/reactions.py`, `threads.py`, `routers/` | rows (message, user, emoji), `thread_root_id`, counts derived from both | add, remove, clear, reply, delete, summarise | transactions that do not see each other; counts read before, broadcast after | `RoomCounts` |
| Channel history in the browser | `src/frontend/src/features/channels/useMessages.ts`, `lib/realtime/useChannelSocket.ts` | TanStack Query cache: pages of rows, one fetch in flight | upsert, replace, refetch, older page, apply again, own edits and deletes | fetch answers replace rows that broadcasts have changed | `HistoryCache` |
| Own sends, toggles, thread panel | `useMessages.ts`, `features/threads/useThread.ts`, `threadCache.ts` | optimistic rows and counts in two caches | send, reconcile, roll back, toggle | ack, broadcast, fetch and timeout in any order | `ThreadPanel` |
| Read markers | `messaging/read_state.py`, `readThrottle.ts`, `useMarkRead.ts`, `readCache.ts` | one marker per member and channel; the tab's list entry and its hold | mark read, throttle, receipts, poll | late lists, windows that overlap, a lost connection | `ReadMarkers` |
| Channels, members, DMs, workspace members | `messaging/channels.py`, `dms.py`, `auth/identities.py`, `routers/` | channels with a version, roles per channel and workspace | create, rename, archive, add, set a role, remove, open a DM | last-admin and last-owner check-then-act, a DM's first message | `Channels` |
| Attachments | `messaging/attachments.py`, `assets.py`, `src/services/asset/`, `features/attachments/uploads.ts`, `stores/attachments.ts` | chips per channel; assets: pending, ready, claimed by a message | attach, upload, confirm, cancel, claim, send | a claim in one service before an insert in another; rows locked one by one | `Attachments` |
| Login and identities | `auth/loginflow.py`, `identities.py`, `names.py`, `routers/federation.py` | one-use entries, users, identities, the demo workspace | begin, callback, provision, link, exchange a code | concurrent first sign-ins; one-use takes | `Accounts` |
| Auth sessions, browser session | `auth/sessions.py`, `routers/auth.py`, `src/frontend/src/lib/auth/session.ts` | chains of refresh tokens; each tab's store and the exchange in flight | issue, spend, rotate, switch, revoke, restore, adopt, sign out, rename | tabs that share a cookie, late answers | `Sessions` |
| Token checks | `src/services/shared/shared/keys.py`, `denylist.py`, `security.py` | the JWKS cache, its lock and floors | look a key up, refresh, check the denylist, check a connection's events | many requests at one rotation, an outage of Auth or R1 | `KeyCache` |
| Realtime server | `messaging/realtime.py`, `realtime_writes.py` | rooms of sockets, the principal of each | connect, join, publish | a room is entered after a check, and lost on a disconnect without replay | in each module |
| Delivery tool | `src/tools/delivery/delivery/run/` (`machine.py`, `state.py`, `sync.py`, `__init__.py`) | a state file, commits, a branch, a pull request | level the branch, run an agent, check its writes, save, commit, push, publish, restart | stopped and started again between any two effects, on two machines | `DeliveryMachine`, `DeliveryRun` |
| Canvas, screens, shared helpers, charts, images, test support | | | | no state of their own | section 6 |

How they interact. A write handler of Messaging (REST or socket; both call the
same domain functions) commits to PostgreSQL, then broadcasts to the channel's
room, then enqueues an index job on a Redis stream. The Worker's consumers
take jobs from the stream and write to Elasticsearch, whose external version
decides which write stands. A browser in the room gets the broadcast through
one socket and fetches over HTTP beside it; both write the same query cache,
as do the browser's own optimistic writes and the answers to them. Before a
message with attachments is inserted, Messaging claims its assets from the
Asset service. Every service checks access tokens against Auth's JWKS and the
denylist in R1.

## 2. Modules

| Module | What it is |
|---|---|
| `JobDelivery` | abstract: what one job stream promises producers and handlers |
| `StreamConsumer` | the consumer processes of one group, one action per Redis command or handler outcome; implements `JobDelivery` |
| `LaggingCopy` | abstract: what the index promises about a message |
| `MessagePipeline` | handlers that send, edit and delete, their jobs, the index handlers and search, over an instance of `JobDelivery`; implements `LaggingCopy` |
| `RoomCounts` | reactions and reply counts of one message: transactions, broadcasts and what the windows show |
| `HistoryCache` | one browser's cached history of one channel against broadcasts, fetches, joins and its own edits |
| `ThreadPanel` | the browser's own sends and toggles, in the history and the panel of a thread |
| `ReadMarkers` | how far a person has read: the marker, the tab that moves it, and its badge |
| `Channels` | requests on channels, direct messages and the workspace's members |
| `Attachments` | files from the composer to the message, over three services |
| `Accounts` | callbacks of the identity provider, concurrent transactions that make accounts |
| `Sessions` | refresh tokens and the tabs that share one |
| `KeyCache` | checking a token: the cached keys, the denylist, connections that outlive their token |
| `DeliveryMachine`, `DeliveryRun` | the delivery tool's state machine, and the runs that drive it over git |
| `*Proofs` | theorems about the module of that name, and four times about a neighbour of it: `MessagePipelineProofs` also has those of `HistoryCache`, `ChannelsProofs` those of `ThreadPanel`, `AccountsProofs` those of `Sessions`, `ReadMarkersProofs` those of `RoomCounts` |
| `MC*` | small instances for TLC |

How they compose. `StreamConsumer` is shown to implement `JobDelivery`, and
`MessagePipeline` is built on `JobDelivery` itself, with `MaxAttempts` 1
because which delivery ran a handler makes no difference to the index. What is
shown of the pipeline therefore holds for any consumer that implements the
contract. `DeliveryRun` extends `DeliveryMachine`: its runs call the machine's
transitions. The other modules meet at what one promises and the next assumes:
`RoomCounts` says which counts are broadcast and in which order, `HistoryCache`
what a cache makes of broadcasts in any order, `ThreadPanel` what the browser's
own writes add to that when broadcasts come in the order of their commits, and
`ReadMarkers` lets a history grow as it will. Two modules whose theorems share
a module are extended by it together, so their names differ: `RoomCounts`,
`ThreadPanel`, `Sessions`, `HistoryCache` and `DeliveryRun` prefix theirs
(`RoomInit`, `PanelNext`, `HistorySpec`, `DeliveryTypeOK`).

### StreamConsumer

State: the Redis side (`stream`, `hasGroup`, `lastRead`, `pending`, `times`,
`dead`) and one record of control per process (`pc` and what it has in hand).
`pc` names the await a consumer is at: `body` and `loop` are the top of `run`,
`claim`, `counts` and `read` the commands of `_reclaim` and `_read_new`,
`entry` the top of the loop over the entries in hand, `run` the handler,
`complete` and `bury` the transactions that end an entry. An entry's outcome
is decided by `Triage`, in the order of `triage` (malformed, attempts, type).

Time is what the visibility timeout tells apart: `fresh` lists the delivered
batches that are not idle for long enough, oldest first, and `Age` lets the
oldest become idle. `XAUTOCLAIM`'s bounded scan (ten times COUNT) and the
approximate MAXLEN of the dead stream are left out. Faults (a command that
fails, a reply that is lost after the command took effect, a stop, a crash, a
lost stream) share one bound, `MaxFaults`. A stop is taken only where the
consumer awaits, because it is set from the same event loop.

### MessagePipeline

`at[r]` is where handler `r` is: `loaded` (the row read and checked, the
UPDATE to come), `committed` (the broadcast to come), `announced` (the enqueue
to come). `CommitEdit` is the UPDATE guarded by the version, `CommitDelete`
the one guarded by `deleted_at IS NULL`, whose row count the code does not
look at. A text is named by the version that wrote it. `missed` records the
committed changes whose enqueue failed or whose handler died, which the code
accepts (`indexing.py` swallows the error). An edit expects a version the
client has been shown, so one that exists. `ExternalWrite` is
Elasticsearch's `version_type=external`. A search takes its candidates from
the index and their rows from the table, and answers the rows that are not
deleted.

### RoomCounts

One message, one emoji. `adds` and `removals` are the rows a transaction has
written and not committed; `Summaries` is what it reads. The guards on
`Written`, `Dropped` and `RowHeld` are PostgreSQL's row locks: an insert of a
key waits for the transaction that has written it, a delete waits for the
transaction that has deleted the row, and does not see a row that another has
inserted. A delete's `clear_for_message` works on the rows committed as its
statement starts. `shown` and `lit` are what the windows end up with after
each broadcast; `message_edited` and `message_deleted` carry the whole
response, which replaces the row. With `MayDie` a handler may die between its
commit and its broadcast. Two history variables tell a count that is wrong for
now from one that is wrong for good: `passed` has the counts a handler has read
that another's commit has changed since, and `disturbed` the counts last
broadcast so, or owed by a handler that died.

### HistoryCache

The server side is what the client can observe of it: messages, their
versions, and the broadcasts still to be sent (`unpublished`), since every
handler commits first. `inbox` is the ordered stream of one socket. `fetch` is
the one fetch TanStack Query runs for the query: it has `answered` once the
server has read the rows, and `Land` replaces the cached rows with them.
`listeners` are the events to apply again, and the refetch a join asked for
while a page was being fetched. `answer` is the HTTP answer to this window's
own edit or delete, which races its broadcast. TanStack's semantics (an
invalidation cancels a refetch in flight silently if the query has data, and
joins the fetch if it has none; a failed fetch keeps the data) are external;
they are the ones the comments at `useChannelSocket.ts:258-262` and
`useMessages.ts:100-107` describe. One page holds every message newer than
those in `Older`.

### ThreadPanel

Two caches are open, the channel's history and the panel of one thread; each
has a copy of the thread's root. A send shows a placeholder in its own cache
until its ack, its broadcast, its timeout or its refusal; a toggle shows a
count until its answer, an echo or a rollback to the snapshot it took. Each
cache has its own fetch, and `again` is what reapplyAfterFetch has pending.
Each change of the root has a number, which its broadcast carries, so that
`received` can say which was the last the tab was told of. Both are history, as
is `late`: the caches whose root was last written by an answer or a snapshot
older than a broadcast the tab had already received.

### ReadMarkers

Messages are numbered. `emits` are the reads on their way, each `held` until
its ack, its timeout, the next read of the tab or a lost connection; while it
is held, `Landed` applies it to what a list fetch brings. `window` is the
throttle of readThrottle.ts. `Elsewhere` is every other window of the person,
by socket or REST, in any order and at any pace, so that one tab in detail
suffices. `lost` are the tabs whose connection dropped with a read on it.

### Channels

A request is a READ COMMITTED transaction in up to three steps: what it reads
and decides (`allowed`), its write with its commit (`committed`), and what it
publishes. The workspace is one more group with its own roles: the last-owner
rule of identities.py has the shape of the last-admin rule of channels.py, and
one definition (`Keepers`) stands for both. `claims` are the roles the access
tokens state, which lag behind. `overlapped` marks the groups in which two
requests were taking a role away at once, both past the read of the row; an
addition or a promotion beside one of them does not count.

### Attachments

A file chosen is a number and its asset has the same one. `net` is the
request of an upload (reserve, put, confirm), whose answer may come after the
chip has gone; `other` is a second confirm of the asset. A send locks its rows
one by one in the order of their ids, as the SELECT ... FOR UPDATE with an
ORDER BY does (`CanLock`), claims them, answers, and Messaging then inserts
the message or does not: each answer may be lost. A deletion is a tombstone
that leaves the attachment rows and the claims alone; `Link` is what a request
for a file would answer in a state (Messaging's own record first, then Asset),
so a request that is under way as its message is deleted is not followed.
`dropped` are the files the person removed or left behind by a switch of
workspace.

### Accounts

A callback is one transaction, with a state per statement it may wait at:
`resolve`, `look`, `insert`, `demo`, `code`, `commit`. An insert of a name, of
an email or of an identity that an uncommitted transaction holds waits for it
and then conflicts or goes on, as PostgreSQL's unique indexes do; the demo
workspace is made under an advisory lock. A callback reads the email twice:
link_identity's read links an account only if the provider verified the email
(`ResolveEmail`), provision_user's only asks whose it is by then
(`Provision`). A failed insert looks once more (`LookAgain`) and is raised as
a conflict if the name is not taken. `UpdateMe` is PATCH /users/me, which frees
one name and takes another; `freed` marks a callback whose name was let go
between its failed insert and that second look. `login` has the one-use entries
of loginflow.py: the pending login, the codes and the sessions they became.

### Sessions

`rows` are the refresh tokens in the order they were issued, each linked to
its successor. An exchange (a renewal, a switch, a code) reads its row, reads
the membership, commits, and answers with a new cookie; the tab then adopts it
with further reads. `tab` is the store of session.ts: its status, its
workspace, the version of the profile it shows and its own renames. A tab
spends one cookie at a time; two tabs may spend one at once (`overlapped`).
`raced` has the workspaces a person was removed from between an exchange's read
of the membership and its commit. A rename that is refused (409) changes
nothing and is not a step.

### KeyCache

Times are what the code's comparisons say of them: `stale` (an hour since the
last good fetch), `retry` and `missed` (the floors after a failed fetch and
after an unknown kid). `lock` is the asyncio lock of keys.py; a request that
waited for it decides again once it holds it. A request is an ordinary or a
sensitive one (which refuses when R1 is down) or a connection, whose later
events are checked for expiry and, if they write, for revocation. R1 may go
down and come back, then with a subset of the revocations it held: `revoked`
are the tokens revoked, `listed` those the denylist holds. The fields `held`,
`good`, `dead` and `over` record what was true as the request or event came,
and `blind` that R1 was down when it was asked.

### DeliveryMachine and DeliveryRun

`DeliveryMachine` is machine.py: seven stages, rounds per pair, and what each
verdict does. `DeliveryRun` runs it: open and level the branch, load or forget
the state, run an agent, check its writes, save, commit, push, and publish. A
branch is never forced, so a machine's copy is its distance from the remote's.
What a branch holds is the saved state and, per pair, whether its work is as
its reviewer approved it (`approved`), whether it was done on the work before
it as that now is (`based`) and the review its writer still owes an answer
(`owed`). What an agent writes is a set of artefacts (the plan, the tests and
the red report, the code and the green report, the proof), each the work of one
pair; its scope is rules.py's. A code-writer's scope holds the plan, which is
under `docs/` and is not denied it: `replanned` says that it was the last to
write it. The files of the reviews are not artefacts, and the run's own
directory is outside the snapshots that the check compares. `unchecked`,
`unpushed` and `undrafted` are history variables: each marks the one window that section 5 describes. `unpushed` says that a run ended
with a commit or a save it had not pushed, and holds until an accepted branch is
pushed with nothing left behind on another machine: a push of unaccepted work
does not end it, since a restart taken up again after a crash pushes just that.
`Disputed` is at most `MaxRuns`.

## 3. What is checked

| Run | Bounds | Properties | Shows |
|---|---|---|---|
| `consumer` | 2 consumers, a job and an entry of an unknown type, pages of 1, 2 attempts, 1 fault | `NoLimbo`, `ImplementsJobDelivery`, `EveryJobLeaves` | no entry is stranded, each leaves the stream, and the commands implement the contract |
| `pipeline` | 1 message, 2 handlers, 1 edit, 3 jobs | `EveryChangeAccounted`, `SearchIsRight`, `ImplementsLaggingCopy`, `IndexCatchesUp` | the index lags, is otherwise right, and catches up unless a job was lost |
| `room` | 2 people, 2 handlers that may die, 2 replies at once | `TombstoneCleared`, `UndisturbedCounts`, `LastWriterCountsAll` | what a tombstone can be left with, and which counts the windows end up with |
| `history` | 2 messages, one on the older page, 2 edits or deletes, 3 faults | `HistoryComplete`, `ShowsLatest`, `PageFetchKept` | no message is lost, doubled or left stale; no page is cancelled |
| `thread` | 1 reply of one's own, 1 message and 1 reaction of another, 1 toggle, 2 refetches, 1 fault | `OnceEach`, `RowsSettle`, `RootSettles` | a send is one row in one cache, and both copies of the root settle |
| `reads` | 1 tab and the other windows, 3 messages, 1 lost connection | `HoldKeeps`, `ReadsArrive`, `BadgeSettles` | the marker only advances, a cleared badge stays cleared while its read travels, and all settles |
| `channels` | 2 people, 2 ids, 2 names, 2 requests of any kind | `KeeperStays`, `DmAnnounced`, `SawWhatItRenames` | who is left to administer, whose rename wins, that a DM is announced |
| `attachments` | 2 composers, 2 files, 2 sends, 2 faults | `OnePlace`, `SavedFilesOpen`, `AllOrNone`, `NoStandoff` | no file is lost or doubled; claims are whole, exclusive and never wait in a circle; a file opens until its message is deleted |
| `accounts` | 2 logins, 3 callbacks, 4 identities that share emails and names, 1 rename, 1 fault | `ConflictIsTheEmails`, `OneSessionPerLogin`, `SignInsEnd` | each callback ends, a conflict is over an email unless a name was freed meanwhile, one session a login |
| `sessions` | 2 tabs, 2 requests each, 2 workspaces, 3 tokens, 1 event (a rename, a lost answer or a failed read) | `OneLiveToken`, `SessionKept`, `LateAnswersLose` | one live token a sign-in, no browser kept with a dead one, late answers lose |
| `keys` | 2 keys and a kid that never exists, 2 requests, 3 changes (rotations, outages of Auth and R1, revocations, expiries) | `HeldKeyServes`, `OutageIsNotRefusal`, `FloorsHold`, `DeadTokensAreOut` | one fetch a floor, no outage evicts a key, a token that has expired or that the denylist holds is out |
| `delivery` | 2 rounds, 1 send-back a pair, 2 machines, 3 runs, 1 fault; agents object in the first run, and then write besides their own work: a code-writer the plan or the tests, a plan-writer the green report, a reviewer the tests | `AcceptedIsReviewed`, `ReviewsReachWriters`, `ReadyIsAccepted`, `RunsGetOn` | what is accepted was reviewed, no review is lost, each run gets on, branch and pull request agree |

Each module's type invariant is a conjunct of one of these properties, or is
proved (`TypeCorrect`).

Why the bounds are enough. The races of the consumer are between two
processes over one entry, with a second one to make a second page of a reclaim,
which a stop or a crash can come before; larger pages are left to the proofs.
Two handlers, requests or callbacks make every race of two transactions over a
row; a third would repeat one of them, except in `Accounts`, where three make
one that waits for two. Three jobs are a create, a change and a delete, or two
deletes, and each can be run any number of times. In `HistoryCache` one
message is new and one is old, and three faults make a reconnect, during a
reconnect's refetch, after a lost broadcast. In `RoomCounts` a reply id stands
for another reply once its own is deleted, so the number of replies is bounded
but not the length of a run. Three messages let a tab of `ReadMarkers` hold
one read in its window while another is on its way and a list lands. Two files
on two sends are all the overlaps of two claims. Three refresh tokens are a
sign-in and two rotations, which is a fork and its replay; with two tabs and
two requests each the second tab spends a cookie while the first adopts its
answer. In `DeliveryRun` two rounds and one send-back make every branch of the
machine's rules; agents object, or write besides their own work, in the first
run (`Disputed`) and neither in the later ones, and a fault comes only in a run
in which none has objected (`Calm`), because the crash windows are the same in
every round.

Deadlock is checked in `consumer`, `pipeline` and `room`. In the others the
bounded histories (messages, requests served once, changes, faults, runs) can
be used up with nothing in flight, and TLC is told so.

### Fairness

- `StreamConsumer!Fairness`: every loop keeps turning (an await returns or
  raises; a process that exited is started again by its deployment), and
  timeouts pass: weak fairness of `Work(c)` and `Age`. Strong fairness of
  `Claim` and `ReadNew`: `run` reclaims whenever `next_reclaim` has passed and
  reads otherwise, so neither is put off for ever. No fairness on handlers
  succeeding, faults or enqueues.
- `MessagePipeline!Fairness`: a job in the stream is delivered, and a run of it
  that is repeated does not fail for ever. The consumer guarantees the first
  (`EveryJobLeaves`) and ends the second by burying the job, which
  `IndexCatchesUp` allows.
- `Accounts!Fairness`: a transaction that can go on does (weak fairness of
  `Step(c)`): the database wakes whoever waits for a lock that was released.
  Nothing is assumed of a transaction that waits, so `SignInsEnd` also says
  that callbacks never wait in a circle.
- `ReadMarkers!FairSpec`: effects run, timers fire, the poll ticks, and what is
  on the network and not lost arrives. No fairness on messages, attention,
  connecting again or other windows.

`RunsGetOn` is an action property rather than a leads-to: each verdict a run
goes on from uses up a bounded allowance or moves to a later stage, so a run
of the tool cannot go on for ever, whatever its agents return.

## 4. What is proved

Everything below holds for every value of the constants that the modules'
named assumptions allow: any number of consumers, entries, messages, handlers,
people, tabs, files, callbacks and requests, any page size and number of
attempts, any number of faults.

### The consumers

`StreamConsumerProofs`, from `ConsumerConfigAssumption`:

- `TypeCorrect`: `TypeOK` is invariant.
- `NobodyInLimbo`: while the group exists, each entry in the stream is unread
  or pending.
- `ConsumersImplementJobDelivery`: every command is a step of `JobDelivery` or
  leaves its variables alone. With `PipelineImplementsLaggingCopy` this is the
  whole path from a commit to the index, in two steps that share the contract.

The refinement does not follow from `TypeOK`: that no delivery runs a handler
twice, or beyond the attempts, is a fact about what several processes have in
hand. `Inv` adds `ReadInv` (an entry beyond the group's last-delivered id has
not been delivered, one before it is pending while it is in the stream),
`HandInv` (each entry in hand came with a delivery of its own, which no other
process has and no handler has run for, and the count the consumer was told is
no lower than that delivery or is beyond the limit) and `RunInv` (handlers run
only for deliveries). A delivery raises the entry's count, so it is new to
whoever gets it; the entry in hand is handled once and leaves the hand.

The proof takes the actions in two steps. `EveryStepHasAnEffect` reduces each
action to one of a few effects (a consumer takes what was delivered, drops
everything, is done with its current entry, walks on with nothing in hand), and
each conjunct of `Inv` is then shown to survive each effect. `LowestIsPrefix`
gives what COUNT does to an id-ordered reply: it leaves no lower id out.

### The message pipeline

`MessagePipelineProofs`, from `PipelineAssumption`:

- `TypeCorrect`: `TypeOK` is invariant.
- `IndexIsFaithful`: a document is a state its message was in, at that version.
- `TombstonesAreFinal`: no step changes a deleted row or a deleted document.
- `PipelineImplementsLaggingCopy`: initial states map to initial states, and
  every step is a step of `LaggingCopy` or leaves its variables alone.
- `NoChangeForgotten`: every version a message has had is accounted for.
- `SearchAnswersRight`: no deleted message is answered, and once its jobs have
  run each message is answered for the text it has, and for no other.

`TypeOK` and `IndexFaithful` are not inductive: a write to the index is right
because the payload in the stream is a state the message was in, and that is
right because the response the handler still holds is one. The invariant `Inv`
strengthens them with what a handler past its load knows (`LoadedInv`: the row
exists, and an edit at its expected version is not deleted), what it holds
after its commit (`ResponseInv`: the response is a published state of a row at
least as new), what a job carries (`JobInv`) and what the index holds
(`IndexInv`). Rows only move forward (`RowStep`), so published states stay
published (`RowFrame`); each action then disturbs one or two of the conjuncts.
The refinement and the tombstone theorem follow from `Inv` and the shape of the
steps; `NoChangeForgotten` needs a second invariant over it, and
`SearchAnswersRight` follows from both.

### The history in the browser

`MessagePipelineProofs`, from `HistoryAssumption` (a bound of faults and one
of changes, and that the older page's messages are among the messages):
`HistoryIsComplete`, `HistoryShowsLatest`, `PageFetchIsKept`. A cached row can
be stale in many ways while something is on its way; that it is right once
nothing is needs an invariant about everything that can be: `KnownInv` (a
message broadcast, or to be, is in the cache, or in what the fetch brings or
waits to be applied after it, or a refetch that reads it is still to come),
`OrderInv` (the versions of one message go through `unpublished`, `inbox` and
`listeners` in their order, but for the messages marked `overtaken`),
`ChaseInv` (behind an older version of a message its latest still comes) and
`FreshInv` (a row that is not the latest version will be replaced). `EventInv`,
`LinkInv` and `PageInv` say where an event, a fetch and the rows of each page
can be. The lemmas about `Upsert`, `Reapplied` and the other operators on rows
say for each what it keeps, adds and leaves in place; `Reapplied` folds events
one by one, and what it does to every list of events is shown by the least
prefix that would break it.

### One's own sends and toggles

`ChannelsProofs`, from `PanelAssumption` (the messages are a finite set, and
one's own are not another's): `SendsShowOnce`, `RowsAreSettled`,
`RootsAreSettled`. `PanelInvariant` says of the rows that each is of a committed
message or of a send that waits, in its own cache and once (`RowsInv`), and
that a committed message a cache does not show is on its way to it, in what its
fetch has read, or among what is to be applied again (`ArrivalInv`). Of the
root it speaks field by field, since a broadcast tells of some fields only: the
last broadcast about each is right (`NewsInv`), so a copy that is not late is
right in every field nothing on its way tells of (`CopyInv`), but for what a
toggle under way shows in advance (`Clicked`); the same of what a fetch has
read (`ReadingInv`), of a toggle's snapshot if it was not stale and nothing was
received since, and of its answer if that is no older than what was received
(`ToggleInv`). The chip has a rule of its own, because a count of nothing puts
it out whoever acted: after one's own last change no broadcast has that count
unless one has no reaction (`KeepsLit`). A window's recursive functions
(`Without`, `Reapplied`) are shown to exist (`Recursion`) and to do to any
sequence what they do at each step (`CountUp`, from the library's well-founded
induction on the naturals, which needs no operator).

### The counts of a room

`ReadMarkersProofs`, from `RoomAssumption` (the people and the replies are
finite sets, so that they can be counted):

- `RoomTypeCorrect`: `RoomTypeOK` is invariant.
- `TombstonesAreCleared`: a tombstone keeps only reactions added by a request
  that overlapped the delete. `RaceInv` (from the moment a tombstone is
  written, whoever is adding is known to be racing with it) and `ClearInv` (a
  delete past its clear misses only those) make it inductive.
- `UndisturbedCountsAreRight`: however requests overlap, a count that is not
  `disturbed` is right once they are over. `SeenInv` (what a handler holds is
  what is committed, or what its own commit will make so, until another's
  commit passes it) and `ShownInv` (an undisturbed count is right unless a
  handler has yet to broadcast it) make it inductive.
- `SomeBroadcastCounts`: `OwedInv`, while the thread's count is owed some
  handler has read it or is yet to read it.

### A read on its way

`ReadMarkersProofs`, from `ReadMarkersAssumption`: `ReadsAreHeld`, that an
entry is never below the read its tab holds, whatever lands. `HoldKeeps` is
not inductive alone: `HeldInv` (a tab that is connected holds one read, its
last) makes the read that `Landed` picks the one that is held, and `TabBounds`
and `SentBounds` (nothing is ahead of the newest message) keep the counts
natural. `SendKeeps`, `ListKeeps` and `SentKeeps` are the three ways a step
disturbs them: an emission, a write of the list, and what becomes of a read on
its way; each action is shown to be one of these.

### The keys

`KeyCacheProofs`, from `KeyCacheAssumption`: `FetchesAreFloored`,
`HeldKeysServe`, `OutagesRefuseNobody`, `DeadTokensRefused`. The argument is
the lock: one request fetches at a time, so what Auth served to it can differ
from what Auth publishes as it stores it only by keys retired meanwhile, and a
retired key is never published again. `ServedInv` says so: each key some
request holds, and Auth still publishes, is in what was served. A floor is
set by the fetch that ends and looked at under the lock, which is why each lets
one through. `DeadInv` says what a request was let through with; that a token
is out is claimed of the denylist as R1 holds it, since R1 may forget.

### Channels

`ChannelsProofs`, from `ChannelsAssumption`: `AKeeperStays`, `DmsAreAnnounced`,
`RenamesAreSeen`. `DecidedInv` says, of a group not marked as overlapped, that
at most one request is taking a role away in it, that the row it read is still
there, and that if it is to take a keeper's role it has counted another keeper
who still is one. `RequestInv` ties each request to the kind of group it is on, and
`CommitKeeps` shows that a commit of such a request leaves a keeper. A DM is
announced because the send that found no message before it and commits first
opens it.

### Attachments

`AttachmentsProofs`, from `AttachmentsAssumption`: `MessagesHoldAllOrNone`,
`FilesOpen`, `SendsNeverStandOff`. `LockInv` says that a send holds a prefix of
its rows in the order of ids, `ClaimInv` that the claim it commits is of all
of them, and `ReadyInv` that an asset once ready stays so. Since a deletion
keeps the claim, a file of a deleted message can be on no other. Sends never
wait in a circle: of the rows that the waiting sends ask for next, take the largest.
Whoever holds it waits too, for a row that is larger still, since it takes
them in order.

`FilesHaveOnePlace` needs another invariant, `PlaceInv`: `ChipInv` and
`AwayInv` (the chips of the channels and the sends that a tab awaits or has
seen acknowledged share no file, and hold none twice), `CoverInv` (they have
every file that was not dropped) and `AwaitedInv` (an upload still awaited has
its chip).

### Accounts

`AccountsProofs`, from `AccountsAssumption`: `ConflictsAreOverEmails` and
`LoginsMakeOneSession`. `ClaimInv` (of the callbacks of a login one claims it),
`AccountInv` and `CommittedInv` (what a callback has made is nobody else's, and
a committed account is there for good), `AgainInv` (what a failed insert
conflicted on is still there, or was let go meanwhile), `DemoInv` (who makes the demo workspace
holds the lock, and saw none) and `CodeInv` (a code is of the callback that
minted it) make them inductive.

### Sessions

`AccountsProofs`, from `SessionsAssumption`: `SessionsKeepOneToken`,
`SessionsAreKept` and `SessionsLateAnswersLose`, from one invariant,
`SessionsInvariant`. `HeldInv`, `OneSpender` and `Fresh` say what an exchange
has at each step: a cookie of the tab, which spends one at a time, or a row
nobody else has. `AloneInv` says what holds as long as no two tabs have spent
one cookie at once: one exchange has a token in hand, a family has one row that
nothing replaced, and an exchange past the check still has the one it checked.
`KeptInv` follows the browser's cookie on top of that: it is replaced only
while the answer with the next one is on its way, and spoiled only by the
browser's own sign-out or by leaving a workspace. `TabInv` and `ReadInv` tie a
tab's own renames to what the reads in flight will put there. The proof needs
nothing of what `Chain`, the revocation of a chain of tokens, computes: a spent
cookie is presented only after an overlap or a lost answer, and what holds even
then survives any revocation.

### The delivery tool

`DeliveryRunProofs`, from `SettingsAssumption` and `DeliveryAssumption`:
`DoneIsReviewed`, `ReviewsAreHandedOn`, `ReadyPullRequests` and
`EveryRunGetsOn`, from one invariant, `DeliveryInvariant`. What a branch says
(`BranchOK`) holds wherever a branch is: on the remote, in a commit or on a
disk. `ReviewedSoFar` is the heart of it: of the branch's stage, every pair
whose reviewer it has passed is approved, and every pair whose writer it has
passed is done on the work before it, with the plan and the tests excepted
once a code-writer has rewritten the plan (`Reviewed`, `BuiltOn`). A verdict
moves the stage and the sets together (`VerdictsReview`), and what an agent may
write is otherwise only what is not yet approved (`ScopeKeeps`), so at the last
stage everything is. `Answered`
says where a review owed to a writer is. `MachineOK` says what each step of a
run may rely on: that the state in memory is the state on disk (`ProcOK`), that
a level branch with no commits of its own is the remote's (`TreeOK`), and that
whatever is left unpushed was said (`CutOK`); `ReadyInv` follows the pull
request over it. `AloneInv` and `LevelOK` set runs at the same time apart.

The proof was worth its while: `ReadyIsAccepted` as first stated held on the
instance TLC checks and failed at four runs (a restart that was cut after it
drafted the pull request, made ready by a second machine's run, and taken up
again), where its exception, `unpushed`, ended too early.

### Only model-checked

Liveness (`EveryJobLeaves`, `IndexCatchesUp`, `SignInsEnd`, `ReadsArrive`,
`BadgeSettles`), since fairness and ENABLED are out of the prover's reach. Every
invariant and every other action property a run checks is a theorem. What a
recursive function computes is proved by the least place where it would go
wrong, as the library's induction theorems take an operator, which no installed
prover can instantiate. No module declares a RECURSIVE operator.

## 5. Weaknesses

What the models show the code to allow, against what it or its comments say.
The properties are stated so that they hold: each names its exception by a
history variable, given in brackets, so that a check says that nothing else
goes wrong.

The worker:

- `consumer.py:211-219` asks XPENDING for as many rows as were claimed, over an
  id range that can hold others: a claimed entry left out of the reply is
  dead-lettered as exhausted (lines 4-6 say more than `max_attempts`
  deliveries). With one entry a page it cannot happen.
- `consumer.py:204`: a stop during a page of reclaimed entries does not end the
  page (line 136: "finishing the entry in hand first").

Messages and rooms:

- `messages.py:374`: two deletes that both load the live row both enqueue a
  delete job (`routers/messages.py:536-537`: no second job). The external
  version makes the second harmless.
- A reaction added while its message is being deleted stays on the tombstone
  (`routers/messages.py:555-557`); `TombstoneCleared` says nothing else can.
- An edit broadcasts the editor's own `reacted` to the whole room
  (`routers/messages.py:511`, against `realtime.py:420-423`).
- The counts are read before the commit and broadcast after it
  (`reactions.py`, `routers/messages.py`): two clicks that overlap, or a reply
  beside an edit, can leave the room with a count read before the other's
  commit, until the next broadcast puts it right. A handler that dies after its
  commit leaves the old count [both `disturbed`].

The browser's caches:

- `useMessages.ts:115`: a join acknowledged during a channel's first load asks
  for no fetch of its own, so what was said between the two is in neither
  (`useChannelSocket.ts:29-30`) [`unasked`].
- `useChannelSocket.ts:117`: an event waiting for a fetch can be applied over a
  newer row after a reconnect, and stays [`held`].
- `useMessages.ts:435`: the answer to one's own edit, coming after somebody's
  newer change of the row was broadcast, puts the older row back until a
  refetch; so does a broadcast out of order [`overtaken`].
- `useMessages.ts:499-503`, `threadCache.ts:154-155`: a toggle's answer or its
  rollback, coming after a newer broadcast, leaves its own count until a
  refetch [`late`].
- Rows are inserted at the head whatever their id, so two handlers that
  broadcast in the other order than their ids leave the rows in that order
  until a refetch.
- A list fetch that read the server before a read was committed and lands after
  its ack brings the badge back until the next poll; a read lost with its
  connection is not sent again [`lost`].
- The chips of a refused send are restored even across a switch of workspace;
  an asset whose reservation's answer was lost is stranded; a send that timed
  out and was saved cannot be sent again, since its assets are claimed.

Sessions, keys, channels:

- Two tabs that spend one cookie at once fork the chain [`overlapped`].
- A sign-out while a renewal is in flight can be undone as its answer is
  adopted: the tab's sign-out settles first (`LateAnswersLose` speaks of
  sign-outs with nothing in flight as they settle).
- A person removed from a workspace between an exchange's read of the
  membership and its commit keeps the token it issues: the removal revokes the
  rows it can see [`raced`].
- A request that waited for a scheduled fetch begun before a rotation refuses a
  good token of the new key.
- The denylist is R1's memory: a revocation its last snapshot does not have is
  forgotten when R1 restarts, and without R1 only the sensitive routes refuse
  [`blind`].
- `identities.py:113-116`: an insert that failed on a name looks again, and
  raises what it met as a conflict if the name is not taken. A rename by PATCH
  /users/me between the two refuses a sign-in over a name, which the comment at
  line 97 says cannot happen [`freed`].
- `identities.py:132-134`: an account committed between link_identity's read of
  the email (192) and provision_user's is linked by the second, which does not
  look at whether the provider verified the email.
- Two requests that take a role away at once may leave a channel without an
  admin or a workspace without an owner [`overlapped`]; the workspace routes take the caller's role
  from a token that may be old; a crash between a commit and its publishing
  loses the announcement; and nobody is taken out of a room as their
  membership ends.

The delivery tool:

- A code-writer may rewrite the plan after its reviewer approved it:
  `rules.py:266-272` lets it write under `docs/`, 276-289 deny it the tests, the
  red report, the reviews and the proof but not the plan, and the fixture
  `deliver-rules.json:207-208` holds both. Nothing reviews the plan again or
  sends the tests back, so a delivery can be done with a plan nobody approved
  [`replanned`; a plan-writer's next pass ends it].
- What an agent may not write is found by comparing the branch before and after
  its pass (`run/__init__.py:686`): the writes of a pass cut short count as
  what was there before the next one [`unchecked`]. `set_aside` takes
  uncommitted work of the same files with it.
- The accepted state is saved before it is committed and pushed
  (`run/__init__.py:549`), and a rerun finds it done (540) and publishes without
  pushing it. A restart that was cut after it drafted the pull request can push
  unaccepted work under one that another machine's run has made ready since
  [both `unpushed`].
- A restart whose call of the backend failed leaves the pull request ready for
  review [`undrafted`].
- A writer that sends work back lets go of the review it was handed, and
  screenshots are committed only on the machine that accepts.

## 6. Not modelled

- Canvas (health routes only), the screens, the shared helpers (cursors, ids,
  problem responses), charts, images, fixtures and scripts: no state, or pure
  functions that unit tests cover.
- Search: the cursor over several pages, ranking, filters, and the deletes
  between its two reads.
- The realtime server: typing beyond its checks, leaving a room, and what the
  R1 adapter does between processes, which the broadcasts' reordering stands for.
- Token checks: claims, scopes and signatures, which are functions of one
  token, and the service tokens services ask for.
- Login: the OIDC client and PKCE are an exchange that succeeds or fails;
  avatars and preferences are single-row writes.
- The browser: the directory's refresh, the jump to a message, the panel's own
  edits and deletes (their mutations write both caches as `HistoryCache` has it
  for one), the paging of a long thread, and the texts that are put back.
- The delivery tool: prompts, models, Slack, and the parsing of the proof.
- Validation of names, formats and sizes: pure, and left to unit tests.
