---------------------------- MODULE JobDelivery ----------------------------
(***************************************************************************)
(* What one job stream promises the two sides that use it, whatever the    *)
(* consumers, the visibility timeout and the Redis commands in between.    *)
(*                                                                         *)
(* A job added to the stream stays live until it is retired, and it is     *)
(* retired only after a handler run for it succeeded or after it was       *)
(* written to the dead-letter stream.  A run is numbered by the delivery   *)
(* that started it, no delivery runs the handler twice, and no delivery    *)
(* beyond MaxAttempts runs it at all.  Nothing is said about order, and    *)
(* runs of one job may overlap: a handler has to be idempotent.            *)
(*                                                                         *)
(* StreamConsumer implements this specification.                           *)
(***************************************************************************)
EXTENDS Naturals

CONSTANTS Entries,      \* the stream entries ever added
          MaxAttempts   \* deliveries after which a job is not run again

VARIABLES added,        \* entries added so far
          live,         \* added entries still in the stream
          ran,          \* for each entry, the deliveries that ran its handler
          done,         \* entries a handler run succeeded for
          buried,       \* entries written to the dead-letter stream
          lost          \* entries that went down with the stream in R3

jobVars == <<added, live, ran, done, buried, lost>>

Init ==
  /\ added = {}
  /\ live = {}
  /\ ran = [e \in Entries |-> {}]
  /\ done = {}
  /\ buried = {}
  /\ lost = {}

Add(e) ==
  /\ e \notin added
  /\ added' = added \cup {e}
  /\ live' = live \cup {e}
  /\ UNCHANGED <<ran, done, buried, lost>>

(* Delivery n of the job runs the handler.  The job need not be live any   *)
(* more: a slow consumer may run a copy that another one has finished.     *)
Run(e, n) ==
  /\ e \in added
  /\ n \notin ran[e]
  /\ ran' = [ran EXCEPT ![e] = @ \cup {n}]
  /\ UNCHANGED <<added, live, done, buried, lost>>

Succeed(e) ==
  /\ ran[e] # {}
  /\ done' = done \cup {e}
  /\ UNCHANGED <<added, live, ran, buried, lost>>

(* A job leaves the stream by itself only once a run for it succeeded. *)
Retire(e) ==
  /\ e \in done
  /\ live' = live \ {e}
  /\ UNCHANGED <<added, ran, done, buried, lost>>

(* Dead-lettering writes the copy and removes the job in one step. *)
Bury(e) ==
  /\ e \in added
  /\ buried' = buried \cup {e}
  /\ live' = live \ {e}
  /\ UNCHANGED <<added, ran, done, lost>>

(* R3 is flushed, or the stream's key deleted. *)
Lose ==
  /\ lost' = lost \cup live
  /\ live' = {}
  /\ UNCHANGED <<added, ran, done, buried>>

Next ==
  \/ \E e \in Entries : Add(e) \/ Succeed(e) \/ Retire(e) \/ Bury(e)
  \/ \E e \in Entries, n \in 1 .. MaxAttempts : Run(e, n)
  \/ Lose

Spec == Init /\ [][Next]_jobVars
============================================================================
