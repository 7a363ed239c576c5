---------------------------- MODULE LaggingCopy ----------------------------
(***************************************************************************)
(* What the search index promises about a message, however its jobs are    *)
(* delayed, repeated, reordered or dropped: it holds a state the message   *)
(* really had, it only ever moves to a newer one, and a message deleted in *)
(* the index stays deleted there.                                          *)
(*                                                                         *)
(* A text is named by the version that wrote it.                           *)
(*                                                                         *)
(* MessagePipeline implements this specification.                          *)
(***************************************************************************)
EXTENDS Integers

CONSTANT Messages

VARIABLES source,   \* each message as the database has it
          copy      \* each message as the index has it

copyVars == <<source, copy>>

NoText == -1

(* Not written yet, or not indexed yet: older than every version. *)
None == [version |-> -1, deleted |-> FALSE, body |-> NoText]

(* What anyone may be shown of a state: a tombstone has no text. *)
Redacted(s) == [version |-> s.version, deleted |-> s.deleted,
                body |-> IF s.deleted THEN NoText ELSE s.body]

(* The states, as shown, that a message now in state s has been in. *)
Published(s) ==
  {[version |-> v, deleted |-> FALSE, body |-> v] : v \in 0 .. s.version - 1}
    \cup {Redacted(s)}

Init ==
  /\ source = [m \in Messages |-> None]
  /\ copy = [m \in Messages |-> None]

Create(m) ==
  /\ source[m] = None
  /\ source' = [source EXCEPT ![m] = [version |-> 0, deleted |-> FALSE, body |-> 0]]
  /\ UNCHANGED copy

Rewrite(m) ==
  /\ source[m] # None /\ ~source[m].deleted
  /\ source' = [source EXCEPT ![m] =
       [version |-> source[m].version + 1, deleted |-> FALSE,
        body |-> source[m].version + 1]]
  /\ UNCHANGED copy

Erase(m) ==
  /\ source[m] # None /\ ~source[m].deleted
  /\ source' = [source EXCEPT ![m] =
       [version |-> source[m].version + 1, deleted |-> TRUE, body |-> source[m].body]]
  /\ UNCHANGED copy

CatchUp(m) ==
  /\ \E s \in Published(source[m]) :
       /\ copy[m].version < s.version
       /\ copy' = [copy EXCEPT ![m] = s]
  /\ UNCHANGED source

Next == \E m \in Messages : Create(m) \/ Rewrite(m) \/ Erase(m) \/ CatchUp(m)

Spec == Init /\ [][Next]_copyVars
============================================================================
