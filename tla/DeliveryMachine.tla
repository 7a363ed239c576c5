------------------------- MODULE DeliveryMachine -------------------------
(***************************************************************************)
(* The delivery tool's state machine: tools/delivery/delivery/run,         *)
(* machine.py over the State of state.py.  Seven stages, the rounds of     *)
(* each pair, and what each verdict does to them.  A review or send-back   *)
(* file is named by who wrote it and the round in its name.                *)
(***************************************************************************)
EXTENDS Naturals, Sequences

CONSTANTS
  MaxRounds,     \* DELIVER_MAX_ROUNDS
  MaxSendbacks   \* DELIVER_MAX_SENDBACKS

ASSUME SettingsAssumption ==
  /\ MaxRounds \in Nat \ {0}
  /\ MaxSendbacks \in Nat \ {0}

Stages == <<"plan-writer", "plan-reviewer", "test-writer", "test-reviewer",
            "code-writer", "code-reviewer", "acceptance-reviewer", "done">>

Pairs == {"plan", "test", "code", "acceptance"}

Written == Pairs \ {"acceptance"}

Writer == [plan |-> "plan-writer", test |-> "test-writer", code |-> "code-writer"]

Reviewer == [plan |-> "plan-reviewer", test |-> "test-reviewer", code |-> "code-reviewer",
             acceptance |-> "acceptance-reviewer"]

Earlier == [test |-> "plan", code |-> "test", acceptance |-> "code"]

Place(stage) == CHOOSE i \in 1 .. Len(Stages) : Stages[i] = stage

NextStage(stage) == Stages[Place(stage) + 1]

IsWriter(stage) == \E p \in Written : stage = Writer[p]

PairOf(stage) == CHOOSE p \in Pairs : stage = Reviewer[p] \/ (p \in Written /\ stage = Writer[p])

Senders == {"test-writer", "test-reviewer", "code-writer", "code-reviewer",
            "acceptance-reviewer"}

NoFile == [by |-> "nobody", kind |-> "none", round |-> 0]

Review(stage, s) == [by |-> stage, kind |-> "review", round |-> s.rounds[PairOf(stage)]]

(* Numbered by the round the earlier pair will take it in. *)
Sendback(stage, s) ==
  [by |-> stage, kind |-> "sendback", round |-> s.rounds[Earlier[PairOf(stage)]] + 1]

FreshState ==
  [stage     |-> "plan-writer",
   status    |-> "running",
   review    |-> NoFile,
   rounds    |-> [p \in Pairs |-> 1],
   final     |-> [p \in Pairs |-> MaxRounds],
   sendbacks |-> [p \in Written |-> 0],
   open      |-> [s \in Senders |-> NoFile],
   pending   |-> [p \in {"test", "code"} |-> NoFile]]

FinalRound(stage, s) == s.rounds[PairOf(stage)] >= s.final[PairOf(stage)]

-----------------------------------------------------------------------------
(* advance: what a stage's verdict does.  A verdict the stage may not      *)
(* return fails the run.                                                   *)

May(stage, status) ==
  \/ status = "needs_human"
  \/ status = "done" /\ IsWriter(stage)
  \/ status = "approved" /\ ~IsWriter(stage)
  \/ status = "changes_requested" /\ ~IsWriter(stage) /\ PairOf(stage) # "acceptance"
  \/ status = "send_back" /\ PairOf(stage) # "plan"

(* A stage that runs with its own send-back in view closes it. *)
Closed(stage, s) ==
  IF stage \in Senders THEN [s EXCEPT !.open[stage] = NoFile] ELSE s

WriterDone(stage, s) == [s EXCEPT !.review = NoFile, !.stage = NextStage(stage)]

(* Mutant: the review left pending is not handed on. *)
ApprovedDropsPending(stage, s) == [s EXCEPT !.review = NoFile, !.stage = NextStage(stage)]

(* Coming forward to a writer whose reviewer sent work back, the writer    *)
(* gets the review that reviewer wrote.                                    *)
Approved(stage, s) ==
  LET next == NextStage(stage)
  IN  IF next \in {"test-writer", "code-writer"}
        THEN [s EXCEPT !.stage = next, !.review = s.pending[PairOf(next)],
                       !.pending[PairOf(next)] = NoFile]
        ELSE [s EXCEPT !.stage = next, !.review = NoFile]

ChangesRequested(stage, s) ==
  LET p == PairOf(stage)
  IN  [s EXCEPT !.review = Review(stage, s), !.rounds[p] = @ + 1, !.stage = Writer[p]]

(* Mutant: a send-back that leaves the final round where it is. *)
NewRoundKeepsFinal(s, p) == [s EXCEPT !.rounds[p] = @ + 1]

(* A pair's next round, never a final one. *)
NewRound(s, p) ==
  LET next == s.rounds[p] + 1
  IN  [s EXCEPT !.rounds[p] = next, !.final[p] = IF @ <= next THEN next + 1 ELSE @]

(* The earlier pair takes a new round; a reviewer's own pair does too, and *)
(* its review waits for its writer.                                        *)
SendBack(stage, s) ==
  LET p       == PairOf(stage)
      earlier == Earlier[p]
      sent    == [NewRound(s, earlier) EXCEPT !.sendbacks[earlier] = @ + 1]
      moved   == IF IsWriter(stage) THEN sent
                 ELSE NewRound(IF p = "acceptance" THEN sent
                               ELSE [sent EXCEPT !.pending[p] = Review(stage, s)], p)
  IN  [moved EXCEPT !.open[stage] = Sendback(stage, s), !.review = Sendback(stage, s),
                    !.stage = Writer[earlier]]

Advance(stage, status, s) ==
  LET t == Closed(stage, s)
  IN  CASE status = "done"              -> WriterDone(stage, t)
        [] status = "approved"          -> Approved(stage, t)
        [] status = "changes_requested" -> ChangesRequested(stage, t)
        [] status = "send_back"         -> SendBack(stage, t)
        [] OTHER                        -> t

(* Whether a human sees it first: changes asked for in the final round, or *)
(* one send-back too many.                                                 *)
Stops(stage, status, s) ==
  \/ status = "needs_human"
  \/ status = "changes_requested" /\ FinalRound(stage, s)
  \/ status = "send_back" /\ s.sendbacks[Earlier[PairOf(stage)]] >= MaxSendbacks
============================================================================
