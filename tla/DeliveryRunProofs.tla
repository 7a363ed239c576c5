------------------------ MODULE DeliveryRunProofs ------------------------
(***************************************************************************)
(* Proofs about DeliveryRun, for any number of machines, runs, faults,     *)
(* rounds and send-backs: what is accepted has been reviewed, a review     *)
(* reaches its writer, a pull request is ready only over accepted work,    *)
(* and a run gets on.                                                      *)
(***************************************************************************)
EXTENDS DeliveryRun, TLAPS
-----------------------------------------------------------------------------
(* The inductive invariant of DeliveryRun. *)

Trees ==
  [there : BOOLEAN, level : BOOLEAN, ahead : BOOLEAN, head : Holding, disk : Holding,
   touched : BOOLEAN, evidence : BOOLEAN]

Steps == {"idle", "go", "draft", "load", "loop", "wrote", "ran", "failed", "accept", "commit",
          "push", "shots", "pr"}

Whys == {"none", "checkpoint", "stop", "accepted", "failure", "shots", "unshots"}

Procs ==
  [pc : Steps, state : States \cup {NoState}, status : Verdicts \cup {"none"}, why : Whys,
   wrote : SUBSET Artefacts]

(* A branch that says it is done is at the last stage. *)
SaidDone(c) == Done(c) => c.saved.stage = "done"

(* A review is owed by the writer the work is at, or by one it comes to.   *)
Answered(c) ==
  \A p \in Written : c.owed[p] # NoFile =>
    /\ c.saved # NoState
    /\ Place(c.saved.stage) <= Place(Writer[p])
    /\ IF c.saved.stage = Writer[p] THEN c.saved.review = c.owed[p]
       ELSE p # "plan" /\ c.saved.pending[p] = c.owed[p]

(* The pairs whose reviewer the work has passed are approved, and those    *)
(* whose writer it has passed are done on the work before them.            *)
ReviewedSoFar(c) ==
  c.saved # NoState =>
    /\ \A p \in Pairs : Place(Reviewer[p]) < Place(c.saved.stage) =>
         p \in Reviewed(c) /\ p \in BuiltOn(c)
    /\ \A p \in Written : Place(Writer[p]) < Place(c.saved.stage) => p \in BuiltOn(c)

BranchOK(c, cut) == SaidDone(c) /\ Answered(c) /\ (cut \/ ReviewedSoFar(c))

(* What a process has in memory is what is on its disk. *)
InHand(t, q) ==
  t.disk.saved = q.state /\ q.state # NoState /\ q.state.status = "running"

ProcOK(t, q) ==
  /\ q.pc \in {"loop", "wrote", "ran"} => InHand(t, q) /\ q.state.stage # "done"
  /\ q.pc \in {"commit", "push"} /\ q.why = "checkpoint" => InHand(t, q) /\ q.state.stage # "done"
  /\ q.pc = "accept" => InHand(t, q) /\ q.state.stage = "done"
  /\ q.pc = "ran" => May(q.state.stage, q.status)
  /\ q.pc \in {"draft", "load"} => t.disk.saved = NoState
  /\ q.pc = "push" => t.head = t.disk /\ ~t.touched
  /\ q.pc \in {"shots", "pr"} => Done(t.disk)
  /\ q.pc \in {"commit", "push"} /\ q.why \in {"accepted", "shots", "unshots"} => Done(t.disk)

(* A branch that is level with the remote's is the remote's. *)
TreeOK(t, q, holds) ==
  IF t.there THEN t.level /\ ~t.ahead => t.head = holds
  ELSE t = NoTree /\ q.pc = "idle"

Soiled(t, q) == t.touched \/ t.disk # t.head \/ q.pc = "wrote"

(* A run that has ended, or has come to its pull request, with work that   *)
(* is not pushed has said so.                                              *)
CutOK(t, q, cut) ==
  t.ahead \/ Soiled(t, q) =>
    cut \/ ~(q.pc \in {"idle", "shots", "pr"} \/ (q.pc = "go" /\ Done(t.disk)))

LevelOK(t, q, raced) == q.pc \in {"go", "shots", "pr"} => t.level \/ raced

MachineOK(t, q) ==
  ProcOK(t, q) /\ TreeOK(t, q, remote.holds) /\ CutOK(t, q, unpushed) /\ LevelOK(t, q, undrafted)

BranchInv == \A c \in Branches : BranchOK(c, unchecked)

MachineInv == \A m \in Machines : MachineOK(tree[m], proc[m])

RemoteInv == remote.there \/ remote.holds = Base

(* Two runs at once have said so. *)
AloneInv ==
  undrafted \/ \A m, n \in Machines : proc[m].pc # "idle" /\ proc[n].pc # "idle" => m = n

(* While the pull request is ready, a run under way has accepted work too. *)
ReadyInv ==
  pr = "ready" =>
    \/ undrafted \/ unpushed
    \/ /\ Done(remote.holds)
       /\ \A m \in Machines : proc[m].pc # "idle" => Done(tree[m].disk)

DeliveryInv ==
  DeliveryTypeOK /\ BranchInv /\ MachineInv /\ RemoteInv /\ AloneInv /\ ReadyInv

-----------------------------------------------------------------------------
(* The stages *)

LEMMA PlaceIs ==
  /\ Place("plan-writer") = 1 /\ Place("plan-reviewer") = 2
  /\ Place("test-writer") = 3 /\ Place("test-reviewer") = 4
  /\ Place("code-writer") = 5 /\ Place("code-reviewer") = 6
  /\ Place("acceptance-reviewer") = 7 /\ Place("done") = 8
<1>1. 1 .. Len(Stages) = {1, 2, 3, 4, 5, 6, 7, 8}
  BY DEF Stages
<1>2. ASSUME NEW k \in {1, 2, 3, 4, 5, 6, 7, 8}
      PROVE  Place(Stages[k]) = k
  <2>1. \A i \in {1, 2, 3, 4, 5, 6, 7, 8} : Stages[i] = Stages[k] => i = k
    BY DEF Stages
  <2>2. QED
    BY <1>1, <2>1 DEF Place
<1>3. QED
  BY <1>2 DEF Stages

StageNames == {Stages[i] : i \in 1 .. Len(Stages)}

LEMMA StageNamesAre ==
  StageNames = {"plan-writer", "plan-reviewer", "test-writer", "test-reviewer", "code-writer",
                "code-reviewer", "acceptance-reviewer", "done"}
BY DEF StageNames, Stages

Working == StageNames \ {"done"}

LEMMA NextIs ==
  /\ NextStage("plan-writer") = "plan-reviewer" /\ NextStage("plan-reviewer") = "test-writer"
  /\ NextStage("test-writer") = "test-reviewer" /\ NextStage("test-reviewer") = "code-writer"
  /\ NextStage("code-writer") = "code-reviewer" /\ NextStage("code-reviewer") = "acceptance-reviewer"
  /\ NextStage("acceptance-reviewer") = "done"
BY PlaceIs DEF NextStage, Stages

LEMMA PairIs ==
  /\ PairOf("plan-writer") = "plan" /\ PairOf("plan-reviewer") = "plan"
  /\ PairOf("test-writer") = "test" /\ PairOf("test-reviewer") = "test"
  /\ PairOf("code-writer") = "code" /\ PairOf("code-reviewer") = "code"
  /\ PairOf("acceptance-reviewer") = "acceptance"
BY DEF PairOf, Pairs, Written, Writer, Reviewer

LEMMA WriterIs ==
  ASSUME NEW stage \in StageNames
  PROVE  IsWriter(stage) <=> stage \in {"plan-writer", "test-writer", "code-writer"}
BY DEF IsWriter, Written, Pairs, Writer

-----------------------------------------------------------------------------
(* What a verdict does *)

LEMMA RolesAre ==
  ASSUME NEW p \in Written
  PROVE  /\ Writer[p] \in Working /\ Writer[p] \in StageNames
         /\ Place(Writer[p]) < Place(Reviewer[p])
         /\ IsWriter(Writer[p]) /\ PairOf(Writer[p]) = p
<1>1. p = "plan" \/ p = "test" \/ p = "code"
  BY DEF Written, Pairs
<1>2. Writer["plan"] = "plan-writer" /\ Writer["test"] = "test-writer" /\ Writer["code"] = "code-writer"
  BY DEF Writer
<1>3. /\ Reviewer["plan"] = "plan-reviewer" /\ Reviewer["test"] = "test-reviewer"
      /\ Reviewer["code"] = "code-reviewer"
  BY DEF Reviewer
<1>4. Writer[p] \in Working /\ Writer[p] \in StageNames
  BY <1>1, <1>2, StageNamesAre DEF Working
<1>5. Place(Writer[p]) < Place(Reviewer[p])
  BY <1>1, <1>2, <1>3, PlaceIs
<1>6. IsWriter(Writer[p]) /\ PairOf(Writer[p]) = p
  BY <1>1, <1>2, <1>4, WriterIs, PairIs
<1>7. QED
  BY <1>4, <1>5, <1>6

LEMMA FilesAre ==
  ASSUME NEW s \in States, NEW stage \in Working
  PROVE  /\ NoFile \in Files
         /\ PairOf(stage) \in Pairs
         /\ Review(stage, s) \in Files /\ Review(stage, s) # NoFile
         /\ PairOf(stage) # "plan" => Sendback(stage, s) \in Files
<1>1. stage \in StageNames /\ StageNames \cup {"nobody"} = {Stages[i] : i \in 1 .. Len(Stages)} \cup {"nobody"}
  BY DEF Working, StageNames
<1>2. PairOf(stage) \in Pairs
  BY StageNamesAre, PairIs DEF Working, Pairs
<1>3. s.rounds \in [Pairs -> Nat]
  BY DEF States
<1>4. s.rounds[PairOf(stage)] \in Nat
  BY <1>2, <1>3
<1>5. PairOf(stage) # "plan" => Earlier[PairOf(stage)] \in Pairs
  BY <1>2 DEF Earlier, Pairs
<1>6. PairOf(stage) # "plan" => s.rounds[Earlier[PairOf(stage)]] + 1 \in Nat
  BY <1>3, <1>5
<1>7. NoFile \in Files
  BY DEF NoFile, Files
<1>8. Review(stage, s) \in Files /\ Review(stage, s) # NoFile
  BY <1>1, <1>4 DEF Review, Files, NoFile
<1>9. PairOf(stage) # "plan" => Sendback(stage, s) \in Files
  BY <1>1, <1>6 DEF Sendback, Files
<1>10. QED
  BY <1>2, <1>7, <1>8, <1>9

(* Closing a send-back touches nothing else. *)
LEMMA ClosedIs ==
  ASSUME NEW s \in States, NEW stage \in Working
  PROVE  /\ Closed(stage, s) \in States
         /\ Closed(stage, s).stage = s.stage /\ Closed(stage, s).status = s.status
         /\ Closed(stage, s).review = s.review /\ Closed(stage, s).rounds = s.rounds
         /\ Closed(stage, s).final = s.final /\ Closed(stage, s).sendbacks = s.sendbacks
         /\ Closed(stage, s).pending = s.pending
<1>1. NoFile \in Files
  BY FilesAre
<1>2. CASE stage \in Senders
  <2>1. Closed(stage, s) = [s EXCEPT !.open = [s.open EXCEPT ![stage] = NoFile]]
    BY <1>2 DEF Closed, States
  <2>2. [s.open EXCEPT ![stage] = NoFile] \in [Senders -> Files]
    BY <1>1 DEF States
  <2>3. QED
    BY <2>1, <2>2 DEF States
<1>3. CASE stage \notin Senders
  BY <1>3 DEF Closed
<1>4. QED
  BY <1>2, <1>3

LEMMA WriterDoneIs ==
  ASSUME NEW s \in States, NEW stage \in Working
  PROVE  /\ WriterDone(stage, s) \in States
         /\ WriterDone(stage, s).stage = NextStage(stage) /\ WriterDone(stage, s).status = s.status
         /\ WriterDone(stage, s).review = NoFile /\ WriterDone(stage, s).rounds = s.rounds
         /\ WriterDone(stage, s).final = s.final /\ WriterDone(stage, s).sendbacks = s.sendbacks
         /\ WriterDone(stage, s).pending = s.pending
<1>1. NoFile \in Files
  BY FilesAre
<1>2. NextStage(stage) \in {Stages[i] : i \in 1 .. Len(Stages)}
  BY NextIs, StageNamesAre DEF Working, StageNames
<1>3. QED
  BY <1>1, <1>2 DEF WriterDone, States

(* An approval hands on the review that waits for the next writer. *)
LEMMA ApprovedIs ==
  ASSUME NEW s \in States, NEW stage \in Working
  PROVE  LET a    == Approved(stage, s)
             next == NextStage(stage)
         IN  /\ a \in States
             /\ a.stage = next /\ a.status = s.status /\ a.rounds = s.rounds
             /\ a.final = s.final /\ a.sendbacks = s.sendbacks
             /\ next \in {"test-writer", "code-writer"} =>
                  /\ a.review = s.pending[PairOf(next)]
                  /\ a.pending = [s.pending EXCEPT ![PairOf(next)] = NoFile]
             /\ next \notin {"test-writer", "code-writer"} =>
                  a.review = NoFile /\ a.pending = s.pending
<1> DEFINE next == NextStage(stage)
           p == PairOf(next)
<1>1. NoFile \in Files
  BY FilesAre
<1>2. next \in {Stages[i] : i \in 1 .. Len(Stages)}
  BY NextIs, StageNamesAre DEF Working, StageNames
<1>3. CASE next \in {"test-writer", "code-writer"}
  <2>1. p \in {"test", "code"}
    BY <1>3, PairIs
  <2>2. s.pending[p] \in Files /\ [s.pending EXCEPT ![p] = NoFile] \in [{"test", "code"} -> Files]
    BY <1>1, <2>1 DEF States
  <2>3. Approved(stage, s) = [s EXCEPT !.stage = next, !.review = s.pending[p],
                                       !.pending = [s.pending EXCEPT ![p] = NoFile]]
    BY <1>3 DEF Approved, States
  <2>4. QED
    BY <1>2, <1>3, <2>2, <2>3 DEF States
<1>4. CASE next \notin {"test-writer", "code-writer"}
  <2>1. Approved(stage, s) = [s EXCEPT !.stage = next, !.review = NoFile]
    BY <1>4 DEF Approved
  <2>2. QED
    BY <1>1, <1>2, <1>4, <2>1 DEF States
<1>5. QED
  BY <1>3, <1>4

LEMMA ChangesRequestedIs ==
  ASSUME NEW s \in States, NEW stage \in Working, PairOf(stage) # "acceptance"
  PROVE  LET a == ChangesRequested(stage, s)
             p == PairOf(stage)
         IN  /\ a \in States
             /\ a.stage = Writer[p] /\ a.status = s.status
             /\ a.rounds = [s.rounds EXCEPT ![p] = s.rounds[p] + 1]
             /\ a.final = s.final /\ a.sendbacks = s.sendbacks
             /\ a.review = Review(stage, s) /\ a.pending = s.pending
<1> DEFINE p == PairOf(stage)
<1>1. p \in Written /\ p \in Pairs
  BY FilesAre DEF Written
<1>2. Review(stage, s) \in Files
  BY FilesAre
<1>3. [s.rounds EXCEPT ![p] = s.rounds[p] + 1] \in [Pairs -> Nat]
  BY <1>1 DEF States
<1>4. Writer[p] \in {Stages[i] : i \in 1 .. Len(Stages)}
  BY <1>1, RolesAre DEF StageNames
<1>5. ChangesRequested(stage, s) =
        [s EXCEPT !.review = Review(stage, s), !.rounds = [s.rounds EXCEPT ![p] = s.rounds[p] + 1],
                  !.stage = Writer[p]]
  BY DEF ChangesRequested, States
<1>6. QED
  BY <1>2, <1>3, <1>4, <1>5 DEF States

(* A round the work goes back for is not its pair's last. *)
LEMMA NewRoundIs ==
  ASSUME NEW s \in States, NEW p \in Pairs
  PROVE  LET a == NewRound(s, p)
         IN  /\ a \in States
             /\ a.stage = s.stage /\ a.status = s.status /\ a.review = s.review
             /\ a.open = s.open /\ a.pending = s.pending /\ a.sendbacks = s.sendbacks
             /\ a.rounds = [s.rounds EXCEPT ![p] = s.rounds[p] + 1]
             /\ \A r \in Pairs \ {p} : a.final[r] = s.final[r]
             /\ a.rounds[p] < a.final[p]
<1> DEFINE next  == s.rounds[p] + 1
           final == IF s.final[p] <= next THEN next + 1 ELSE s.final[p]
<1>1. s.rounds[p] \in Nat /\ s.final[p] \in Nat
  BY DEF States
<1>2. next \in Nat /\ final \in Nat /\ next < final
  BY <1>1
<1>3. NewRound(s, p) = [s EXCEPT !.rounds = [s.rounds EXCEPT ![p] = next],
                                 !.final = [s.final EXCEPT ![p] = final]]
  BY DEF NewRound, States
<1>4. s.rounds \in [Pairs -> Nat] /\ s.final \in [Pairs -> Nat]
  BY DEF States
<1> HIDE DEF next, final
<1>5. /\ [s.rounds EXCEPT ![p] = next] \in [Pairs -> Nat]
      /\ [s.final EXCEPT ![p] = final] \in [Pairs -> Nat]
  BY <1>2, <1>4
<1>6. NewRound(s, p) \in States
  BY <1>3, <1>5 DEF States
<1>7. /\ NewRound(s, p).rounds = [s.rounds EXCEPT ![p] = next]
      /\ NewRound(s, p).final = [s.final EXCEPT ![p] = final]
  BY <1>3 DEF States
<1>8. NewRound(s, p).rounds[p] < NewRound(s, p).final[p]
  BY <1>2, <1>4, <1>7
<1>9. \A r \in Pairs \ {p} : NewRound(s, p).final[r] = s.final[r]
  BY <1>4, <1>7
<1>10. QED
  BY <1>3, <1>6, <1>7, <1>8, <1>9 DEF States, next

LEMMA SendBackIs ==
  ASSUME NEW s \in States, NEW stage \in Working, PairOf(stage) # "plan"
  PROVE  LET a == SendBack(stage, s)
             p == PairOf(stage)
             e == Earlier[p]
         IN  /\ a \in States /\ e \in Written
             /\ a.stage = Writer[e] /\ a.status = s.status /\ a.review = Sendback(stage, s)
             /\ a.pending = IF IsWriter(stage) \/ p = "acceptance" THEN s.pending
                            ELSE [s.pending EXCEPT ![p] = Review(stage, s)]
             /\ a.sendbacks = [s.sendbacks EXCEPT ![e] = s.sendbacks[e] + 1]
             /\ \A r \in Pairs : a.rounds[r] # s.rounds[r] => a.rounds[r] < a.final[r]
<1> DEFINE p     == PairOf(stage)
           e     == Earlier[p]
           first == NewRound(s, e)
           sent  == [first EXCEPT !.sendbacks[e] = @ + 1]
           mid   == IF p = "acceptance" THEN sent ELSE [sent EXCEPT !.pending[p] = Review(stage, s)]
           moved == IF IsWriter(stage) THEN sent ELSE NewRound(mid, p)
           a     == SendBack(stage, s)
<1>1. p \in Pairs /\ e \in Written /\ e \in Pairs /\ e # p /\ (p = "acceptance" \/ p \in {"test", "code"})
  BY FilesAre DEF Earlier, Pairs, Written
<1>2. Review(stage, s) \in Files /\ Sendback(stage, s) \in Files
  BY FilesAre
<1>3. a = [moved EXCEPT !.open[stage] = Sendback(stage, s), !.review = Sendback(stage, s),
                        !.stage = Writer[e]]
  BY DEF SendBack
<1>4. stage \in Senders
  BY StageNamesAre, PairIs DEF Working, Senders
<1>5. /\ first \in States /\ first.status = s.status /\ first.pending = s.pending
      /\ first.sendbacks = s.sendbacks /\ first.rounds = [s.rounds EXCEPT ![e] = s.rounds[e] + 1]
      /\ first.rounds[e] < first.final[e]
  BY <1>1, NewRoundIs
<1> HIDE DEF first, p, e, a
<1>6. /\ sent \in States /\ sent.status = s.status /\ sent.pending = s.pending
      /\ sent.rounds = first.rounds /\ sent.final = first.final
      /\ sent.sendbacks = [s.sendbacks EXCEPT ![e] = s.sendbacks[e] + 1]
  <2>1. sent = [first EXCEPT !.sendbacks = [first.sendbacks EXCEPT ![e] = first.sendbacks[e] + 1]]
    BY <1>5 DEF States
  <2>2. [first.sendbacks EXCEPT ![e] = first.sendbacks[e] + 1] \in [Written -> Nat]
    BY <1>1, <1>5 DEF States
  <2>3. QED
    BY <1>5, <2>1, <2>2 DEF States
<1> HIDE DEF sent
<1>7. /\ mid \in States /\ mid.status = s.status
      /\ mid.rounds = sent.rounds /\ mid.final = sent.final /\ mid.sendbacks = sent.sendbacks
      /\ mid.pending = IF p = "acceptance" THEN s.pending
                       ELSE [s.pending EXCEPT ![p] = Review(stage, s)]
  <2>1. CASE p = "acceptance"
    BY <1>6, <2>1
  <2>2. CASE p # "acceptance"
    <3>1. mid = [sent EXCEPT !.pending = [sent.pending EXCEPT ![p] = Review(stage, s)]]
      BY <1>6, <2>2 DEF States
    <3>2. [sent.pending EXCEPT ![p] = Review(stage, s)] \in [{"test", "code"} -> Files]
      BY <1>1, <1>2, <1>6, <2>2 DEF States
    <3>3. QED
      BY <1>6, <2>2, <3>1, <3>2 DEF States
  <2>3. QED
    BY <2>1, <2>2
<1> HIDE DEF mid
<1>8. /\ moved \in States /\ moved.status = s.status
      /\ moved.sendbacks = [s.sendbacks EXCEPT ![e] = s.sendbacks[e] + 1]
      /\ moved.pending = IF IsWriter(stage) \/ p = "acceptance" THEN s.pending
                         ELSE [s.pending EXCEPT ![p] = Review(stage, s)]
      /\ \A r \in Pairs : moved.rounds[r] # s.rounds[r] => moved.rounds[r] < moved.final[r]
  <2>1. s.rounds \in [Pairs -> Nat]
    BY DEF States
  <2>2. \A r \in Pairs : sent.rounds[r] # s.rounds[r] => r = e
    BY <1>5, <1>6, <2>1
  <2>3. CASE IsWriter(stage)
    BY <1>5, <1>6, <2>2, <2>3
  <2>4. CASE ~IsWriter(stage)
    <3>1. /\ moved \in States /\ moved.status = mid.status /\ moved.pending = mid.pending
          /\ moved.sendbacks = mid.sendbacks
          /\ moved.rounds = [mid.rounds EXCEPT ![p] = mid.rounds[p] + 1]
          /\ \A r \in Pairs \ {p} : moved.final[r] = mid.final[r]
          /\ moved.rounds[p] < moved.final[p]
      BY <1>1, <1>7, <2>4, NewRoundIs
    <3>2. ASSUME NEW r \in Pairs, moved.rounds[r] # s.rounds[r]
          PROVE  moved.rounds[r] < moved.final[r]
      <4>1. CASE r = p
        BY <3>1, <4>1
      <4>2. CASE r # p
        <5>1. mid.rounds \in [Pairs -> Nat]
          BY <1>7 DEF States
        <5>2. moved.rounds[r] = sent.rounds[r] /\ moved.final[r] = first.final[r]
          BY <1>6, <1>7, <3>1, <4>2, <5>1
        <5>3. r = e
          BY <2>2, <3>2, <5>2
        <5>4. QED
          BY <1>5, <1>6, <5>2, <5>3
      <4>3. QED
        BY <4>1, <4>2
    <3>3. QED
      BY <1>6, <1>7, <2>4, <3>1, <3>2
  <2>5. QED
    BY <2>3, <2>4
<1> HIDE DEF moved
<1>9. Writer[e] \in {Stages[i] : i \in 1 .. Len(Stages)}
  BY <1>1, RolesAre DEF StageNames
<1>10. a = [moved EXCEPT !.open = [moved.open EXCEPT ![stage] = Sendback(stage, s)],
                         !.review = Sendback(stage, s), !.stage = Writer[e]]
  BY <1>3, <1>8 DEF States
<1>11. [moved.open EXCEPT ![stage] = Sendback(stage, s)] \in [Senders -> Files]
  BY <1>2, <1>4, <1>8 DEF States
<1>12. /\ a \in States /\ a.stage = Writer[e] /\ a.status = moved.status
       /\ a.review = Sendback(stage, s) /\ a.pending = moved.pending
       /\ a.sendbacks = moved.sendbacks /\ a.rounds = moved.rounds /\ a.final = moved.final
  BY <1>2, <1>8, <1>9, <1>10, <1>11 DEF States
<1>13. QED
  BY <1>1, <1>8, <1>12 DEF a, p, e

-----------------------------------------------------------------------------
(* What a branch holds *)

LEMMA NoStateIs ==
  /\ NoState.stage = "none"
  /\ \A s \in States : s # NoState /\ s.stage \in StageNames
  /\ Base \in Holding /\ Base.saved = NoState
<1>1. NoState.stage = "none"
  BY DEF NoState
<1>2. \A s \in States : s.stage \in StageNames
  BY DEF States, StageNames
<1>3. \A s \in States : s # NoState
  BY <1>1, <1>2, StageNamesAre
<1>4. NoFile \in Files
  BY DEF NoFile, Files
<1>5. Base \in Holding /\ Base.saved = NoState
  BY <1>4 DEF Base, Holding
<1>6. QED
  BY <1>1, <1>2, <1>3, <1>5

(* Answered, stage by stage. *)
LEMMA AnsweredIs ==
  ASSUME NEW c \in Holding
  PROVE  Answered(c) <=>
           /\ c.owed["plan"] # NoFile =>
                c.saved # NoState /\ c.saved.stage = "plan-writer" /\ c.saved.review = c.owed["plan"]
           /\ c.owed["test"] # NoFile =>
                /\ c.saved # NoState
                /\ c.saved.stage \in {"plan-writer", "plan-reviewer", "test-writer"}
                /\ c.saved.stage = "test-writer" => c.saved.review = c.owed["test"]
                /\ c.saved.stage # "test-writer" => c.saved.pending["test"] = c.owed["test"]
           /\ c.owed["code"] # NoFile =>
                /\ c.saved # NoState
                /\ c.saved.stage \in {"plan-writer", "plan-reviewer", "test-writer", "test-reviewer",
                                      "code-writer"}
                /\ c.saved.stage = "code-writer" => c.saved.review = c.owed["code"]
                /\ c.saved.stage # "code-writer" => c.saved.pending["code"] = c.owed["code"]
<1>1. Written = {"plan", "test", "code"}
  BY DEF Written, Pairs
<1>2. Writer["plan"] = "plan-writer" /\ Writer["test"] = "test-writer" /\ Writer["code"] = "code-writer"
  BY DEF Writer
<1>3. c.saved # NoState => c.saved.stage \in StageNames
  BY NoStateIs DEF Holding
<1>4. c.saved # NoState =>
        /\ Place(c.saved.stage) <= Place("plan-writer") <=> c.saved.stage = "plan-writer"
        /\ Place(c.saved.stage) <= Place("test-writer") <=>
             c.saved.stage \in {"plan-writer", "plan-reviewer", "test-writer"}
        /\ Place(c.saved.stage) <= Place("code-writer") <=>
             c.saved.stage \in {"plan-writer", "plan-reviewer", "test-writer", "test-reviewer",
                                "code-writer"}
  BY <1>3, PlaceIs, StageNamesAre
<1> DEFINE One(p) == c.owed[p] # NoFile =>
                       /\ c.saved # NoState
                       /\ Place(c.saved.stage) <= Place(Writer[p])
                       /\ IF c.saved.stage = Writer[p] THEN c.saved.review = c.owed[p]
                          ELSE p # "plan" /\ c.saved.pending[p] = c.owed[p]
<1>5. Answered(c) <=> One("plan") /\ One("test") /\ One("code")
  BY <1>1, Zenon DEF Answered
<1>6. One("plan") <=> (c.owed["plan"] # NoFile =>
        c.saved # NoState /\ c.saved.stage = "plan-writer" /\ c.saved.review = c.owed["plan"])
  BY <1>2, <1>4
<1>7. One("test") <=> (c.owed["test"] # NoFile =>
        /\ c.saved # NoState
        /\ c.saved.stage \in {"plan-writer", "plan-reviewer", "test-writer"}
        /\ c.saved.stage = "test-writer" => c.saved.review = c.owed["test"]
        /\ c.saved.stage # "test-writer" => c.saved.pending["test"] = c.owed["test"])
  BY <1>2, <1>4
<1>8. One("code") <=> (c.owed["code"] # NoFile =>
        /\ c.saved # NoState
        /\ c.saved.stage \in {"plan-writer", "plan-reviewer", "test-writer", "test-reviewer",
                              "code-writer"}
        /\ c.saved.stage = "code-writer" => c.saved.review = c.owed["code"]
        /\ c.saved.stage # "code-writer" => c.saved.pending["code"] = c.owed["code"])
  BY <1>2, <1>4
<1> HIDE DEF One
<1>9. QED
  BY <1>5, <1>6, <1>7, <1>8

(* ReviewedSoFar, stage by stage. *)
LEMMA ReviewedIs ==
  ASSUME NEW c \in Holding, c.saved # NoState
  PROVE  LET st == c.saved.stage
         IN  ReviewedSoFar(c) <=>
               /\ st # "plan-writer" => "plan" \in BuiltOn(c)
               /\ st \notin {"plan-writer", "plan-reviewer"} => "plan" \in Reviewed(c)
               /\ st \notin {"plan-writer", "plan-reviewer", "test-writer"} => "test" \in BuiltOn(c)
               /\ st \in {"code-writer", "code-reviewer", "acceptance-reviewer", "done"} =>
                    "test" \in Reviewed(c)
               /\ st \in {"code-reviewer", "acceptance-reviewer", "done"} => "code" \in BuiltOn(c)
               /\ st \in {"acceptance-reviewer", "done"} => "code" \in Reviewed(c)
               /\ st = "done" => "acceptance" \in Reviewed(c) /\ "acceptance" \in BuiltOn(c)
<1>1. Written = {"plan", "test", "code"} /\ Pairs = {"plan", "test", "code", "acceptance"}
  BY DEF Written, Pairs
<1>2. Writer["plan"] = "plan-writer" /\ Writer["test"] = "test-writer" /\ Writer["code"] = "code-writer"
  BY DEF Writer
<1>3. /\ Reviewer["plan"] = "plan-reviewer" /\ Reviewer["test"] = "test-reviewer"
      /\ Reviewer["code"] = "code-reviewer" /\ Reviewer["acceptance"] = "acceptance-reviewer"
  BY DEF Reviewer
<1> DEFINE st == c.saved.stage
           After(stage) == Place(stage) < Place(st)
<1>4. st \in StageNames
  BY NoStateIs DEF Holding
<1> HIDE DEF st
<1>5. /\ After("plan-writer") <=> st # "plan-writer"
      /\ After("plan-reviewer") <=> st \notin {"plan-writer", "plan-reviewer"}
      /\ After("test-writer") <=> st \notin {"plan-writer", "plan-reviewer", "test-writer"}
      /\ After("test-reviewer") <=>
           st \in {"code-writer", "code-reviewer", "acceptance-reviewer", "done"}
      /\ After("code-writer") <=> st \in {"code-reviewer", "acceptance-reviewer", "done"}
      /\ After("code-reviewer") <=> st \in {"acceptance-reviewer", "done"}
      /\ After("acceptance-reviewer") <=> st = "done"
  BY <1>4, PlaceIs, StageNamesAre
<1>6. ReviewedSoFar(c) <=>
        /\ \A p \in Pairs : After(Reviewer[p]) => p \in Reviewed(c) /\ p \in BuiltOn(c)
        /\ \A p \in Written : After(Writer[p]) => p \in BuiltOn(c)
  BY Zenon DEF ReviewedSoFar, st
<1>7. ReviewedSoFar(c) <=>
        /\ After("plan-reviewer") => "plan" \in Reviewed(c) /\ "plan" \in BuiltOn(c)
        /\ After("test-reviewer") => "test" \in Reviewed(c) /\ "test" \in BuiltOn(c)
        /\ After("code-reviewer") => "code" \in Reviewed(c) /\ "code" \in BuiltOn(c)
        /\ After("acceptance-reviewer") => "acceptance" \in Reviewed(c) /\ "acceptance" \in BuiltOn(c)
        /\ After("plan-writer") => "plan" \in BuiltOn(c)
        /\ After("test-writer") => "test" \in BuiltOn(c)
        /\ After("code-writer") => "code" \in BuiltOn(c)
  <2> HIDE DEF After
  <2>1. QED
    BY <1>1, <1>2, <1>3, <1>6
<1> HIDE DEF After
<1>8. QED
  BY <1>4, <1>5, <1>7, StageNamesAre DEF st

(* What is said of a branch does not depend on the work itself. *)
LEMMA SameWords ==
  ASSUME NEW c, NEW d, d.saved = c.saved, d.owed = c.owed
  PROVE  /\ SaidDone(c) <=> SaidDone(d)
         /\ Answered(c) <=> Answered(d)
         /\ Done(c) <=> Done(d)
BY DEF SaidDone, Answered, Done

LEMMA ArtefactsAre ==
  /\ Artefacts = {"plan", "tests", "red", "code", "green", "proof"}
  /\ Part["plan"] = "plan" /\ Part["tests"] = "test" /\ Part["red"] = "test"
  /\ Part["code"] = "code" /\ Part["green"] = "code" /\ Part["proof"] = "acceptance"
  /\ \A a \in Artefacts : Part[a] \in Pairs
BY DEF Artefacts, Part, Pairs

LEMMA ChangedIs ==
  ASSUME NEW c \in Holding, NEW ps \in SUBSET Pairs
  PROVE  LET d    == Changed(c, ps)
             gone == (ps \cap {"acceptance"}) \cup {Following(p) : p \in ps \cap Written}
         IN  /\ d \in Holding /\ d.saved = c.saved /\ d.owed = c.owed
             /\ d.replanned = c.replanned /\ d.cites = c.cites /\ d.shots = c.shots
             /\ d.approved = c.approved \ ps /\ d.based = c.based \ gone
<1> DEFINE gone == (ps \cap {"acceptance"}) \cup {Following(p) : p \in ps \cap Written}
<1>1. Changed(c, ps) = [c EXCEPT !.approved = c.approved \ ps, !.based = c.based \ gone]
  BY DEF Changed, Holding
<1> HIDE DEF gone
<1>2. c.approved \ ps \in SUBSET Pairs /\ c.based \ gone \in SUBSET Pairs
  BY DEF Holding
<1>3. QED
  BY <1>1, <1>2 DEF Holding, gone

LEMMA RewrittenIs ==
  ASSUME NEW c \in Holding, NEW stage, NEW ws \in SUBSET Artefacts
  PROVE  LET d    == Rewritten(c, stage, ws)
             ps   == PairsOf(ws)
             gone == (ps \cap {"acceptance"}) \cup {Following(p) : p \in ps \cap Written}
         IN  /\ d \in Holding /\ d.saved = c.saved /\ d.owed = c.owed
             /\ d.replanned = IF "plan" \in ws THEN stage = "code-writer" ELSE c.replanned
             /\ d.approved = c.approved \ ps /\ d.based = c.based \ gone
<1> DEFINE e == Changed(c, PairsOf(ws))
           by == IF "plan" \in ws THEN stage = "code-writer" ELSE c.replanned
<1>1. PairsOf(ws) \in SUBSET Pairs
  BY ArtefactsAre DEF PairsOf
<1>2. e \in Holding /\ e.replanned = c.replanned
  BY <1>1, ChangedIs
<1>3. Rewritten(c, stage, ws) = [e EXCEPT !.replanned = by]
  BY <1>2 DEF Rewritten
<1>4. by \in BOOLEAN
  BY DEF Holding
<1> HIDE DEF e, by
<1>5. /\ [e EXCEPT !.replanned = by] \in Holding /\ [e EXCEPT !.replanned = by].replanned = by
      /\ [e EXCEPT !.replanned = by].saved = e.saved /\ [e EXCEPT !.replanned = by].owed = e.owed
      /\ [e EXCEPT !.replanned = by].approved = e.approved
      /\ [e EXCEPT !.replanned = by].based = e.based
  BY <1>2, <1>4 DEF Holding
<1>6. QED
  BY <1>1, <1>3, <1>5, ChangedIs DEF e, by

LEMMA ScopeIs ==
  ASSUME NEW stage \in Working, NEW ws \in SUBSET Artefacts, Strays(stage, ws) = {}
  PROVE  /\ stage = "test-writer" => PairsOf(ws) \subseteq {"test"}
         /\ stage = "code-writer" => PairsOf(ws) \subseteq {"plan", "code"}
         /\ stage = "code-writer" /\ "plan" \notin ws => PairsOf(ws) \subseteq {"code"}
         /\ stage = "acceptance-reviewer" => PairsOf(ws) \subseteq {"acceptance"}
         /\ stage \in {"plan-reviewer", "test-reviewer", "code-reviewer"} => PairsOf(ws) = {}
         /\ stage \notin {"plan-writer", "code-writer"} => "plan" \notin ws
<1>1. ws \subseteq WriteScope(stage) /\ ws \cap WriteDenied(stage) = {}
  BY DEF Strays
<1>2. stage \in {"plan-writer", "plan-reviewer", "test-writer", "test-reviewer", "code-writer",
                 "code-reviewer", "acceptance-reviewer"}
  BY StageNamesAre DEF Working
<1>3. CASE stage = "test-writer"
  <2>1. ws \subseteq {"tests", "red"}
    BY <1>1, <1>3 DEF WriteScope
  <2>2. QED
    BY <1>3, <2>1, ArtefactsAre DEF PairsOf
<1>4. CASE stage = "code-writer"
  <2>1. ws \subseteq {"plan", "code", "green"}
    BY <1>1, <1>4, ArtefactsAre DEF WriteScope, WriteDenied
  <2>2. QED
    BY <1>4, <2>1, ArtefactsAre DEF PairsOf
<1>5. CASE stage = "acceptance-reviewer"
  <2>1. ws \subseteq {"proof"}
    BY <1>1, <1>5 DEF WriteScope
  <2>2. QED
    BY <1>5, <2>1, ArtefactsAre DEF PairsOf
<1>6. CASE stage \in {"plan-reviewer", "test-reviewer", "code-reviewer"}
  <2>1. ws = {}
    BY <1>1, <1>6 DEF WriteScope
  <2>2. QED
    BY <1>6, <2>1 DEF PairsOf
<1>7. QED
  BY <1>2, <1>3, <1>4, <1>5, <1>6

(* An agent that keeps to its scope takes nothing back that the stages     *)
(* before it have settled, but for the plan a code-writer may rewrite.     *)
LEMMA ScopeKeeps ==
  ASSUME NEW c \in Holding, c.saved # NoState, c.saved.stage \in Working, ReviewedSoFar(c),
         NEW ws \in SUBSET Artefacts, Strays(c.saved.stage, ws) = {}
  PROVE  ReviewedSoFar(Rewritten(c, c.saved.stage, ws))
<1> DEFINE st   == c.saved.stage
           ps   == PairsOf(ws)
           gone == (ps \cap {"acceptance"}) \cup {Following(p) : p \in ps \cap Written}
           d    == Rewritten(c, st, ws)
<1>1. /\ d \in Holding /\ d.saved = c.saved
      /\ d.replanned = IF "plan" \in ws THEN st = "code-writer" ELSE c.replanned
      /\ d.approved = c.approved \ ps /\ d.based = c.based \ gone
  BY RewrittenIs
<1>2. st = "test-writer" => ps \subseteq {"test"} /\ gone \subseteq {"code"}
  BY ScopeIs DEF Following
<1>3. st = "code-writer" => ps \subseteq {"plan", "code"} /\ gone \subseteq {"test", "acceptance"}
  BY ScopeIs DEF Following
<1>4. st = "code-writer" /\ "plan" \notin ws => ps \subseteq {"code"} /\ gone \subseteq {"acceptance"}
  BY ScopeIs DEF Following
<1>5. st = "acceptance-reviewer" => ps \subseteq {"acceptance"} /\ gone \subseteq {"acceptance"}
  BY ScopeIs DEF Written
<1>6. st \in {"plan-reviewer", "test-reviewer", "code-reviewer"} => ps = {} /\ gone = {}
  BY ScopeIs
<1>7. st \in {"plan-writer", "plan-reviewer", "test-writer", "test-reviewer", "code-writer",
              "code-reviewer", "acceptance-reviewer"}
  BY StageNamesAre DEF Working
<1>8. st \notin {"plan-writer", "code-writer"} => d.replanned = c.replanned
  BY <1>1, ScopeIs
<1>9. st = "code-writer" => d.replanned = ("plan" \in ws \/ c.replanned)
  BY <1>1 DEF Holding
<1> HIDE DEF d, gone, ps
<1>10. /\ st # "plan-writer" => "plan" \in BuiltOn(c)
       /\ st \notin {"plan-writer", "plan-reviewer"} => "plan" \in Reviewed(c)
       /\ st \notin {"plan-writer", "plan-reviewer", "test-writer"} => "test" \in BuiltOn(c)
       /\ st \in {"code-writer", "code-reviewer", "acceptance-reviewer", "done"} =>
            "test" \in Reviewed(c)
       /\ st \in {"code-reviewer", "acceptance-reviewer", "done"} => "code" \in BuiltOn(c)
       /\ st \in {"acceptance-reviewer", "done"} => "code" \in Reviewed(c)
  BY ReviewedIs
<1> HIDE DEF st
<1>11. /\ st # "plan-writer" => "plan" \in BuiltOn(d)
       /\ st \notin {"plan-writer", "plan-reviewer"} => "plan" \in Reviewed(d)
       /\ st \notin {"plan-writer", "plan-reviewer", "test-writer"} => "test" \in BuiltOn(d)
       /\ st \in {"code-writer", "code-reviewer", "acceptance-reviewer", "done"} =>
            "test" \in Reviewed(d)
       /\ st \in {"code-reviewer", "acceptance-reviewer", "done"} => "code" \in BuiltOn(d)
       /\ st \in {"acceptance-reviewer", "done"} => "code" \in Reviewed(d)
  <2>1. CASE st = "code-writer" /\ "plan" \in ws
    BY <1>1, <1>3, <1>9, <1>10, <2>1 DEF Reviewed, BuiltOn
  <2>2. CASE st = "code-writer" /\ "plan" \notin ws
    BY <1>1, <1>4, <1>9, <1>10, <2>2 DEF Reviewed, BuiltOn
  <2>3. CASE st # "code-writer"
    BY <1>1, <1>2, <1>5, <1>6, <1>7, <1>8, <1>10, <2>3 DEF Reviewed, BuiltOn
  <2>4. QED
    BY <2>1, <2>2, <2>3
<1>12. ReviewedSoFar(d)
  BY <1>1, <1>7, <1>11, ReviewedIs DEF st
<1>13. QED
  BY <1>12 DEF d, st

-----------------------------------------------------------------------------
(* A verdict that is saved *)

(* What advance makes of the state, in a word for each verdict. *)
LEMMA AdvanceIs ==
  ASSUME NEW s \in States, s.stage \in Working, NEW status \in Verdicts, May(s.stage, status)
  PROVE  LET a == Advance(s.stage, status, s)
             st == s.stage
             p == PairOf(st)
         IN  /\ a \in States /\ a.status = s.status
             /\ status = "needs_human" =>
                  a.stage = st /\ a.review = s.review /\ a.pending = s.pending
             /\ status = "done" =>
                  IsWriter(st) /\ a.stage = NextStage(st) /\ a.pending = s.pending
             /\ status = "approved" =>
                  /\ ~IsWriter(st) /\ a.stage = NextStage(st)
                  /\ a.stage \in {"test-writer", "code-writer"} =>
                       /\ a.review = s.pending[PairOf(a.stage)]
                       /\ a.pending = [s.pending EXCEPT ![PairOf(a.stage)] = NoFile]
                  /\ a.stage \notin {"test-writer", "code-writer"} => a.pending = s.pending
             /\ status = "changes_requested" =>
                  /\ ~IsWriter(st) /\ p # "acceptance" /\ a.stage = Writer[p]
                  /\ a.review = Review(st, s) /\ a.pending = s.pending
             /\ status = "send_back" =>
                  /\ p # "plan" /\ a.stage = Writer[Earlier[p]]
                  /\ a.pending = IF IsWriter(st) \/ p = "acceptance" THEN s.pending
                                 ELSE [s.pending EXCEPT ![p] = Review(st, s)]
<1> DEFINE st == s.stage
           p  == PairOf(st)
           t  == Closed(st, s)
           a  == Advance(st, status, s)
<1>1. /\ t \in States /\ t.stage = st /\ t.status = s.status /\ t.review = s.review
      /\ t.rounds = s.rounds /\ t.pending = s.pending
  BY ClosedIs
<1>2. Review(st, t) = Review(st, s)
  BY <1>1 DEF Review
<1>3. st \in Working
  OBVIOUS
<1> HIDE DEF st, t, a, p
<1>4. CASE status = "needs_human"
  <2>1. a = t
    BY <1>4 DEF Advance, t, a
  <2>2. QED
    BY <1>1, <1>4, <2>1 DEF st, a
<1>5. CASE status = "done"
  <2>1. a = WriterDone(st, t) /\ IsWriter(st)
    BY <1>5 DEF Advance, May, t, st, a
  <2>2. a \in States /\ a.status = s.status /\ a.stage = NextStage(st) /\ a.pending = s.pending
    BY <1>1, <1>3, <2>1, WriterDoneIs
  <2>3. QED
    BY <1>5, <2>1, <2>2 DEF st, a
<1>6. CASE status = "approved"
  <2>1. a = Approved(st, t) /\ ~IsWriter(st)
    BY <1>6 DEF Advance, May, t, st, a
  <2>2. /\ a \in States /\ a.status = t.status /\ a.stage = NextStage(st)
        /\ NextStage(st) \in {"test-writer", "code-writer"} =>
             /\ a.review = t.pending[PairOf(NextStage(st))]
             /\ a.pending = [t.pending EXCEPT ![PairOf(NextStage(st))] = NoFile]
        /\ NextStage(st) \notin {"test-writer", "code-writer"} => a.pending = t.pending
    BY <1>1, <1>3, <2>1, ApprovedIs
  <2>3. QED
    BY <1>1, <1>6, <2>1, <2>2 DEF st, a
<1>7. CASE status = "changes_requested"
  <2>1. a = ChangesRequested(st, t) /\ ~IsWriter(st) /\ p # "acceptance"
    BY <1>7 DEF Advance, May, t, st, a, p
  <2>2. /\ a \in States /\ a.status = s.status /\ a.stage = Writer[p]
        /\ a.review = Review(st, s) /\ a.pending = s.pending
    BY <1>1, <1>2, <1>3, <2>1, ChangesRequestedIs DEF p
  <2>3. QED
    BY <1>7, <2>1, <2>2 DEF st, a, p
<1>8. CASE status = "send_back"
  <2>1. a = SendBack(st, t) /\ p # "plan"
    BY <1>8 DEF Advance, May, t, st, a, p
  <2>2. /\ a \in States /\ a.status = t.status /\ a.stage = Writer[Earlier[p]]
        /\ a.pending = IF IsWriter(st) \/ p = "acceptance" THEN t.pending
                       ELSE [t.pending EXCEPT ![p] = Review(st, t)]
    BY <1>1, <1>3, <2>1, SendBackIs, Zenon DEF p
  <2>3. QED
    BY <1>1, <1>2, <1>8, <2>1, <2>2 DEF st, a, p
<1>9. QED
  BY <1>4, <1>5, <1>6, <1>7, <1>8 DEF Verdicts

LEMMA JudgedIs ==
  ASSUME NEW c \in Holding, c.saved \in States, c.saved.stage \in Working,
         NEW status \in Verdicts, May(c.saved.stage, status)
  PROVE  LET st == c.saved.stage
             p  == PairOf(st)
             d  == Judged(c, st, status, c.saved)
         IN  /\ d \in Holding /\ c.approved \subseteq d.approved /\ c.based \subseteq d.based
             /\ d.replanned = c.replanned
             /\ status = "needs_human" => d.owed = c.owed
             /\ status = "done" => d.owed = [c.owed EXCEPT ![p] = NoFile] /\ p \in d.based
             /\ status = "approved" =>
                  d.owed = c.owed /\ p \in d.approved /\ (p = "acceptance" => p \in d.based)
             /\ status = "changes_requested" =>
                  d.owed = [c.owed EXCEPT ![p] = Review(st, c.saved)]
             /\ status = "send_back" /\ p = "acceptance" => d.owed = c.owed
             /\ status = "send_back" /\ p # "acceptance" =>
                  d.owed = [c.owed EXCEPT ![p] = IF IsWriter(st) THEN NoFile
                                                 ELSE Review(st, c.saved)]
<1> DEFINE st == c.saved.stage
           p  == PairOf(st)
           r  == Review(st, c.saved)
           d  == Judged(c, st, status, c.saved)
<1>1. p \in Pairs /\ r \in Files /\ NoFile \in Files
  BY FilesAre
<1>2. /\ c.owed \in [Written -> Files] /\ c.approved \in SUBSET Pairs /\ c.based \in SUBSET Pairs
  BY DEF Holding
<1>3. status = "done" => p \in Written
  <2>1. status = "done" => IsWriter(st)
    BY DEF May
  <2>2. IsWriter(st) => p \in Written
    BY WriterIs, PairIs DEF Working, Written, Pairs
  <2>3. QED
    BY <2>1, <2>2
<1>4. status = "changes_requested" => p \in Written
  BY <1>1 DEF May, Written
<1> HIDE DEF p, r, st
<1>5. CASE status = "needs_human"
  <2>1. d = c
    BY <1>5 DEF Judged, p
  <2>2. QED
    BY <1>5, <2>1 DEF st, p
<1>6. CASE status = "done"
  <2>1. d = [c EXCEPT !.based = c.based \cup {p}, !.owed = [c.owed EXCEPT ![p] = NoFile]]
    BY <1>2, <1>6, Zenon DEF Judged, p, Holding
  <2>2. [c.owed EXCEPT ![p] = NoFile] \in [Written -> Files] /\ c.based \cup {p} \in SUBSET Pairs
    BY <1>1, <1>2
  <2> HIDE DEF d
  <2>3. /\ d \in Holding /\ d.owed = [c.owed EXCEPT ![p] = NoFile]
        /\ d.based = c.based \cup {p} /\ d.approved = c.approved /\ d.replanned = c.replanned
    BY <2>1, <2>2 DEF Holding
  <2>4. QED
    BY <1>6, <2>3 DEF st, p, d
<1>7. CASE status = "approved"
  <2> DEFINE based == IF p = "acceptance" THEN c.based \cup {p} ELSE c.based
  <2>1. d = [c EXCEPT !.approved = c.approved \cup {p}, !.based = based]
    BY <1>2, <1>7 DEF Judged, p, Holding
  <2>2. based \in SUBSET Pairs /\ c.approved \cup {p} \in SUBSET Pairs
    BY <1>1, <1>2
  <2>3. c.based \subseteq based /\ (p = "acceptance" => p \in based)
    OBVIOUS
  <2> HIDE DEF d, based
  <2>4. /\ d \in Holding /\ d.owed = c.owed /\ d.based = based /\ d.approved = c.approved \cup {p}
        /\ d.replanned = c.replanned
    BY <2>1, <2>2 DEF Holding
  <2>5. QED
    BY <1>7, <2>3, <2>4 DEF st, p, d
<1>8. CASE status = "changes_requested"
  <2>1. d = [c EXCEPT !.owed = [c.owed EXCEPT ![p] = r]]
    BY <1>2, <1>8 DEF Judged, p, r, Holding
  <2>2. [c.owed EXCEPT ![p] = r] \in [Written -> Files]
    BY <1>1, <1>2
  <2> HIDE DEF d
  <2>3. /\ d \in Holding /\ d.owed = [c.owed EXCEPT ![p] = r]
        /\ d.based = c.based /\ d.approved = c.approved /\ d.replanned = c.replanned
    BY <2>1, <2>2 DEF Holding
  <2>4. QED
    BY <1>8, <2>3 DEF st, p, d, r
<1>9. CASE status = "send_back" /\ p = "acceptance"
  <2>1. d = c
    BY <1>9 DEF Judged, p
  <2>2. QED
    BY <1>9, <2>1 DEF st, p
<1>10. CASE status = "send_back" /\ p # "acceptance"
  <2> DEFINE f == IF IsWriter(st) THEN NoFile ELSE r
  <2>1. d = [c EXCEPT !.owed = [c.owed EXCEPT ![p] = f]]
    BY <1>2, <1>10 DEF Judged, p, r, Holding
  <2>2. [c.owed EXCEPT ![p] = f] \in [Written -> Files]
    BY <1>1, <1>2
  <2> HIDE DEF d, f
  <2>3. /\ d \in Holding /\ d.owed = [c.owed EXCEPT ![p] = f]
        /\ d.based = c.based /\ d.approved = c.approved /\ d.replanned = c.replanned
    BY <2>1, <2>2 DEF Holding
  <2>4. QED
    BY <1>10, <2>3 DEF st, p, d, f, r
<1>11. QED
  BY <1>5, <1>6, <1>7, <1>8, <1>9, <1>10 DEF Verdicts

LEMMA SavedIs ==
  ASSUME NEW c \in Holding, NEW k \in States \cup {NoState}
  PROVE  LET e == [c EXCEPT !.saved = k]
         IN  /\ e \in Holding /\ e.saved = k /\ e.owed = c.owed
             /\ e.approved = c.approved /\ e.based = c.based /\ e.replanned = c.replanned /\ e.shots = c.shots /\ e.cites = c.cites
BY DEF Holding

(* No verdict loses a review: what a reviewer wrote waits where its        *)
(* writer will be handed it.                                               *)
LEMMA VerdictsAnswer ==
  ASSUME NEW c \in Holding, c.saved \in States, c.saved.stage \in Working,
         NEW status \in Verdicts, May(c.saved.stage, status), Answered(c),
         NEW e \in Holding, e.saved \in States,
         e.owed = Judged(c, c.saved.stage, status, c.saved).owed,
         e.saved.stage = Advance(c.saved.stage, status, c.saved).stage,
         e.saved.review = Advance(c.saved.stage, status, c.saved).review,
         e.saved.pending = Advance(c.saved.stage, status, c.saved).pending
  PROVE  Answered(e)
<1> DEFINE s  == c.saved
           st == s.stage
           p  == PairOf(st)
           r  == Review(st, s)
           k  == e.saved
           o  == c.owed
<1>1. s # NoState /\ k # NoState
  BY NoStateIs
<1>2. st \in {"plan-writer", "plan-reviewer", "test-writer", "test-reviewer", "code-writer",
              "code-reviewer", "acceptance-reviewer"}
  BY StageNamesAre DEF Working
<1>3. /\ s.pending \in [{"test", "code"} -> Files] /\ o \in [{"plan", "test", "code"} -> Files]
      /\ r # NoFile
  <2>1. s.pending \in [{"test", "code"} -> Files]
    <3>1. \A x \in States : x.pending \in [{"test", "code"} -> Files]
      BY DEF States, Written, Pairs
    <3> QED
      BY <3>1
  <2>2. o \in [{"plan", "test", "code"} -> Files]
    BY DEF Holding, Written, Pairs
  <2>3. r # NoFile
    BY FilesAre
  <2> QED
    BY <2>1, <2>2, <2>3
<1> DEFINE Owed ==
             /\ o["plan"] # NoFile => st = "plan-writer" /\ s.review = o["plan"]
             /\ o["test"] # NoFile =>
                  /\ st \in {"plan-writer", "plan-reviewer", "test-writer"}
                  /\ st = "test-writer" => s.review = o["test"]
                  /\ st # "test-writer" => s.pending["test"] = o["test"]
             /\ o["code"] # NoFile =>
                  /\ st \in {"plan-writer", "plan-reviewer", "test-writer", "test-reviewer",
                             "code-writer"}
                  /\ st = "code-writer" => s.review = o["code"]
                  /\ st # "code-writer" => s.pending["code"] = o["code"]
           Goal ==
             /\ e.owed["plan"] # NoFile => k.stage = "plan-writer" /\ k.review = e.owed["plan"]
             /\ e.owed["test"] # NoFile =>
                  /\ k.stage \in {"plan-writer", "plan-reviewer", "test-writer"}
                  /\ k.stage = "test-writer" => k.review = e.owed["test"]
                  /\ k.stage # "test-writer" => k.pending["test"] = e.owed["test"]
             /\ e.owed["code"] # NoFile =>
                  /\ k.stage \in {"plan-writer", "plan-reviewer", "test-writer", "test-reviewer",
                                  "code-writer"}
                  /\ k.stage = "code-writer" => k.review = e.owed["code"]
                  /\ k.stage # "code-writer" => k.pending["code"] = e.owed["code"]
<1>4. Owed
  BY <1>1, AnsweredIs
<1>5. st \in StageNames /\ (IsWriter(st) <=> st \in {"plan-writer", "test-writer", "code-writer"})
  BY WriterIs DEF Working
<1>6. Goal => Answered(e)
  BY <1>1, AnsweredIs
<1> HIDE DEF s, k, o, r
<1>7. CASE status = "needs_human"
  <2>1. k.stage = st /\ k.review = s.review /\ k.pending = s.pending /\ e.owed = o
    <3> DEFINE a == Advance(st, status, s)
    <3>1. s \in States /\ st \in Working /\ May(st, status)
      BY DEF s
    <3>2. a.stage = st /\ a.review = s.review /\ a.pending = s.pending
      BY <1>7, <3>1, AdvanceIs
    <3>3. k.stage = a.stage /\ k.review = a.review /\ k.pending = a.pending
      BY DEF s, k
    <3>4. e.owed = o
      BY <1>7, JudgedIs DEF s, o
    <3> HIDE DEF a
    <3> QED
      BY <3>2, <3>3, <3>4
  <2>2. QED
    BY <1>4, <1>6, <2>1
<1>8. CASE status = "done"
  <2>1. IsWriter(st) /\ k.stage = NextStage(st) /\ k.pending = s.pending
    BY <1>8, AdvanceIs DEF s, k
  <2>2. e.owed = [o EXCEPT ![p] = NoFile]
    BY <1>8, JudgedIs DEF s, o
  <2>3. Goal
    BY <1>3, <1>4, <1>5, <2>1, <2>2, NextIs, PairIs
  <2>4. QED
    BY <1>6, <2>3
<1>9. CASE status = "approved"
  <2>1. /\ ~IsWriter(st) /\ k.stage = NextStage(st)
        /\ k.stage \in {"test-writer", "code-writer"} =>
             /\ k.review = s.pending[PairOf(k.stage)]
             /\ k.pending = [s.pending EXCEPT ![PairOf(k.stage)] = NoFile]
        /\ k.stage \notin {"test-writer", "code-writer"} => k.pending = s.pending
    <3> DEFINE a == Advance(st, status, s)
    <3>1. s \in States /\ st \in Working /\ May(st, status)
      BY DEF s
    <3>2. /\ ~IsWriter(st) /\ a.stage = NextStage(st)
          /\ a.stage \in {"test-writer", "code-writer"} =>
               /\ a.review = s.pending[PairOf(a.stage)]
               /\ a.pending = [s.pending EXCEPT ![PairOf(a.stage)] = NoFile]
          /\ a.stage \notin {"test-writer", "code-writer"} => a.pending = s.pending
      BY <1>9, <3>1, AdvanceIs
    <3>3. k.stage = a.stage /\ k.review = a.review /\ k.pending = a.pending
      BY DEF s, k
    <3> HIDE DEF a
    <3>4. QED
      BY <3>2, <3>3
  <2>2. e.owed = o
    BY <1>9, JudgedIs DEF s, o
  <2>3. CASE st = "plan-reviewer"
    BY <1>3, <1>4, <1>6, <2>1, <2>2, <2>3, NextIs, PairIs
  <2>4. CASE st = "test-reviewer"
    BY <1>3, <1>4, <1>6, <2>1, <2>2, <2>4, NextIs, PairIs
  <2>5. CASE st = "code-reviewer" \/ st = "acceptance-reviewer"
    BY <1>3, <1>4, <1>6, <2>1, <2>2, <2>5, NextIs, PairIs
  <2>6. QED
    BY <1>2, <1>5, <2>1, <2>3, <2>4, <2>5
<1>10. CASE status = "changes_requested"
  <2>1. /\ ~IsWriter(st) /\ p # "acceptance" /\ k.stage = Writer[p]
        /\ k.review = r /\ k.pending = s.pending
    BY <1>10, AdvanceIs DEF s, k, r
  <2>2. e.owed = [o EXCEPT ![p] = r]
    BY <1>10, JudgedIs DEF s, o, r
  <2>3. CASE st = "plan-reviewer"
    BY <1>3, <1>4, <1>6, <2>1, <2>2, <2>3, PairIs DEF Writer
  <2>4. CASE st = "test-reviewer"
    BY <1>3, <1>4, <1>6, <2>1, <2>2, <2>4, PairIs DEF Writer
  <2>5. CASE st = "code-reviewer"
    BY <1>3, <1>4, <1>6, <2>1, <2>2, <2>5, PairIs DEF Writer
  <2>6. QED
    BY <1>2, <1>5, <2>1, <2>3, <2>4, <2>5, PairIs
<1>11. CASE status = "send_back"
  <2>1. /\ p # "plan" /\ k.stage = Writer[Earlier[p]]
        /\ k.pending = IF IsWriter(st) \/ p = "acceptance" THEN s.pending
                       ELSE [s.pending EXCEPT ![p] = r]
    BY <1>11, AdvanceIs DEF s, k, r
  <2>2. e.owed = IF p = "acceptance" THEN o
                 ELSE [o EXCEPT ![p] = IF IsWriter(st) THEN NoFile ELSE r]
    BY <1>11, JudgedIs DEF s, o, r
  <2>3. CASE st = "test-writer"
    BY <1>3, <1>4, <1>5, <1>6, <2>1, <2>2, <2>3, PairIs DEF Writer, Earlier
  <2>4. CASE st = "test-reviewer"
    BY <1>3, <1>4, <1>5, <1>6, <2>1, <2>2, <2>4, PairIs DEF Writer, Earlier
  <2>5. CASE st = "code-writer"
    BY <1>3, <1>4, <1>5, <1>6, <2>1, <2>2, <2>5, PairIs DEF Writer, Earlier
  <2>6. CASE st = "code-reviewer"
    BY <1>3, <1>4, <1>5, <1>6, <2>1, <2>2, <2>6, PairIs DEF Writer, Earlier
  <2>7. CASE st = "acceptance-reviewer"
    BY <1>3, <1>4, <1>5, <1>6, <2>1, <2>2, <2>7, PairIs DEF Writer, Earlier
  <2>8. QED
    BY <1>2, <2>1, <2>3, <2>4, <2>5, <2>6, <2>7, PairIs
<1>12. QED
  BY <1>7, <1>8, <1>9, <1>10, <1>11 DEF Verdicts

(* Nor does one pass over work that is not reviewed. *)
LEMMA VerdictsReview ==
  ASSUME NEW c \in Holding, c.saved \in States, c.saved.stage \in Working,
         NEW status \in Verdicts, May(c.saved.stage, status), ReviewedSoFar(c),
         NEW e \in Holding, e.saved \in States,
         e.approved = Judged(c, c.saved.stage, status, c.saved).approved,
         e.based = Judged(c, c.saved.stage, status, c.saved).based,
         e.replanned = Judged(c, c.saved.stage, status, c.saved).replanned,
         e.saved.stage = Advance(c.saved.stage, status, c.saved).stage
  PROVE  ReviewedSoFar(e)
<1> DEFINE st == c.saved.stage
           p  == PairOf(st)
           to == e.saved.stage
           Settled(a, b, x) ==
             /\ x # "plan-writer" => "plan" \in b
             /\ x \notin {"plan-writer", "plan-reviewer"} => "plan" \in a
             /\ x \notin {"plan-writer", "plan-reviewer", "test-writer"} => "test" \in b
             /\ x \in {"code-writer", "code-reviewer", "acceptance-reviewer", "done"} => "test" \in a
             /\ x \in {"code-reviewer", "acceptance-reviewer", "done"} => "code" \in b
             /\ x \in {"acceptance-reviewer", "done"} => "code" \in a
             /\ x = "done" => "acceptance" \in a /\ "acceptance" \in b
<1>1. c.saved # NoState /\ e.saved # NoState
  BY NoStateIs
<1>2. st \in {"plan-writer", "plan-reviewer", "test-writer", "test-reviewer", "code-writer",
              "code-reviewer", "acceptance-reviewer"}
  BY StageNamesAre DEF Working
<1>3. IsWriter(st) <=> st \in {"plan-writer", "test-writer", "code-writer"}
  BY WriterIs DEF Working
<1>4. Settled(Reviewed(c), BuiltOn(c), st)
  BY <1>1, ReviewedIs
<1>5. Settled(Reviewed(e), BuiltOn(e), to) => ReviewedSoFar(e)
  BY <1>1, ReviewedIs
<1>6. /\ Reviewed(c) \subseteq Reviewed(e) /\ BuiltOn(c) \subseteq BuiltOn(e)
      /\ e.approved \subseteq Reviewed(e) /\ e.based \subseteq BuiltOn(e)
  <2>1. c.approved \subseteq e.approved /\ c.based \subseteq e.based /\ e.replanned = c.replanned
    BY JudgedIs
  <2>2. QED
    BY <2>1 DEF Reviewed, BuiltOn
<1> HIDE DEF to, st
<1>7. CASE status = "needs_human"
  <2>1. to = st
    BY <1>7, AdvanceIs DEF st, to
  <2>2. QED
    BY <1>4, <1>5, <1>6, <2>1
<1>8. CASE status = "done"
  <2>1. IsWriter(st) /\ to = NextStage(st)
    BY <1>8, AdvanceIs DEF st, to
  <2>2. p \in BuiltOn(e)
    BY <1>6, <1>8, JudgedIs DEF st
  <2>3. QED
    BY <1>3, <1>4, <1>5, <1>6, <2>1, <2>2, NextIs, PairIs
<1>9. CASE status = "approved"
  <2>1. ~IsWriter(st) /\ to = NextStage(st)
    BY <1>9, AdvanceIs DEF st, to
  <2>2. p \in Reviewed(e) /\ (p = "acceptance" => p \in BuiltOn(e))
    BY <1>6, <1>9, JudgedIs DEF st
  <2>3. QED
    BY <1>2, <1>3, <1>4, <1>5, <1>6, <2>1, <2>2, NextIs, PairIs
<1>10. CASE status = "changes_requested"
  <2>1. ~IsWriter(st) /\ p # "acceptance" /\ to = Writer[p]
    BY <1>10, AdvanceIs DEF st, to
  <2>2. QED
    BY <1>2, <1>3, <1>4, <1>5, <1>6, <2>1, PairIs DEF Writer
<1>11. CASE status = "send_back"
  <2>1. p # "plan" /\ to = Writer[Earlier[p]]
    BY <1>11, AdvanceIs DEF st, to
  <2>2. QED
    BY <1>2, <1>4, <1>5, <1>6, <2>1, PairIs DEF Writer, Earlier
<1>12. QED
  BY <1>7, <1>8, <1>9, <1>10, <1>11 DEF Verdicts

LEMMA LoadedOK ==
  ASSUME NEW c \in Holding, NEW cut \in BOOLEAN, BranchOK(c, cut),
         NEW k \in States, k.status = "done" => k.stage = "done",
         \/ c.saved = NoState /\ k.stage = "plan-writer"
         \/ /\ c.saved \in States /\ k.stage = c.saved.stage
            /\ k.review = c.saved.review /\ k.pending = c.saved.pending
  PROVE  BranchOK([c EXCEPT !.saved = k], cut)
<1> DEFINE e == [c EXCEPT !.saved = k]
<1>1. /\ e \in Holding /\ e.saved = k /\ e.owed = c.owed
      /\ e.approved = c.approved /\ e.based = c.based /\ e.replanned = c.replanned
  BY SavedIs
<1>2. k # NoState /\ (c.saved \in States => c.saved # NoState)
  BY NoStateIs
<1> HIDE DEF e
<1>3. SaidDone(e)
  BY <1>1 DEF SaidDone, Done
<1>4. Answered(e)
  <2>1. Answered(c)
    BY DEF BranchOK
  <2>2. CASE c.saved = NoState /\ k.stage = "plan-writer"
    <3>1. \A p \in Written : c.owed[p] = NoFile
      BY <2>1, <2>2 DEF Answered
    <3>2. QED
      BY <1>1, <3>1 DEF Answered
  <2>3. CASE c.saved \in States /\ k.stage = c.saved.stage
             /\ k.review = c.saved.review /\ k.pending = c.saved.pending
    BY <1>1, <1>2, <2>1, <2>3 DEF Answered
  <2>4. QED
    BY <2>2, <2>3
<1>5. ASSUME ReviewedSoFar(c)
      PROVE  ReviewedSoFar(e)
  <2>1. CASE c.saved = NoState /\ k.stage = "plan-writer"
    BY <1>1, <1>2, <2>1, ReviewedIs
  <2>2. CASE c.saved \in States /\ k.stage = c.saved.stage
    BY <1>1, <1>2, <1>5, <2>2 DEF ReviewedSoFar, Reviewed, BuiltOn
  <2>3. QED
    BY <2>1, <2>2
<1>6. QED
  BY <1>3, <1>4, <1>5 DEF BranchOK, e

LEMMA BaseOK ==
  ASSUME NEW c \in Holding, c.saved = NoState, c.owed = Base.owed, NEW cut \in BOOLEAN
  PROVE  BranchOK(c, cut) /\ ~Done(c)
<1>1. \A p \in Written : c.owed[p] = NoFile
  BY DEF Base
<1>2. Answered(c)
  BY <1>1 DEF Answered
<1>3. QED
  BY <1>2 DEF BranchOK, SaidDone, Done, ReviewedSoFar

-----------------------------------------------------------------------------
(* The steps of a run *)

LEMMA InvParts ==
  ASSUME DeliveryInv
  PROVE  /\ remote \in [there : BOOLEAN, holds : Holding]
         /\ tree \in [Machines -> Trees] /\ proc \in [Machines -> Procs]
         /\ pr \in {"none", "draft", "ready"} /\ runs \in 0 .. MaxRuns /\ faults \in 0 .. MaxFaults
         /\ unpushed \in BOOLEAN /\ unchecked \in BOOLEAN /\ undrafted \in BOOLEAN
         /\ BranchOK(remote.holds, unchecked)
         /\ \A m \in Machines : /\ BranchOK(tree[m].head, unchecked)
                                /\ BranchOK(tree[m].disk, unchecked)
                                /\ MachineOK(tree[m], proc[m])
                                /\ tree[m] \in Trees /\ proc[m] \in Procs
                                /\ tree[m].head \in Holding /\ tree[m].disk \in Holding
<1>1. tree \in [Machines -> Trees] /\ proc \in [Machines -> Procs]
  BY DEF DeliveryInv, DeliveryTypeOK, Trees, Procs, Steps, Whys
<1>2. \A m \in Machines : tree[m].head \in Holding /\ tree[m].disk \in Holding
  BY <1>1 DEF Trees
<1>3. \A m \in Machines : BranchOK(tree[m].head, unchecked) /\ BranchOK(tree[m].disk, unchecked)
  BY DEF DeliveryInv, BranchInv, Branches
<1>4. BranchOK(remote.holds, unchecked)
  BY DEF DeliveryInv, BranchInv, Branches
<1>5. QED
  BY <1>1, <1>2, <1>3, <1>4 DEF DeliveryInv, DeliveryTypeOK, MachineInv

LEMMA BranchLater ==
  ASSUME NEW c, NEW cut \in BOOLEAN, NEW later \in BOOLEAN, cut => later, BranchOK(c, cut)
  PROVE  BranchOK(c, later)
BY DEF BranchOK

(* A step of one run that leaves the remote branch alone. *)
LEMMA RunKeeps ==
  ASSUME DeliveryInv, NEW m \in Machines, NEW t \in Trees, NEW q \in Procs,
         tree' = [tree EXCEPT ![m] = t], proc' = [proc EXCEPT ![m] = q], UNCHANGED remote,
         pr' \in {"none", "draft", "ready"}, runs' \in 0 .. MaxRuns, faults' \in 0 .. MaxFaults,
         unpushed' \in BOOLEAN, unchecked' \in BOOLEAN, undrafted' \in BOOLEAN,
         unpushed => unpushed', unchecked => unchecked',
         undrafted => undrafted' \/ \A n \in Machines \ {m} : proc[n].pc = "idle",
         BranchOK(t.head, unchecked'), BranchOK(t.disk, unchecked'),
         ProcOK(t, q), TreeOK(t, q, remote.holds), CutOK(t, q, unpushed'), LevelOK(t, q,
         undrafted'),
         AloneInv', ReadyInv'
  PROVE  DeliveryInv'
<1>1. /\ tree \in [Machines -> Trees] /\ proc \in [Machines -> Procs]
      /\ unpushed \in BOOLEAN /\ unchecked \in BOOLEAN /\ undrafted \in BOOLEAN
  BY InvParts
<1>2. tree' \in [Machines -> Trees] /\ proc' \in [Machines -> Procs]
  BY <1>1
<1>3. \A n \in Machines : tree'[n] = (IF n = m THEN t ELSE tree[n])
                          /\ proc'[n] = (IF n = m THEN q ELSE proc[n])
  BY <1>1
<1>4. DeliveryTypeOK'
  <2>1. remote' \in [there : BOOLEAN, holds : Holding]
    BY InvParts
  <2>2. QED
    BY <1>2, <2>1 DEF DeliveryTypeOK, Trees, Procs, Steps, Whys
<1>5. BranchInv'
  <2>1. BranchOK(remote'.holds, unchecked')
    BY <1>1, InvParts, BranchLater
  <2>2. \A n \in Machines : BranchOK(tree'[n].head, unchecked') /\ BranchOK(tree'[n].disk, unchecked')
    <3>1. \A n \in Machines : BranchOK(tree[n].head, unchecked') /\ BranchOK(tree[n].disk, unchecked')
      BY <1>1, InvParts, BranchLater
    <3>2. QED
      BY <1>3, <3>1
  <2>3. QED
    BY <2>1, <2>2 DEF BranchInv, Branches
<1>6. MachineInv'
  <2> SUFFICES ASSUME NEW n \in Machines
               PROVE  /\ ProcOK(tree'[n], proc'[n])
                      /\ TreeOK(tree'[n], proc'[n], remote.holds)
                      /\ CutOK(tree'[n], proc'[n], unpushed')
                      /\ LevelOK(tree'[n], proc'[n], undrafted')
    BY DEF MachineInv, MachineOK
  <2>1. CASE n = m
    BY <1>3, <2>1
  <2>2. CASE n # m
    <3>1. tree'[n] = tree[n] /\ proc'[n] = proc[n]
      BY <1>3, <2>2
    <3>2. /\ ProcOK(tree[n], proc[n]) /\ TreeOK(tree[n], proc[n], remote.holds)
          /\ CutOK(tree[n], proc[n], unpushed) /\ LevelOK(tree[n], proc[n], undrafted)
      BY InvParts DEF MachineOK
    <3>3. CutOK(tree[n], proc[n], unpushed')
      BY <3>2 DEF CutOK
    <3>4. LevelOK(tree[n], proc[n], undrafted')
      BY <2>2, <3>2 DEF LevelOK
    <3>5. QED
      BY <3>1, <3>2, <3>3, <3>4
  <2>3. QED
    BY <2>1, <2>2
<1>7. RemoteInv'
  BY DEF DeliveryInv, RemoteInv
<1>8. QED
  BY <1>4, <1>5, <1>6, <1>7 DEF DeliveryInv

(* One of a run that is under way, or ends there. *)
LEMMA PlainRun ==
  ASSUME DeliveryInv, NEW m \in Machines, NEW t \in Trees, NEW q \in Procs,
         tree' = [tree EXCEPT ![m] = t], proc' = [proc EXCEPT ![m] = q], UNCHANGED <<remote, pr, runs>>,
         faults' \in 0 .. MaxFaults,
         unpushed' \in BOOLEAN, unchecked' \in BOOLEAN, undrafted' \in BOOLEAN,
         unpushed => unpushed', unchecked => unchecked', undrafted => undrafted',
         BranchOK(t.head, unchecked'), BranchOK(t.disk, unchecked'),
         ProcOK(t, q), TreeOK(t, q, remote.holds), CutOK(t, q, unpushed'), LevelOK(t, q,
         undrafted'),
         proc[m].pc # "idle",
         pr = "ready" /\ ~undrafted' => q.pc = "idle" \/ (Done(tree[m].disk) => Done(t.disk))
  PROVE  DeliveryInv'
<1>1. /\ tree \in [Machines -> Trees] /\ proc \in [Machines -> Procs]
      /\ unpushed \in BOOLEAN /\ unchecked \in BOOLEAN /\ undrafted \in BOOLEAN
      /\ pr \in {"none", "draft", "ready"} /\ runs \in 0 .. MaxRuns
  BY InvParts
<1>2. \A n \in Machines : tree'[n] = (IF n = m THEN t ELSE tree[n])
                          /\ proc'[n] = (IF n = m THEN q ELSE proc[n])
  BY <1>1
<1>3. AloneInv'
  <2>1. AloneInv
    BY DEF DeliveryInv
  <2>2. \A n \in Machines : proc'[n].pc # "idle" => proc[n].pc # "idle"
    BY <1>2
  <2>3. QED
    BY <2>1, <2>2 DEF AloneInv
<1>4. ReadyInv'
  <2> SUFFICES ASSUME pr = "ready", ~undrafted', ~unpushed'
               PROVE  /\ Done(remote.holds)
                      /\ \A n \in Machines : proc'[n].pc # "idle" => Done(tree'[n].disk)
    BY DEF ReadyInv
  <2>1. Done(remote.holds) /\ \A n \in Machines : proc[n].pc # "idle" => Done(tree[n].disk)
    BY DEF DeliveryInv, ReadyInv
  <2>2. QED
    BY <1>2, <2>1
<1>5. QED
  BY <1>1, <1>3, <1>4, RunKeeps

LEMMA AtRestOK ==
  ASSUME NEW t, NEW q, NEW holds, NEW cut, NEW raced, TreeOK(t, q, holds),
         t.ahead \/ t.touched \/ t.disk # t.head => cut
  PROVE  /\ ProcOK(t, AtRest) /\ TreeOK(t, AtRest, holds)
         /\ CutOK(t, AtRest, cut) /\ LevelOK(t, AtRest, raced) /\ AtRest.pc = "idle"
BY DEF AtRest, ProcOK, TreeOK, CutOK, LevelOK, Soiled

(* What a step of a run's own says of its process. *)
LEMMA GotoIs ==
  ASSUME DeliveryInv, NEW m \in Machines, NEW pc
  PROVE  /\ Goto(m, pc) => proc' = [proc EXCEPT ![m] = [proc[m] EXCEPT !.pc = pc]]
         /\ UNCHANGED tree => tree' = [tree EXCEPT ![m] = tree[m]]
<1>1. tree \in [Machines -> Trees] /\ proc \in [Machines -> Procs]
  BY InvParts
<1>2. QED
  BY <1>1 DEF Goto

LEMMA ProcOnly ==
  ASSUME DeliveryInv, NEW m \in Machines, NEW q \in Procs, proc' = [proc EXCEPT ![m] = q],
         UNCHANGED <<remote, tree, pr, runs, unchecked, undrafted>>, proc[m].pc # "idle",
         faults' \in 0 .. MaxFaults, unpushed' \in BOOLEAN, unpushed => unpushed',
         ProcOK(tree[m], q), TreeOK(tree[m], q, remote.holds), CutOK(tree[m], q, unpushed'),
         LevelOK(tree[m], q, undrafted)
  PROVE  DeliveryInv'
<1>1. tree' = [tree EXCEPT ![m] = tree[m]]
  BY InvParts
<1>2. /\ tree[m] \in Trees /\ BranchOK(tree[m].head, unchecked) /\ BranchOK(tree[m].disk, unchecked)
      /\ unchecked \in BOOLEAN /\ undrafted \in BOOLEAN
  BY InvParts
<1>3. QED
  BY <1>1, <1>2, PlainRun

(* What holds of one machine, in full. *)
LEMMA MachineIs ==
  ASSUME DeliveryInv, NEW m \in Machines
  PROVE  /\ ProcOK(tree[m], proc[m]) /\ TreeOK(tree[m], proc[m], remote.holds)
         /\ CutOK(tree[m], proc[m], unpushed) /\ LevelOK(tree[m], proc[m], undrafted)
         /\ tree[m] \in Trees /\ proc[m] \in Procs
         /\ tree[m].head \in Holding /\ tree[m].disk \in Holding
         /\ BranchOK(tree[m].head, unchecked) /\ BranchOK(tree[m].disk, unchecked)
         /\ proc[m].state \in States \cup {NoState} /\ proc[m].wrote \in SUBSET Artefacts
         /\ proc[m].pc \in Steps /\ proc[m].why \in Whys
         /\ proc[m].status \in Verdicts \cup {"none"}
BY InvParts DEF MachineOK, Procs

LEMMA DirtyIs ==
  ASSUME NEW m \in Machines
  PROVE  Dirty(m) <=> Soiled(tree[m], proc[m])
BY DEF Dirty, Soiled

(* A run that ends where it is, and says what it leaves behind. *)
LEMMA QuitKeeps ==
  ASSUME DeliveryInv, NEW m \in Machines, Quit(m), proc[m].pc # "idle",
         UNCHANGED <<remote, tree, pr, runs, unchecked, undrafted>>,
         faults' \in 0 .. MaxFaults, unpushed' \in BOOLEAN, unpushed => unpushed',
         tree[m].ahead \/ tree[m].touched \/ tree[m].disk # tree[m].head => unpushed'
  PROVE  DeliveryInv'
<1>1. proc' = [proc EXCEPT ![m] = AtRest]
  BY DEF Quit
<1>2. AtRest \in Procs
  BY DEF Procs, AtRest, Steps, Whys
<1>3. /\ ProcOK(tree[m], AtRest) /\ TreeOK(tree[m], AtRest, remote.holds)
      /\ CutOK(tree[m], AtRest, unpushed') /\ LevelOK(tree[m], AtRest, undrafted)
  BY MachineIs, AtRestOK
<1>4. QED
  BY <1>1, <1>2, <1>3, ProcOnly

LEMMA PauseKeeps ==
  ASSUME DeliveryInv, NEW m \in Machines, Pause(m)
  PROVE  DeliveryInv'
<1>1. /\ proc[m].pc = "loop" /\ Quit(m) /\ unpushed' = (unpushed \/ tree[m].ahead \/ Dirty(m))
      /\ UNCHANGED <<remote, tree, pr, runs, faults, unchecked, undrafted>>
  BY DEF Pause
<1>2. faults \in 0 .. MaxFaults /\ unpushed \in BOOLEAN /\ tree[m] \in Trees
  BY InvParts
<1>3. Dirty(m) <=> tree[m].touched \/ tree[m].disk # tree[m].head \/ proc[m].pc = "wrote"
  BY DEF Dirty
<1>4. unpushed' \in BOOLEAN
  BY <1>1, <1>2, <1>3 DEF Trees
<1>5. QED
  BY <1>1, <1>2, <1>3, <1>4, QuitKeeps

LEMMA RunStageKeeps ==
  ASSUME DeliveryInv, NEW m \in Machines, RunStage(m)
  PROVE  DeliveryInv'
<1>1. PICK ws \in SUBSET Artefacts : proc' = [proc EXCEPT ![m].pc = "wrote", ![m].wrote = ws]
  <2> DEFINE stage == proc[m].state.stage
             own == {a \in WriteScope(stage) \ WriteDenied(stage) : Part[a] = PairOf(stage)}
  <2>1. own \subseteq Artefacts
    BY ArtefactsAre DEF WriteScope
  <2>2. PICK other \in {{}} \cup {{a} : a \in {b \in Artefacts : Unruly /\ <<stage, b>> \in Others}} :
          proc' = [proc EXCEPT ![m].pc = "wrote", ![m].wrote = own \cup other]
    BY DEF RunStage
  <2> HIDE DEF own
  <2>3. own \cup other \in SUBSET Artefacts
    BY <2>1
  <2>4. QED
    BY <2>2, <2>3
<1>2. proc[m].pc = "loop" /\ UNCHANGED <<remote, tree, pr, runs, faults, unpushed, unchecked, undrafted>>
  BY DEF RunStage
<1> DEFINE q == [proc[m] EXCEPT !.pc = "wrote", !.wrote = ws]
<1>3. proc' = [proc EXCEPT ![m] = q]
  BY <1>1, InvParts
<1>4. q \in Procs /\ q.pc = "wrote" /\ q.state = proc[m].state
  BY MachineIs DEF Procs, Steps
<1> HIDE DEF q
<1>5. /\ ProcOK(tree[m], q) /\ TreeOK(tree[m], q, remote.holds)
      /\ CutOK(tree[m], q, unpushed) /\ LevelOK(tree[m], q, undrafted)
  BY <1>2, <1>4, MachineIs DEF ProcOK, InHand, TreeOK, CutOK, LevelOK
<1>6. faults \in 0 .. MaxFaults /\ unpushed \in BOOLEAN
  BY InvParts
<1>7. QED
  BY <1>2, <1>3, <1>4, <1>5, <1>6, ProcOnly

LEMMA FailedKeeps ==
  ASSUME DeliveryInv, NEW m \in Machines, Failed(m)
  PROVE  DeliveryInv'
<1> DEFINE q == [proc[m] EXCEPT !.pc = "commit", !.why = "failure"]
<1>1. /\ proc[m].pc = "failed" /\ proc' = [proc EXCEPT ![m] = q]
      /\ UNCHANGED <<remote, tree, pr, runs, faults, unpushed, unchecked, undrafted>>
  BY InvParts DEF Failed
<1>2. q \in Procs /\ q.pc = "commit" /\ q.why = "failure"
  BY MachineIs DEF Procs, Steps, Whys
<1> HIDE DEF q
<1>3. /\ ProcOK(tree[m], q) /\ TreeOK(tree[m], q, remote.holds)
      /\ CutOK(tree[m], q, unpushed) /\ LevelOK(tree[m], q, undrafted)
  BY <1>1, <1>2, MachineIs DEF ProcOK, TreeOK, CutOK, LevelOK
<1>4. faults \in 0 .. MaxFaults /\ unpushed \in BOOLEAN
  BY InvParts
<1>5. QED
  BY <1>1, <1>2, <1>3, <1>4, ProcOnly

LEMMA ScreenshotsKeep ==
  ASSUME DeliveryInv, NEW m \in Machines, Screenshots(m)
  PROVE  DeliveryInv'
<1>1. proc[m].pc = "shots" /\ UNCHANGED <<remote, tree, pr, runs, faults, unpushed, unchecked, undrafted>>
  BY DEF Screenshots
<1>2. faults \in 0 .. MaxFaults /\ unpushed \in BOOLEAN
  BY InvParts
<1>3. CASE Quit(m)
  <2>1. tree[m].ahead \/ tree[m].touched \/ tree[m].disk # tree[m].head => unpushed
    BY <1>1, MachineIs DEF CutOK, Soiled
  <2>2. QED
    BY <1>1, <1>2, <1>3, <2>1, QuitKeeps
<1>4. ASSUME NEW q \in Procs, proc' = [proc EXCEPT ![m] = q],
             q.pc = "pr" \/ (q.pc = "commit" /\ q.why \in {"shots", "unshots"})
      PROVE  DeliveryInv'
  <2>1. Done(tree[m].disk)
    BY <1>1, MachineIs DEF ProcOK
  <2>2. ProcOK(tree[m], q)
    BY <1>4, <2>1 DEF ProcOK
  <2>3. TreeOK(tree[m], q, remote.holds)
    BY <1>1, MachineIs DEF TreeOK
  <2>4. CutOK(tree[m], q, unpushed)
    BY <1>1, <1>4, MachineIs DEF CutOK, Soiled
  <2>5. LevelOK(tree[m], q, undrafted)
    BY <1>1, MachineIs DEF LevelOK
  <2>6. QED
    BY <1>1, <1>2, <1>4, <2>2, <2>3, <2>4, <2>5, ProcOnly
<1> DEFINE a == [proc[m] EXCEPT !.pc = "pr"]
           B(why) == [proc[m] EXCEPT !.pc = "commit", !.why = why]
<1>5. \/ Quit(m) \/ proc' = [proc EXCEPT ![m] = a]
      \/ \E why \in {"shots", "unshots"} : proc' = [proc EXCEPT ![m] = B(why)]
  BY InvParts DEF Screenshots, Goto
<1>6. a \in Procs /\ a.pc = "pr"
  BY MachineIs DEF Procs, Steps
<1>7. \A why \in {"shots", "unshots"} : B(why) \in Procs /\ B(why).pc = "commit" /\ B(why).why = why
  BY MachineIs DEF Procs, Steps, Whys
<1> HIDE DEF a, B
<1>8. QED
  BY <1>3, <1>4, <1>5, <1>6, <1>7

LEMMA FaultIs ==
  ASSUME DeliveryInv, Fault
  PROVE  faults' \in 0 .. MaxFaults
<1>1. faults \in 0 .. MaxFaults
  BY InvParts
<1>2. faults < MaxFaults /\ faults' = faults + 1
  BY <1>1, DeliveryAssumption DEF Fault
<1>3. QED
  BY <1>1, <1>2, DeliveryAssumption

LEMMA LoadKeeps ==
  ASSUME DeliveryInv, NEW m \in Machines, Load(m)
  PROVE  DeliveryInv'
<1> DEFINE c == tree[m].disk
           saved == c.saved
           k == [(IF saved = NoState THEN FreshState ELSE saved) EXCEPT !.status = "running"]
           pc == IF k.stage = "done" THEN "accept" ELSE "loop"
           t == [tree[m] EXCEPT !.disk = [c EXCEPT !.saved = k]]
           q == [proc[m] EXCEPT !.state = k, !.pc = pc]
<1>1. proc[m].pc \in {"go", "load"} /\ UNCHANGED <<remote, pr, runs, faults, unpushed, unchecked, undrafted>>
  BY DEF Load
<1>2. /\ tree \in [Machines -> Trees] /\ proc \in [Machines -> Procs]
      /\ faults \in 0 .. MaxFaults /\ unpushed \in BOOLEAN /\ unchecked \in BOOLEAN
      /\ undrafted \in BOOLEAN
  BY InvParts
<1>3. CASE Done(c)
  <2>1. AlreadyDone(m)
    BY <1>3 DEF Load, Done
  <2>2. proc[m].pc = "go"
    BY <1>1, <1>3, MachineIs DEF ProcOK, Done
  <2>3. tree[m].ahead \/ tree[m].touched \/ tree[m].disk # tree[m].head => unpushed
    BY <1>3, <2>2, MachineIs DEF CutOK, Soiled
  <2>4. CASE Publishing
    <3> DEFINE g == [proc[m] EXCEPT !.pc = "shots"]
    <3>1. proc' = [proc EXCEPT ![m] = g] /\ UNCHANGED tree
      BY <2>1, <2>4, GotoIs DEF AlreadyDone
    <3>2. g \in Procs /\ g.pc = "shots"
      BY MachineIs DEF Procs, Steps
    <3> HIDE DEF g
    <3>3. ProcOK(tree[m], g) /\ CutOK(tree[m], g, unpushed)
      BY <1>3, <2>3, <3>2 DEF ProcOK, CutOK, Soiled
    <3>4. TreeOK(tree[m], g, remote.holds) /\ LevelOK(tree[m], g, undrafted)
      BY <2>2, <3>2, MachineIs DEF TreeOK, LevelOK
    <3>5. QED
      BY <1>1, <1>2, <3>1, <3>2, <3>3, <3>4, ProcOnly
  <2>5. CASE ~Publishing
    <3>1. Quit(m) /\ UNCHANGED tree
      BY <2>1, <2>5 DEF AlreadyDone
    <3>2. QED
      BY <1>1, <1>2, <2>3, <3>1, QuitKeeps
  <2>6. QED
    BY <2>4, <2>5
<1>4. CASE ~Done(c)
  <2>1. tree' = [tree EXCEPT ![m].disk.saved = k] /\ proc' = [proc EXCEPT ![m].state = k, ![m].pc = pc]
    BY <1>4 DEF Load, Done
  <2>2. c \in Holding /\ saved \in States \cup {NoState} /\ BranchOK(c, unchecked)
    BY MachineIs DEF Holding
  <2>3. /\ k \in States /\ k.status = "running"
        /\ \/ saved = NoState /\ k.stage = "plan-writer"
           \/ /\ saved \in States /\ k.stage = saved.stage
              /\ k.review = saved.review /\ k.pending = saved.pending
    <3>1. CASE saved = NoState
      <4>1. FreshState \in States /\ FreshState.stage = "plan-writer"
        <5>1. NoFile \in Files
          BY DEF NoFile, Files
        <5>2. "plan-writer" \in {Stages[i] : i \in 1 .. Len(Stages)}
          BY StageNamesAre DEF StageNames
        <5>3. MaxRounds \in Nat
          BY SettingsAssumption
        <5>4. QED
          BY <5>1, <5>2, <5>3 DEF FreshState, States
      <4>2. QED
        BY <3>1, <4>1 DEF States
    <3>2. CASE saved # NoState
      BY <2>2, <3>2 DEF States
    <3>3. QED
      BY <3>1, <3>2
  <2> HIDE DEF k
  <2>4. tree' = [tree EXCEPT ![m] = t] /\ proc' = [proc EXCEPT ![m] = q]
    BY <1>2, <2>1
  <2>5. /\ [c EXCEPT !.saved = k] \in Holding /\ [c EXCEPT !.saved = k].saved = k
    BY <2>2, <2>3, SavedIs
  <2>6. BranchOK([c EXCEPT !.saved = k], unchecked)
    BY <1>2, <2>2, <2>3, LoadedOK
  <2>7. /\ t \in Trees /\ t.disk = [c EXCEPT !.saved = k] /\ t.head = tree[m].head
        /\ t.there = tree[m].there /\ t.level = tree[m].level /\ t.ahead = tree[m].ahead
    <3>1. tree[m] \in Trees
      BY <1>2
    <3> HIDE DEF c
    <3>2. QED
      BY <2>5, <3>1 DEF Trees
  <2>8. q \in Procs /\ q.pc = pc /\ q.state = k
    BY <1>2, <2>3 DEF Procs, Steps
  <2>9. k # NoState
    BY <2>3, NoStateIs
  <2> HIDE DEF t, q
  <2>10. ProcOK(t, q)
    BY <2>3, <2>5, <2>7, <2>8, <2>9 DEF ProcOK, InHand
  <2>11. TreeOK(t, q, remote.holds)
    BY <1>1, <2>7, MachineIs DEF TreeOK
  <2>12. CutOK(t, q, unpushed) /\ LevelOK(t, q, undrafted)
    BY <2>8 DEF CutOK, LevelOK
  <2>13. BranchOK(t.head, unchecked) /\ BranchOK(t.disk, unchecked)
    BY <2>6, <2>7, MachineIs
  <2>14. QED
    BY <1>1, <1>2, <1>4, <2>4, <2>7, <2>8, <2>10, <2>11, <2>12, <2>13, PlainRun
<1>5. QED
  BY <1>3, <1>4

LEMMA ForgetKeeps ==
  ASSUME DeliveryInv, NEW m \in Machines, Forget(m)
  PROVE  DeliveryInv'
<1> DEFINE c == tree[m].disk
           f == [Base EXCEPT !.cites = c.cites, !.shots = c.shots]
           pc == IF Publishing THEN "draft" ELSE "load"
           t == [tree[m] EXCEPT !.disk = f]
           q == [proc[m] EXCEPT !.pc = pc]
<1>1. /\ proc[m].pc = "go" /\ UNCHANGED <<remote, pr, runs, faults, unpushed, unchecked>>
      /\ undrafted' = (undrafted \/ pr = "ready")
  BY DEF Forget
<1>2. /\ tree \in [Machines -> Trees] /\ proc \in [Machines -> Procs]
      /\ faults \in 0 .. MaxFaults /\ unpushed \in BOOLEAN /\ unchecked \in BOOLEAN
      /\ undrafted \in BOOLEAN
  BY InvParts
<1>3. tree' = [tree EXCEPT ![m] = t] /\ proc' = [proc EXCEPT ![m] = q]
  BY <1>2 DEF Forget
<1>4. f \in Holding /\ f.saved = NoState /\ f.owed = Base.owed
  <2>1. c \in Holding
    BY MachineIs
  <2>2. c.cites \in BOOLEAN /\ c.shots \in {"none", "in", "out"}
    BY <2>1 DEF Holding
  <2>3. Base \in Holding /\ Base.saved = NoState
    BY NoStateIs
  <2> HIDE DEF c
  <2>4. QED
    BY <2>2, <2>3 DEF Holding
<1> HIDE DEF f
<1>5. BranchOK(f, unchecked)
  BY <1>2, <1>4, BaseOK
<1>6. /\ t \in Trees /\ t.disk = f /\ t.head = tree[m].head
      /\ t.there = tree[m].there /\ t.level = tree[m].level /\ t.ahead = tree[m].ahead
  BY <1>2, <1>4 DEF Trees
<1>7. q \in Procs /\ q.pc = pc
  BY <1>2 DEF Procs, Steps
<1> HIDE DEF t, q
<1>8. ProcOK(t, q) /\ CutOK(t, q, unpushed) /\ LevelOK(t, q, undrafted')
  BY <1>4, <1>6, <1>7 DEF ProcOK, CutOK, LevelOK
<1>9. TreeOK(t, q, remote.holds)
  BY <1>1, <1>6, MachineIs DEF TreeOK
<1>10. BranchOK(t.head, unchecked) /\ BranchOK(t.disk, unchecked)
  BY <1>5, <1>6, MachineIs
<1>11. undrafted' \in BOOLEAN
  BY <1>1, <1>2
<1>12. QED
  BY <1>1, <1>2, <1>3, <1>6, <1>7, <1>8, <1>9, <1>10, <1>11, PlainRun

LEMMA BackToDraftKeeps ==
  ASSUME DeliveryInv, NEW m \in Machines, BackToDraft(m)
  PROVE  DeliveryInv'
<1> DEFINE q == [proc[m] EXCEPT !.pc = "load"]
<1>1. /\ proc[m].pc = "draft" /\ proc' = [proc EXCEPT ![m] = q]
      /\ UNCHANGED <<remote, tree, runs, unpushed, unchecked>>
  BY GotoIs DEF BackToDraft
<1>2. /\ tree \in [Machines -> Trees] /\ proc \in [Machines -> Procs]
      /\ faults \in 0 .. MaxFaults /\ unpushed \in BOOLEAN /\ unchecked \in BOOLEAN
      /\ undrafted \in BOOLEAN /\ runs \in 0 .. MaxRuns /\ pr \in {"none", "draft", "ready"}
  BY InvParts
<1>3. q \in Procs /\ q.pc = "load"
  BY <1>2 DEF Procs, Steps
<1>4. \A n \in Machines : proc'[n] = IF n = m THEN q ELSE proc[n]
  BY <1>1, <1>2
<1> HIDE DEF q
<1>5. \A raced : ProcOK(tree[m], q) /\ CutOK(tree[m], q, unpushed) /\ LevelOK(tree[m], q, raced)
  BY <1>1, <1>3, MachineIs DEF ProcOK, CutOK, LevelOK
<1>6. TreeOK(tree[m], q, remote.holds)
  BY <1>1, MachineIs DEF TreeOK
<1>7. CASE pr' = (IF pr = "ready" THEN "draft" ELSE pr) /\ undrafted' = Racing(m) /\ UNCHANGED faults
  <2>1. undrafted' <=> \E n \in Machines \ {m} : proc[n].pc # "idle"
    BY <1>7 DEF Racing
  <2>2. undrafted' \in BOOLEAN
    BY <1>7 DEF Racing
  <2>3. AloneInv'
    BY <1>4, <2>1 DEF AloneInv
  <2>4. ReadyInv'
    BY <1>7 DEF ReadyInv
  <2>5. tree' = [tree EXCEPT ![m] = tree[m]] /\ tree[m] \in Trees
    BY <1>1, <1>2
  <2>6. BranchOK(tree[m].head, unchecked) /\ BranchOK(tree[m].disk, unchecked)
    BY MachineIs
  <2>8. pr' \in {"none", "draft", "ready"}
    BY <1>2, <1>7
  <2>9. undrafted => undrafted' \/ \A n \in Machines \ {m} : proc[n].pc = "idle"
    BY <2>1
  <2>10. QED
    BY <1>1, <1>2, <1>3, <1>5, <1>6, <1>7, <2>2, <2>3, <2>4, <2>5, <2>6, <2>8, <2>9, RunKeeps
<1>8. CASE Fault /\ UNCHANGED <<pr, undrafted>>
  <2>1. faults' \in 0 .. MaxFaults
    BY <1>8, FaultIs
  <2>2. QED
    BY <1>1, <1>2, <1>3, <1>5, <1>6, <1>8, <2>1, ProcOnly
<1>9. QED
  BY <1>7, <1>8 DEF BackToDraft

LEMMA LevelIs ==
  ASSUME DeliveryInv, NEW m \in Machines
  PROVE  LET t == tree[m]
         IN  /\ Level(m) = "none" => t.there /\ t.level
             /\ Level(m) = "new" => ~t.there /\ ~remote.there
             /\ Level(m) \notin {"stop", "none", "new"} =>
                  (~t.there /\ remote.there) \/ (t.there /\ ~t.ahead /\ ~Dirty(m))
<1>1. /\ tree[m].there \in BOOLEAN /\ tree[m].level \in BOOLEAN /\ tree[m].ahead \in BOOLEAN
      /\ remote.there \in BOOLEAN
  BY InvParts DEF Trees
<1>2. Dirty(m) \in BOOLEAN
  BY <1>1, InvParts DEF Dirty, Trees
<1>3. QED
  BY <1>1, <1>2 DEF Level

LEMMA OpenKeeps ==
  ASSUME DeliveryInv, NEW m \in Machines, Open(m)
  PROVE  DeliveryInv'
<1> DEFINE g == [proc[m] EXCEPT !.pc = "go"]
<1>1. /\ proc[m].pc = "idle" /\ UNCHANGED <<remote, pr, faults, unpushed, unchecked>>
      /\ undrafted' = (undrafted \/ Racing(m))
  BY DEF Open
<1>2. /\ tree \in [Machines -> Trees] /\ proc \in [Machines -> Procs]
      /\ faults \in 0 .. MaxFaults /\ unpushed \in BOOLEAN /\ unchecked \in BOOLEAN
      /\ undrafted \in BOOLEAN /\ runs \in 0 .. MaxRuns /\ pr \in {"none", "draft", "ready"}
  BY InvParts
<1>3. runs' \in 0 .. MaxRuns
  <2>1. runs' = runs + 1 /\ (runs < MaxRuns \/ runs < Disputed)
    BY DEF Open
  <2>2. QED
    BY <1>2, <2>1, DeliveryAssumption
<1>4. Racing(m) <=> \E n \in Machines \ {m} : proc[n].pc # "idle"
  BY DEF Racing
<1>5. undrafted' \in BOOLEAN
  BY <1>1, <1>2 DEF Racing
<1>6. ASSUME NEW t \in Trees, NEW q \in Procs,
             tree' = [tree EXCEPT ![m] = t], proc' = [proc EXCEPT ![m] = q],
             BranchOK(t.head, unchecked), BranchOK(t.disk, unchecked),
             TreeOK(t, q, remote.holds), CutOK(t, q, unpushed),
             q.pc = "idle" \/ (q.pc = "go" /\ t.level),
             q.pc = "go" /\ Done(remote.holds) /\ ~unpushed => Done(t.disk)
      PROVE  DeliveryInv'
  <2>1. \A n \in Machines : /\ tree'[n] = IF n = m THEN t ELSE tree[n]
                            /\ proc'[n] = IF n = m THEN q ELSE proc[n]
    BY <1>2, <1>6
  <2>2. ProcOK(t, q) /\ LevelOK(t, q, undrafted')
    BY <1>6 DEF ProcOK, LevelOK
  <2>3. AloneInv'
    <3>1. AloneInv
      BY DEF DeliveryInv
    <3>2. QED
      BY <1>1, <1>2, <1>4, <2>1 DEF AloneInv
  <2>4. ReadyInv'
    <3> SUFFICES ASSUME pr = "ready", ~undrafted', ~unpushed
                 PROVE  /\ Done(remote.holds)
                        /\ \A n \in Machines : proc'[n].pc # "idle" => Done(tree'[n].disk)
      BY <1>1 DEF ReadyInv
    <3>1. Done(remote.holds) /\ \A n \in Machines : proc[n].pc # "idle" => Done(tree[n].disk)
      BY <1>1 DEF DeliveryInv, ReadyInv
    <3>2. proc'[m].pc # "idle" => Done(tree'[m].disk)
      BY <1>6, <2>1, <3>1
    <3>3. QED
      BY <2>1, <3>1, <3>2
  <2>5. QED
    BY <1>1, <1>2, <1>3, <1>5, <1>6, <2>2, <2>3, <2>4, RunKeeps
<1>7. /\ tree[m] \in Trees /\ proc[m] \in Procs /\ remote.holds \in Holding
      /\ BranchOK(tree[m].head, unchecked) /\ BranchOK(tree[m].disk, unchecked)
      /\ BranchOK(remote.holds, unchecked)
  BY <1>2, InvParts
<1>8. g \in Procs /\ g.pc = "go"
  BY <1>7 DEF Procs, Steps
<1>9. tree[m].ahead \/ Soiled(tree[m], proc[m]) => unpushed
  BY <1>1, MachineIs DEF CutOK
<1>10. TreeOK(tree[m], proc[m], remote.holds)
  BY MachineIs
<1>11. Goto(m, "go") => proc' = [proc EXCEPT ![m] = g]
  BY GotoIs
<1> HIDE DEF g
<1>12. CASE Level(m) = "stop"
  <2>1. UNCHANGED <<tree, proc>>
    BY <1>12 DEF Open
  <2>2. tree' = [tree EXCEPT ![m] = tree[m]] /\ proc' = [proc EXCEPT ![m] = proc[m]]
    BY <1>2, <2>1
  <2>3. QED
    BY <1>1, <1>6, <1>7, <1>10, <2>2, MachineIs
<1>13. CASE Level(m) = "none"
  <2>1. proc' = [proc EXCEPT ![m] = g] /\ UNCHANGED tree
    BY <1>11, <1>13 DEF Open
  <2>2. tree' = [tree EXCEPT ![m] = tree[m]]
    BY <1>2, <2>1
  <2>3. tree[m].there /\ tree[m].level
    BY <1>13, LevelIs
  <2>4. TreeOK(tree[m], g, remote.holds)
    BY <1>10, <2>3 DEF TreeOK
  <2>5. CutOK(tree[m], g, unpushed)
    BY <1>1, <1>8, <1>9 DEF CutOK, Soiled
  <2>6. ~unpushed => tree[m].head = remote.holds /\ tree[m].disk = tree[m].head
    BY <1>9, <1>10, <2>3 DEF TreeOK, Soiled
  <2>7. QED
    BY <1>6, <1>7, <1>8, <2>1, <2>2, <2>3, <2>4, <2>5, <2>6
<1>14. CASE Level(m) = "new"
  <2> DEFINE t == [tree[m] EXCEPT !.there = TRUE, !.touched = TRUE]
  <2>1. tree' = [tree EXCEPT ![m] = t] /\ proc' = [proc EXCEPT ![m] = g]
    BY <1>2, <1>11, <1>14 DEF Open
  <2>2. ~tree[m].there /\ ~remote.there
    BY <1>14, LevelIs
  <2>3. tree[m] = NoTree /\ remote.holds = Base
    BY <1>10, <2>2 DEF TreeOK, DeliveryInv, RemoteInv
  <2>4. /\ t \in Trees /\ t.there /\ t.level /\ t.head = Base /\ t.disk = Base
    <3>1. tree[m].level /\ tree[m].head = Base /\ tree[m].disk = Base
      BY <2>3 DEF NoTree
    <3>2. /\ t \in Trees /\ t.there /\ t.level = tree[m].level
          /\ t.head = tree[m].head /\ t.disk = tree[m].disk
      BY <1>7 DEF Trees
    <3>3. QED
      BY <3>1, <3>2
  <2> HIDE DEF t
  <2>5. TreeOK(t, g, remote.holds)
    BY <2>3, <2>4 DEF TreeOK
  <2>6. ~Done(Base)
    BY NoStateIs DEF Done
  <2>7. CutOK(t, g, unpushed)
    BY <1>8, <2>4, <2>6 DEF CutOK
  <2>8. BranchOK(t.head, unchecked) /\ BranchOK(t.disk, unchecked)
    BY <1>7, <2>3, <2>4
  <2>9. QED
    BY <1>6, <1>8, <2>1, <2>3, <2>4, <2>5, <2>6, <2>7, <2>8
<1>15. CASE Level(m) \notin {"stop", "none", "new"}
  <2> DEFINE t == [tree[m] EXCEPT !.there = TRUE, !.level = TRUE,
                                  !.head = remote.holds, !.disk = remote.holds]
  <2>1. tree' = [tree EXCEPT ![m] = t] /\ proc' = [proc EXCEPT ![m] = g]
    BY <1>2, <1>11, <1>15 DEF Open
  <2>2. ~tree[m].ahead /\ ~tree[m].touched
    <3>1. CASE ~tree[m].there
      BY <1>10, <3>1 DEF TreeOK, NoTree
    <3>2. CASE tree[m].there
      BY <1>15, <3>2, LevelIs DEF Dirty
    <3>3. QED
      BY <3>1, <3>2
  <2>3. /\ t \in Trees /\ t.there /\ t.level /\ t.head = remote.holds /\ t.disk = remote.holds
        /\ ~t.ahead /\ ~t.touched
    BY <1>7, <2>2 DEF Trees
  <2> HIDE DEF t
  <2>4. TreeOK(t, g, remote.holds) /\ CutOK(t, g, unpushed)
    BY <1>8, <2>3 DEF TreeOK, CutOK, Soiled
  <2>5. QED
    BY <1>6, <1>7, <1>8, <2>1, <2>3, <2>4
<1>16. QED
  BY <1>12, <1>13, <1>14, <1>15

LEMMA SameReview ==
  ASSUME NEW c, NEW d, d.saved = c.saved, d.approved = c.approved, d.based = c.based,
         d.replanned = c.replanned,
         d.owed = c.owed, NEW cut, BranchOK(c, cut)
  PROVE  BranchOK(d, cut)
<1>1. SaidDone(d) /\ Answered(d)
  BY SameWords DEF BranchOK
<1>2. ReviewedSoFar(c) => ReviewedSoFar(d)
  BY DEF ReviewedSoFar, Reviewed, BuiltOn
<1>3. QED
  BY <1>1, <1>2 DEF BranchOK

(* What set_aside leaves of a pass is reviewed work, or a cut that is said. *)
LEMMA CheckRulesKeep ==
  ASSUME DeliveryInv, NEW m \in Machines, CheckRules(m)
  PROVE  DeliveryInv'
<1> DEFINE c == tree[m].disk
           stage == proc[m].state.stage
           wrote == proc[m].wrote
           strays == Strays(stage, wrote)
           disk == Rewritten(c, stage, wrote \ strays)
           evidence == tree[m].evidence \/ stage = "acceptance-reviewer"
           T(d) == [tree[m] EXCEPT !.disk = d, !.touched = TRUE, !.evidence = evidence]
<1>1. proc[m].pc = "wrote" /\ UNCHANGED <<remote, pr, runs, faults, unpushed, undrafted>>
  BY DEF CheckRules
<1>2. /\ tree \in [Machines -> Trees] /\ proc \in [Machines -> Procs]
      /\ faults \in 0 .. MaxFaults /\ unpushed \in BOOLEAN /\ unchecked \in BOOLEAN
      /\ undrafted \in BOOLEAN
  BY InvParts
<1>3. /\ c \in Holding /\ wrote \in SUBSET Artefacts /\ BranchOK(c, unchecked) /\ tree[m] \in Trees
      /\ proc[m] \in Procs /\ BranchOK(tree[m].head, unchecked)
  BY MachineIs
<1>4. c.saved = proc[m].state /\ c.saved # NoState /\ stage # "done" /\ proc[m].state.status = "running"
  BY <1>1, MachineIs DEF ProcOK, InHand
<1>5. c.saved \in States /\ stage \in Working /\ c.saved.stage = stage
  BY <1>3, <1>4, NoStateIs DEF Holding, Working
<1>6. strays \in SUBSET Artefacts /\ wrote \ strays \in SUBSET Artefacts /\ Strays(stage, wrote \ strays) = {}
  BY <1>3 DEF Strays
<1>7. ~Done(c)
  BY <1>4 DEF Done
<1>8. evidence \in BOOLEAN
  BY <1>3 DEF Trees
<1> HIDE DEF c, wrote, strays
<1>9. disk \in Holding /\ disk.saved = c.saved /\ disk.owed = c.owed
  BY <1>3, <1>6, RewrittenIs
<1>10. BranchOK(disk, unchecked)
  <2>1. SaidDone(disk) /\ Answered(disk)
    BY <1>3, <1>9, SameWords DEF BranchOK
  <2>2. ReviewedSoFar(c) => ReviewedSoFar(disk)
    BY <1>3, <1>4, <1>5, <1>6, ScopeKeeps
  <2>3. QED
    BY <1>3, <2>1, <2>2 DEF BranchOK
<1> HIDE DEF disk
<1>11. \A d \in Holding : /\ T(d) \in Trees /\ T(d).disk = d /\ T(d).head = tree[m].head
                          /\ T(d).there = tree[m].there /\ T(d).level = tree[m].level
                          /\ T(d).ahead = tree[m].ahead
  <2> HIDE DEF evidence
  <2>1. QED
    BY <1>3, <1>8 DEF Trees
<1> HIDE DEF evidence
<1>12. ASSUME NEW d \in Holding, d.saved = c.saved, NEW q \in Procs, q.pc \in {"ran", "failed"},
              tree' = [tree EXCEPT ![m] = T(d)], proc' = [proc EXCEPT ![m] = q],
              unchecked' \in BOOLEAN, unchecked => unchecked', BranchOK(d, unchecked'),
              q.state = proc[m].state, q.pc = "ran" => May(stage, q.status)
       PROVE  DeliveryInv'
  <2> DEFINE t == T(d)
  <2>1. /\ t \in Trees /\ t.disk = d /\ t.head = tree[m].head /\ t.there = tree[m].there
        /\ t.level = tree[m].level /\ t.ahead = tree[m].ahead
    BY <1>11
  <2> HIDE DEF t, T
  <2>2. ProcOK(t, q)
    BY <1>4, <1>12, <2>1 DEF ProcOK, InHand
  <2>3. CutOK(t, q, unpushed) /\ LevelOK(t, q, undrafted)
    BY <1>12 DEF CutOK, LevelOK
  <2>4. TreeOK(t, q, remote.holds)
    BY <1>1, <2>1, MachineIs DEF TreeOK
  <2>5. BranchOK(t.head, unchecked') /\ BranchOK(t.disk, unchecked')
    BY <1>2, <1>3, <1>12, <2>1, BranchLater
  <2>6. tree' = [tree EXCEPT ![m] = t]
    BY <1>12 DEF t
  <2>7. ~Done(tree[m].disk) /\ proc[m].pc # "idle"
    BY <1>1, <1>7 DEF c
  <2>8. QED
    BY <1>1, <1>2, <1>12, <2>1, <2>2, <2>3, <2>4, <2>5, <2>6, <2>7, PlainRun
<1>13. ASSUME NEW back \in SetAside(m, disk, strays),
              tree' = [tree EXCEPT ![m].disk = back, ![m].touched = TRUE,
                                   ![m].evidence = @ \/ stage = "acceptance-reviewer"],
              unchecked' = (unchecked \/ back # disk),
              proc' = [proc EXCEPT ![m].pc = "failed", ![m].wrote = {}]
       PROVE  DeliveryInv'
  <2> DEFINE q == [proc[m] EXCEPT !.pc = "failed", !.wrote = {}]
  <2>1. back = disk \/ back = Changed(disk, PairsOf(strays))
    BY <1>13 DEF SetAside
  <2>2. back \in Holding /\ back.saved = c.saved /\ back.owed = disk.owed
    <3>1. PairsOf(strays) \in SUBSET Pairs
      BY <1>6, ArtefactsAre DEF PairsOf
    <3>2. QED
      BY <1>9, <2>1, <3>1, ChangedIs
  <2>3. unchecked' \in BOOLEAN
    BY <1>2, <1>13
  <2>4. BranchOK(back, unchecked')
    <3>1. CASE back = disk
      BY <1>2, <1>10, <1>13, <2>3, <3>1, BranchLater
    <3>2. CASE back # disk
      <4>1. SaidDone(back) /\ Answered(back)
        BY <1>9, <1>10, <2>2, SameWords DEF BranchOK
      <4>2. QED
        BY <1>13, <3>2, <4>1 DEF BranchOK
    <3>3. QED
      BY <3>1, <3>2
  <2>5. q \in Procs /\ q.pc = "failed" /\ q.state = proc[m].state
    BY <1>3 DEF Procs, Steps
  <2>6. proc' = [proc EXCEPT ![m] = q] /\ tree' = [tree EXCEPT ![m] = T(back)]
    BY <1>2, <1>13 DEF evidence
  <2> HIDE DEF q, T
  <2>7. QED
    BY <1>12, <1>13, <2>2, <2>3, <2>4, <2>5, <2>6
<1>14. ASSUME NEW status \in Verdicts, NEW cites \in BOOLEAN, May(stage, status),
              tree' = [tree EXCEPT ![m].disk = [disk EXCEPT !.cites = cites], ![m].touched = TRUE,
                                   ![m].evidence = @ \/ stage = "acceptance-reviewer"],
              UNCHANGED unchecked,
              proc' = [proc EXCEPT ![m].pc = "ran", ![m].status = status, ![m].wrote = {}]
       PROVE  DeliveryInv'
  <2> DEFINE q == [proc[m] EXCEPT !.pc = "ran", !.status = status, !.wrote = {}]
             d == [disk EXCEPT !.cites = cites]
  <2>1. /\ d \in Holding /\ d.saved = disk.saved /\ d.owed = disk.owed
        /\ d.approved = disk.approved /\ d.based = disk.based /\ d.replanned = disk.replanned
    BY <1>9 DEF Holding
  <2>2. q \in Procs /\ q.pc = "ran" /\ q.state = proc[m].state /\ q.status = status
    BY <1>3 DEF Procs, Steps
  <2>3. proc' = [proc EXCEPT ![m] = q] /\ tree' = [tree EXCEPT ![m] = T(d)]
    BY <1>2, <1>14 DEF evidence
  <2> HIDE DEF q, d, T
  <2>4. BranchOK(d, unchecked)
    BY <1>10, <2>1, SameReview
  <2>5. QED
    BY <1>2, <1>9, <1>12, <1>14, <2>1, <2>2, <2>3, <2>4
<1>15. CASE \E back \in SetAside(m, disk, strays) :
              /\ tree' = [tree EXCEPT ![m].disk = back, ![m].touched = TRUE,
                                      ![m].evidence = @ \/ stage = "acceptance-reviewer"]
              /\ unchecked' = (unchecked \/ back # disk)
              /\ proc' = [proc EXCEPT ![m].pc = "failed", ![m].wrote = {}]
  BY <1>13, <1>15
<1>16. CASE \E status \in Verdicts, cites \in BOOLEAN :
              /\ May(stage, status)
              /\ tree' = [tree EXCEPT ![m].disk = [disk EXCEPT !.cites = cites], ![m].touched = TRUE,
                                      ![m].evidence = @ \/ stage = "acceptance-reviewer"]
              /\ UNCHANGED unchecked
              /\ proc' = [proc EXCEPT ![m].pc = "ran", ![m].status = status, ![m].wrote = {}]
  BY <1>14, <1>16
<1>17. \A ending : ResultOf(ending) \subseteq Verdicts
  BY DEF ResultOf, Returned, Verdicts
<1> DEFINE Left(d) == [tree EXCEPT ![m].disk = d, ![m].touched = TRUE,
                                  ![m].evidence = @ \/ stage = "acceptance-reviewer"]
<1>18. \/ \E back \in SetAside(m, disk, strays) :
            /\ tree' = Left(back)
            /\ unchecked' = (unchecked \/ back # disk)
            /\ proc' = [proc EXCEPT ![m].pc = "failed", ![m].wrote = {}]
       \/ \E ending \in Passes :
            \E status \in ResultOf(ending), cites \in BOOLEAN :
              /\ strays = {} /\ May(stage, status)
              /\ cites => stage = "acceptance-reviewer" /\ status = "approved"
              /\ tree' = Left([disk EXCEPT !.cites = cites])
              /\ proc' = [proc EXCEPT ![m].pc = "ran", ![m].status = status, ![m].wrote = {}]
              /\ UNCHANGED unchecked
  <2> HIDE DEF Left
  <2>1. QED
    BY Zenon DEF CheckRules, c, wrote, strays, disk, Left
<1>19. CASE \E back \in SetAside(m, disk, strays) :
            /\ tree' = Left(back)
            /\ unchecked' = (unchecked \/ back # disk)
            /\ proc' = [proc EXCEPT ![m].pc = "failed", ![m].wrote = {}]
  BY <1>15, <1>19
<1>20. CASE \E ending \in Passes :
            \E status \in ResultOf(ending), cites \in BOOLEAN :
              /\ strays = {} /\ May(stage, status)
              /\ cites => stage = "acceptance-reviewer" /\ status = "approved"
              /\ tree' = Left([disk EXCEPT !.cites = cites])
              /\ proc' = [proc EXCEPT ![m].pc = "ran", ![m].status = status, ![m].wrote = {}]
              /\ UNCHANGED unchecked
  BY <1>16, <1>17, <1>20
<1>21. QED
  BY <1>18, <1>19, <1>20

(* The last stage is left by an approval, which stops nothing. *)
LEMMA StopsEarly ==
  ASSUME NEW s \in States, s.stage \in Working, NEW status \in Verdicts, May(s.stage, status),
         Advance(s.stage, status, s).stage = "done"
  PROVE  ~Stops(s.stage, status, s)
<1>1. status # "needs_human"
  BY AdvanceIs DEF Working
<1>2. status # "changes_requested"
  <2>1. ASSUME status = "changes_requested"
        PROVE  FALSE
    <3>1. PairOf(s.stage) # "acceptance" /\ Advance(s.stage, status, s).stage = Writer[PairOf(s.stage)]
      BY <2>1, AdvanceIs
    <3>2. PairOf(s.stage) \in Written
      BY <3>1, FilesAre DEF Written
    <3>3. Writer[PairOf(s.stage)] # "done"
      BY <3>2, RolesAre DEF Working
    <3>4. QED
      BY <3>1, <3>3
  <2>2. QED
    BY <2>1
<1>3. status # "send_back"
  <2>1. ASSUME status = "send_back"
        PROVE  FALSE
    <3>1. /\ PairOf(s.stage) # "plan"
          /\ Advance(s.stage, status, s).stage = Writer[Earlier[PairOf(s.stage)]]
      BY <2>1, AdvanceIs
    <3>2. Earlier[PairOf(s.stage)] \in Written
      BY <3>1, FilesAre DEF Written, Earlier, Pairs
    <3>3. Writer[Earlier[PairOf(s.stage)]] # "done"
      BY <3>2, RolesAre DEF Working
    <3>4. QED
      BY <3>1, <3>3
  <2>2. QED
    BY <2>1
<1>4. QED
  BY <1>1, <1>2, <1>3 DEF Stops

LEMMA SaveKeeps ==
  ASSUME DeliveryInv, NEW m \in Machines, Save(m)
  PROVE  DeliveryInv'
<1> DEFINE c == tree[m].disk
           s == proc[m].state
           status == proc[m].status
           moved == Advance(s.stage, status, s)
           stop == Stops(s.stage, status, s)
           k == IF stop THEN StopForHuman(moved) ELSE moved
           judged == Judged(c, s.stage, status, s)
           e == [judged EXCEPT !.saved = k]
           pc == IF moved.stage = "done" THEN "accept" ELSE "commit"
           why == IF stop THEN "stop" ELSE "checkpoint"
           t == [tree[m] EXCEPT !.disk = e]
           q == [proc[m] EXCEPT !.state = k, !.pc = pc, !.why = why]
<1>1. proc[m].pc = "ran" /\ UNCHANGED <<remote, pr, runs, faults, unpushed, unchecked, undrafted>>
  BY DEF Save
<1>2. /\ tree \in [Machines -> Trees] /\ proc \in [Machines -> Procs]
      /\ faults \in 0 .. MaxFaults /\ unpushed \in BOOLEAN /\ unchecked \in BOOLEAN
      /\ undrafted \in BOOLEAN
  BY InvParts
<1>3. tree' = [tree EXCEPT ![m] = t] /\ proc' = [proc EXCEPT ![m] = q]
  BY <1>2 DEF Save
<1>4. /\ c \in Holding /\ BranchOK(c, unchecked) /\ tree[m] \in Trees /\ proc[m] \in Procs
      /\ BranchOK(tree[m].head, unchecked) /\ status \in Verdicts \cup {"none"}
      /\ s \in States \cup {NoState}
  BY MachineIs
<1>5. c.saved = s /\ s # NoState /\ s.stage # "done" /\ s.status = "running" /\ May(s.stage, status)
  BY <1>1, MachineIs DEF ProcOK, InHand
<1>6. s \in States /\ s.stage \in Working /\ status \in Verdicts
  BY <1>4, <1>5, NoStateIs DEF Working, May
<1>7. ~Done(c)
  BY <1>5 DEF Done
<1> HIDE DEF c, s, status
<1>8. moved \in States /\ moved.status = "running"
  BY <1>5, <1>6, AdvanceIs
<1>9. judged \in Holding
  BY <1>4, <1>5, <1>6, JudgedIs
<1>10. moved.stage = "done" => ~stop
  BY <1>5, <1>6, StopsEarly
<1>11. Answered([judged EXCEPT !.saved = k]) /\ (ReviewedSoFar(c) => ReviewedSoFar([judged EXCEPT !.saved = k]))
       /\ k \in States /\ k.stage = moved.stage /\ k.status # "done" /\ (~stop => k.status = "running")
       /\ e \in Holding /\ e.saved = k
  <2>1. /\ k \in States /\ k.stage = moved.stage /\ k.status # "done" /\ (~stop => k.status = "running")
        /\ k.review = moved.review /\ k.pending = moved.pending
    <3> HIDE DEF moved, stop
    <3>1. QED
      BY <1>8 DEF StopForHuman, States
  <2> HIDE DEF k
  <2>2. /\ e \in Holding /\ e.saved = k /\ e.owed = judged.owed
        /\ e.approved = judged.approved /\ e.based = judged.based /\ e.replanned = judged.replanned
    BY <1>9, <2>1, SavedIs
  <2>3. c.saved \in States /\ c.saved.stage \in Working /\ May(c.saved.stage, status)
    BY <1>5, <1>6
  <2> HIDE DEF e
  <2>4. /\ e.owed = Judged(c, c.saved.stage, status, c.saved).owed
        /\ e.approved = Judged(c, c.saved.stage, status, c.saved).approved
        /\ e.based = Judged(c, c.saved.stage, status, c.saved).based
        /\ e.replanned = Judged(c, c.saved.stage, status, c.saved).replanned
        /\ e.saved \in States
        /\ e.saved.stage = Advance(c.saved.stage, status, c.saved).stage
        /\ e.saved.review = Advance(c.saved.stage, status, c.saved).review
        /\ e.saved.pending = Advance(c.saved.stage, status, c.saved).pending
    BY <1>5, <2>1, <2>2
  <2>5. Answered(e)
    BY <1>4, <1>6, <2>2, <2>3, <2>4, VerdictsAnswer DEF BranchOK
  <2>6. ReviewedSoFar(c) => ReviewedSoFar(e)
    BY <1>4, <1>6, <2>2, <2>3, <2>4, VerdictsReview
  <2>7. QED
    BY <2>1, <2>2, <2>5, <2>6 DEF e
<1> HIDE DEF k, judged, moved, stop
<1>12. BranchOK(e, unchecked) /\ ~Done(e)
  BY <1>4, <1>11 DEF BranchOK, SaidDone, Done
<1> HIDE DEF e
<1>13. /\ t \in Trees /\ t.disk = e /\ t.head = tree[m].head /\ t.there = tree[m].there
       /\ t.level = tree[m].level /\ t.ahead = tree[m].ahead
  BY <1>4, <1>11 DEF Trees
<1>14. q \in Procs /\ q.pc = pc /\ q.why = why /\ q.state = k
  BY <1>4, <1>11 DEF Procs, Steps, Whys
<1>15. k # NoState
  BY <1>11, NoStateIs
<1> HIDE DEF t, q
<1>16. ProcOK(t, q)
  BY <1>10, <1>11, <1>13, <1>14, <1>15 DEF ProcOK, InHand
<1>17. CutOK(t, q, unpushed) /\ LevelOK(t, q, undrafted)
  BY <1>14 DEF CutOK, LevelOK
<1>18. TreeOK(t, q, remote.holds)
  BY <1>1, <1>13, MachineIs DEF TreeOK
<1>19. BranchOK(t.head, unchecked) /\ BranchOK(t.disk, unchecked)
  BY <1>4, <1>12, <1>13
<1>20. ~Done(tree[m].disk) /\ proc[m].pc # "idle"
  BY <1>1, <1>7 DEF c
<1>21. QED
  BY <1>1, <1>2, <1>3, <1>13, <1>14, <1>16, <1>17, <1>18, <1>19, <1>20, PlainRun

LEMMA AcceptKeeps ==
  ASSUME DeliveryInv, NEW m \in Machines, Accept(m)
  PROVE  DeliveryInv'
<1> DEFINE c == tree[m].disk
           s == proc[m].state
           k == [s EXCEPT !.status = "done"]
           e == [c EXCEPT !.saved = k]
           t == [tree[m] EXCEPT !.disk = e]
           q == [proc[m] EXCEPT !.pc = "commit", !.why = "accepted"]
<1>1. proc[m].pc = "accept" /\ UNCHANGED <<remote, pr, runs, faults, unpushed, unchecked, undrafted>>
  BY DEF Accept
<1>2. /\ tree \in [Machines -> Trees] /\ proc \in [Machines -> Procs]
      /\ faults \in 0 .. MaxFaults /\ unpushed \in BOOLEAN /\ unchecked \in BOOLEAN
      /\ undrafted \in BOOLEAN
  BY InvParts
<1>3. tree' = [tree EXCEPT ![m] = t] /\ proc' = [proc EXCEPT ![m] = q]
  BY <1>2 DEF Accept
<1>4. /\ c \in Holding /\ BranchOK(c, unchecked) /\ tree[m] \in Trees /\ proc[m] \in Procs
      /\ BranchOK(tree[m].head, unchecked) /\ s \in States \cup {NoState}
  BY MachineIs
<1>5. c.saved = s /\ s # NoState /\ s.stage = "done"
  BY <1>1, MachineIs DEF ProcOK, InHand
<1> HIDE DEF c, s
<1>6. /\ k \in States /\ k.status = "done" /\ k.stage = "done"
      /\ s \in States /\ k.review = s.review /\ k.pending = s.pending
  BY <1>4, <1>5 DEF States
<1> HIDE DEF k
<1>7. e \in Holding /\ e.saved = k
  BY <1>4, <1>6, SavedIs
<1>8. BranchOK(e, unchecked)
  BY <1>2, <1>4, <1>5, <1>6, LoadedOK
<1>9. Done(e)
  BY <1>6, <1>7, NoStateIs DEF Done
<1> HIDE DEF e
<1>10. /\ t \in Trees /\ t.disk = e /\ t.head = tree[m].head /\ t.there = tree[m].there
       /\ t.level = tree[m].level /\ t.ahead = tree[m].ahead
  BY <1>4, <1>7 DEF Trees
<1>11. q \in Procs /\ q.pc = "commit" /\ q.why = "accepted"
  BY <1>4 DEF Procs, Steps, Whys
<1> HIDE DEF t, q
<1>12. ProcOK(t, q)
  BY <1>9, <1>10, <1>11 DEF ProcOK
<1>13. CutOK(t, q, unpushed) /\ LevelOK(t, q, undrafted)
  BY <1>11 DEF CutOK, LevelOK
<1>14. TreeOK(t, q, remote.holds)
  BY <1>1, <1>10, MachineIs DEF TreeOK
<1>15. BranchOK(t.head, unchecked) /\ BranchOK(t.disk, unchecked) /\ Done(t.disk)
  BY <1>4, <1>8, <1>9, <1>10
<1>16. proc[m].pc # "idle"
  BY <1>1
<1>17. QED
  BY <1>1, <1>2, <1>3, <1>10, <1>11, <1>12, <1>13, <1>14, <1>15, <1>16, PlainRun

LEMMA CommitKeeps ==
  ASSUME DeliveryInv, NEW m \in Machines, Commit(m)
  PROVE  DeliveryInv'
<1> DEFINE c == tree[m].disk
           shots == Shots(m, proc[m].why)
           d == [c EXCEPT !.shots = shots]
           ahead == tree[m].ahead \/ Dirty(m) \/ d # c
           t == [tree[m] EXCEPT !.head = d, !.disk = d, !.touched = FALSE, !.ahead = ahead]
           q == [proc[m] EXCEPT !.pc = "push"]
<1>1. proc[m].pc = "commit" /\ UNCHANGED <<remote, pr, runs, faults, unpushed, unchecked, undrafted>>
  BY DEF Commit
<1>2. /\ tree \in [Machines -> Trees] /\ proc \in [Machines -> Procs]
      /\ faults \in 0 .. MaxFaults /\ unpushed \in BOOLEAN /\ unchecked \in BOOLEAN
      /\ undrafted \in BOOLEAN
  BY InvParts
<1>3. tree' = [tree EXCEPT ![m] = t] /\ proc' = [proc EXCEPT ![m] = q]
  BY <1>2 DEF Commit, Goto
<1>4. c \in Holding /\ BranchOK(c, unchecked) /\ tree[m] \in Trees /\ proc[m] \in Procs
  BY MachineIs
<1>5. shots \in {"none", "in", "out"}
  BY <1>4 DEF Shots, Holding
<1>6. Dirty(m) <=> tree[m].touched \/ c # tree[m].head
  BY <1>1 DEF Dirty
<1>7. ahead \in BOOLEAN
  BY <1>4, <1>6 DEF Trees
<1> HIDE DEF c, shots
<1>8. /\ d \in Holding /\ d.saved = c.saved /\ d.owed = c.owed /\ d.approved = c.approved
      /\ d.based = c.based /\ d.replanned = c.replanned
  BY <1>4, <1>5 DEF Holding
<1> HIDE DEF d
<1>9. BranchOK(d, unchecked)
  BY <1>4, <1>8, SameReview
<1>10. ~ahead => ~tree[m].ahead /\ tree[m].head = d
  BY <1>6
<1> HIDE DEF ahead
<1>11. /\ t \in Trees /\ t.disk = d /\ t.head = d /\ t.there = tree[m].there
       /\ t.level = tree[m].level /\ t.ahead = ahead /\ t.touched = FALSE
  BY <1>4, <1>7, <1>8 DEF Trees
<1>12. q \in Procs /\ q.pc = "push" /\ q.why = proc[m].why /\ q.state = proc[m].state
  BY <1>4 DEF Procs, Steps
<1> HIDE DEF t, q
<1>13. Done(d) <=> Done(c)
  BY <1>8 DEF Done
<1>14. ProcOK(tree[m], proc[m])
  BY MachineIs
<1>15. ProcOK(t, q)
  BY <1>1, <1>8, <1>11, <1>12, <1>13, <1>14 DEF ProcOK, InHand, c
<1>16. CutOK(t, q, unpushed) /\ LevelOK(t, q, undrafted)
  BY <1>12 DEF CutOK, LevelOK
<1>17. TreeOK(t, q, remote.holds)
  BY <1>1, <1>10, <1>11, MachineIs DEF TreeOK
<1>18. BranchOK(t.head, unchecked) /\ BranchOK(t.disk, unchecked)
  BY <1>9, <1>11
<1>19. proc[m].pc # "idle" /\ (Done(tree[m].disk) => Done(t.disk))
  BY <1>1, <1>11, <1>13 DEF c
<1>20. QED
  BY <1>1, <1>2, <1>3, <1>11, <1>12, <1>15, <1>16, <1>17, <1>18, <1>19, PlainRun

LEMMA AfterPushIs ==
  ASSUME DeliveryInv, NEW m \in Machines, AfterPush(m), proc[m].pc = "push"
  PROVE  \E q \in Procs :
           /\ proc' = [proc EXCEPT ![m] = q]
           /\ \/ q = AtRest
              \/ proc[m].why = "checkpoint" /\ q.pc = "loop" /\ q.state = proc[m].state
              \/ proc[m].why \in {"accepted", "shots", "unshots"} /\ q.pc = "shots"
<1> DEFINE G(pc) == [proc[m] EXCEPT !.pc = pc]
<1>1. proc[m] \in Procs
  BY MachineIs
<1>2. \A pc \in Steps : G(pc) \in Procs /\ G(pc).pc = pc /\ G(pc).state = proc[m].state
  BY <1>1 DEF Procs
<1>3. \A pc : Goto(m, pc) => proc' = [proc EXCEPT ![m] = G(pc)]
  BY InvParts DEF Goto
<1>4. AtRest \in Procs
  BY DEF Procs, AtRest, Steps, Whys
<1> HIDE DEF G
<1>5. CASE Quit(m)
  BY <1>4, <1>5 DEF Quit
<1>6. CASE proc[m].why = "checkpoint" /\ Goto(m, "loop")
  BY <1>2, <1>3, <1>6 DEF Steps
<1>7. CASE proc[m].why \in {"accepted", "shots", "unshots"} /\ Goto(m, "shots")
  BY <1>2, <1>3, <1>7 DEF Steps
<1>8. \/ Quit(m)
      \/ proc[m].why = "checkpoint" /\ Goto(m, "loop")
      \/ proc[m].why \in {"accepted", "shots", "unshots"} /\ Goto(m, "shots")
  BY DEF AfterPush
<1>9. QED
  BY <1>5, <1>6, <1>7, <1>8

(* A push makes the remote branch this one, and every other machine's one  *)
(* behind it.                                                              *)
LEMMA PushKeeps ==
  ASSUME DeliveryInv, NEW m \in Machines, Push(m)
  PROVE  DeliveryInv'
<1> DEFINE h == tree[m].head
<1>1. /\ proc[m].pc = "push" /\ tree[m].level /\ AfterPush(m)
      /\ UNCHANGED <<pr, runs, faults, unchecked, undrafted>>
      /\ unpushed' = ((unpushed /\ ~Done(h)) \/ \E n \in Machines \ {m} : tree[n].ahead \/ Dirty(n))
  BY DEF Push
<1>2. /\ tree \in [Machines -> Trees] /\ proc \in [Machines -> Procs]
      /\ faults \in 0 .. MaxFaults /\ unpushed \in BOOLEAN /\ unchecked \in BOOLEAN
      /\ undrafted \in BOOLEAN /\ runs \in 0 .. MaxRuns /\ pr \in {"none", "draft", "ready"}
      /\ remote \in [there : BOOLEAN, holds : Holding]
  BY InvParts
<1>3. h = tree[m].disk /\ ~tree[m].touched /\ tree[m].there /\ h \in Holding
  BY <1>1, MachineIs DEF ProcOK, TreeOK
<1>4. /\ tree' \in [Machines -> Trees]
      /\ \A n \in Machines :
           /\ tree'[n].there = tree[n].there /\ tree'[n].head = tree[n].head
           /\ tree'[n].disk = tree[n].disk /\ tree'[n].touched = tree[n].touched
      /\ ~tree'[m].ahead /\ tree'[m].level
      /\ \A n \in Machines \ {m} :
           /\ tree'[n].ahead = tree[n].ahead
           /\ \/ tree'[n] = tree[n] /\ (tree[n].there => remote' = remote)
              \/ tree[n].there /\ ~tree'[n].level
      /\ remote'.holds = h /\ remote' \in [there : BOOLEAN, holds : Holding]
      /\ remote'.there \/ UNCHANGED remote
  <2>1. CASE tree[m].ahead
    <3> DEFINE T(n) == IF n = m THEN [tree[n] EXCEPT !.ahead = FALSE]
                       ELSE [tree[n] EXCEPT !.level = @ /\ ~tree[n].there]
    <3>1. tree' = [n \in Machines |-> T(n)] /\ remote' = [there |-> TRUE, holds |-> h]
      BY <2>1 DEF Push
    <3>2. ASSUME NEW n \in Machines
          PROVE  /\ T(n) \in Trees
                 /\ T(n).there = tree[n].there /\ T(n).head = tree[n].head
                 /\ T(n).disk = tree[n].disk /\ T(n).touched = tree[n].touched
                 /\ n = m => ~T(n).ahead /\ T(n).level
                 /\ n # m => T(n).ahead = tree[n].ahead
                 /\ n # m => \/ T(n) = tree[n] /\ ~tree[n].there
                             \/ tree[n].there /\ ~T(n).level
      <4>1. tree[n] \in Trees
        BY <1>2
      <4>2. CASE n = m
        BY <1>1, <4>1, <4>2 DEF Trees
      <4>3. CASE n # m
        <5> DEFINE l == tree[n].level /\ ~tree[n].there
        <5>1. T(n) = [tree[n] EXCEPT !.level = l] /\ l \in BOOLEAN
          BY <4>1, <4>3 DEF Trees
        <5>2. ~tree[n].there => tree[n].level /\ l
          <6>1. ~tree[n].there => tree[n] = NoTree
            BY MachineIs DEF TreeOK
          <6>2. NoTree.level
            BY DEF NoTree
          <6>3. QED
            BY <6>1, <6>2
        <5>3. tree[n].there => ~l
          OBVIOUS
        <5> HIDE DEF l, T
        <5>4. /\ T(n) \in Trees
              /\ T(n).there = tree[n].there /\ T(n).head = tree[n].head
              /\ T(n).disk = tree[n].disk /\ T(n).touched = tree[n].touched /\ T(n).level = l
              /\ T(n).ahead = tree[n].ahead
          BY <4>1, <5>1 DEF Trees
        <5>5. ASSUME ~tree[n].there
              PROVE  T(n) = tree[n]
          <6>1. tree[n].level = l
            BY <4>1, <5>1, <5>2, <5>5 DEF Trees
          <6>2. QED
            BY <4>1, <5>1, <6>1 DEF Trees
        <5>6. tree[n].there \in BOOLEAN
          BY <4>1 DEF Trees
        <5>7. QED
          BY <4>3, <5>3, <5>4, <5>5, <5>6
      <4>4. QED
        BY <4>2, <4>3
    <3>3. \A n \in Machines : tree'[n] = T(n)
      BY <3>1
    <3> HIDE DEF T
    <3>4. tree' \in [Machines -> Trees]
      BY <3>1, <3>2
    <3>5. QED
      BY <1>3, <3>1, <3>2, <3>3, <3>4
  <2>2. CASE ~tree[m].ahead
    <3>1. UNCHANGED <<tree, remote>>
      BY <2>2 DEF Push
    <3>2. h = remote.holds
      BY <1>1, <1>3, <2>2, MachineIs DEF TreeOK
    <3>3. QED
      BY <1>1, <1>2, <2>2, <3>1, <3>2
  <2>3. QED
    BY <2>1, <2>2
<1>5. PICK q \in Procs :
        /\ proc' = [proc EXCEPT ![m] = q]
        /\ \/ q = AtRest
           \/ proc[m].why = "checkpoint" /\ q.pc = "loop" /\ q.state = proc[m].state
           \/ proc[m].why \in {"accepted", "shots", "unshots"} /\ q.pc = "shots"
  BY <1>1, AfterPushIs
<1>6. proc' \in [Machines -> Procs] /\ \A n \in Machines : proc'[n] = IF n = m THEN q ELSE proc[n]
  BY <1>2, <1>5
<1> HIDE DEF h
<1>7. \A n \in Machines \ {m} : tree[n].ahead \/ Soiled(tree[n], proc[n]) => unpushed'
  BY <1>1, DirtyIs
<1>8. unpushed' \in BOOLEAN
  <2>1. \A n \in Machines : (tree[n].ahead \/ Dirty(n)) \in BOOLEAN
    BY <1>2 DEF Trees, Dirty
  <2>2. QED
    BY <1>1, <1>2, <2>1
<1>9. DeliveryTypeOK'
  BY <1>1, <1>2, <1>4, <1>6, <1>8 DEF DeliveryTypeOK, Trees, Procs, Steps, Whys
<1>10. BranchInv'
  <2>1. \A n \in Machines : BranchOK(tree'[n].head, unchecked) /\ BranchOK(tree'[n].disk, unchecked)
    BY <1>4, InvParts
  <2>2. BranchOK(remote'.holds, unchecked)
    BY <1>3, <1>4, MachineIs DEF h
  <2>3. QED
    BY <1>1, <2>1, <2>2 DEF BranchInv, Branches
<1>11. AloneInv' /\ \A n \in Machines \ {m} : proc[n].pc # "idle" => undrafted
  <2>1. AloneInv
    BY DEF DeliveryInv
  <2>2. \A n \in Machines \ {m} : proc[n].pc # "idle" => undrafted
    BY <1>1, <2>1 DEF AloneInv
  <2>3. QED
    BY <1>1, <1>6, <2>2 DEF AloneInv
<1>12. MachineInv'
  <2> SUFFICES ASSUME NEW n \in Machines
               PROVE  /\ ProcOK(tree'[n], proc'[n])
                      /\ TreeOK(tree'[n], proc'[n], h)
                      /\ CutOK(tree'[n], proc'[n], unpushed')
                      /\ LevelOK(tree'[n], proc'[n], undrafted)
    BY <1>1, <1>4 DEF MachineInv, MachineOK
  <2>1. CASE n = m
    <3>1. proc'[n] = q
      BY <1>6, <2>1
    <3>2. /\ tree'[n].there /\ tree'[n].head = h /\ tree'[n].disk = h /\ ~tree'[n].touched
          /\ ~tree'[n].ahead /\ tree'[n].level
      BY <1>3, <1>4, <2>1 DEF h
    <3>3. q.pc # "wrote"
      BY <1>5 DEF AtRest
    <3>4. ProcOK(tree'[n], q)
      <4>1. CASE q = AtRest
        BY <4>1 DEF ProcOK, AtRest
      <4>2. CASE proc[m].why = "checkpoint" /\ q.pc = "loop" /\ q.state = proc[m].state
        BY <1>1, <1>3, <3>2, <4>2, MachineIs DEF ProcOK, InHand
      <4>3. CASE proc[m].why \in {"accepted", "shots", "unshots"} /\ q.pc = "shots"
        BY <1>1, <1>3, <3>2, <4>3, MachineIs DEF ProcOK
      <4>4. QED
        BY <1>5, <4>1, <4>2, <4>3
    <3>5. TreeOK(tree'[n], q, h) /\ CutOK(tree'[n], q, unpushed') /\ LevelOK(tree'[n], q, undrafted)
      BY <3>2, <3>3 DEF TreeOK, CutOK, LevelOK, Soiled
    <3>6. QED
      BY <3>1, <3>4, <3>5
  <2>2. CASE n # m
    <3>1. proc'[n] = proc[n]
      BY <1>6, <2>2
    <3>2. ProcOK(tree'[n], proc[n])
      BY <1>4, MachineIs DEF ProcOK, InHand
    <3>3. CASE tree'[n] = tree[n] /\ (tree[n].there => remote' = remote)
      <4>1. TreeOK(tree[n], proc[n], h)
        BY <1>4, <3>3, MachineIs DEF TreeOK
      <4>2. CutOK(tree[n], proc[n], unpushed')
        BY <1>7, <2>2 DEF CutOK
      <4>3. LevelOK(tree[n], proc[n], undrafted)
        BY MachineIs
      <4>4. QED
        BY <3>1, <3>2, <3>3, <4>1, <4>2, <4>3
    <3>4. CASE tree[n].there /\ ~tree'[n].level
      <4>1. TreeOK(tree'[n], proc[n], h)
        BY <1>4, <3>4 DEF TreeOK
      <4>2. LevelOK(tree'[n], proc[n], undrafted)
        BY <1>11, <2>2 DEF LevelOK
      <4>3. tree'[n].ahead = tree[n].ahead
        BY <1>4, <2>2
      <4>4. CutOK(tree'[n], proc[n], unpushed')
        BY <1>4, <1>7, <2>2, <4>3 DEF CutOK, Soiled
      <4>5. QED
        BY <3>1, <3>2, <4>1, <4>2, <4>4
    <3>5. QED
      BY <1>4, <2>2, <3>3, <3>4
  <2>3. QED
    BY <2>1, <2>2
<1>13. RemoteInv'
  BY <1>4 DEF RemoteInv, DeliveryInv
<1>14. ReadyInv'
  <2> SUFFICES ASSUME pr = "ready", ~undrafted, ~unpushed'
               PROVE  Done(h) /\ \A n \in Machines : proc'[n].pc # "idle" => Done(tree'[n].disk)
    BY <1>1, <1>4 DEF ReadyInv
  <2>1. Done(h)
    <3>1. CASE unpushed
      BY <1>1, <3>1
    <3>2. CASE ~unpushed
      BY <1>1, <1>3, <3>2 DEF DeliveryInv, ReadyInv
    <3>3. QED
      BY <3>1, <3>2
  <2>2. \A n \in Machines : proc'[n].pc # "idle" => n = m
    BY <1>6, <1>11
  <2>3. tree'[m].disk = h
    BY <1>3, <1>4
  <2>4. QED
    BY <2>1, <2>2, <2>3
<1>15. QED
  BY <1>9, <1>10, <1>11, <1>12, <1>13, <1>14 DEF DeliveryInv

LEMMA PushRejectedKeeps ==
  ASSUME DeliveryInv, NEW m \in Machines, PushRejected(m)
  PROVE  DeliveryInv'
<1>1. /\ proc[m].pc = "push" /\ Quit(m) /\ unpushed' = TRUE
      /\ UNCHANGED <<remote, tree, pr, runs, faults, unchecked, undrafted>>
  BY DEF PushRejected
<1>2. faults \in 0 .. MaxFaults
  BY InvParts
<1>3. QED
  BY <1>1, <1>2, QuitKeeps

LEMMA PushFailsKeeps ==
  ASSUME DeliveryInv, NEW m \in Machines, PushFails(m)
  PROVE  DeliveryInv'
<1>1. /\ proc[m].pc = "push" /\ Fault /\ unpushed' = TRUE
      /\ UNCHANGED <<remote, tree, pr, runs, unchecked, undrafted>>
      /\ Goto(m, "failed") \/ Quit(m)
  BY DEF PushFails
<1>2. faults' \in 0 .. MaxFaults
  BY <1>1, FaultIs
<1>3. CASE Quit(m)
  BY <1>1, <1>2, <1>3, QuitKeeps
<1>4. CASE Goto(m, "failed")
  <2> DEFINE q == [proc[m] EXCEPT !.pc = "failed"]
  <2>1. proc' = [proc EXCEPT ![m] = q]
    BY <1>4, GotoIs
  <2>2. q \in Procs /\ q.pc = "failed"
    BY MachineIs DEF Procs, Steps
  <2> HIDE DEF q
  <2>3. /\ ProcOK(tree[m], q) /\ TreeOK(tree[m], q, remote.holds)
        /\ CutOK(tree[m], q, unpushed') /\ LevelOK(tree[m], q, undrafted)
    BY <1>1, <2>2, MachineIs DEF ProcOK, TreeOK, CutOK, LevelOK
  <2>4. QED
    BY <1>1, <1>2, <2>1, <2>2, <2>3, ProcOnly
<1>5. QED
  BY <1>1, <1>3, <1>4

(* The pull request is made ready by a run whose accepted work is pushed,  *)
(* or by one that has said it is not.                                      *)
LEMMA OpenOrUpdatePrKeeps ==
  ASSUME DeliveryInv, NEW m \in Machines, OpenOrUpdatePr(m)
  PROVE  DeliveryInv'
<1>1. /\ proc[m].pc = "pr" /\ Quit(m)
      /\ UNCHANGED <<remote, tree, runs, unpushed, unchecked, undrafted>>
      /\ \/ pr' = "ready" /\ UNCHANGED faults
         \/ Fault /\ UNCHANGED pr
  BY DEF OpenOrUpdatePr
<1>2. /\ faults \in 0 .. MaxFaults /\ unpushed \in BOOLEAN /\ unchecked \in BOOLEAN
      /\ undrafted \in BOOLEAN /\ runs \in 0 .. MaxRuns /\ tree \in [Machines -> Trees]
      /\ proc \in [Machines -> Procs]
  BY InvParts
<1>3. tree[m].ahead \/ tree[m].touched \/ tree[m].disk # tree[m].head => unpushed
  BY <1>1, MachineIs DEF CutOK, Soiled
<1>4. CASE Fault /\ UNCHANGED pr
  <2>1. faults' \in 0 .. MaxFaults
    BY <1>4, FaultIs
  <2>2. QED
    BY <1>1, <1>2, <1>3, <1>4, <2>1, QuitKeeps
<1>5. CASE pr' = "ready" /\ UNCHANGED faults
  <2>1. proc' = [proc EXCEPT ![m] = AtRest] /\ tree' = [tree EXCEPT ![m] = tree[m]]
    BY <1>1, <1>2 DEF Quit
  <2>2. AtRest \in Procs
    BY DEF Procs, AtRest, Steps, Whys
  <2>3. /\ ProcOK(tree[m], AtRest) /\ TreeOK(tree[m], AtRest, remote.holds)
        /\ CutOK(tree[m], AtRest, unpushed) /\ LevelOK(tree[m], AtRest, undrafted)
        /\ AtRest.pc = "idle"
    BY <1>3, MachineIs, AtRestOK
  <2>4. proc'[m].pc = "idle" /\ \A n \in Machines \ {m} : proc'[n] = proc[n]
    BY <1>2, <2>1, <2>3
  <2>5. AloneInv /\ AloneInv'
    BY <1>1, <2>4 DEF DeliveryInv, AloneInv
  <2>6. ReadyInv'
    <3> SUFFICES ASSUME ~undrafted, ~unpushed
                 PROVE  Done(remote.holds) /\ \A n \in Machines : proc'[n].pc = "idle"
      BY <1>1 DEF ReadyInv
    <3>1. Done(tree[m].disk) /\ tree[m].level /\ tree[m].there
      BY <1>1, MachineIs DEF ProcOK, LevelOK, TreeOK
    <3>2. ~tree[m].ahead /\ tree[m].disk = tree[m].head
      BY <1>3
    <3>3. tree[m].head = remote.holds
      BY <3>1, <3>2, MachineIs DEF TreeOK
    <3>4. \A n \in Machines \ {m} : proc[n].pc = "idle"
      BY <1>1, <2>5 DEF AloneInv
    <3>5. QED
      BY <2>4, <3>1, <3>2, <3>3, <3>4
  <2>7. tree[m] \in Trees /\ BranchOK(tree[m].head, unchecked) /\ BranchOK(tree[m].disk, unchecked)
    BY MachineIs
  <2>8. QED
    BY <1>1, <1>2, <1>5, <2>1, <2>2, <2>3, <2>5, <2>6, <2>7, RunKeeps
<1>6. QED
  BY <1>1, <1>4, <1>5

LEMMA CrashKeeps ==
  ASSUME DeliveryInv, NEW m \in Machines, Crash(m)
  PROVE  DeliveryInv'
<1> DEFINE wrote == proc[m].wrote
           stage == proc[m].state.stage
           c == tree[m].disk
           d == Rewritten(c, stage, wrote)
           evidence == tree[m].evidence \/ stage = "acceptance-reviewer"
           t == [tree[m] EXCEPT !.disk = d, !.touched = TRUE, !.evidence = evidence]
<1>1. /\ proc[m].pc # "idle" /\ Fault /\ Quit(m)
      /\ unpushed' = (unpushed \/ tree[m].ahead \/ Dirty(m))
      /\ UNCHANGED <<remote, pr, runs, undrafted>>
  BY DEF Crash
<1>2. /\ faults \in 0 .. MaxFaults /\ unpushed \in BOOLEAN /\ unchecked \in BOOLEAN
      /\ undrafted \in BOOLEAN /\ tree \in [Machines -> Trees] /\ proc \in [Machines -> Procs]
  BY InvParts
<1>3. faults' \in 0 .. MaxFaults
  BY <1>1, FaultIs
<1>4. unpushed' \in BOOLEAN
  BY <1>1, <1>2 DEF Trees, Dirty
<1>5. proc' = [proc EXCEPT ![m] = AtRest] /\ AtRest \in Procs /\ AtRest.pc = "idle"
  BY <1>1 DEF Quit, Procs, AtRest, Steps, Whys
<1>6. /\ c \in Holding /\ wrote \in SUBSET Artefacts /\ BranchOK(c, unchecked)
      /\ BranchOK(tree[m].head, unchecked) /\ tree[m] \in Trees
  BY MachineIs
<1>7. ASSUME NEW u \in Trees, tree' = [tree EXCEPT ![m] = u],
             u.ahead \/ u.touched \/ u.disk # u.head => unpushed',
             TreeOK(u, AtRest, remote.holds), unchecked' \in BOOLEAN, unchecked => unchecked',
             BranchOK(u.head, unchecked'), BranchOK(u.disk, unchecked')
      PROVE  DeliveryInv'
  <2>1. /\ ProcOK(u, AtRest) /\ CutOK(u, AtRest, unpushed') /\ LevelOK(u, AtRest, undrafted)
    BY <1>7, AtRestOK
  <2>2. QED
    BY <1>1, <1>2, <1>3, <1>4, <1>5, <1>7, <2>1, PlainRun
<1>8. CASE tree' = [tree EXCEPT ![m] = NoTree] /\ UNCHANGED unchecked
  <2>1. NoTree \in Trees
    BY NoStateIs DEF Trees, NoTree
  <2>2. NoTree.head = Base /\ NoTree.disk = Base /\ ~NoTree.ahead /\ ~NoTree.touched
    BY DEF NoTree
  <2>3. BranchOK(Base, unchecked)
    BY <1>2, NoStateIs, BaseOK
  <2>4. TreeOK(NoTree, AtRest, remote.holds)
    BY <1>5 DEF TreeOK, NoTree
  <2>5. QED
    BY <1>2, <1>7, <1>8, <2>1, <2>2, <2>3, <2>4
<1>9. ASSUME proc[m].pc # "wrote", UNCHANGED tree,
             unchecked' = (unchecked \/ (wrote # {} /\ Strays(stage, wrote) # {}))
      PROVE  DeliveryInv'
  <2>1. tree' = [tree EXCEPT ![m] = tree[m]]
    BY <1>2, <1>9
  <2>2. unchecked' \in BOOLEAN /\ (unchecked => unchecked')
    BY <1>2, <1>9
  <2>3. BranchOK(tree[m].head, unchecked') /\ BranchOK(tree[m].disk, unchecked')
    BY <1>2, <1>6, <2>2, BranchLater
  <2>4. TreeOK(tree[m], AtRest, remote.holds)
    BY <1>5, MachineIs DEF TreeOK
  <2>5. tree[m].ahead \/ tree[m].touched \/ tree[m].disk # tree[m].head => unpushed'
    BY <1>1 DEF Dirty
  <2>6. QED
    BY <1>6, <1>7, <2>1, <2>2, <2>3, <2>4, <2>5
<1>10. ASSUME proc[m].pc = "wrote",
              tree' = [tree EXCEPT ![m].disk = Rewritten(@, stage, wrote), ![m].touched = TRUE,
                         ![m].evidence = @ \/ stage = "acceptance-reviewer"],
              unchecked' = (unchecked \/ (wrote # {} /\ Strays(stage, wrote) # {}))
       PROVE  DeliveryInv'
  <2>1. tree' = [tree EXCEPT ![m] = t]
    BY <1>2, <1>10
  <2>2. c.saved = proc[m].state /\ c.saved # NoState /\ stage # "done" /\ c.saved.stage = stage
    BY <1>10, MachineIs DEF ProcOK, InHand
  <2>3. stage \in Working
    BY <1>6, <2>2, NoStateIs DEF Holding, Working
  <2> HIDE DEF stage, c, wrote
  <2>4. d \in Holding /\ d.saved = c.saved /\ d.owed = c.owed
    BY <1>6, RewrittenIs
  <2>5. evidence \in BOOLEAN
    BY <1>6 DEF Trees
  <2>6. unchecked' \in BOOLEAN /\ (unchecked => unchecked')
    BY <1>2, <1>10
  <2>7. BranchOK(d, unchecked')
    <3>1. SaidDone(d) /\ Answered(d)
      BY <1>6, <2>4, SameWords DEF BranchOK
    <3>2. CASE unchecked'
      BY <3>1, <3>2 DEF BranchOK
    <3>3. CASE ~unchecked'
      <4>1. ~unchecked /\ Strays(stage, wrote) = {}
        <5>1. wrote = {} => Strays(stage, wrote) = {}
          BY DEF Strays
        <5>2. QED
          BY <1>10, <2>6, <3>3, <5>1
      <4>2. ReviewedSoFar(c)
        BY <1>6, <4>1 DEF BranchOK
      <4>3. ReviewedSoFar(d)
        BY <1>6, <2>2, <2>3, <4>1, <4>2, ScopeKeeps
      <4>4. QED
        BY <3>1, <4>3 DEF BranchOK
    <3>4. QED
      BY <2>6, <3>2, <3>3
  <2> HIDE DEF d, evidence
  <2>8. /\ t \in Trees /\ t.disk = d /\ t.head = tree[m].head /\ t.there = tree[m].there
        /\ t.level = tree[m].level /\ t.ahead = tree[m].ahead
    BY <1>6, <2>4, <2>5 DEF Trees
  <2> HIDE DEF t
  <2>9. TreeOK(t, AtRest, remote.holds)
    BY <1>10, <2>8, MachineIs DEF TreeOK
  <2>10. unpushed'
    BY <1>1, <1>10 DEF Dirty
  <2>11. BranchOK(t.head, unchecked') /\ BranchOK(t.disk, unchecked')
    BY <1>2, <1>6, <2>6, <2>7, <2>8, BranchLater
  <2>12. QED
    BY <1>7, <2>1, <2>6, <2>8, <2>9, <2>10, <2>11
<1>11. QED
  BY <1>8, <1>9, <1>10 DEF Crash

-----------------------------------------------------------------------------
(* The delivery *)

LEMMA DeliveryStarts ==
  ASSUME DeliveryInit
  PROVE  DeliveryInv
<1>1. /\ remote = [there |-> FALSE, holds |-> Base]
      /\ tree = [m \in Machines |-> NoTree] /\ proc = [m \in Machines |-> AtRest]
      /\ pr = "none" /\ runs = 0 /\ faults = 0
      /\ unpushed = FALSE /\ unchecked = FALSE /\ undrafted = FALSE
  BY DEF DeliveryInit
<1>2. Base \in Holding /\ BranchOK(Base, FALSE)
  BY NoStateIs, BaseOK
<1>3. NoTree \in Trees /\ NoTree.head = Base /\ NoTree.disk = Base
  BY <1>2 DEF Trees, NoTree
<1>4. AtRest \in Procs /\ AtRest.pc = "idle"
  BY DEF Procs, AtRest, Steps, Whys
<1>5. tree \in [Machines -> Trees] /\ proc \in [Machines -> Procs]
  BY <1>1, <1>3, <1>4
<1>6. DeliveryTypeOK
  <2>1. remote \in [there : BOOLEAN, holds : Holding] /\ pr \in {"none", "draft", "ready"}
    BY <1>1, <1>2
  <2>2. runs \in 0 .. MaxRuns /\ faults \in 0 .. MaxFaults
    BY <1>1, DeliveryAssumption
  <2>3. unpushed \in BOOLEAN /\ unchecked \in BOOLEAN /\ undrafted \in BOOLEAN
    BY <1>1
  <2>4. QED
    BY <1>5, <2>1, <2>2, <2>3 DEF DeliveryTypeOK, Trees, Procs, Steps, Whys
<1>7. BranchInv
  BY <1>1, <1>2, <1>3 DEF BranchInv, Branches
<1>8. MachineInv
  <2>1. TreeOK(NoTree, AtRest, Base)
    BY <1>4 DEF TreeOK, NoTree
  <2>2. NoTree.ahead \/ NoTree.touched \/ NoTree.disk # NoTree.head => FALSE
    BY DEF NoTree
  <2>3. /\ ProcOK(NoTree, AtRest) /\ CutOK(NoTree, AtRest, FALSE) /\ LevelOK(NoTree, AtRest, FALSE)
    BY <2>1, <2>2, AtRestOK
  <2>4. QED
    BY <1>1, <2>1, <2>3 DEF MachineInv, MachineOK
<1>9. RemoteInv /\ AloneInv /\ ReadyInv
  BY <1>1, <1>4 DEF RemoteInv, AloneInv, ReadyInv
<1>10. QED
  BY <1>6, <1>7, <1>8, <1>9 DEF DeliveryInv

LEMMA DeliveryKeeps ==
  ASSUME DeliveryInv, [DeliveryNext]_deliveryVars
  PROVE  DeliveryInv'
<1>1. CASE UNCHANGED deliveryVars
  BY <1>1 DEF deliveryVars, DeliveryInv, DeliveryTypeOK, BranchInv, Branches, MachineInv,
    MachineOK, RemoteInv, AloneInv, ReadyInv
<1>2. ASSUME NEW m \in Machines, Open(m) \/ Forget(m) \/ RunStep(m) \/ Crash(m)
      PROVE  DeliveryInv'
  <2>1. CASE RunStep(m)
    BY <2>1, LoadKeeps, BackToDraftKeeps, PauseKeeps, RunStageKeeps, CheckRulesKeep, SaveKeeps,
      AcceptKeeps, FailedKeeps, CommitKeeps, PushKeeps, PushRejectedKeeps, PushFailsKeeps,
      ScreenshotsKeep, OpenOrUpdatePrKeeps DEF RunStep
  <2>2. QED
    BY <1>2, <2>1, OpenKeeps, ForgetKeeps, CrashKeeps
<1>3. QED
  BY <1>1, <1>2 DEF DeliveryNext

(* DeliveryInv holds of every delivery: what is saved, committed and       *)
(* pushed on each branch agrees with what each run has in memory, however  *)
(* runs of run/__init__.py interleave, stop and crash.                     *)
THEOREM DeliveryInvariant == DeliverySpec => []DeliveryInv
<1>1. DeliveryInit => DeliveryInv
  BY DeliveryStarts
<1>2. DeliveryInv /\ [DeliveryNext]_deliveryVars => DeliveryInv'
  BY DeliveryKeeps
<1>3. QED
  BY <1>1, <1>2, PTL DEF DeliverySpec

(* A branch that says the delivery is done holds work each reviewer        *)
(* approved as it is, done on the work before it as that now is, but for a *)
(* plan that a code-writer was the last to write.                          *)
THEOREM DoneIsReviewed == DeliverySpec => []AcceptedIsReviewed
<1>1. ASSUME DeliveryInv
      PROVE  AcceptedIsReviewed
  <2>1. DeliveryTypeOK
    BY <1>1 DEF DeliveryInv
  <2>2. ASSUME NEW c \in Branches, Done(c), ~unchecked
        PROVE  Reviewed(c) = Pairs /\ BuiltOn(c) = Pairs
    <3>1. c \in Holding /\ BranchOK(c, unchecked)
      BY <1>1, InvParts DEF Branches
    <3>2. c.saved # NoState /\ c.saved.stage = "done" /\ ReviewedSoFar(c)
      BY <2>2, <3>1 DEF BranchOK, SaidDone, Done
    <3>3. \A p \in Pairs : Place(Reviewer[p]) < Place(c.saved.stage)
      BY <3>2, PlaceIs DEF Pairs, Reviewer
    <3>4. Pairs \subseteq Reviewed(c) /\ Pairs \subseteq BuiltOn(c)
      BY <3>2, <3>3 DEF ReviewedSoFar
    <3>5. Reviewed(c) \subseteq Pairs /\ BuiltOn(c) \subseteq Pairs
      BY <3>1 DEF Holding, Reviewed, BuiltOn, Pairs
    <3>6. QED
      BY <3>4, <3>5
  <2>3. QED
    BY <2>1, <2>2 DEF AcceptedIsReviewed
<1>2. QED
  BY <1>1, DeliveryInvariant, PTL

(* A review stays pending, however far back the work goes, until its       *)
(* writer runs and is handed it (machine.py 206-229).                      *)
THEOREM ReviewsAreHandedOn == DeliverySpec => []ReviewsReachWriters
<1>1. ASSUME DeliveryInv
      PROVE  ReviewsReachWriters
  <2>1. \A c \in Branches : Answered(c)
    BY <1>1 DEF DeliveryInv, BranchInv, BranchOK
  <2>2. QED
    BY <2>1 DEF ReviewsReachWriters, Answered
<1>2. QED
  BY <1>1, DeliveryInvariant, PTL

(* A pull request is ready only while the branch under review is accepted, *)
(* but for what a cut run or a racing one has left and said.               *)
THEOREM ReadyPullRequests == DeliverySpec => []ReadyIsAccepted
<1>1. ASSUME DeliveryInv
      PROVE  ReadyIsAccepted
  BY <1>1 DEF DeliveryInv, ReadyInv, ReadyIsAccepted
<1>2. QED
  BY <1>1, DeliveryInvariant, PTL

-----------------------------------------------------------------------------
(* Runs get on *)

(* A verdict a run goes on from uses up a send-back or a round, or brings  *)
(* it to a later stage.                                                    *)
LEMMA VerdictsGoOn ==
  ASSUME NEW s \in States, s.stage \in Working, NEW status \in Verdicts, May(s.stage, status),
         ~Stops(s.stage, status, s)
  PROVE  GoesOn(s, Advance(s.stage, status, s))
<1> DEFINE st == s.stage
           p  == PairOf(st)
           t  == Closed(st, s)
           a  == Advance(st, status, s)
<1>1. /\ t \in States /\ t.stage = st /\ t.rounds = s.rounds /\ t.final = s.final
      /\ t.sendbacks = s.sendbacks
  BY ClosedIs
<1>2. st \in Working /\ p \in Pairs
  BY FilesAre
<1>3. /\ s.rounds \in [Pairs -> Nat] /\ s.final \in [Pairs -> Nat] /\ s.sendbacks \in [Written -> Nat]
  BY DEF States
<1>4. Place(NextStage(st)) > Place(st)
  BY StageNamesAre, NextIs, PlaceIs DEF Working
<1>5. status # "needs_human"
  BY DEF Stops
<1> HIDE DEF st, t, a, p
<1>6. CASE status = "done"
  <2>1. a = WriterDone(st, t)
    BY <1>6 DEF Advance, t, a
  <2>2. /\ a.sendbacks = s.sendbacks /\ a.final = s.final /\ a.rounds = s.rounds
        /\ a.stage = NextStage(st)
    BY <1>1, <1>2, <2>1, WriterDoneIs
  <2>3. GoesOn(s, a)
    BY <1>4, <2>2 DEF GoesOn, st
  <2>4. QED
    BY <2>3 DEF a, st
<1>7. CASE status = "approved"
  <2>1. a = Approved(st, t)
    BY <1>7 DEF Advance, t, a
  <2>2. /\ a.sendbacks = s.sendbacks /\ a.final = s.final /\ a.rounds = s.rounds
        /\ a.stage = NextStage(st)
    BY <1>1, <1>2, <2>1, ApprovedIs
  <2>3. GoesOn(s, a)
    BY <1>4, <2>2 DEF GoesOn, st
  <2>4. QED
    BY <2>3 DEF a, st
<1>8. CASE status = "changes_requested"
  <2>1. a = ChangesRequested(st, t) /\ p # "acceptance"
    BY <1>8 DEF Advance, May, t, st, a, p
  <2>2. /\ a.sendbacks = s.sendbacks /\ a.final = s.final
        /\ a.rounds = [s.rounds EXCEPT ![p] = s.rounds[p] + 1]
    BY <1>1, <1>2, <2>1, ChangesRequestedIs DEF p
  <2>3. s.rounds[p] < s.final[p]
    BY <1>2, <1>3, <1>8 DEF Stops, FinalRound, st, p
  <2>4. GoesOn(s, a)
    BY <1>2, <2>2, <2>3 DEF GoesOn
  <2>5. QED
    BY <2>4 DEF a, st
<1>9. CASE status = "send_back"
  <2> DEFINE e == Earlier[p]
  <2>1. a = SendBack(st, t) /\ p # "plan"
    BY <1>9 DEF Advance, May, t, st, a, p
  <2>2. /\ e \in Written /\ a.sendbacks = [t.sendbacks EXCEPT ![e] = t.sendbacks[e] + 1]
        /\ \A r \in Pairs : a.rounds[r] # t.rounds[r] => a.rounds[r] < a.final[r]
    BY <1>1, <1>2, <2>1, SendBackIs, Zenon DEF p
  <2>3. ~(s.sendbacks[e] >= MaxSendbacks)
    BY <1>9 DEF Stops, st, p
  <2> HIDE DEF e
  <2>4. s.sendbacks[e] + 1 <= MaxSendbacks
    BY <1>3, <2>2, <2>3, SettingsAssumption
  <2>5. /\ a.sendbacks = [s.sendbacks EXCEPT ![e] = s.sendbacks[e] + 1]
        /\ a.sendbacks[e] = s.sendbacks[e] + 1
    BY <1>1, <1>3, <2>2
  <2>6. GoesOn(s, a)
    BY <1>1, <2>2, <2>4, <2>5 DEF GoesOn
  <2>7. QED
    BY <2>6 DEF a, st
<1>10. QED
  BY <1>5, <1>6, <1>7, <1>8, <1>9 DEF Verdicts

(* A step of one machine's run leaves every other's process alone. *)
LEMMA OneProcess ==
  ASSUME DeliveryInv, NEW n \in Machines, Open(n) \/ Forget(n) \/ RunStep(n) \/ Crash(n),
         NEW m \in Machines \ {n}
  PROVE  proc'[m] = proc[m]
<1>1. proc \in [Machines -> Procs]
  BY InvParts
<1>2. \A pc : Goto(n, pc) => proc'[m] = proc[m]
  BY <1>1 DEF Goto
<1>3. Quit(n) => proc'[m] = proc[m]
  BY <1>1 DEF Quit
<1>4. CASE Open(n)
  BY <1>2, <1>4 DEF Open
<1>5. CASE Forget(n)
  BY <1>1, <1>5 DEF Forget
<1>6. CASE Load(n) \/ BackToDraft(n) \/ Pause(n) \/ Accept(n) \/ Failed(n)
  BY <1>1, <1>2, <1>3, <1>6 DEF Load, AlreadyDone, BackToDraft, Pause, Accept, Failed
<1>7. CASE RunStage(n)
  BY <1>1, <1>7 DEF RunStage
<1>8. CASE CheckRules(n)
  BY <1>1, <1>8 DEF CheckRules
<1>9. CASE Save(n)
  BY <1>1, <1>9 DEF Save
<1>10. CASE Commit(n) \/ PushRejected(n) \/ PushFails(n)
  BY <1>2, <1>3, <1>10 DEF Commit, PushRejected, PushFails
<1>11. CASE Push(n)
  <2>1. AfterPush(n)
    BY <1>11 DEF Push
  <2>2. QED
    BY <1>2, <1>3, <2>1 DEF AfterPush
<1>12. CASE Screenshots(n) \/ OpenOrUpdatePr(n)
  BY <1>1, <1>2, <1>3, <1>12 DEF Screenshots, OpenOrUpdatePr
<1>13. CASE Crash(n)
  BY <1>3, <1>13 DEF Crash
<1>14. QED
  BY <1>4, <1>5, <1>6, <1>7, <1>8, <1>9, <1>10, <1>11, <1>12, <1>13 DEF RunStep

(* What a run that has a verdict in hand does next. *)
LEMMA AfterVerdict ==
  ASSUME DeliveryInv, NEW m \in Machines, proc[m].pc = "ran",
         Open(m) \/ Forget(m) \/ RunStep(m) \/ Crash(m)
  PROVE  Save(m) \/ Quit(m)
BY DEF Open, Forget, RunStep, Load, BackToDraft, Pause, RunStage, CheckRules, Accept, Failed,
  Commit, Push, PushRejected, PushFails, Screenshots, OpenOrUpdatePr, Crash

LEMMA StepsGoOn ==
  ASSUME DeliveryInv, [DeliveryNext]_deliveryVars
  PROVE  GoOn
<1> SUFFICES ASSUME NEW m \in Machines, proc[m].pc = "ran", proc'[m].pc \in {"commit", "accept"},
                    proc'[m].state.status = "running"
             PROVE  GoesOn(proc[m].state, proc'[m].state)
  BY DEF GoOn
<1>1. proc \in [Machines -> Procs]
  BY InvParts
<1>2. proc'[m] # proc[m]
  OBVIOUS
<1>3. PICK n \in Machines : Open(n) \/ Forget(n) \/ RunStep(n) \/ Crash(n)
  BY <1>2 DEF DeliveryNext, deliveryVars
<1>4. n = m
  BY <1>2, <1>3, OneProcess
<1>5. ~Quit(m)
  BY <1>1 DEF Quit, AtRest
<1>6. Save(m)
  BY <1>3, <1>4, <1>5, AfterVerdict
<1> DEFINE s == proc[m].state
           status == proc[m].status
           moved == Advance(s.stage, status, s)
           stop == Stops(s.stage, status, s)
           state == IF stop THEN StopForHuman(moved) ELSE moved
<1>7. proc'[m].state = state
  BY <1>1, <1>6 DEF Save, Procs
<1>8. s \in States /\ s.stage \in Working /\ status \in Verdicts /\ May(s.stage, status)
  <2>1. s # NoState /\ s.stage # "done" /\ May(s.stage, status)
    BY MachineIs DEF ProcOK, InHand
  <2>2. s \in States /\ status \in Verdicts \cup {"none"}
    BY <2>1, MachineIs
  <2>3. QED
    BY <2>1, <2>2, NoStateIs DEF Working, May
<1>9. ~stop
  <2>1. moved \in States
    BY <1>8, AdvanceIs
  <2> HIDE DEF moved
  <2>2. StopForHuman(moved).status = "needs_human"
    BY <2>1 DEF StopForHuman, States
  <2>3. QED
    BY <1>7, <2>2
<1>10. GoesOn(s, moved)
  BY <1>8, <1>9, VerdictsGoOn
<1>11. QED
  BY <1>7, <1>9, <1>10

(* Whatever verdict a run goes on from uses up a send-back, a round of a   *)
(* pair that had one left, or brings it to a later stage.                  *)
THEOREM EveryRunGetsOn == DeliverySpec => RunsGetOn
<1>1. DeliveryInv /\ [DeliveryNext]_deliveryVars => GoOn
  BY StepsGoOn
<1>2. DeliveryInv /\ [DeliveryNext]_deliveryVars => [GoOn]_deliveryVars
  BY <1>1
<1>3. QED
  BY <1>2, DeliveryInvariant, PTL DEF DeliverySpec, RunsGetOn
=============================================================================
