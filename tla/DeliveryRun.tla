--------------------------- MODULE DeliveryRun ---------------------------
(***************************************************************************)
(* One delivery, run again and again by one machine or another until its   *)
(* work is accepted: tools/delivery/delivery/run/__init__.py over git, the *)
(* agents and the pull request.  Between any two effects (an agent's       *)
(* writes, a save of state.json, a commit, a push, a call of the backend)  *)
(* the process may die.                                                    *)
(*                                                                         *)
(* What a branch holds is `saved` (state.json) and what has become of each *)
(* pair's work.  A branch is never forced, so a machine's copy is its      *)
(* distance from the remote's: whether it has all that was pushed, and     *)
(* whether it has commits of its own.                                      *)
(***************************************************************************)
EXTENDS DeliveryMachine

CONSTANTS
  Machines,    \* the machines the delivery is run on
  Publishing,  \* whether an approval ends in a pull request
  MaxRuns,     \* bound on runs of deliver.sh
  MaxFaults,   \* bound on crashes and on failed pushes and backend calls
  Disputed,    \* bound: the first runs, in which agents object to the work or stray from it
  Others       \* bound: which stage's agent may write what besides its pair's work

(* What the stages leave on a branch, and whose pair's work each is. *)
Part == [plan |-> "plan", tests |-> "test", red |-> "test", code |-> "code", green |-> "code",
         proof |-> "acceptance"]

Artefacts == DOMAIN Part

PairsOf(ws) == {Part[a] : a \in ws}

ASSUME DeliveryAssumption ==
  /\ Publishing \in BOOLEAN
  /\ MaxRuns \in Nat /\ Disputed \in 0 .. MaxRuns
  /\ MaxFaults \in Nat

VARIABLES
  remote,   \* the remote branch: whether it was ever pushed, and what it holds
  tree,     \* each machine's branch and worktree
  proc,     \* each machine's process: where it is and what it has in memory
  pr,       \* the pull request: none, draft or ready
  runs,     \* runs so far
  faults,   \* faults so far
  unpushed, \* a run ended with a commit or a save not pushed, and no accepted branch was since
  unchecked,\* a run was cut short before its agent's writes were checked
  undrafted \* a restart's call to draft the pull request failed, or it raced a run

deliveryVars == <<remote, tree, proc, pr, runs, faults, unpushed, unchecked, undrafted>>

Verdicts == {"done", "approved", "changes_requested", "send_back", "needs_human"}

NoState == [stage |-> "none"]

(* A branch as it leaves its base. *)
Base ==
  [saved    |-> NoState,
   approved |-> {},      \* pairs whose work is as their reviewer approved it
   based    |-> {},      \* pairs done since the work before theirs last changed
   replanned |-> FALSE,  \* the plan was last written by a code-writer
   owed     |-> [p \in Written |-> NoFile], \* the review its writer has not answered
   cites    |-> FALSE,   \* the proof cites screenshots
   shots    |-> "none"]  \* screenshot commits since the last `accepted`

NoTree == [there |-> FALSE, level |-> TRUE, ahead |-> FALSE, head |-> Base, disk |-> Base,
           touched |-> FALSE, evidence |-> FALSE]

AtRest == [pc |-> "idle", state |-> NoState, status |-> "none", why |-> "none", wrote |-> {}]

Done(c) == c.saved # NoState /\ c.saved.status = "done"

(* What git status would show of the worktree. *)
Dirty(m) == tree[m].touched \/ tree[m].disk # tree[m].head \/ proc[m].pc = "wrote"

(* The bounds are narrower once an agent has objected: then there is no    *)
(* fault and no run beyond the first ones; and none objects after a fault. *)
Calm ==
  \A c \in {remote.holds} \cup {tree[m].disk : m \in Machines} :
    c.saved # NoState => \A p \in Pairs : c.saved.rounds[p] = 1

Fault == faults < (IF Calm THEN MaxFaults ELSE 0) /\ faults' = faults + 1

(* The runs in which agents object, or write besides their work. *)
Unruly == faults = 0 /\ runs <= Disputed

Returned == IF Unruly THEN Verdicts ELSE {"done", "approved"}

Quit(m) == proc' = [proc EXCEPT ![m] = AtRest]

Racing(m) == \E n \in Machines \ {m} : proc[n].pc # "idle"

Goto(m, pc) == proc' = [proc EXCEPT ![m].pc = pc]

Following(p) == CASE p = "plan" -> "test" [] p = "test" -> "code" [] OTHER -> "acceptance"

(* The work of these pairs changes: nobody has approved it as it is now,   *)
(* and what comes after is no longer done on it.                           *)
Changed(c, ps) ==
  [c EXCEPT !.approved = @ \ ps,
            !.based = @ \ ((ps \cap {"acceptance"}) \cup {Following(p) : p \in ps \cap Written})]

(* What an agent of the stage wrote comes onto a branch. *)
Rewritten(c, stage, ws) ==
  [Changed(c, PairsOf(ws)) EXCEPT !.replanned = IF "plan" \in ws THEN stage = "code-writer" ELSE @]

(* What a saved verdict says of the work on disk. *)
Judged(c, stage, status, was) ==
  LET p == PairOf(stage)
  IN  CASE status = "done" ->
             [c EXCEPT !.based = @ \cup {p}, !.owed[p] = NoFile]
        [] status = "approved" ->
             [c EXCEPT !.approved = @ \cup {p},
                       !.based = IF p = "acceptance" THEN @ \cup {p} ELSE @]
        [] status = "changes_requested" -> [c EXCEPT !.owed[p] = Review(stage, was)]
        [] status = "send_back" /\ p # "acceptance" ->
             [c EXCEPT !.owed[p] = IF IsWriter(stage) THEN NoFile ELSE Review(stage, was)]
        [] OTHER -> c

-----------------------------------------------------------------------------
DeliveryInit ==
  /\ remote = [there |-> FALSE, holds |-> Base]
  /\ tree = [m \in Machines |-> NoTree]
  /\ proc = [m \in Machines |-> AtRest]
  /\ pr = "none"
  /\ runs = 0
  /\ faults = 0
  /\ unpushed = FALSE
  /\ unchecked = FALSE
  /\ undrafted = FALSE

(* decide: what brings the branch level with the remote's. *)
Level(m) ==
  LET t == tree[m]
  IN  CASE ~t.there /\ remote.there -> "track"
        [] ~t.there /\ ~remote.there -> "new"
        [] t.there /\ t.level -> "none"
        [] t.there /\ ~t.level /\ (t.ahead \/ Dirty(m)) -> "stop"
        [] OTHER -> "fast-forward"

(* Delivery.open: fetch, and bring the branch level or stop. *)
Open(m) ==
  /\ proc[m].pc = "idle" /\ runs < (IF Calm THEN MaxRuns ELSE Disputed)
  /\ runs' = runs + 1
  /\ CASE Level(m) = "stop" -> UNCHANGED <<tree, proc>>
       [] Level(m) = "none" -> Goto(m, "go") /\ UNCHANGED tree
       [] Level(m) = "new" ->
            /\ tree' = [tree EXCEPT ![m].there = TRUE, ![m].touched = TRUE]
            /\ Goto(m, "go")
       [] OTHER ->
            /\ tree' = [tree EXCEPT ![m].there = TRUE, ![m].level = TRUE,
                                    ![m].head = remote.holds, ![m].disk = remote.holds]
            /\ Goto(m, "go")
  /\ undrafted' = (undrafted \/ Racing(m))
  /\ UNCHANGED <<remote, pr, faults, unpushed, unchecked>>

(* Mutant: a restart leaves the pull request as it is. *)
ForgetUndrafted(m) ==
  /\ proc[m].pc = "go"
  /\ LET c == tree[m].disk
     IN  tree' = [tree EXCEPT ![m].disk = [Base EXCEPT !.cites = c.cites, !.shots = c.shots]]
  /\ Goto(m, "load")
  /\ UNCHANGED <<remote, pr, runs, faults, unpushed, unchecked, undrafted>>

(* --restart: State.forget, then the pull request goes back to a draft. *)
Forget(m) ==
  /\ proc[m].pc = "go"
  /\ LET c == tree[m].disk
     IN  tree' = [tree EXCEPT ![m].disk = [Base EXCEPT !.cites = c.cites, !.shots = c.shots]]
  /\ proc' = [proc EXCEPT ![m].pc = IF Publishing THEN "draft" ELSE "load"]
  /\ undrafted' = (undrafted \/ pr = "ready")
  /\ UNCHANGED <<remote, pr, runs, faults, unpushed, unchecked>>

BackToDraft(m) ==
  /\ proc[m].pc = "draft"
  /\ \/ /\ pr' = IF pr = "ready" THEN "draft" ELSE pr
        /\ undrafted' = Racing(m)
        /\ UNCHANGED faults
     \/ /\ Fault                    \* a BackendError is logged and passed over
        /\ UNCHANGED <<pr, undrafted>>
  /\ Goto(m, "load")
  /\ UNCHANGED <<remote, tree, runs, unpushed, unchecked>>

(* What an approval's publishing did not finish: only what is owed. *)
AlreadyDone(m) == (IF Publishing THEN Goto(m, "shots") ELSE Quit(m)) /\ UNCHANGED tree

(* go: the saved state is taken up and marked as running. *)
Load(m) ==
  /\ proc[m].pc \in {"go", "load"}
  /\ LET saved == tree[m].disk.saved
         state == [(IF saved = NoState THEN FreshState ELSE saved) EXCEPT !.status = "running"]
     IN  IF saved # NoState /\ saved.status = "done" THEN AlreadyDone(m)
         ELSE /\ tree' = [tree EXCEPT ![m].disk.saved = state]
              /\ proc' = [proc EXCEPT ![m].state = state,
                            ![m].pc = IF state.stage = "done" THEN "accept" ELSE "loop"]
  /\ UNCHANGED <<remote, pr, runs, faults, unpushed, unchecked, undrafted>>

(* Out of time, or the stage has no agent yet.  What Load saved of a run   *)
(* that had none before stays on this machine.                             *)
Pause(m) ==
  /\ proc[m].pc = "loop"
  /\ Quit(m)
  /\ unpushed' = (unpushed \/ tree[m].ahead \/ Dirty(m))
  /\ UNCHANGED <<remote, tree, pr, runs, faults, unchecked, undrafted>>

(* How one invocation of the agent can end, and how a pass of at most      *)
(* three ends: run again once without a result, resumed once out of turns. *)
Endings == {"result", "error", "turns", "nothing"}

RunAgent(first, again, resumed) ==
  LET found == IF first \in {"error", "nothing"} THEN again ELSE first
  IN  IF found = "turns" THEN resumed ELSE found

Passes == {RunAgent(first, again, resumed) : first, again, resumed \in Endings}

(* Out of turns twice is a stop for a human; an error fails the run. *)
ResultOf(ending) ==
  CASE ending = "result" -> Returned
    [] ending = "turns"  -> {"needs_human"} \cap Returned
    [] OTHER             -> {}

(* What an agent may write: a code-writer's docs/ holds the plan too, and  *)
(* its src/ the tests, which are then denied it.                           *)
WriteScope(stage) ==
  CASE stage = "plan-writer"         -> {"plan", "red", "green", "proof"}
    [] stage = "test-writer"         -> {"tests", "red"}
    [] stage = "code-writer"         -> Artefacts
    [] stage = "acceptance-reviewer" -> {"proof"}
    [] OTHER                         -> {}

WriteDenied(stage) == IF stage = "code-writer" THEN {"tests", "red", "proof"} ELSE {}

(* Mutant: whatever is in an agent's scope. *)
StraysInScope(stage, touched) == touched \ WriteScope(stage)

Strays(stage, touched) ==
  (touched \ WriteScope(stage)) \cup (touched \cap WriteDenied(stage))

(* The agent of the stage runs, and writes its own pair's work and perhaps *)
(* something else (bound: one).  What it wrote is on the disk, but comes    *)
(* into `tree` with the next step, or the crash before it.                 *)
RunStage(m) ==
  LET stage == proc[m].state.stage
      own == {a \in WriteScope(stage) \ WriteDenied(stage) : Part[a] = PairOf(stage)}
  IN  /\ proc[m].pc = "loop"
      /\ \E other \in {{}} \cup {{a} : a \in {b \in Artefacts : Unruly /\ <<stage, b>> \in Others}} :
           proc' = [proc EXCEPT ![m].pc = "wrote", ![m].wrote = own \cup other]
      /\ UNCHANGED <<remote, tree, pr, runs, faults, unpushed, unchecked, undrafted>>

(* set_aside: what it may not write is as the last checkpoint has it.  What *)
(* a run cut short left there uncommitted goes with it.                     *)
SetAside(m, disk, strays) ==
  {disk} \cup (IF tree[m].touched THEN {Changed(disk, PairsOf(strays))} ELSE {})

(* check_rules, and what the agent returned.  With a stray write, without  *)
(* a result, with a verdict it may not return, without the files it owes   *)
(* when asked for them, or having committed, the run fails.                *)
CheckRules(m) ==
  LET stage  == proc[m].state.stage
      strays == Strays(stage, proc[m].wrote)
      disk   == Rewritten(tree[m].disk, stage, proc[m].wrote \ strays)
      Left(c) == [tree EXCEPT ![m].disk = c, ![m].touched = TRUE,
                              ![m].evidence = @ \/ stage = "acceptance-reviewer"]
  IN  /\ proc[m].pc = "wrote"
      /\ \/ \E back \in SetAside(m, disk, strays) :
              /\ tree' = Left(back)
              /\ unchecked' = (unchecked \/ back # disk)
           /\ proc' = [proc EXCEPT ![m].pc = "failed", ![m].wrote = {}]
         \/ \E ending \in Passes :
            \E status \in ResultOf(ending), cites \in BOOLEAN :
              /\ strays = {} /\ May(stage, status)
              /\ cites => stage = "acceptance-reviewer" /\ status = "approved"
              /\ tree' = Left([disk EXCEPT !.cites = cites])
              /\ proc' = [proc EXCEPT ![m].pc = "ran", ![m].status = status, ![m].wrote = {}]
              /\ UNCHANGED unchecked
      /\ UNCHANGED <<remote, pr, runs, faults, unpushed, undrafted>>

StopForHuman(state) == [state EXCEPT !.status = "needs_human"]

(* advance, then what stop_for_human, loop or accept saves. *)
Save(m) ==
  LET s      == proc[m].state
      status == proc[m].status
      moved  == Advance(s.stage, status, s)
      stop   == Stops(s.stage, status, s)
      state  == IF stop THEN StopForHuman(moved) ELSE moved
      judged == Judged(tree[m].disk, s.stage, status, s)
  IN  /\ proc[m].pc = "ran"
      /\ tree' = [tree EXCEPT ![m].disk = [judged EXCEPT !.saved = state]]
      /\ proc' = [proc EXCEPT ![m].state = state,
                    ![m].pc = IF moved.stage = "done" THEN "accept" ELSE "commit",
                    ![m].why = IF stop THEN "stop" ELSE "checkpoint"]
      /\ UNCHANGED <<remote, pr, runs, faults, unpushed, unchecked, undrafted>>

Accept(m) ==
  /\ proc[m].pc = "accept"
  /\ tree' = [tree EXCEPT ![m].disk.saved = [proc[m].state EXCEPT !.status = "done"]]
  /\ proc' = [proc EXCEPT ![m].pc = "commit", ![m].why = "accepted"]
  /\ UNCHANGED <<remote, pr, runs, faults, unpushed, unchecked, undrafted>>

(* A failure is committed too, with whatever the stage left. *)
Failed(m) ==
  /\ proc[m].pc = "failed"
  /\ proc' = [proc EXCEPT ![m].pc = "commit", ![m].why = "failure"]
  /\ UNCHANGED <<remote, tree, pr, runs, faults, unpushed, unchecked, undrafted>>

(* Where the screenshot commits of this approval have got to. *)
Shots(m, why) ==
  CASE why = "accepted" -> "none" [] why = "shots" -> "in" [] why = "unshots" -> "out"
    [] OTHER -> tree[m].disk.shots

(* commit_all: everything outside build/, if there is anything. *)
Commit(m) ==
  LET disk == [tree[m].disk EXCEPT !.shots = Shots(m, proc[m].why)]
  IN  /\ proc[m].pc = "commit"
      /\ tree' = [tree EXCEPT ![m].head = disk, ![m].disk = disk, ![m].touched = FALSE,
                              ![m].ahead = @ \/ Dirty(m) \/ disk # tree[m].disk]
      /\ Goto(m, "push")
      /\ UNCHANGED <<remote, pr, runs, faults, unpushed, unchecked, undrafted>>

(* Where a push leads that went through. *)
AfterPush(m) ==
  CASE proc[m].why = "checkpoint" -> Goto(m, "loop")
    [] proc[m].why = "accepted" /\ Publishing -> Goto(m, "shots")
    [] proc[m].why \in {"shots", "unshots"} -> Goto(m, "shots")
    [] OTHER -> Quit(m)

Push(m) ==
  /\ proc[m].pc = "push" /\ tree[m].level
  /\ IF tree[m].ahead
       THEN /\ tree' = [n \in Machines |->
                        IF n = m THEN [tree[n] EXCEPT !.ahead = FALSE]
                        ELSE [tree[n] EXCEPT !.level = @ /\ ~tree[n].there]]
            /\ remote' = [there |-> TRUE, holds |-> tree[m].head]
       ELSE UNCHANGED <<tree, remote>>
  /\ unpushed' = ((unpushed /\ ~Done(tree[m].head))
                     \/ \E n \in Machines \ {m} : tree[n].ahead \/ Dirty(n))
  /\ AfterPush(m)
  /\ UNCHANGED <<pr, runs, faults, unchecked, undrafted>>

(* The remote has commits this run does not: the run ends, with nothing    *)
(* forced.                                                                 *)
PushRejected(m) ==
  /\ proc[m].pc = "push" /\ ~tree[m].level
  /\ Quit(m)
  /\ unpushed' = TRUE
  /\ UNCHANGED <<remote, tree, pr, runs, faults, unchecked, undrafted>>

(* The push fails.  In the loop that is committed as a failure; in accept, *)
(* or again, it ends the run; in publish it is recorded.                   *)
PushFails(m) ==
  /\ proc[m].pc = "push" /\ Fault
  /\ unpushed' = TRUE
  /\ IF proc[m].why \in {"checkpoint", "stop"} THEN Goto(m, "failed") ELSE Quit(m)
  /\ UNCHANGED <<remote, tree, pr, runs, unchecked, undrafted>>

-----------------------------------------------------------------------------
(* publish: what an approval still owes of its pull request. *)

(* screenshot_commits: add them, then remove them, whatever of it is not   *)
(* done yet.  Only the machine that took the screenshots has them.         *)
Screenshots(m) ==
  LET c == tree[m].disk
  IN  /\ proc[m].pc = "shots"
      /\ CASE c.cites /\ tree[m].head.shots = "none" /\ ~tree[m].evidence -> Quit(m)
           [] c.cites /\ tree[m].head.shots = "none" /\ tree[m].evidence ->
                proc' = [proc EXCEPT ![m].pc = "commit", ![m].why = "shots"]
           [] c.cites /\ tree[m].head.shots = "in" ->
                proc' = [proc EXCEPT ![m].pc = "commit", ![m].why = "unshots"]
           [] OTHER -> Goto(m, "pr")
      /\ UNCHANGED <<remote, tree, pr, runs, faults, unpushed, unchecked, undrafted>>

(* open_or_update_pr, then the preview; a BackendError is recorded. *)
OpenOrUpdatePr(m) ==
  /\ proc[m].pc = "pr"
  /\ \/ /\ pr' = "ready"
        /\ UNCHANGED faults
     \/ Fault /\ UNCHANGED pr
  /\ Quit(m)
  /\ UNCHANGED <<remote, tree, runs, unpushed, unchecked, undrafted>>

-----------------------------------------------------------------------------
(* The process dies, or the machine is lost with its worktree.  The next   *)
(* run does not know which of the writes it finds were its agent's.        *)
Crash(m) ==
  LET wrote == proc[m].wrote
      stage == proc[m].state.stage
  IN  /\ proc[m].pc # "idle" /\ Fault
      /\ Quit(m)
      /\ unpushed' = (unpushed \/ tree[m].ahead \/ Dirty(m))
      /\ \/ /\ tree' = IF proc[m].pc # "wrote" THEN tree
                        ELSE [tree EXCEPT ![m].disk = Rewritten(@, stage, wrote), ![m].touched = TRUE,
                               ![m].evidence = @ \/ stage = "acceptance-reviewer"]
            /\ unchecked' = (unchecked \/ (wrote # {} /\ Strays(stage, wrote) # {}))
         \/ tree' = [tree EXCEPT ![m] = NoTree] /\ UNCHANGED unchecked
      /\ UNCHANGED <<remote, pr, runs, undrafted>>

RunStep(m) ==
  \/ Load(m) \/ BackToDraft(m) \/ Pause(m) \/ RunStage(m) \/ CheckRules(m) \/ Save(m) \/ Accept(m)
  \/ Failed(m) \/ Commit(m) \/ Push(m) \/ PushRejected(m) \/ PushFails(m)
  \/ Screenshots(m) \/ OpenOrUpdatePr(m)

DeliveryNext == \E m \in Machines : Open(m) \/ Forget(m) \/ RunStep(m) \/ Crash(m)

DeliverySpec == DeliveryInit /\ [][DeliveryNext]_deliveryVars

-----------------------------------------------------------------------------
Files ==
  [by : {Stages[i] : i \in 1 .. Len(Stages)} \cup {"nobody"},
   kind : {"review", "sendback", "none"}, round : Nat]

States ==
  [stage : {Stages[i] : i \in 1 .. Len(Stages)}, status : {"running", "needs_human", "done"},
   review : Files, rounds : [Pairs -> Nat], final : [Pairs -> Nat],
   sendbacks : [Written -> Nat], open : [Senders -> Files],
   pending : [{"test", "code"} -> Files]]

Holding ==
  [saved : States \cup {NoState}, approved : SUBSET Pairs, based : SUBSET Pairs,
   replanned : BOOLEAN, owed : [Written -> Files], cites : BOOLEAN, shots : {"none", "in", "out"}]

(* Every branch and every process is in a state the tool can be in. *)
DeliveryTypeOK ==
  /\ remote \in [there : BOOLEAN, holds : Holding]
  /\ tree \in [Machines -> [there : BOOLEAN, level : BOOLEAN, ahead : BOOLEAN, head : Holding,
                           disk : Holding, touched : BOOLEAN, evidence : BOOLEAN]]
  /\ proc \in [Machines -> [pc : {"idle", "go", "draft", "load", "loop", "wrote", "ran", "failed", "accept",
                                 "commit", "push", "shots", "pr"},
                           state : States \cup {NoState}, status : Verdicts \cup {"none"},
                           why : {"none", "checkpoint", "stop", "accepted", "failure", "shots",
                                  "unshots"}, wrote : SUBSET Artefacts]]
  /\ pr \in {"none", "draft", "ready"}
  /\ runs \in 0 .. MaxRuns /\ faults \in 0 .. MaxFaults
  /\ unpushed \in BOOLEAN /\ unchecked \in BOOLEAN /\ undrafted \in BOOLEAN

Branches ==
  {remote.holds} \cup {tree[m].head : m \in Machines} \cup {tree[m].disk : m \in Machines}

(* A code-writer may rewrite the approved plan, and nobody reviews it for  *)
(* that, nor are the tests written anew.                                   *)
Reviewed(c) == IF c.replanned THEN c.approved \cup {"plan"} ELSE c.approved

BuiltOn(c) == IF c.replanned THEN c.based \cup {"test"} ELSE c.based

(* The pipeline's promise.  Wherever a branch says the delivery is done,   *)
(* each pair's work is as its reviewer approved it, and was done on the    *)
(* work before it as that now is: no send-back, stray write, crash, rerun  *)
(* or second machine leaves a change unreviewed or a later pair built on   *)
(* what it replaced.  There are two exceptions, which the code leaves open *)
(* (README, Weaknesses): a plan that a code-writer was the last to write,  *)
(* and a run that died before its agent's writes were checked.             *)
AcceptedIsReviewed ==
  DeliveryTypeOK /\ \A c \in Branches :
    Done(c) => unchecked \/ (Reviewed(c) = Pairs /\ BuiltOn(c) = Pairs)

(* machine.py 206-229 and 266-309: a review is never lost on the way to    *)
(* the writer it is for, however far back the work goes in between.  When  *)
(* the pair's writer runs it is handed the review; until then it is        *)
(* pending.                                                                *)
ReviewsReachWriters ==
  \A c \in Branches : c.saved # NoState =>
    \A p \in Written : c.owed[p] # NoFile =>
      IF c.saved.stage = Writer[p] THEN c.saved.review = c.owed[p]
      ELSE p # "plan" /\ c.saved.pending[p] = c.owed[p]

(* A run ends whatever its agents return (machine.py 105-127), and a       *)
(* send-back never makes a pair's next disagreement its last (312-317).    *)
(* Whatever verdict a run goes on from uses up a send-back, or a round of  *)
(* a pair that had one left, or brings it to a later stage.                *)
GoesOn(was, is) ==
  \/ /\ \E p \in Written :
          /\ is.sendbacks[p] <= MaxSendbacks
          /\ is.sendbacks = [was.sendbacks EXCEPT ![p] = @ + 1]
     /\ \A p \in Pairs : is.rounds[p] # was.rounds[p] => is.rounds[p] < is.final[p]
  \/ /\ is.sendbacks = was.sendbacks /\ is.final = was.final
     /\ \E p \in Pairs : was.rounds[p] < was.final[p] /\ is.rounds = [was.rounds EXCEPT ![p] = @ + 1]
  \/ /\ is.sendbacks = was.sendbacks /\ is.final = was.final /\ is.rounds = was.rounds
     /\ Place(is.stage) > Place(was.stage)

GoOn ==
  \A m \in Machines :
    proc[m].pc = "ran" /\ proc'[m].pc \in {"commit", "accept"} /\ proc'[m].state.status = "running" =>
      GoesOn(proc[m].state, proc'[m].state)

RunsGetOn == [][GoOn]_deliveryVars

(* A pull request is ready for review only while the branch a person would *)
(* read is an accepted one.  A run that ended between a save and its push, *)
(* until a branch is accepted and pushed with nothing left behind, a       *)
(* restart whose call of the backend failed, or two runs at once may leave *)
(* it ready.                                                               *)
ReadyIsAccepted == pr = "ready" => Done(remote.holds) \/ undrafted \/ unpushed
=============================================================================
