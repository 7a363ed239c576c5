-------------------------- MODULE MCDeliveryRun --------------------------
(* Instances of DeliveryRun for TLC: one machine, or two that are alike.   *)
EXTENDS DeliveryRun, TLC

(* The writes that a scope lets through or a test would hardly try: a       *)
(* code-writer at the plan and at the tests, a plan-writer at the report   *)
(* of the code, and a reviewer at what it reviews.                         *)
MCOthers == {<<"code-writer", "plan">>, <<"code-writer", "tests">>, <<"plan-writer", "green">>,
             <<"test-reviewer", "tests">>}

Symmetric == Permutations(Machines)
=============================================================================
