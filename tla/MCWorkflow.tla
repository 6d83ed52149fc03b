------------------------------ MODULE MCWorkflow ------------------------------
(* A small plan with every kind of step, for TLC. *)
EXTENDS Workflow

Plain0 == [type |-> "fase", depends |-> {}, action |-> "abort", rounds |-> 0,
           cap |-> 0, from |-> 0, contract |-> FALSE]
Phase(cap) == [Plain0 EXCEPT !.cap = cap]
Gate(action, rounds) == [Plain0 EXCEPT !.type = "gate", !.action = action, !.rounds = rounds]
AskStep(from, contract) == [Plain0 EXCEPT !.type = "ask", !.from = from, !.contract = contract]
Join(depends) == [Plain0 EXCEPT !.type = "join", !.depends = depends]

MCPlan == <<Gate("retry", 2), Phase(1), AskStep(0, TRUE), Gate("continue", 0),
            AskStep(4, FALSE), Gate("abort", 0), Join({1, 4})>>
===============================================================================
