---------------------------------- MODULE Plan ----------------------------------
(***************************************************************************)
(* The plan of the repository's build: the task graph, the test of          *)
(* PROGRESS.json against it (validate_state_shape in contract.py) and the    *)
(* choice of the next task (next_task.py).                                  *)
(*                                                                         *)
(* PROGRESS.json is a record: tasks and gates give statuses, evidence the     *)
(* references of a gate, blockers the tasks that name open manual items,      *)
(* updated its time.                                                        *)
(***************************************************************************)
EXTENDS Integers, FiniteSets

CONSTANTS
    Task, Gate,
    DependsOn, Priority, Deadline,  \* of each task
    Owner,                          \* the task that owns a gate
    Blockable                       \* the tasks a manual item may block

Owned(t) == {g \in Gate : Owner[g] = t}

\* What visit makes sure of: every group of tasks has one that depends on none
\* of the group.
Acyclic == \A group \in SUBSET Task :
    group # {} => \E t \in group : DependsOn[t] \intersect group = {}

ASSUME PlanAssumption ==
    /\ DependsOn \in [Task -> SUBSET Task] /\ Acyclic
    /\ Priority \in [Task -> Nat] /\ \A t, u \in Task : Priority[t] = Priority[u] => t = u
    /\ Deadline \in [Task -> Nat \ {0}]
    /\ Owner \in [Gate -> Task] /\ \A t \in Task : Owned(t) # {}
    /\ Blockable \subseteq Task

TaskStatus == {"pending", "in_progress", "passed", "failed", "blocked"}
GateStatus == {"pending", "in_progress", "passed", "failed"}

Passed(p) == {t \in Task : p.tasks[t] = "passed"}
Active(p) == {t \in Task : p.tasks[t] = "in_progress"}

-----------------------------------------------------------------------------
(* validate_state_shape.                                                   *)

TasksAreValid(p, open) ==
    \A t \in Task :
        /\ p.tasks[t] # "pending" => DependsOn[t] \subseteq Passed(p)
        /\ p.tasks[t] = "blocked" <=> t \in p.blockers
        /\ t \in p.blockers => t \in open
        /\ p.tasks[t] = "passed" => \A g \in Owned(t) : p.gates[g] = "passed"

GatesAreValid(p) ==
    \A g \in Gate :
        /\ p.gates[g] = "passed" => p.evidence[g] # {} /\ Owner[g] \in Passed(p)
        /\ p.gates[g] = "in_progress" => Owner[g] \in Active(p)

\* open: the tasks that an open item of MANUAL_REQUIRED.json blocks.
ValidShape(p, open) ==
    /\ open \subseteq Blockable
    /\ p.tasks \in [Task -> TaskStatus] /\ p.gates \in [Gate -> GateStatus]
    /\ TasksAreValid(p, open)
    /\ \A t, u \in Active(p) : t = u
    /\ GatesAreValid(p)

-----------------------------------------------------------------------------
(* next_task.                                                              *)

Candidates(p) ==
    {t \in Task : /\ p.tasks[t] \in {"pending", "in_progress", "failed"}
                  /\ DependsOn[t] \subseteq Passed(p)}

\* A mutant of Before: the order of the priorities alone.
BeforePriority(p, t, u) == Priority[t] < Priority[u]

\* The sort key; priorities differ, so that deadlines never decide.
Before(p, t, u) ==
    \/ t \in Active(p) /\ u \notin Active(p)
    \/ (t \in Active(p) <=> u \in Active(p)) /\ Priority[t] < Priority[u]

\* What the command may print.
Answers(p) ==
    {[says |-> "task", task |-> t] :
        t \in {c \in Candidates(p) : \A d \in Candidates(p) \ {c} : Before(p, c, d)}}
    \union
    (IF Candidates(p) # {} THEN {}
     ELSE {[says |-> IF \E t \in Task : p.tasks[t] = "blocked" THEN "blocked" ELSE "done"]})

-----------------------------------------------------------------------------
\* What a task waits for, directly or not: in every set that has its
\* dependencies and those of its members.
Upstream(t) ==
    {u \in Task : \A some \in SUBSET Task :
        DependsOn[t] \subseteq some /\ (\A s \in some : DependsOn[s] \subseteq some) => u \in some}

\* What an answer to a valid PROGRESS.json means.  A task is named only when
\* all it waits for is passed, and no other one is under way; "blocked" is said
\* only when whatever is left is blocked or waits for what is; "done", upon
\* which the release gate is run, only when every task is passed.
AnswerIsRight(p, answer) ==
    CASE answer.says = "task" ->
            /\ answer.task \notin Passed(p)
            /\ Upstream(answer.task) \subseteq Passed(p)
            /\ Active(p) \subseteq {answer.task}
      [] answer.says = "blocked" ->
            \A t \in Task \ Passed(p) :
                \E u \in Upstream(t) \union {t} : p.tasks[u] = "blocked"
      [] answer.says = "done" -> Passed(p) = Task
===============================================================================
