------------------------------ MODULE Workflow ------------------------------
(***************************************************************************)
(* WorkflowEngine (src/src/workflows/workflow_engine.py): an instance runs *)
(* the steps of its definition one after the other, waits at a step that   *)
(* requires human approval, and is resumed or cancelled by other requests. *)
(*                                                                         *)
(* The engine lives in one event loop: a run goes on without interruption  *)
(* until it awaits a step function, where any other request may come in.   *)
(* A definition is the sequence of its requires_human_approval flags; the  *)
(* context and the texts are left out.  Steps are numbered from 1, so a    *)
(* step's index here is the code's plus one.                               *)
(***************************************************************************)
EXTENDS Naturals, Sequences

CONSTANTS
    Instances,      \* ids of WorkflowInstance
    Definition      \* for each, the approval flags of its definition's steps

ASSUME DefinitionAssumption == Definition \in [Instances -> Seq(BOOLEAN)]

VARIABLES
    status,         \* instance.status, "none" before start
    current,        \* instance.current_step_index, relative to the run's steps
    base,           \* how many steps of the definition the run's list lacks
    awaiting,       \* the run is suspended in a step function
    times,          \* history: COMPLETED results per step, 2 standing for more
    approved        \* history: the steps an approval was given for

vars == <<status, current, base, awaiting, times, approved>>

Steps(n) == 1 .. Len(Definition[n])
Gates(n) == {s \in Steps(n) : Definition[n][s]}

\* MUTANT: the index of the list that is left is taken for a position, one off.
MutantPosition(n) == base[n] + current[n] + 1

\* The step of the definition an instance stands at.
Position(n) == base[n] + current[n]

TypeOK ==
    /\ status \in [Instances -> {"none", "running", "waiting", "completed",
                                 "failed", "cancelled"}]
    /\ current \in [Instances -> Nat]
    /\ base \in [Instances -> Nat]
    /\ awaiting \in [Instances -> BOOLEAN]
    /\ DOMAIN times = Instances
    /\ \A n \in Instances : times[n] \in [Steps(n) -> 0 .. 2]
    /\ DOMAIN approved = Instances
    /\ \A n \in Instances : approved[n] \subseteq Gates(n)

Init ==
    /\ status = [n \in Instances |-> "none"]
    /\ current = [n \in Instances |-> 0]
    /\ base = [n \in Instances |-> 0]
    /\ awaiting = [n \in Instances |-> FALSE]
    /\ times = [n \in Instances |-> [s \in Steps(n) |-> 0]]
    /\ approved = [n \in Instances |-> {}]

-----------------------------------------------------------------------------
(* The loop of _run, from the head of iteration i over the definition      *)
(* without its first b steps.                                              *)

\* The check at the head of the loop: a cancelled run goes no further.
BreakOff(n) ==
    /\ awaiting' = [awaiting EXCEPT ![n] = FALSE]
    /\ UNCHANGED <<status, current>>

\* MUTANT: the list is taken to end one step early.
MutantRunOut(n, b, i) ==
    /\ b + i >= Len(Definition[n])
    /\ status' = [status EXCEPT ![n] = "completed"]
    /\ awaiting' = [awaiting EXCEPT ![n] = FALSE]
    /\ UNCHANGED current

\* The end of the list: the run is complete.
RunOut(n, b, i) ==
    /\ b + i > Len(Definition[n])
    /\ status' = [status EXCEPT ![n] = "completed"]
    /\ awaiting' = [awaiting EXCEPT ![n] = FALSE]
    /\ UNCHANGED current

\* MUTANT: the step is run first and its approval asked for afterwards.
MutantStopAtGate(n, b, i) ==
    /\ b + i \in Gates(n)
    /\ status' = [status EXCEPT ![n] = "running"]
    /\ current' = [current EXCEPT ![n] = i]
    /\ awaiting' = [awaiting EXCEPT ![n] = TRUE]
\* A step that requires approval: its function is not called, the run ends.
StopAtGate(n, b, i) ==
    /\ b + i \in Gates(n)
    /\ status' = [status EXCEPT ![n] = "waiting"]
    /\ current' = [current EXCEPT ![n] = i]
    /\ awaiting' = [awaiting EXCEPT ![n] = FALSE]

\* Any other step: its function is called and awaited.
CallStep(n, b, i) ==
    /\ b + i \in Steps(n) \ Gates(n)
    /\ status' = [status EXCEPT ![n] = "running"]
    /\ current' = [current EXCEPT ![n] = i]
    /\ awaiting' = [awaiting EXCEPT ![n] = TRUE]

Iterate(n, b, i) == RunOut(n, b, i) \/ StopAtGate(n, b, i) \/ CallStep(n, b, i)

-----------------------------------------------------------------------------

\* start: a new instance runs the whole definition.
Start(n) ==
    /\ status[n] = "none"
    /\ Iterate(n, 0, 1)
    /\ UNCHANGED <<base, times, approved>>

\* MUTANT: the loop no longer looks at the status of the instance.
MutantStepReturns(n) ==
    /\ awaiting[n]
    /\ times' = [times EXCEPT ![n][Position(n)] = IF @ = 0 THEN 1 ELSE 2]
    /\ Iterate(n, base[n], current[n] + 1)
    /\ UNCHANGED <<base, approved>>

\* The awaited function returns; the loop goes on unless a cancel came in.
StepReturns(n) ==
    /\ awaiting[n]
    /\ times' = [times EXCEPT ![n][Position(n)] = IF @ = 0 THEN 1 ELSE 2]
    /\ IF status[n] = "cancelled" THEN BreakOff(n) ELSE Iterate(n, base[n], current[n] + 1)
    /\ UNCHANGED <<base, approved>>

\* MUTANT: an exception ends the run and leaves the status as it was.
MutantStepRaises(n) ==
    /\ awaiting[n]
    /\ awaiting' = [awaiting EXCEPT ![n] = FALSE]
    /\ UNCHANGED <<status, current, base, times, approved>>

\* The awaited function raises: the instance fails, cancelled or not.
StepRaises(n) ==
    /\ awaiting[n]
    /\ status' = [status EXCEPT ![n] = "failed"]
    /\ awaiting' = [awaiting EXCEPT ![n] = FALSE]
    /\ UNCHANGED <<current, base, times, approved>>

\* MUTANT: the approval restarts the definition from its first step.
MutantResume(n) ==
    /\ status[n] = "waiting"
    /\ approved' = [approved EXCEPT ![n] = @ \cup {Position(n)}]
    /\ base' = [base EXCEPT ![n] = 0]
    /\ Iterate(n, 0, 1)
    /\ UNCHANGED times

\* resume: current_step_index counts from the start of the last run's list,
\* and is used to cut the definition's own list.
Resume(n) ==
    /\ status[n] = "waiting"
    /\ approved' = [approved EXCEPT ![n] = @ \cup {Position(n)}]
    /\ base' = [base EXCEPT ![n] = current[n]]
    /\ Iterate(n, current[n], 1)
    /\ UNCHANGED times

\* cancel asks only that the instance exists.
Cancel(n) ==
    /\ status[n] # "none"
    /\ status' = [status EXCEPT ![n] = "cancelled"]
    /\ UNCHANGED <<current, base, awaiting, times, approved>>

Next ==
    \E n \in Instances :
        Start(n) \/ StepReturns(n) \/ StepRaises(n) \/ Resume(n) \/ Cancel(n)

\* A step function ends, one way or the other.  Nobody has to approve.
Fairness == \A n \in Instances : WF_vars(StepReturns(n) \/ StepRaises(n))

Spec == Init /\ [][Next]_vars /\ Fairness

-----------------------------------------------------------------------------

\* No step behind a gate is run before a human approved that gate: no refund
\* before the receipt is confirmed, no production time before the order.
NothingBehindClosedGate ==
    \A n \in Instances : \A s \in Steps(n), g \in Gates(n) :
        times[n][s] > 0 /\ g < s => g \in approved[n]

\* A cancelled or failed instance begins no further step, whichever request
\* stopped it and wherever its run was at that moment.
NoStepAfterStop ==
    [][\A n \in Instances :
          status[n] \in {"cancelled", "failed"} =>
             /\ status'[n] \in {"cancelled", "failed"}
             /\ awaiting'[n] => awaiting[n] /\ UNCHANGED <<base[n], current[n]>>]_vars

\* A completed workflow has run each of its steps, the gates excepted, whose
\* functions the engine never calls, and has all its approvals.
CompletedIsWhole ==
    \A n \in Instances : status[n] = "completed" =>
        /\ \A s \in Steps(n) \ Gates(n) : times[n][s] > 0
        /\ Gates(n) \subseteq approved[n]

\* A workflow with one gate, as return_order, runs no step twice: there is one
\* refund, whatever the order of approvals, cancellations and failures.
OneGateRunsOnce ==
    \A n \in Instances :
        (\A g, h \in Gates(n) : g = h) => \A s \in Steps(n) : times[n][s] <= 1

\* A started or resumed instance does not stay RUNNING: it ends or it waits
\* for a human.
RunEnds == \A n \in Instances : (status[n] = "running") ~> (status[n] # "running")

\* No step is run a second time: "Reanudar desde el paso siguiente al último
\* completado" (workflow_engine.py:212).
NoStepTwice == \A n \in Instances : \A s \in Steps(n) : times[n][s] <= 1
=============================================================================
