--------------------------- MODULE WorkflowProofs ---------------------------
(***************************************************************************)
(* For any set of instances and any definitions, with any number of gates  *)
(* anywhere: the types, and the safety of human approval.  The argument is *)
(* that resume cuts the definition at an index that is never ahead of the  *)
(* place the instance waits at, so a resumed run may go back but never     *)
(* jumps over a gate.                                                      *)
(***************************************************************************)
EXTENDS Workflow, TLAPS

\* What lies before position p of instance n was run, or approved, by the run
\* counts t and the approvals a.
Passed(n, p, t, a) ==
    \A s \in Steps(n) : s < p =>
        /\ s \notin Gates(n) => t[s] > 0
        /\ s \in Gates(n) => s \in a

\* Where an instance stands, by its status.
Standing(n) ==
    /\ status[n] = "none" => base[n] = 0
    /\ awaiting[n] =>
          /\ status[n] \in {"running", "cancelled"}
          /\ Position(n) \in Steps(n) \ Gates(n)
    /\ status[n] = "running" => awaiting[n]
    /\ status[n] = "waiting" => Position(n) \in Gates(n)
    /\ awaiting[n] \/ status[n] = "waiting" => Passed(n, Position(n), times[n], approved[n])

\* Nothing behind a gate of n without its approval; nothing missing at the end.
Gated(n) ==
    /\ \A s \in Steps(n), g \in Gates(n) : times[n][s] > 0 /\ g < s => g \in approved[n]
    /\ status[n] = "completed" => Passed(n, Len(Definition[n]) + 1, times[n], approved[n])

IInv == TypeOK /\ \A n \in Instances : Standing(n) /\ Gated(n)

-----------------------------------------------------------------------------

\* The length of a definition is a number, and steps and gates are numbers.
LEMMA StepsAreNumbers ==
  ASSUME NEW n \in Instances
  PROVE  /\ Len(Definition[n]) \in Nat
         /\ Steps(n) \subseteq Nat
         /\ Gates(n) \subseteq Steps(n)
         /\ Steps(n) = 1 .. Len(Definition[n])
  <1>1. Definition[n] \in Seq(BOOLEAN)
    BY DefinitionAssumption
  <1> QED
    BY <1>1 DEF Steps, Gates

\* Before any start every part holds.
LEMMA InitIInv == Init => IInv
  <1> SUFFICES ASSUME Init PROVE IInv
    OBVIOUS
  <1>1. TypeOK
    BY DEF Init, TypeOK
  <1>2. ASSUME NEW n \in Instances PROVE Standing(n) /\ Gated(n)
    BY <1>2, StepsAreNumbers DEF Init, Standing, Gated
  <1> QED
    BY <1>1, <1>2 DEF IInv

\* The types are kept by the loop, from wherever it goes on.
LEMMA IterateTyped ==
  ASSUME NEW n \in Instances, NEW b \in Nat, NEW i \in Nat, TypeOK, Iterate(n, b, i)
  PROVE  /\ status' \in [Instances -> {"none", "running", "waiting", "completed",
                                       "failed", "cancelled"}]
         /\ current' \in [Instances -> Nat]
         /\ awaiting' \in [Instances -> BOOLEAN]
  <1> QED
    BY DEF TypeOK, Iterate, RunOut, StopAtGate, CallStep

\* Every step keeps the types.
LEMMA NextTyped ==
  ASSUME IInv, NEW n \in Instances,
         Start(n) \/ StepReturns(n) \/ StepRaises(n) \/ Resume(n) \/ Cancel(n)
  PROVE  TypeOK'
  <1>1. CASE Start(n)
    BY <1>1, IterateTyped DEF Start, IInv, TypeOK
  <1>2. CASE StepReturns(n)
    <2>1. current[n] + 1 \in Nat /\ base[n] \in Nat
      BY DEF IInv, TypeOK
    <2>2. times'[n] \in [Steps(n) -> 0 .. 2]
      <3>1. times'[n] = [times[n] EXCEPT ![Position(n)] = IF @ = 0 THEN 1 ELSE 2]
        BY <1>2 DEF StepReturns, IInv, TypeOK
      <3>2. Position(n) \in Steps(n) /\ times[n] \in [Steps(n) -> 0 .. 2]
        BY <1>2 DEF StepReturns, IInv, TypeOK, Standing
      <3> QED
        BY <3>1, <3>2
    <2>3. /\ status' \in [Instances -> {"none", "running", "waiting", "completed",
                                       "failed", "cancelled"}]
          /\ current' \in [Instances -> Nat]
          /\ awaiting' \in [Instances -> BOOLEAN]
      BY <1>2, <2>1, IterateTyped DEF StepReturns, BreakOff, IInv, TypeOK
    <2> QED
      BY <1>2, <2>2, <2>3 DEF StepReturns, IInv, TypeOK
  <1>3. CASE StepRaises(n)
    BY <1>3 DEF StepRaises, IInv, TypeOK
  <1>4. CASE Resume(n)
    <2>1. current[n] \in Nat
      BY DEF IInv, TypeOK
    <2>2. Position(n) \in Gates(n)
      BY <1>4 DEF Resume, IInv, Standing
    <2> QED
      BY <1>4, <2>1, <2>2, IterateTyped DEF Resume, IInv, TypeOK
  <1>5. CASE Cancel(n)
    BY <1>5 DEF Cancel, IInv, TypeOK
  <1> QED
    BY <1>1, <1>2, <1>3, <1>4, <1>5

-----------------------------------------------------------------------------

\* A loop that goes on at a place before which everything is passed leaves the
\* instance at such a place, or complete.
LEMMA IterateStands ==
  ASSUME NEW n \in Instances, NEW b \in Nat, NEW i \in Nat \ {0}, TypeOK, TypeOK',
         Iterate(n, b, i), base'[n] = b, Passed(n, b + i, times'[n], approved'[n])
  PROVE  /\ Standing(n)'
         /\ status'[n] = "completed" => Passed(n, Len(Definition[n]) + 1, times'[n], approved'[n])
  <1>1. CASE RunOut(n, b, i)
    BY <1>1, StepsAreNumbers DEF RunOut, Standing, Passed, TypeOK
  <1>2. CASE StopAtGate(n, b, i)
    BY <1>2, StepsAreNumbers DEF StopAtGate, Standing, Passed, TypeOK, Position
  <1>3. CASE CallStep(n, b, i)
    BY <1>3, StepsAreNumbers DEF CallStep, Standing, Passed, TypeOK, Position
  <1> QED
    BY <1>1, <1>2, <1>3 DEF Iterate

\* A step of an instance keeps its own facts.
LEMMA OwnFacts ==
  ASSUME IInv, TypeOK', NEW n \in Instances,
         Start(n) \/ StepReturns(n) \/ StepRaises(n) \/ Resume(n) \/ Cancel(n)
  PROVE  Standing(n)' /\ Gated(n)'
  <1> USE StepsAreNumbers
  <1>0. TypeOK /\ Standing(n) /\ Gated(n)
    BY DEF IInv
  <1>1. CASE Start(n)
    <2>1. Passed(n, 0 + 1, times'[n], approved'[n]) /\ base'[n] = 0
      BY <1>0, <1>1 DEF Start, Passed, Standing, Gated
    <2>2. Standing(n)' /\ (status'[n] = "completed" => Passed(n, Len(Definition[n]) + 1, times'[n], approved'[n]))
      <3>1. Iterate(n, 0, 1) /\ 0 \in Nat /\ 1 \in Nat \ {0}
        BY <1>1 DEF Start
      <3> QED
        BY <1>0, <2>1, <3>1, IterateStands
    <2> QED
      BY <1>0, <1>1, <2>2 DEF Start, Gated
  <1>2. CASE StepReturns(n)
    <2> DEFINE p == Position(n)
    <2>1. /\ p \in Steps(n) \ Gates(n) /\ Passed(n, p, times[n], approved[n])
          /\ base[n] \in Nat /\ current[n] \in Nat
      BY <1>0, <1>2 DEF StepReturns, Standing, TypeOK
    <2>2. \A s \in Steps(n) : times'[n][s] = IF s = p THEN (IF times[n][s] = 0 THEN 1 ELSE 2)
                                             ELSE times[n][s]
      BY <1>0, <1>2, <2>1 DEF StepReturns, TypeOK
    <2>3. UNCHANGED approved
      BY <1>2 DEF StepReturns
    <2>4. Passed(n, p + 1, times'[n], approved'[n])
      BY <2>1, <2>2, <2>3 DEF Passed
    <2>5. \A s \in Steps(n), g \in Gates(n) : times'[n][s] > 0 /\ g < s => g \in approved'[n]
      <3>1. \A g \in Gates(n) : g < p => g \in approved[n]
        BY <2>1 DEF Passed
      <3> QED
        BY <1>0, <2>1, <2>2, <2>3, <3>1 DEF Gated, TypeOK
    <2>6. CASE status[n] = "cancelled"
      BY <1>0, <1>2, <2>5, <2>6 DEF StepReturns, BreakOff, Standing, Gated, TypeOK
    <2>7. CASE status[n] # "cancelled"
      <3>1. Iterate(n, base[n], current[n] + 1) /\ base'[n] = base[n]
        BY <1>2, <2>7 DEF StepReturns
      <3>2. base[n] + (current[n] + 1) = p + 1
        BY <2>1 DEF Position
      <3>3. current[n] + 1 \in Nat \ {0}
        BY <2>1
      <3>4. Passed(n, base[n] + (current[n] + 1), times'[n], approved'[n])
        BY <2>4, <3>2 DEF Passed
      <3>5. Standing(n)' /\ (status'[n] = "completed" => Passed(n, Len(Definition[n]) + 1, times'[n], approved'[n]))
        BY <1>0, <2>1, <3>1, <3>3, <3>4, IterateStands
      <3> QED
        BY <2>5, <3>5 DEF Gated
    <2> QED
      BY <2>6, <2>7
  <1>3. CASE StepRaises(n)
    BY <1>0, <1>3 DEF StepRaises, Standing, Gated, Passed, TypeOK
  <1>4. CASE Resume(n)
    <2>1. /\ Position(n) \in Gates(n) /\ Passed(n, Position(n), times[n], approved[n])
          /\ base[n] \in Nat /\ current[n] \in Nat
          /\ current[n] + 1 <= Position(n) + 1
      BY <1>0, <1>4 DEF Resume, Standing, TypeOK, Position
    <2>2. approved'[n] = approved[n] \cup {Position(n)} /\ UNCHANGED times
      BY <1>0, <1>4 DEF Resume, TypeOK
    <2>3. Passed(n, current[n] + 1, times'[n], approved'[n])
      BY <2>1, <2>2 DEF Passed
    <2>4. Iterate(n, current[n], 1) /\ base'[n] = current[n]
      BY <1>0, <1>4 DEF Resume, TypeOK
    <2>5. Standing(n)' /\ (status'[n] = "completed" => Passed(n, Len(Definition[n]) + 1, times'[n], approved'[n]))
      BY <1>0, <2>1, <2>3, <2>4, IterateStands
    <2> QED
      BY <1>0, <2>2, <2>5 DEF Gated
  <1>5. CASE Cancel(n)
    BY <1>0, <1>5 DEF Cancel, Standing, Gated, Passed, TypeOK, Position
  <1> QED
    BY <1>1, <1>2, <1>3, <1>4, <1>5

\* A step of one instance does not touch the facts of another.
LEMMA OtherFacts ==
  ASSUME IInv, NEW n \in Instances, NEW m \in Instances, m # n,
         Start(n) \/ StepReturns(n) \/ StepRaises(n) \/ Resume(n) \/ Cancel(n)
  PROVE  Standing(m)' /\ Gated(m)'
  <1>1. /\ status'[m] = status[m] /\ current'[m] = current[m] /\ base'[m] = base[m]
        /\ awaiting'[m] = awaiting[m] /\ times'[m] = times[m] /\ approved'[m] = approved[m]
    BY DEF IInv, TypeOK, Start, StepReturns, StepRaises, Resume, Cancel,
           Iterate, RunOut, StopAtGate, CallStep, BreakOff
  <1> QED
    BY <1>1 DEF IInv, Standing, Gated, Passed, Position

\* Every step, and every stuttering step, keeps the invariant.
LEMMA NextIInv == IInv /\ [Next]_vars => IInv'
  <1> SUFFICES ASSUME IInv, [Next]_vars PROVE IInv'
    OBVIOUS
  <1>1. CASE UNCHANGED vars
    BY <1>1 DEF IInv, TypeOK, Standing, Gated, Passed, Position, vars
  <1>2. CASE Next
    <2> PICK n \in Instances :
          Start(n) \/ StepReturns(n) \/ StepRaises(n) \/ Resume(n) \/ Cancel(n)
      BY <1>2 DEF Next
    <2>1. TypeOK'
      BY NextTyped
    <2>2. Standing(n)' /\ Gated(n)'
      BY <2>1, OwnFacts
    <2>3. ASSUME NEW m \in Instances, m # n PROVE Standing(m)' /\ Gated(m)'
      BY <2>3, OtherFacts
    <2> QED
      BY <2>1, <2>2, <2>3 DEF IInv
  <1> QED
    BY <1>1, <1>2

\* The invariant holds in every reachable state.
LEMMA Invariance == Spec => []IInv
  <1> QED
    BY InitIInv, NextIInv, PTL DEF Spec

-----------------------------------------------------------------------------

\* Every variable keeps to its type, whatever the definitions are.
THEOREM TypeCorrect == Spec => []TypeOK
  <1>1. IInv => TypeOK
    BY DEF IInv
  <1> QED
    BY <1>1, Invariance, PTL

\* Whatever steps and gates a definition has, and however the requests come
\* in, no step runs before all gates in front of it were approved.
THEOREM NoGateIsJumped == Spec => []NothingBehindClosedGate
  <1>1. IInv => NothingBehindClosedGate
    BY DEF IInv, Gated, NothingBehindClosedGate
  <1> QED
    BY <1>1, Invariance, PTL

\* A completed instance, of whatever definition, has nothing missing.
THEOREM CompletedHasAll == Spec => []CompletedIsWhole
  <1>1. ASSUME IInv PROVE CompletedIsWhole
    <2> SUFFICES ASSUME NEW n \in Instances, status[n] = "completed"
                 PROVE  /\ \A s \in Steps(n) \ Gates(n) : times[n][s] > 0
                        /\ Gates(n) \subseteq approved[n]
      BY DEF CompletedIsWhole
    <2>1. Passed(n, Len(Definition[n]) + 1, times[n], approved[n])
      BY <1>1 DEF IInv, Gated
    <2>2. \A s \in Steps(n) : s < Len(Definition[n]) + 1
      BY StepsAreNumbers
    <2> QED
      BY <2>1, <2>2, StepsAreNumbers DEF Passed
  <1> QED
    BY <1>1, Invariance, PTL

\* A stopped instance of any definition begins no further step.
THEOREM StoppedStaysStopped == Spec => NoStepAfterStop
  <1> DEFINE Stay ==
        \A n \in Instances :
          status[n] \in {"cancelled", "failed"} =>
             /\ status'[n] \in {"cancelled", "failed"}
             /\ awaiting'[n] => awaiting[n] /\ UNCHANGED <<base[n], current[n]>>
  <1>1. ASSUME IInv, [Next]_vars PROVE [Stay]_vars
    <2> SUFFICES ASSUME NEW m \in Instances, Next, status[m] \in {"cancelled", "failed"}
                 PROVE  /\ status'[m] \in {"cancelled", "failed"}
                        /\ awaiting'[m] => awaiting[m] /\ UNCHANGED <<base[m], current[m]>>
      BY <1>1
    <2> PICK n \in Instances :
          Start(n) \/ StepReturns(n) \/ StepRaises(n) \/ Resume(n) \/ Cancel(n)
      BY DEF Next
    <2>1. CASE m = n
      <3>1. TypeOK /\ (awaiting[m] => status[m] \in {"running", "cancelled"})
        BY <1>1 DEF IInv, Standing
      <3> QED
        BY <2>1, <3>1 DEF TypeOK, Start, StepReturns, StepRaises, Resume, Cancel, BreakOff
    <2>2. CASE m # n
      BY <1>1, <2>2 DEF IInv, TypeOK, Start, StepReturns, StepRaises, Resume, Cancel,
                        Iterate, RunOut, StopAtGate, CallStep, BreakOff
    <2> QED
      BY <2>1, <2>2
  <1> QED
    BY <1>1, Invariance, PTL DEF Spec, NoStepAfterStop

-----------------------------------------------------------------------------
(* With a single gate the index a run stops at is the index in the whole   *)
(* definition, so resume goes on where it should.                          *)

OneGate(n) == \A g, h \in Gates(n) : g = h

\* A run of a one-gate definition has run nothing from its position on, and
\* has begun either at the start or right behind the gate.
Once(n) ==
    /\ \A s \in Steps(n) : times[n][s] <= 1
    /\ status[n] = "none" => \A s \in Steps(n) : times[n][s] = 0
    /\ awaiting[n] \/ status[n] = "waiting" =>
          /\ \A s \in Steps(n) : s >= Position(n) => times[n][s] = 0
          /\ current[n] # 0
          /\ base[n] \in {0} \cup Gates(n)

OnceInv == \A n \in Instances : OneGate(n) => Once(n)

\* The loop keeps the facts when nothing was run from where it goes on.
LEMMA IterateOnce ==
  ASSUME NEW n \in Instances, NEW b \in {0} \cup Gates(n), NEW i \in Nat \ {0}, TypeOK,
         Iterate(n, b, i), base'[n] = b, \A s \in Steps(n) : times'[n][s] <= 1,
         \A s \in Steps(n) : s >= b + i => times'[n][s] = 0
  PROVE  Once(n)'
  <1> USE StepsAreNumbers
  <1>1. CASE RunOut(n, b, i)
    BY <1>1 DEF RunOut, Once, TypeOK
  <1>2. CASE StopAtGate(n, b, i)
    BY <1>2 DEF StopAtGate, Once, TypeOK, Position
  <1>3. CASE CallStep(n, b, i)
    BY <1>3 DEF CallStep, Once, TypeOK, Position
  <1> QED
    BY <1>1, <1>2, <1>3 DEF Iterate

\* A step of a one-gate instance keeps its own facts.
LEMMA OwnOnce ==
  ASSUME IInv, NEW n \in Instances, OneGate(n), Once(n),
         Start(n) \/ StepReturns(n) \/ StepRaises(n) \/ Resume(n) \/ Cancel(n)
  PROVE  Once(n)'
  <1> USE StepsAreNumbers
  <1>0. TypeOK /\ Standing(n)
    BY DEF IInv
  <1>1. CASE Start(n)
    <2>1. Iterate(n, 0, 1) /\ base'[n] = 0 /\ 0 \in {0} \cup Gates(n) /\ 1 \in Nat \ {0}
      BY <1>0, <1>1 DEF Start, Standing
    <2>2. \A s \in Steps(n) : times'[n][s] = 0
      BY <1>1 DEF Start, Once
    <2>3. \A s \in Steps(n) : times'[n][s] <= 1
      BY <2>2
    <2>4. \A s \in Steps(n) : s >= 0 + 1 => times'[n][s] = 0
      BY <2>2
    <2> QED
      BY <1>0, <2>1, <2>3, <2>4, IterateOnce
  <1>2. CASE StepReturns(n)
    <2> DEFINE p == Position(n)
    <2>1. /\ p \in Steps(n) /\ base[n] \in {0} \cup Gates(n) /\ current[n] + 1 \in Nat \ {0}
          /\ base[n] + (current[n] + 1) = p + 1
      BY <1>0, <1>2 DEF StepReturns, Standing, TypeOK, Once, Position
    <2>2. \A s \in Steps(n) : times'[n][s] = IF s = p THEN 1 ELSE times[n][s]
      BY <1>0, <1>2, <2>1 DEF StepReturns, TypeOK, Once
    <2>3. /\ \A s \in Steps(n) : times'[n][s] <= 1
          /\ \A s \in Steps(n) : s >= base[n] + (current[n] + 1) => times'[n][s] = 0
      BY <1>2, <2>1, <2>2 DEF Once, StepReturns
    <2>4. CASE status[n] = "cancelled"
      BY <1>0, <1>2, <2>3, <2>4 DEF StepReturns, BreakOff, Once, TypeOK
    <2>5. CASE status[n] # "cancelled"
      <3>1. Iterate(n, base[n], current[n] + 1) /\ base'[n] = base[n]
        BY <1>2, <2>5 DEF StepReturns
      <3> QED
        BY <1>0, <2>1, <2>3, <3>1, IterateOnce
    <2> QED
      BY <2>4, <2>5
  <1>3. CASE StepRaises(n)
    BY <1>0, <1>3 DEF StepRaises, Once, TypeOK, Position
  <1>4. CASE Resume(n)
    <2>1. /\ Position(n) \in Gates(n) /\ base[n] \in {0} \cup Gates(n)
          /\ current[n] \in Nat \ {0} /\ base[n] \in Nat
      BY <1>0, <1>4 DEF Resume, Standing, TypeOK, Once
    <2>2. base[n] = 0 /\ current[n] \in Gates(n) /\ Position(n) = current[n]
      BY <2>1 DEF OneGate, Position
    <2>3. Iterate(n, current[n], 1) /\ base'[n] = current[n] /\ UNCHANGED times
      BY <1>0, <1>4 DEF Resume, TypeOK
    <2>4. \A s \in Steps(n) : s >= current[n] + 1 => times'[n][s] = 0
      BY <1>4, <2>1, <2>2, <2>3 DEF Once, Resume
    <2>5. current[n] \in {0} \cup Gates(n) /\ 1 \in Nat \ {0}
      BY <2>2
    <2>6. \A s \in Steps(n) : times'[n][s] <= 1
      BY <2>3 DEF Once
    <2> QED
      BY <1>0, <2>3, <2>4, <2>5, <2>6, IterateOnce
  <1>5. CASE Cancel(n)
    BY <1>0, <1>5 DEF Cancel, Once, TypeOK, Position
  <1> QED
    BY <1>1, <1>2, <1>3, <1>4, <1>5

\* Every step, of whichever instance, keeps the facts of all.
LEMMA NextOnce == IInv /\ OnceInv /\ [Next]_vars => OnceInv'
  <1> SUFFICES ASSUME IInv, OnceInv, [Next]_vars, NEW m \in Instances, OneGate(m)
               PROVE  Once(m)'
    BY DEF OnceInv, OneGate
  <1>0. Once(m)
    BY DEF OnceInv
  <1>1. CASE UNCHANGED vars
    BY <1>0, <1>1 DEF Once, Position, vars
  <1>2. CASE Next
    <2> PICK n \in Instances :
          Start(n) \/ StepReturns(n) \/ StepRaises(n) \/ Resume(n) \/ Cancel(n)
      BY <1>2 DEF Next
    <2>1. CASE m = n
      BY <1>0, <2>1, OwnOnce
    <2>2. CASE m # n
      <3>1. /\ status'[m] = status[m] /\ current'[m] = current[m] /\ base'[m] = base[m]
            /\ awaiting'[m] = awaiting[m] /\ times'[m] = times[m]
        BY <2>2 DEF IInv, TypeOK, Start, StepReturns, StepRaises, Resume, Cancel,
               Iterate, RunOut, StopAtGate, CallStep, BreakOff
      <3> QED
        BY <1>0, <3>1 DEF Once, Position
    <2> QED
      BY <2>1, <2>2
  <1> QED
    BY <1>1, <1>2

\* A definition with at most one gate, whatever its steps, runs none twice:
\* the return workflow pays one refund.
THEOREM OneGateNeverRepeats == Spec => []OneGateRunsOnce
  <1>1. Init => OnceInv
    BY StepsAreNumbers DEF Init, OnceInv, Once
  <1>2. OnceInv => OneGateRunsOnce
    BY DEF OnceInv, OneGate, Once, OneGateRunsOnce
  <1> QED
    BY <1>1, <1>2, NextOnce, Invariance, PTL DEF Spec
=============================================================================
