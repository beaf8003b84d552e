------------------------------- MODULE WorkflowPlan -------------------------------
(***************************************************************************)
(* What happens to a definition before it can run: the validator's search  *)
(* for cycles, then the waves and the longest chain of build_workflow_plan.*)
(*                                                                         *)
(* The recursion of visit() is a stack of frames.  The order in which steps*)
(* and dependencies are listed is left open.  Of the other rules of        *)
(* validate_workflow_data only those on dependencies are kept.             *)
(***************************************************************************)
EXTENDS Naturals, Sequences, FiniteSets

CONSTANTS
    Steps,        \* the identifiers of the definition's steps
    Unknown,      \* an identifier that is none of them
    Definitions   \* what the "dependencies" fields may say

ASSUME PlanAssumption ==
    /\ IsFiniteSet(Steps) /\ Unknown \notin Steps
    /\ Definitions \subseteq [Steps -> SUBSET (Steps \cup {Unknown})]

VARIABLES
    declared,    \* the dependencies of each step, as they are written
    phase,       \* how far the definition has come
    stack,       \* active calls of visit: a step and the dependencies left to look at
    visiting, visited,
    completed,   \* steps that are in a wave
    waves,       \* the waves so far
    chain        \* best_chain

vars   == <<declared, phase, stack, visiting, visited, completed, waves, chain>>
search == <<stack, visiting, visited>>
plan   == <<completed, waves, chain>>

Frame == [step : Steps, todo : SUBSET Steps]

\* Flawed entries are reported, and the search goes on without them.
Flawed  == \E s \in Steps : Unknown \in declared[s] \/ s \in declared[s]
DependsOn(s) == (declared[s] \cap Steps) \ {s}

Init ==
    /\ declared \in Definitions
    /\ phase = "validating"
    /\ stack = <<>> /\ visiting = {} /\ visited = {}
    /\ completed = {} /\ waves = <<>> /\ chain = [s \in Steps |-> <<>>]

-----------------------------------------------------------------------------
(* validate_workflow_data: the search *)

Top   == stack[Len(stack)]
Below == SubSeq(stack, 1, Len(stack) - 1)

\* visit(s), for a step that is neither in visiting nor in visited.
Call(frames, s) ==
    /\ stack' = Append(frames, [step |-> s, todo |-> DependsOn(s)])
    /\ visiting' = visiting \cup {s}
    /\ UNCHANGED <<declared, phase, visited, plan>>

\* any(visit(s) for s in graph)
VisitNext ==
    /\ phase = "validating" /\ stack = <<>>
    /\ \E s \in Steps \ visited : Call(<<>>, s)

LookedAt(d) == Append(Below, [Top EXCEPT !.todo = @ \ {d}])

\* visit(d) inside visit(Top.step)
Descend ==
    /\ phase = "validating" /\ stack # <<>>
    /\ \E d \in Top.todo \ (visiting \cup visited) : Call(LookedAt(d), d)

\* Mutant: a step met twice is a cycle.
MetBefore == visiting \cup visited

OnPath == visiting

\* Mutant: a step that is still being visited is passed over.
MetSteps == visiting \cup visited

Finished == visited

PassOver ==
    /\ phase = "validating" /\ stack # <<>>
    /\ \E d \in Top.todo \cap Finished : stack' = LookedAt(d)
    /\ UNCHANGED <<declared, phase, visiting, visited, plan>>

\* visit returns True, and so do all calls below it.
FindCycle ==
    /\ phase = "validating" /\ stack # <<>> /\ Top.todo \cap OnPath # {}
    /\ phase' = "invalid"
    /\ UNCHANGED <<declared, search, plan>>

Leave ==
    /\ phase = "validating" /\ stack # <<>> /\ Top.todo = {}
    /\ stack' = Below
    /\ visiting' = visiting \ {Top.step} /\ visited' = visited \cup {Top.step}
    /\ UNCHANGED <<declared, phase, plan>>

\* require_valid
Validated ==
    /\ phase = "validating" /\ stack = <<>> /\ visited = Steps
    /\ phase' = IF Flawed THEN "invalid" ELSE "planning"
    /\ UNCHANGED <<declared, search, plan>>

-----------------------------------------------------------------------------
(* build_workflow_plan *)

Ready == {s \in Steps \ completed : DependsOn(s) \subseteq completed}

\* Mutant: a wave is closed when one of its steps is planned.
OneReady == {{s} : s \in Ready}

NextWave == {Ready}

AddWave ==
    /\ phase = "planning" /\ Ready # {}
    /\ \E wave \in NextWave :
         waves' = Append(waves, wave) /\ completed' = completed \cup wave
    /\ UNCHANGED <<declared, phase, search, chain>>

AllPlanned ==
    /\ phase = "planning" /\ completed = Steps
    /\ phase' = "measuring"
    /\ UNCHANGED <<declared, search, plan>>

\* max(..., key=len): any of the dependencies with the longest chain.
Prefixes(s) ==
    IF DependsOn(s) = {} THEN {<<>>}
    ELSE {chain[d] : d \in {d \in DependsOn(s) : \A other \in DependsOn(s) : Len(chain[other]) <= Len(chain[d])}}

\* best_chain, in the order of the waves.
Measure ==
    /\ phase = "measuring"
    /\ \E s \in Steps :
         /\ chain[s] = <<>> /\ \A d \in DependsOn(s) : chain[d] # <<>>
         /\ \E prefix \in Prefixes(s) : chain' = [chain EXCEPT ![s] = Append(prefix, s)]
    /\ UNCHANGED <<declared, phase, search, completed, waves>>

Planned ==
    /\ phase = "measuring" /\ \A s \in Steps : chain[s] # <<>>
    /\ phase' = "planned"
    /\ UNCHANGED <<declared, search, plan>>

Next ==
    \/ VisitNext \/ Descend \/ PassOver \/ FindCycle \/ Leave \/ Validated
    \/ AddWave \/ AllPlanned \/ Measure \/ Planned

Spec == Init /\ [][Next]_vars

-----------------------------------------------------------------------------
\* What the search and the plan hold, by type.
TypeOK ==
    /\ declared \in Definitions
    /\ phase \in {"validating", "invalid", "planning", "measuring", "planned"}
    /\ stack \in Seq(Frame) /\ visiting \subseteq Steps /\ visited \subseteq Steps
    /\ completed \subseteq Steps /\ waves \in Seq(SUBSET Steps)
    /\ chain \in [Steps -> Seq(Steps)]

\* Steps that wait for one another: no run could ever start one of them.
Knot(set) == set # {} /\ \A s \in set : DependsOn(s) \cap set # {}

\* The validator refuses a definition exactly if an entry is flawed or some steps
\* wait for one another, in whatever order it visits them.
VerdictIsRight ==
    LET unusable == Flawed \/ \E set \in SUBSET Steps : Knot(set)
    IN  /\ phase = "invalid" => unusable
        /\ phase \in {"planning", "measuring", "planned"} => ~ unusable

\* "Validated workflow unexpectedly has no dependency-ready step." is never raised.
PlanIsNeverStuck == phase = "planning" /\ completed # Steps => Ready # {}

\* Each step is in one wave, right after the last wave of its dependencies; the
\* longest chain is one of dependencies and has one step in every wave.
WavesAreChains ==
    phase = "planned" =>
        /\ \A s \in Steps : \E i \in 1..Len(waves) :
             /\ \A j \in 1..Len(waves) : s \in waves[j] <=> j = i
             /\ \A d \in DependsOn(s) : \E j \in 1..i-1 : d \in waves[j]
             /\ i > 1 => DependsOn(s) \cap waves[i - 1] # {}
        /\ \A s \in Steps :
             /\ \A i \in 1..Len(chain[s]) - 1 : chain[s][i] \in DependsOn(chain[s][i + 1])
             /\ s \in waves[Len(chain[s])]
=============================================================================
