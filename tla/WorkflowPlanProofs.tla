---------------------------- MODULE WorkflowPlanProofs ----------------------------
(***************************************************************************)
(* Proofs about WorkflowPlan, for every definition with any number of      *)
(* steps, visited in any order.                                            *)
(***************************************************************************)
EXTENDS WorkflowPlan, SequenceTheorems, TLAPS

-----------------------------------------------------------------------------
(* The inductive invariant *)

\* The calls of visit follow dependencies; what a call has looked at is visited, or
\* is the call above it; nothing that is being visited is forgotten.
SearchSound ==
    /\ \A s \in visiting : \E i \in 1..Len(stack) : stack[i].step = s
    /\ \A i \in 1..Len(stack) : stack[i].todo \subseteq DependsOn(stack[i].step)
    /\ \A i \in 1..Len(stack) - 1 :
         /\ stack[i + 1].step \in DependsOn(stack[i].step)
         /\ DependsOn(stack[i].step) \ stack[i].todo \subseteq visited \cup {stack[i + 1].step}
    /\ stack # <<>> => DependsOn(Top.step) \ Top.todo \subseteq visited

\* No step that was visited waits in a knot.
VisitedIsLoose == \A set \in SUBSET Steps : Knot(set) => set \cap visited = {}

Unusable == Flawed \/ \E set \in SUBSET Steps : Knot(set)

VerdictSound ==
    /\ phase = "invalid" => Unusable
    /\ phase \in {"planning", "measuring", "planned"} => ~ Unusable

SearchInv == TypeOK /\ SearchSound /\ VisitedIsLoose /\ VerdictSound

-----------------------------------------------------------------------------
(* Sequences used as stacks *)

\* Taking the last element off leaves the others.
LEMMA FrontOfSeq ==
    ASSUME NEW S, NEW q \in Seq(S), q # <<>>
    PROVE  LET front == SubSeq(q, 1, Len(q) - 1)
           IN  /\ front \in Seq(S) /\ Len(front) = Len(q) - 1 /\ Len(q) \in Nat \ {0}
               /\ \A i \in 1..Len(q) - 1 : front[i] = q[i]
<1>1. Len(q) \in Nat /\ Len(q) # 0 /\ \A i \in 1..Len(q) : q[i] \in S
  BY ElementOfSeq, EmptySeq, LenProperties
<1>2. \A i \in 1..Len(q) - 1 : q[i] \in S
  BY <1>1
<1>3. 1 \in Int /\ Len(q) - 1 \in Int
  BY <1>1
<1> DEFINE front == SubSeq(q, 1, Len(q) - 1)
<1>4. /\ front \in Seq(S)
      /\ Len(front) = IF 1 <= Len(q) - 1 THEN Len(q) - 1 - 1 + 1 ELSE 0
      /\ \A i \in 1..Len(q) - 1 - 1 + 1 : front[i] = q[1 + i - 1]
  BY <1>2, <1>3, SubSeqProperties
<1> HIDE DEF front
<1>5. \A n \in Nat \ {0} : (IF 1 <= n - 1 THEN n - 1 - 1 + 1 ELSE 0) = n - 1
  OBVIOUS
<1>7. Len(front) = Len(q) - 1
  BY <1>1, <1>4, <1>5, Zenon
<1>6. \A i \in 1..Len(q) - 1 : front[i] = q[i]
  BY <1>1, <1>4
<1> QED BY <1>1, <1>4, <1>6, <1>7 DEF front

\* Calls and looks change the top of the stack only.
LEMMA StackFacts ==
    ASSUME TypeOK, stack # <<>>
    PROVE  /\ Len(stack) \in Nat \ {0} /\ Top \in Frame
           /\ Below \in Seq(Frame) /\ Len(Below) = Len(stack) - 1
           /\ \A i \in 1..Len(stack) - 1 : Below[i] = stack[i]
           /\ \A i \in 1..Len(stack) : stack[i] \in Frame
<1>1. stack \in Seq(Frame)
  BY DEF TypeOK
<1>2. /\ Below \in Seq(Frame) /\ Len(Below) = Len(stack) - 1 /\ Len(stack) \in Nat \ {0}
      /\ \A i \in 1..Len(stack) - 1 : Below[i] = stack[i]
  BY <1>1, FrontOfSeq, Zenon DEF Below
<1>3. \A i \in 1..Len(stack) : stack[i] \in Frame
  BY <1>1, ElementOfSeq
<1>4. Top \in Frame
  BY <1>2, <1>3 DEF Top
<1> QED BY <1>2, <1>3, <1>4

LEMMA LookedAtFacts ==
    ASSUME TypeOK, stack # <<>>, NEW d
    PROVE  /\ LookedAt(d) \in Seq(Frame) /\ Len(LookedAt(d)) = Len(stack)
           /\ \A i \in 1..Len(stack) - 1 : LookedAt(d)[i] = stack[i]
           /\ LookedAt(d)[Len(stack)] = [step |-> Top.step, todo |-> Top.todo \ {d}]
<1> DEFINE top == [Top EXCEPT !.todo = @ \ {d}]
<1> Top \in Frame
  BY StackFacts
<1>5. top = [step |-> Top.step, todo |-> Top.todo \ {d}]
  BY DEF Frame
<1>6. Top.step \in Steps /\ Top.todo \ {d} \in SUBSET Steps
  BY DEF Frame
<1>1. top \in Frame /\ top = [step |-> Top.step, todo |-> Top.todo \ {d}]
  BY <1>5, <1>6 DEF Frame
<1> HIDE DEF top
<1>2. Below \in Seq(Frame) /\ Len(Below) = Len(stack) - 1 /\ Len(stack) \in Nat \ {0}
      /\ \A i \in 1..Len(stack) - 1 : Below[i] = stack[i]
  BY StackFacts
<1>3. /\ Append(Below, top) \in Seq(Frame)
      /\ Len(Append(Below, top)) = Len(Below) + 1
      /\ \A i \in 1..Len(Below) : Append(Below, top)[i] = Below[i]
      /\ Append(Below, top)[Len(Below) + 1] = top
  BY <1>1, <1>2, AppendProperties
<1>4. LookedAt(d) = Append(Below, top)
  BY DEF LookedAt, top
<1> QED BY <1>1, <1>2, <1>3, <1>4

-----------------------------------------------------------------------------
(* The search keeps the invariant *)

\* A call of visit for a step that is not being visited and that the top of the
\* stack, if there is one, depends on.
LEMMA CallKeepsSearch ==
    ASSUME TypeOK, VisitedIsLoose, VerdictSound, phase = "validating",
           NEW frames \in Seq(Frame), NEW s \in Steps, Call(frames, s),
           \A t \in visiting : \E i \in 1..Len(frames) : frames[i].step = t,
           \A i \in 1..Len(frames) : frames[i].todo \subseteq DependsOn(frames[i].step),
           \A i \in 1..Len(frames) - 1 :
             /\ frames[i + 1].step \in DependsOn(frames[i].step)
             /\ DependsOn(frames[i].step) \ frames[i].todo \subseteq visited \cup {frames[i + 1].step},
           frames # <<>> =>
             LET top == frames[Len(frames)]
             IN  s \in DependsOn(top.step) /\ DependsOn(top.step) \ top.todo \subseteq visited \cup {s}
    PROVE  SearchInv'
<1> DEFINE new == [step |-> s, todo |-> DependsOn(s)]
<1>1. new \in Frame /\ new.step = s /\ new.todo = DependsOn(s)
  BY DEF Frame, DependsOn
<1> HIDE DEF new
<1>2. /\ Append(frames, new) \in Seq(Frame) /\ Append(frames, new) # <<>>
      /\ Len(Append(frames, new)) = Len(frames) + 1
      /\ \A i \in 1..Len(frames) : Append(frames, new)[i] = frames[i]
      /\ Append(frames, new)[Len(frames) + 1] = new
      /\ Len(frames) \in Nat
  BY <1>1, AppendProperties, LenProperties
<1>3. stack' = Append(frames, new) /\ visiting' = visiting \cup {s}
  BY DEF Call, new
<1>4. /\ stack' \in Seq(Frame) /\ Len(stack') = Len(frames) + 1 /\ Len(frames) \in Nat
      /\ \A i \in 1..Len(frames) : stack'[i] = frames[i]
      /\ stack'[Len(stack')] = new
  BY <1>2, <1>3
<1>5. declared' = declared /\ visited' = visited /\ phase' = phase /\ UNCHANGED plan
  BY DEF Call
<1>6. \A t : DependsOn(t)' = DependsOn(t)
  BY <1>5 DEF DependsOn
<1>7. TypeOK'
  BY <1>3, <1>4, <1>5 DEF TypeOK, plan
<1>8. \A t \in visiting' : \E i \in 1..Len(stack') : stack'[i].step = t
  <2> TAKE t \in visiting'
  <2>1. CASE t = s
    BY <2>1, <1>1, <1>4
  <2>2. CASE t # s
    BY <2>2, <1>3, <1>4
  <2> QED BY <2>1, <2>2
<1>9. \A i \in 1..Len(stack') : stack'[i].todo \subseteq DependsOn(stack'[i].step)
  BY <1>1, <1>4
<1>10. \A i \in 1..Len(stack') - 1 :
         /\ stack'[i + 1].step \in DependsOn(stack'[i].step)
         /\ DependsOn(stack'[i].step) \ stack'[i].todo \subseteq visited \cup {stack'[i + 1].step}
  <2> TAKE i \in 1..Len(stack') - 1
  <2>1. CASE i = Len(frames)
    <3>1. frames # <<>> /\ stack'[i] = frames[Len(frames)] /\ stack'[i + 1] = new
      BY <2>1, <1>4
    <3> QED BY <3>1, <1>1
  <2>2. CASE i # Len(frames)
    <3>1. i \in 1..Len(frames) - 1 /\ stack'[i] = frames[i] /\ stack'[i + 1] = frames[i + 1]
      BY <2>2, <1>4
    <3> QED BY <3>1
  <2> QED BY <2>1, <2>2
<1>11. SearchSound'
  BY <1>1, <1>4, <1>5, <1>8, <1>9, <1>10 DEF SearchSound, Top, DependsOn
<1>12. VisitedIsLoose' /\ VerdictSound'
  BY <1>5 DEF VisitedIsLoose, VerdictSound, Unusable, Knot, DependsOn, Flawed
<1> QED BY <1>7, <1>11, <1>12 DEF SearchInv

LEMMA VisitNextKeepsSearch == SearchInv /\ VisitNext => SearchInv'
<1> SUFFICES ASSUME SearchInv, VisitNext PROVE SearchInv'
  OBVIOUS
<1>1. PICK s \in Steps \ visited : Call(<<>>, s)
  BY DEF VisitNext
<1>2. stack = <<>> /\ phase = "validating"
  BY DEF VisitNext
<1>3. visiting = {}
  BY <1>2, EmptySeq DEF SearchInv, SearchSound
<1> DEFINE none == <<>>
<1>4. none \in Seq(Frame) /\ Len(none) = 0 /\ none = <<>>
  BY EmptySeq
<1>5. Call(none, s) /\ s \in Steps
  BY <1>1
<1> HIDE DEF none
<1>6. \A i \in 1..Len(none) : FALSE
  BY <1>4
<1>7. \A i \in 1..Len(none) - 1 : FALSE
  BY <1>4
<1>8. TypeOK /\ VisitedIsLoose /\ VerdictSound
  BY DEF SearchInv
<1> QED BY <1>2, <1>3, <1>4, <1>5, <1>6, <1>7, <1>8, CallKeepsSearch

LEMMA DescendKeepsSearch == SearchInv /\ Descend => SearchInv'
<1> SUFFICES ASSUME SearchInv, Descend PROVE SearchInv'
  OBVIOUS
<1>1. PICK d \in Top.todo \ (visiting \cup visited) : Call(LookedAt(d), d)
  BY DEF Descend
<1>2. stack # <<>> /\ phase = "validating" /\ TypeOK /\ SearchSound
  BY DEF Descend, SearchInv
<1> DEFINE q == LookedAt(d)
<1>3. /\ q \in Seq(Frame) /\ Len(q) = Len(stack)
      /\ \A i \in 1..Len(stack) - 1 : q[i] = stack[i]
      /\ q[Len(stack)] = [step |-> Top.step, todo |-> Top.todo \ {d}]
  BY <1>2, LookedAtFacts
<1> HIDE DEF q
<1>4. Len(stack) \in Nat \ {0} /\ Top = stack[Len(stack)] /\ Top \in Frame
  BY <1>2, StackFacts DEF Top
<1>5. /\ \A i \in 1..Len(q) : q[i].step = stack[i].step /\ q[i].todo \subseteq stack[i].todo
      /\ \A i \in 1..Len(q) - 1 : q[i] = stack[i]
      /\ q[Len(q)].step = Top.step /\ q[Len(q)].todo = Top.todo \ {d}
  <2>1. q[Len(q)].step = Top.step /\ q[Len(q)].todo = Top.todo \ {d}
    BY <1>3
  <2> QED BY <2>1, <1>3, <1>4
<1>6. d \in DependsOn(Top.step) /\ d \in Steps
  BY <1>2, <1>4 DEF SearchSound, DependsOn
<1>7. \A t \in visiting : \E i \in 1..Len(q) : q[i].step = t
  BY <1>2, <1>3, <1>5 DEF SearchSound
<1>8. \A i \in 1..Len(q) : q[i].todo \subseteq DependsOn(q[i].step)
  <2> TAKE i \in 1..Len(q)
  <2>1. stack[i].todo \subseteq DependsOn(stack[i].step)
    BY <1>2, <1>3 DEF SearchSound
  <2> QED BY <2>1, <1>5
<1>9. \A i \in 1..Len(q) - 1 :
         /\ q[i + 1].step \in DependsOn(q[i].step)
         /\ DependsOn(q[i].step) \ q[i].todo \subseteq visited \cup {q[i + 1].step}
  <2> TAKE i \in 1..Len(q) - 1
  <2>1. /\ stack[i + 1].step \in DependsOn(stack[i].step)
        /\ DependsOn(stack[i].step) \ stack[i].todo \subseteq visited \cup {stack[i + 1].step}
    BY <1>2, <1>3 DEF SearchSound
  <2>2. q[i] = stack[i] /\ q[i + 1].step = stack[i + 1].step
    BY <1>3, <1>4, <1>5
  <2> QED BY <2>1, <2>2
<1>10. DependsOn(Top.step) \ (Top.todo \ {d}) \subseteq visited \cup {d}
  BY <1>2 DEF SearchSound
<1>11. Call(q, d)
  BY <1>1 DEF q
<1>12. d \in DependsOn(q[Len(q)].step) /\ DependsOn(q[Len(q)].step) \ q[Len(q)].todo \subseteq visited \cup {d}
  BY <1>5, <1>6, <1>10
<1>13. VisitedIsLoose /\ VerdictSound
  BY DEF SearchInv
<1> QED BY <1>2, <1>3, <1>6, <1>7, <1>8, <1>9, <1>11, <1>12, <1>13, CallKeepsSearch

LEMMA PassOverKeepsSearch == SearchInv /\ PassOver => SearchInv'
<1> SUFFICES ASSUME SearchInv, PassOver PROVE SearchInv'
  OBVIOUS
<1>1. stack # <<>> /\ TypeOK /\ SearchSound
  BY DEF PassOver, SearchInv
<1>2. PICK d \in Top.todo \cap visited : stack' = LookedAt(d)
  BY DEF PassOver, Finished
<1>3. /\ stack' \in Seq(Frame) /\ Len(stack') = Len(stack)
      /\ \A i \in 1..Len(stack) - 1 : stack'[i] = stack[i]
      /\ stack'[Len(stack)] = [step |-> Top.step, todo |-> Top.todo \ {d}]
  BY <1>1, <1>2, LookedAtFacts
<1>4. Len(stack) \in Nat \ {0} /\ Top = stack[Len(stack)]
  BY <1>1, StackFacts DEF Top
<1>5. /\ \A i \in 1..Len(stack) : stack'[i].step = stack[i].step /\ stack'[i].todo \subseteq stack[i].todo
      /\ stack'[Len(stack)].step = Top.step /\ stack'[Len(stack)].todo = Top.todo \ {d}
  <2>1. stack'[Len(stack)].step = Top.step /\ stack'[Len(stack)].todo = Top.todo \ {d}
    BY <1>3
  <2> QED BY <2>1, <1>3, <1>4
<1>6. UNCHANGED <<declared, phase, visiting, visited, completed, waves, chain>>
  BY DEF PassOver, plan
<1>7. TypeOK'
  BY <1>1, <1>3, <1>6 DEF TypeOK
<1>8. \A s \in visiting : \E i \in 1..Len(stack) : stack'[i].step = s
  BY <1>1, <1>5 DEF SearchSound
<1>9. \A i \in 1..Len(stack) : stack'[i].todo \subseteq DependsOn(stack'[i].step)
  <2> TAKE i \in 1..Len(stack)
  <2>1. stack[i].todo \subseteq DependsOn(stack[i].step)
    BY <1>1 DEF SearchSound
  <2> QED BY <2>1, <1>5
<1>10. \A i \in 1..Len(stack) - 1 :
         /\ stack'[i + 1].step \in DependsOn(stack'[i].step)
         /\ DependsOn(stack'[i].step) \ stack'[i].todo \subseteq visited \cup {stack'[i + 1].step}
  <2> TAKE i \in 1..Len(stack) - 1
  <2>1. /\ stack[i + 1].step \in DependsOn(stack[i].step)
        /\ DependsOn(stack[i].step) \ stack[i].todo \subseteq visited \cup {stack[i + 1].step}
    BY <1>1 DEF SearchSound
  <2>2. stack'[i] = stack[i] /\ stack'[i + 1].step = stack[i + 1].step
    BY <1>3, <1>4, <1>5
  <2> QED BY <2>1, <2>2
<1>11. DependsOn(Top.step) \ (Top.todo \ {d}) \subseteq visited
  BY <1>1, <1>2 DEF SearchSound
<1>12. DependsOn(stack'[Len(stack)].step) \ stack'[Len(stack)].todo \subseteq visited
  BY <1>5, <1>11
<1>13. SearchSound'
  BY <1>3, <1>6, <1>8, <1>9, <1>10, <1>12 DEF SearchSound, Top, DependsOn
<1>14. VisitedIsLoose' /\ VerdictSound'
  BY <1>6 DEF SearchInv, VisitedIsLoose, VerdictSound, Unusable, Knot, DependsOn, Flawed
<1> QED BY <1>7, <1>13, <1>14 DEF SearchInv

\* A step is left when all its dependencies are visited: it is in no knot.
LEMMA LeaveKeepsSearch == SearchInv /\ Leave => SearchInv'
<1> SUFFICES ASSUME SearchInv, Leave PROVE SearchInv'
  OBVIOUS
<1>1. stack # <<>> /\ TypeOK /\ SearchSound /\ Top.todo = {}
  BY DEF Leave, SearchInv
<1>2. /\ Len(stack) \in Nat \ {0} /\ Top = stack[Len(stack)] /\ Top.step \in Steps
      /\ stack' \in Seq(Frame) /\ Len(stack') = Len(stack) - 1
      /\ \A i \in 1..Len(stack) - 1 : stack'[i] = stack[i]
  BY <1>1, StackFacts DEF Top, Frame, Leave
<1>3. /\ UNCHANGED <<declared, phase, completed, waves, chain>>
      /\ visiting' = visiting \ {Top.step} /\ visited' = visited \cup {Top.step}
  BY DEF Leave, plan
<1>4. DependsOn(Top.step) \subseteq visited
  BY <1>1 DEF SearchSound
<1>5. TypeOK'
  BY <1>1, <1>2, <1>3 DEF TypeOK
<1>6. \A s \in visiting' : \E i \in 1..Len(stack') : stack'[i].step = s
  <2> TAKE s \in visiting'
  <2>1. PICK i \in 1..Len(stack) : stack[i].step = s
    BY <1>1, <1>3 DEF SearchSound
  <2>2. i \in 1..Len(stack') /\ stack'[i] = stack[i]
    BY <1>2, <1>3, <2>1
  <2> QED BY <2>1, <2>2
<1>7. \A i \in 1..Len(stack') : stack'[i].todo \subseteq DependsOn(stack'[i].step)
  BY <1>1, <1>2 DEF SearchSound
<1>8. \A i \in 1..Len(stack') :
         /\ stack[i + 1].step \in DependsOn(stack'[i].step)
         /\ DependsOn(stack'[i].step) \ stack'[i].todo \subseteq visited \cup {stack[i + 1].step}
  BY <1>1, <1>2 DEF SearchSound
<1>9. \A i \in 1..Len(stack') - 1 :
         /\ stack'[i + 1].step \in DependsOn(stack'[i].step)
         /\ DependsOn(stack'[i].step) \ stack'[i].todo \subseteq visited' \cup {stack'[i + 1].step}
  BY <1>2, <1>3, <1>8
<1>10. stack' # <<>> => DependsOn(stack'[Len(stack')].step) \ stack'[Len(stack')].todo \subseteq visited'
  <2> SUFFICES ASSUME stack' # <<>>
               PROVE  DependsOn(stack'[Len(stack')].step) \ stack'[Len(stack')].todo \subseteq visited'
    OBVIOUS
  <2>1. Len(stack') \in 1..Len(stack') /\ stack[Len(stack') + 1] = Top
    BY <1>2, EmptySeq
  <2> QED BY <2>1, <1>3, <1>8
<1>11. SearchSound'
  BY <1>3, <1>6, <1>7, <1>9, <1>10 DEF SearchSound, Top, DependsOn
<1>12. VisitedIsLoose'
  <2>1. \A set \in SUBSET Steps : Knot(set) => set \cap visited' = {}
    BY <1>3, <1>4 DEF SearchInv, VisitedIsLoose, Knot
  <2> QED BY <2>1, <1>3 DEF VisitedIsLoose, Knot, DependsOn
<1>13. VerdictSound'
  BY <1>3 DEF SearchInv, VerdictSound, Unusable, Knot, DependsOn, Flawed
<1> QED BY <1>5, <1>11, <1>12, <1>13 DEF SearchInv

\* The calls from the step that is met again to the top are a knot.
LEMMA FindCycleKeepsSearch == SearchInv /\ FindCycle => SearchInv'
<1> SUFFICES ASSUME SearchInv, FindCycle PROVE SearchInv'
  OBVIOUS
<1>1. stack # <<>> /\ TypeOK /\ SearchSound
  BY DEF FindCycle, SearchInv
<1>2. PICK d \in Top.todo : d \in visiting
  BY DEF FindCycle, OnPath
<1>3. Len(stack) \in Nat \ {0} /\ Top = stack[Len(stack)] /\ \A i \in 1..Len(stack) : stack[i] \in Frame
  BY <1>1, StackFacts DEF Top
<1>4. PICK k \in 1..Len(stack) : stack[k].step = d
  BY <1>1, <1>2 DEF SearchSound
<1> DEFINE set == {stack[i].step : i \in k..Len(stack)}
<1>5. set \in SUBSET Steps /\ d \in set
  BY <1>3, <1>4 DEF Frame
<1>6. \A i \in k..Len(stack) : DependsOn(stack[i].step) \cap set # {}
  <2> TAKE i \in k..Len(stack)
  <2>1. CASE i = Len(stack)
    <3>1. d \in DependsOn(stack[i].step)
      BY <2>1, <1>1, <1>2, <1>3 DEF SearchSound
    <3> QED BY <3>1, <1>5
  <2>2. CASE i # Len(stack)
    <3>1. i \in 1..Len(stack) - 1 /\ i + 1 \in k..Len(stack)
      BY <2>2, <1>3, <1>4
    <3>2. stack[i + 1].step \in DependsOn(stack[i].step) /\ stack[i + 1].step \in set
      BY <3>1, <1>1 DEF SearchSound
    <3> QED BY <3>2
  <2> QED BY <2>1, <2>2
<1>7. Knot(set)
  BY <1>5, <1>6 DEF Knot
<1> HIDE DEF set
<1>8. Unusable
  BY <1>5, <1>7 DEF Unusable
<1>9. UNCHANGED <<declared, stack, visiting, visited, completed, waves, chain>> /\ phase' = "invalid"
  BY DEF FindCycle, search, plan
<1>10. TypeOK' /\ SearchSound' /\ VisitedIsLoose'
  BY <1>9 DEF SearchInv, TypeOK, SearchSound, VisitedIsLoose, Knot, DependsOn, Top
<1>11. VerdictSound'
  BY <1>8, <1>9 DEF VerdictSound, Unusable, Knot, DependsOn, Flawed
<1> QED BY <1>10, <1>11 DEF SearchInv

LEMMA ValidatedKeepsSearch == SearchInv /\ Validated => SearchInv'
<1> SUFFICES ASSUME SearchInv, Validated PROVE SearchInv'
  OBVIOUS
<1>1. /\ visited = Steps /\ phase' = IF Flawed THEN "invalid" ELSE "planning"
      /\ UNCHANGED <<declared, stack, visiting, visited, completed, waves, chain>>
  BY DEF Validated, search, plan
<1>2. ~ \E set \in SUBSET Steps : Knot(set)
  BY <1>1 DEF SearchInv, VisitedIsLoose, Knot
<1>3. TypeOK' /\ SearchSound' /\ VisitedIsLoose'
  BY <1>1 DEF SearchInv, TypeOK, SearchSound, VisitedIsLoose, Knot, DependsOn, Top
<1>4. VerdictSound'
  BY <1>1, <1>2 DEF VerdictSound, Unusable, Knot, DependsOn, Flawed
<1> QED BY <1>3, <1>4 DEF SearchInv

-----------------------------------------------------------------------------
(* The plan keeps the invariant, and it holds of every definition *)

LEMMA AddWaveKeepsSearch == SearchInv /\ AddWave => SearchInv'
<1> SUFFICES ASSUME SearchInv, AddWave PROVE SearchInv'
  OBVIOUS
<1>1. /\ UNCHANGED <<declared, phase, stack, visiting, visited, chain>>
      /\ waves' = Append(waves, Ready) /\ completed' = completed \cup Ready
  BY DEF AddWave, NextWave, search
<1>2. Ready \in SUBSET Steps
  BY DEF Ready
<1>3. waves' \in Seq(SUBSET Steps)
  BY <1>1, <1>2, AppendProperties DEF SearchInv, TypeOK
<1>4. TypeOK'
  BY <1>1, <1>2, <1>3 DEF SearchInv, TypeOK
<1> QED
  BY <1>1, <1>4 DEF SearchInv, SearchSound, VisitedIsLoose, VerdictSound, Unusable, Knot,
                   DependsOn, Flawed, Top

LEMMA MeasureKeepsSearch == SearchInv /\ Measure => SearchInv'
<1> SUFFICES ASSUME SearchInv, Measure PROVE SearchInv'
  OBVIOUS
<1>0. PICK s \in Steps : \E prefix \in Prefixes(s) : chain' = [chain EXCEPT ![s] = Append(prefix, s)]
  BY DEF Measure
<1>1. PICK prefix \in Prefixes(s) : chain' = [chain EXCEPT ![s] = Append(prefix, s)]
  BY <1>0
<1>2. UNCHANGED <<declared, phase, stack, visiting, visited, completed, waves>>
  BY DEF Measure, search
<1>3. prefix \in Seq(Steps)
  <2>1. DependsOn(s) \subseteq Steps /\ chain \in [Steps -> Seq(Steps)]
    BY DEF DependsOn, SearchInv, TypeOK
  <2>2. <<>> \in Seq(Steps)
    BY EmptySeq
  <2> QED BY <2>1, <2>2 DEF Prefixes
<1>4. Append(prefix, s) \in Seq(Steps)
  BY <1>3, AppendProperties
<1>5. TypeOK'
  BY <1>1, <1>2, <1>4 DEF SearchInv, TypeOK
<1> QED
  BY <1>2, <1>5 DEF SearchInv, SearchSound, VisitedIsLoose, VerdictSound, Unusable, Knot,
                   DependsOn, Flawed, Top

LEMMA SearchInitially == Init => SearchInv
<1> SUFFICES ASSUME Init PROVE SearchInv
  OBVIOUS
<1>1. <<>> \in Seq(Frame) /\ <<>> \in Seq(SUBSET Steps) /\ <<>> \in Seq(Steps) /\ Len(stack) = 0
  BY EmptySeq DEF Init
<1>2. TypeOK
  BY <1>1 DEF Init, TypeOK
<1>3. SearchSound
  BY <1>1 DEF Init, SearchSound
<1>4. VisitedIsLoose /\ VerdictSound
  BY DEF Init, VisitedIsLoose, VerdictSound
<1> QED BY <1>2, <1>3, <1>4 DEF SearchInv

LEMMA SearchSteps == SearchInv /\ [Next]_vars => SearchInv'
<1> SUFFICES ASSUME SearchInv, [Next]_vars PROVE SearchInv'
  OBVIOUS
<1>1. CASE VisitNext  BY <1>1, VisitNextKeepsSearch
<1>2. CASE Descend    BY <1>2, DescendKeepsSearch
<1>3. CASE PassOver   BY <1>3, PassOverKeepsSearch
<1>4. CASE FindCycle  BY <1>4, FindCycleKeepsSearch
<1>5. CASE Leave      BY <1>5, LeaveKeepsSearch
<1>6. CASE Validated  BY <1>6, ValidatedKeepsSearch
<1>7. CASE AddWave    BY <1>7, AddWaveKeepsSearch
<1>8. CASE Measure    BY <1>8, MeasureKeepsSearch
<1>9. CASE AllPlanned \/ Planned \/ UNCHANGED vars
  <2>1. /\ UNCHANGED <<declared, stack, visiting, visited, completed, waves, chain>>
        /\ \/ phase' = phase
           \/ phase = "planning" /\ phase' = "measuring"
           \/ phase = "measuring" /\ phase' = "planned"
    BY <1>9 DEF AllPlanned, Planned, vars, search, plan
  <2> QED
    BY <2>1 DEF SearchInv, TypeOK, SearchSound, VisitedIsLoose, VerdictSound, Unusable, Knot,
                DependsOn, Flawed, Top
<1> QED BY <1>1, <1>2, <1>3, <1>4, <1>5, <1>6, <1>7, <1>8, <1>9 DEF Next

LEMMA SearchAlways == Spec => []SearchInv
BY SearchInitially, SearchSteps, PTL DEF Spec

\* Search and plan are well typed in every state.
THEOREM PlanTypes == Spec => []TypeOK
BY SearchAlways, PTL DEF SearchInv

\* The validator refuses a definition exactly if an entry is flawed or some steps
\* wait for one another, however many steps there are and in whatever order it
\* visits them and their dependencies.
THEOREM VerdictAlwaysRight == Spec => []VerdictIsRight
<1>1. SearchInv => VerdictIsRight
  BY DEF SearchInv, VerdictSound, Unusable, VerdictIsRight
<1> QED BY <1>1, SearchAlways, PTL

\* A definition that was accepted always has a next wave until all is planned: what
\* would be left without one is a knot.
THEOREM PlanNeverStuck == Spec => []PlanIsNeverStuck
<1>1. SearchInv => PlanIsNeverStuck
  <2> SUFFICES ASSUME SearchInv, phase = "planning", completed # Steps, Ready = {}
               PROVE  FALSE
    BY DEF PlanIsNeverStuck
  <2> DEFINE set == Steps \ completed
  <2>1. set # {} /\ set \in SUBSET Steps
    BY DEF SearchInv, TypeOK
  <2>2. \A s \in set : DependsOn(s) \cap set # {}
    BY DEF Ready, DependsOn
  <2> QED BY <2>1, <2>2 DEF Knot, SearchInv, VerdictSound, Unusable
<1> QED BY <1>1, SearchAlways, PTL

-----------------------------------------------------------------------------
(* Waves and chains *)

\* Each planned step is in one wave, after those of its dependencies, and right
\* after one; a step that is not planned depends on the last wave or on another
\* that is not planned.
WavesSound ==
    /\ \A s \in Steps : s \in completed <=> \E i \in 1..Len(waves) : s \in waves[i]
    /\ \A i, j \in 1..Len(waves) : i # j => waves[i] \cap waves[j] = {}
    /\ \A i \in 1..Len(waves) : \A s \in waves[i] :
         /\ \A d \in DependsOn(s) : \E j \in 1..i - 1 : d \in waves[j]
         /\ i > 1 => DependsOn(s) \cap waves[i - 1] # {}
    /\ waves # <<>> => \A s \in Steps \ completed :
         \E d \in DependsOn(s) : \A j \in 1..Len(waves) - 1 : d \notin waves[j]

\* A measured step's chain ends in it, follows dependencies, and is as long as the
\* waves up to the step's.
ChainsSound ==
    \A s \in Steps : chain[s] # <<>> =>
        /\ Len(chain[s]) \in 1..Len(waves) /\ s \in waves[Len(chain[s])]
        /\ chain[s][Len(chain[s])] = s
        /\ \A i \in 1..Len(chain[s]) - 1 : chain[s][i] \in DependsOn(chain[s][i + 1])

PhaseSound ==
    /\ phase \in {"measuring", "planned"} => completed = Steps
    /\ phase \notin {"measuring", "planned"} => chain = [s \in Steps |-> <<>>]
    /\ phase = "planned" => \A s \in Steps : chain[s] # <<>>

PlanInv == TypeOK /\ WavesSound /\ ChainsSound /\ PhaseSound

\* The waves stay as they are while nothing is planned.
LEMMA WavesUnchanged ==
    ASSUME WavesSound, UNCHANGED <<declared, completed, waves>>
    PROVE  WavesSound'
<1>1. \A s : DependsOn(s)' = DependsOn(s)
  BY DEF DependsOn
<1>2. \A s \in Steps : s \in completed' <=> \E i \in 1..Len(waves') : s \in waves'[i]
  BY DEF WavesSound
<1>3. \A i, j \in 1..Len(waves') : i # j => waves'[i] \cap waves'[j] = {}
  BY DEF WavesSound
<1>4. \A i \in 1..Len(waves') : \A s \in waves'[i] :
        /\ \A d \in DependsOn(s)' : \E j \in 1..i - 1 : d \in waves'[j]
        /\ i > 1 => DependsOn(s)' \cap waves'[i - 1] # {}
  BY <1>1 DEF WavesSound
<1>5. waves' # <<>> => \A s \in Steps \ completed' :
        \E d \in DependsOn(s)' : \A j \in 1..Len(waves') - 1 : d \notin waves'[j]
  BY <1>1 DEF WavesSound
<1> QED BY <1>2, <1>3, <1>4, <1>5 DEF WavesSound

LEMMA AddWaveKeepsPlan == PlanInv /\ TypeOK' /\ AddWave => PlanInv'
<1> SUFFICES ASSUME PlanInv, TypeOK', AddWave PROVE PlanInv'
  OBVIOUS
<1> DEFINE n == Len(waves)
<1>1. /\ declared' = declared /\ phase' = phase /\ chain' = chain /\ phase = "planning"
      /\ waves' = Append(waves, Ready) /\ completed' = completed \cup Ready
  BY DEF AddWave, NextWave
<1>2. Ready \in SUBSET Steps
  BY DEF Ready
<1>3. /\ Len(waves') = n + 1 /\ n \in Nat /\ waves' # <<>>
      /\ \A i \in 1..n : waves'[i] = waves[i]
      /\ waves'[n + 1] = Ready
  <2>1. waves \in Seq(SUBSET Steps)
    BY DEF PlanInv, TypeOK
  <2> QED BY <1>1, <1>2, <2>1, AppendProperties, LenProperties
<1> HIDE DEF n
<1>4. /\ \A s \in Steps : s \in completed <=> \E i \in 1..n : s \in waves[i]
      /\ \A i, j \in 1..n : i # j => waves[i] \cap waves[j] = {}
      /\ \A i \in 1..n : \A s \in waves[i] :
           /\ \A d \in DependsOn(s) : \E j \in 1..i - 1 : d \in waves[j]
           /\ i > 1 => DependsOn(s) \cap waves[i - 1] # {}
  BY DEF PlanInv, WavesSound, n
<1>5. n > 0 => \A s \in Steps \ completed : \E d \in DependsOn(s) : \A j \in 1..n - 1 : d \notin waves[j]
  BY EmptySeq DEF PlanInv, WavesSound, n
<1>6. \A i \in 1..n : waves[i] \subseteq Steps
  BY ElementOfSeq DEF PlanInv, TypeOK, n
<1>7. \A s \in Steps : s \in completed' <=> \E i \in 1..n + 1 : s \in waves'[i]
  <2> TAKE s \in Steps
  <2>1. CASE s \in Ready
    BY <2>1, <1>1, <1>3
  <2>2. CASE s \notin Ready
    <3>1. ASSUME NEW i \in 1..n + 1 PROVE s \in waves'[i] <=> i \in 1..n /\ s \in waves[i]
      BY <2>2, <1>3
    <3>2. s \in completed' <=> s \in completed
      BY <2>2, <1>1
    <3> QED BY <3>1, <3>2, <1>3, <1>4
  <2> QED BY <2>1, <2>2
<1>8. \A i \in 1..n : waves[i] \cap Ready = {}
  BY <1>4, <1>6 DEF Ready
<1>9. \A i, j \in 1..n + 1 : i # j => waves'[i] \cap waves'[j] = {}
  <2> TAKE i, j \in 1..n + 1
  <2>1. CASE i \in 1..n /\ j \in 1..n
    BY <2>1, <1>3, <1>4
  <2>2. CASE i = n + 1 /\ j \in 1..n
    BY <2>2, <1>3, <1>8
  <2>3. CASE i \in 1..n /\ j = n + 1
    BY <2>3, <1>3, <1>8
  <2> QED BY <2>1, <2>2, <2>3, <1>3
<1>10. \A i \in 1..n + 1 : \A s \in waves'[i] :
         /\ \A d \in DependsOn(s) : \E j \in 1..i - 1 : d \in waves'[j]
         /\ i > 1 => DependsOn(s) \cap waves'[i - 1] # {}
  <2> TAKE i \in 1..n + 1
  <2> TAKE s \in waves'[i]
  <2>1. CASE i \in 1..n
    <3>1. s \in waves[i] /\ \A j \in 1..i - 1 : waves'[j] = waves[j]
      BY <2>1, <1>3
    <3>2. i > 1 => i - 1 \in 1..n /\ waves'[i - 1] = waves[i - 1]
      BY <2>1, <1>3
    <3>3. \A d \in DependsOn(s) : \E j \in 1..i - 1 : d \in waves'[j]
      BY <2>1, <3>1, <1>4
    <3>4. i > 1 => DependsOn(s) \cap waves'[i - 1] # {}
      BY <2>1, <3>1, <3>2, <1>4
    <3> QED BY <3>3, <3>4
  <2>2. CASE i = n + 1
    <3>1. s \in Ready /\ s \in Steps \ completed /\ DependsOn(s) \subseteq completed
      BY <2>2, <1>3 DEF Ready
    <3>2. \A d \in DependsOn(s) : \E j \in 1..n : d \in waves[j]
      BY <3>1, <1>4 DEF DependsOn
    <3>3. \A d \in DependsOn(s) : \E j \in 1..i - 1 : d \in waves'[j]
      BY <2>2, <3>2, <1>3
    <3>4. i > 1 => DependsOn(s) \cap waves'[i - 1] # {}
      <4> SUFFICES ASSUME n > 0 PROVE DependsOn(s) \cap waves[n] # {}
        BY <2>2, <1>3
      <4>1. PICK d \in DependsOn(s) : \A j \in 1..n - 1 : d \notin waves[j]
        BY <3>1, <1>5
      <4>2. PICK j \in 1..n : d \in waves[j]
        BY <3>2, <4>1
      <4>3. j = n
        BY <4>1, <4>2, <1>3
      <4> QED BY <4>1, <4>2, <4>3
    <3> QED BY <3>3, <3>4
  <2> QED BY <2>1, <2>2, <1>3
<1>11. \A s \in Steps \ completed' : \E d \in DependsOn(s) : \A j \in 1..n : d \notin waves'[j]
  <2> TAKE s \in Steps \ completed'
  <2>1. PICK d \in DependsOn(s) : d \notin completed
    BY <1>1 DEF Ready
  <2> QED BY <2>1, <1>3, <1>4 DEF DependsOn
<1>12. WavesSound'
  <2>1. \A t : DependsOn(t)' = DependsOn(t)
    BY <1>1 DEF DependsOn
  <2>2. Len(waves') - 1 = n
    BY <1>3
  <2>3. \A s \in Steps : s \in completed' <=> \E i \in 1..Len(waves') : s \in waves'[i]
    BY <1>3, <1>7
  <2>4. \A i, j \in 1..Len(waves') : i # j => waves'[i] \cap waves'[j] = {}
    BY <1>3, <1>9
  <2>5. \A i \in 1..Len(waves') : \A s \in waves'[i] :
          /\ \A d \in DependsOn(s)' : \E j \in 1..i - 1 : d \in waves'[j]
          /\ i > 1 => DependsOn(s)' \cap waves'[i - 1] # {}
    <3> TAKE i \in 1..Len(waves')
    <3> TAKE s \in waves'[i]
    <3>1. i \in 1..n + 1
      BY <1>3
    <3> QED BY <3>1, <2>1, <1>10
  <2>6. \A s \in Steps \ completed' : \E d \in DependsOn(s)' : \A j \in 1..Len(waves') - 1 : d \notin waves'[j]
    <3> TAKE s \in Steps \ completed'
    <3>1. PICK d \in DependsOn(s) : \A j \in 1..n : d \notin waves'[j]
      BY <1>11
    <3> QED BY <3>1, <2>1, <2>2
  <2> QED BY <2>3, <2>4, <2>5, <2>6 DEF WavesSound
<1>13. ChainsSound' /\ PhaseSound'
  BY <1>1 DEF PlanInv, PhaseSound, ChainsSound
<1> QED BY <1>12, <1>13 DEF PlanInv

\* The longest of the dependencies' chains ends in the wave before the step's.
LEMMA MeasureKeepsPlan == PlanInv /\ TypeOK' /\ Measure => PlanInv'
<1> SUFFICES ASSUME PlanInv, TypeOK', Measure PROVE PlanInv'
  OBVIOUS
<1>1. PICK s \in Steps :
        /\ chain[s] = <<>> /\ \A d \in DependsOn(s) : chain[d] # <<>>
        /\ \E prefix \in Prefixes(s) : chain' = [chain EXCEPT ![s] = Append(prefix, s)]
  BY DEF Measure
<1>2. PICK prefix \in Prefixes(s) : chain' = [chain EXCEPT ![s] = Append(prefix, s)]
  BY <1>1
<1>3. /\ UNCHANGED <<declared, phase, completed, waves>> /\ phase = "measuring"
      /\ chain \in [Steps -> Seq(Steps)] /\ completed = Steps
      /\ DependsOn(s) \subseteq Steps /\ WavesSound /\ ChainsSound
      /\ waves \in Seq(SUBSET Steps)
  BY DEF Measure, PlanInv, TypeOK, PhaseSound, DependsOn
<1>4. PICK k \in 1..Len(waves) : s \in waves[k]
  BY <1>3 DEF WavesSound
<1>5. Len(waves) \in Nat
  BY <1>3, LenProperties
<1>6. /\ prefix \in Seq(Steps) /\ Len(prefix) = k - 1
      /\ \A i \in 1..Len(prefix) - 1 : prefix[i] \in DependsOn(prefix[i + 1])
      /\ prefix # <<>> => prefix[Len(prefix)] \in DependsOn(s)
  <2>1. CASE DependsOn(s) = {}
    <3>1. prefix = <<>>
      BY <1>2, <2>1 DEF Prefixes
    <3>2. prefix \in Seq(Steps) /\ Len(prefix) = 0
      BY <3>1, EmptySeq
    <3>3. k = 1
      BY <1>3, <1>4, <1>5, <2>1 DEF WavesSound
    <3> QED BY <3>1, <3>2, <3>3
  <2>2. CASE DependsOn(s) # {}
    <3>1. PICK d \in DependsOn(s) : prefix = chain[d] /\ \A e \in DependsOn(s) : Len(chain[e]) <= Len(chain[d])
      BY <1>2, <2>2 DEF Prefixes
    <3>2. \A e \in DependsOn(s) : /\ Len(chain[e]) \in 1..Len(waves) /\ e \in waves[Len(chain[e])]
                             /\ chain[e] \in Seq(Steps)
      BY <1>1, <1>3 DEF ChainsSound
    <3>3. PICK j \in 1..k - 1 : d \in waves[j]
      BY <1>3, <1>4 DEF WavesSound
    <3>4. j = Len(chain[d])
      <4>1. j \in 1..Len(waves) /\ Len(chain[d]) \in 1..Len(waves) /\ d \in waves[Len(chain[d])]
        BY <1>4, <1>5, <3>2, <3>3
      <4> QED BY <4>1, <3>3, <1>3 DEF WavesSound
    <3>5. k > 1 /\ k - 1 \in 1..Len(waves)
      BY <1>4, <1>5, <3>3
    <3>6. PICK e \in DependsOn(s) : e \in waves[k - 1]
      BY <1>3, <1>4, <3>5 DEF WavesSound
    <3>7. Len(chain[e]) = k - 1
      BY <3>2, <3>5, <3>6, <1>3 DEF WavesSound
    <3>8. Len(chain[d]) = k - 1
      BY <3>1, <3>3, <3>4, <3>7, <1>4, <1>5
    <3>9. /\ chain[d][Len(chain[d])] = d
          /\ \A i \in 1..Len(chain[d]) - 1 : chain[d][i] \in DependsOn(chain[d][i + 1])
      BY <1>1, <1>3 DEF ChainsSound
    <3> QED BY <3>1, <3>2, <3>8, <3>9
  <2> QED BY <2>1, <2>2
<1> DEFINE longer == Append(prefix, s)
<1>7. /\ longer \in Seq(Steps) /\ longer # <<>> /\ Len(longer) = Len(prefix) + 1
      /\ \A i \in 1..Len(prefix) : longer[i] = prefix[i]
      /\ longer[Len(prefix) + 1] = s
  BY <1>6, AppendProperties
<1>8. chain' = [chain EXCEPT ![s] = longer]
  BY <1>2
<1> HIDE DEF longer
<1>9. Len(longer) = k /\ longer[k] = s /\ Len(prefix) = k - 1
  BY <1>4, <1>5, <1>6, <1>7
<1>10. \A i \in 1..k - 1 : longer[i] \in DependsOn(longer[i + 1])
  <2> TAKE i \in 1..k - 1
  <2>1. CASE i = k - 1
    <3>1. prefix # <<>> /\ longer[i] = prefix[Len(prefix)] /\ longer[i + 1] = s
      BY <2>1, <1>4, <1>5, <1>7, <1>9, EmptySeq
    <3> QED BY <3>1, <1>6
  <2>2. CASE i # k - 1
    <3>1. i \in 1..Len(prefix) - 1 /\ longer[i] = prefix[i] /\ longer[i + 1] = prefix[i + 1]
      BY <2>2, <1>4, <1>5, <1>7, <1>9
    <3> QED BY <3>1, <1>6
  <2> QED BY <2>1, <2>2
<1>11. ASSUME NEW t \in Steps, chain'[t] # <<>>
       PROVE  /\ Len(chain'[t]) \in 1..Len(waves) /\ t \in waves[Len(chain'[t])]
              /\ chain'[t][Len(chain'[t])] = t
              /\ \A i \in 1..Len(chain'[t]) - 1 : chain'[t][i] \in DependsOn(chain'[t][i + 1])
  <2>1. CASE t = s
    <3>1. chain'[t] = longer
      BY <1>3, <1>8, <2>1
    <3> QED BY <3>1, <2>1, <1>4, <1>9, <1>10
  <2>2. CASE t # s
    <3>1. chain'[t] = chain[t]
      BY <1>3, <1>8, <2>2
    <3> QED BY <3>1, <1>3, <1>11 DEF ChainsSound
  <2> QED BY <2>1, <2>2
<1>12. ChainsSound'
  BY <1>3, <1>11 DEF ChainsSound, DependsOn
<1>13. WavesSound'
  BY <1>3, WavesUnchanged
<1>14. PhaseSound'
  BY <1>3 DEF PhaseSound
<1> QED BY <1>12, <1>13, <1>14 DEF PlanInv

LEMMA PlanSteps == PlanInv /\ TypeOK' /\ [Next]_vars => PlanInv'
<1> SUFFICES ASSUME PlanInv, TypeOK', [Next]_vars PROVE PlanInv'
  OBVIOUS
<1>1. CASE AddWave BY <1>1, AddWaveKeepsPlan
<1>2. CASE Measure BY <1>2, MeasureKeepsPlan
<1>3. CASE \/ VisitNext \/ Descend \/ PassOver \/ FindCycle \/ Leave \/ Validated
           \/ AllPlanned \/ Planned \/ UNCHANGED vars
  <2>1. UNCHANGED <<declared, completed, waves, chain>>
    BY <1>3 DEF VisitNext, Descend, Call, PassOver, FindCycle, Leave, Validated, AllPlanned,
                Planned, vars, plan
  <2>2. \/ phase' = phase
        \/ phase = "validating" /\ phase' \in {"invalid", "planning"}
        \/ phase = "planning" /\ phase' = "measuring" /\ completed = Steps
        \/ phase = "measuring" /\ phase' = "planned" /\ \A s \in Steps : chain[s] # <<>>
    BY <1>3 DEF VisitNext, Descend, Call, PassOver, FindCycle, Leave, Validated, AllPlanned,
                Planned, vars
  <2>3. WavesSound' /\ ChainsSound'
    BY <2>1, WavesUnchanged DEF PlanInv, ChainsSound, DependsOn
  <2>4. PhaseSound'
    BY <2>1, <2>2 DEF PlanInv, PhaseSound
  <2> QED BY <2>3, <2>4 DEF PlanInv
<1> QED BY <1>1, <1>2, <1>3 DEF Next

\* Of every accepted definition the plan has each step in exactly one wave, right
\* after the last wave of its dependencies, and a longest chain for each step.
THEOREM PlanIsRight == Spec => []WavesAreChains
<1>1. Init => PlanInv
  <2> SUFFICES ASSUME Init PROVE PlanInv
    OBVIOUS
  <2>1. Len(waves) = 0 /\ waves = <<>> /\ completed = {} /\ phase = "validating"
        /\ chain = [s \in Steps |-> <<>>]
    BY EmptySeq DEF Init
  <2>2. TypeOK
    BY SearchInitially DEF SearchInv
  <2> QED BY <2>1, <2>2 DEF PlanInv, WavesSound, ChainsSound, PhaseSound
<1>2. PlanInv => WavesAreChains
  <2> SUFFICES ASSUME PlanInv, phase = "planned" PROVE WavesAreChains
    BY DEF WavesAreChains
  <2>1. /\ completed = Steps /\ WavesSound /\ ChainsSound
        /\ \A s \in Steps : chain[s] # <<>>
    BY DEF PlanInv, PhaseSound
  <2>2. ASSUME NEW s \in Steps
        PROVE  \E i \in 1..Len(waves) :
                 /\ \A j \in 1..Len(waves) : s \in waves[j] <=> j = i
                 /\ \A d \in DependsOn(s) : \E j \in 1..i-1 : d \in waves[j]
                 /\ i > 1 => DependsOn(s) \cap waves[i - 1] # {}
    <3>1. PICK i \in 1..Len(waves) : s \in waves[i]
      BY <2>1 DEF WavesSound
    <3>2. \A j \in 1..Len(waves) : s \in waves[j] <=> j = i
      BY <2>1, <3>1 DEF WavesSound
    <3> QED BY <2>1, <3>1, <3>2 DEF WavesSound
  <2> QED BY <2>1, <2>2 DEF WavesAreChains, ChainsSound
<1> DEFINE Inv == SearchInv /\ PlanInv
<1>3. Init => Inv
  BY <1>1, SearchInitially
<1>4. Inv /\ [Next]_vars => Inv'
  <2>1. SearchInv' => TypeOK'
    BY DEF SearchInv
  <2> QED BY <2>1, SearchSteps, PlanSteps
<1>5. Inv => WavesAreChains
  BY <1>2
<1> HIDE DEF Inv
<1> QED BY <1>3, <1>4, <1>5, PTL DEF Spec
-----------------------------------------------------------------------------
(* What the runner may assume of a definition that was accepted *)

\* The judgements of the runner on runs of the definition.
Accepted == INSTANCE Checkpoints WITH
    Deps <- declared, Gated <- {}, Compensable <- {}, Version <- 1,
    Outputs <- {}, NoOutput <- "none"

\* Steps that need a step that needs itself wait for one another.
LEMMA NeedingIsKnot ==
    ASSUME TypeOK, ~ Flawed, NEW s \in Steps, Accepted!Precedes(s, s)
    PROVE  Knot({t \in Steps : Accepted!Precedes(s, t)})
<1> DEFINE knot == {t \in Steps : Accepted!Precedes(s, t)}
<1>1. \A t \in Steps : declared[t] = DependsOn(t) /\ declared[t] \subseteq Steps
  BY PlanAssumption DEF TypeOK, Flawed, DependsOn
<1>2. ASSUME NEW t \in knot, declared[t] \cap knot = {} PROVE FALSE
  <2> DEFINE rest == Steps \ (knot \cup {s})
  <2>1. declared[t] \subseteq rest
    BY <1>1, <1>2
  <2>2. ASSUME NEW u \in rest, NEW d \in declared[u] PROVE d \in rest
    BY <1>1, <2>2 DEF Accepted!Precedes
  <2>3. s \in rest
    BY <2>1, <2>2 DEF Accepted!Precedes
  <2> QED BY <2>3
<1> QED BY <1>1, <1>2 DEF Knot

\* The validator lets no definition through that Checkpoints does not speak of: all
\* its dependencies are steps, and no step needs itself, directly or through others.
THEOREM AcceptedDefinitionsAreSound ==
    Spec => [](phase \in {"planning", "measuring", "planned"} =>
                 declared \in [Steps -> SUBSET Steps] /\ \A s \in Steps : ~ Accepted!Precedes(s, s))
<1>1. TypeOK /\ VerdictIsRight =>
        (phase \in {"planning", "measuring", "planned"} =>
           declared \in [Steps -> SUBSET Steps] /\ \A s \in Steps : ~ Accepted!Precedes(s, s))
  <2> SUFFICES ASSUME TypeOK, ~ Flawed, ~ \E set \in SUBSET Steps : Knot(set)
               PROVE  declared \in [Steps -> SUBSET Steps] /\ \A s \in Steps : ~ Accepted!Precedes(s, s)
    BY DEF VerdictIsRight
  <2>1. declared \in [Steps -> SUBSET Steps]
    BY PlanAssumption DEF TypeOK, Flawed
  <2> QED BY <2>1, NeedingIsKnot
<1> QED BY <1>1, PlanTypes, VerdictAlwaysRight, PTL
=============================================================================
