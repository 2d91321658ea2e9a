--------------------------- MODULE AsyncSolverProofs ---------------------------
(***************************************************************************)
(* Proofs about AsyncSolver, for any threads, stages and bounds.           *)
(***************************************************************************)
EXTENDS AsyncSolverProperties, TLAPS

\* What every step below needs: the shape of the state and of the invariant.
USE StagesAssumption, ThreadAssumption, BoundsAssumption
    DEF TypeOK, RunningIsCurrent, IdleIsFree, RunsInOrder, FlagIsOfTheRun, CallbackIsKept,
        StartedInVain, Run, Thread, Before, Active, Works, Ends

-----------------------------------------------------------------------------
(* Stacks of frames                                                        *)

LEMMA Pushed ==
  ASSUME NEW S, NEW s \in [Thread -> Seq(S)], NEW t \in Thread, NEW f \in Seq(S)
  PROVE  [s EXCEPT ![t] = f \o @] \in [Thread -> Seq(S)]
  OBVIOUS

LEMMA Popped ==
  ASSUME NEW S, NEW s \in [Thread -> Seq(S)], NEW t \in Thread, s[t] # <<>>
  PROVE  /\ Head(s[t]) \in S
         /\ Tail(s[t]) \in Seq(S)
         /\ [s EXCEPT ![t] = Tail(@)] \in [Thread -> Seq(S)]
<1>1. Head(s[t]) \in S /\ Tail(s[t]) \in Seq(S)
  OBVIOUS
<1> QED
  BY <1>1

LEMMA Wider ==
  ASSUME NEW S, NEW U, S \subseteq U, NEW s \in [Thread -> Seq(S)]
  PROVE  s \in [Thread -> Seq(U)]
<1>1. \A q \in Seq(S) : q \in Seq(U)
  OBVIOUS
<1> QED
  BY <1>1

LEMMA Notes ==
  ASSUME NEW S, NEW cb \in Run \cup {None},
         cb # None => [at |-> "callback", run |-> cb] \in S
  PROVE  Notified(cb) \in Seq(S)
  BY DEF Notified

\* A frame on top of a stack is a known one.
LEMMA TopFrame ==
  ASSUME SolverInv, NEW t \in Thread, NEW step, At(t, step)
  PROVE  /\ RunOf(t) \in Run
         /\ step = "drop" => StartedInVain(RunOf(t))
<1>1. Head(stack[t]) \in KnownFrame
  BY Popped DEF SolverInv, StacksOK, At
<1> QED
  BY <1>1 DEF KnownFrame, Frame, RunOf, At

-----------------------------------------------------------------------------
(* The invariant                                                           *)

LEMMA Initially == Init => SolverInv
<1> SUFFICES ASSUME Init PROVE SolverInv
  OBVIOUS
<1> USE DEF Init
<1>1. TypeOK
  <2>1. status \in {"idle", "running"} \cup Ends
    OBVIOUS
  <2>2. current \in 0..MaxRuns
    OBVIOUS
  <2>3. {thread, stored, gate} \subseteq Run \cup {None}
    OBVIOUS
  <2>4. owner \in Thread \cup {None}
    OBVIOUS
  <2>5. flag \in BOOLEAN
    OBVIOUS
  <2>6. open \subseteq Run
    OBVIOUS
  <2>7. work \in [Run -> Works]
    OBVIOUS
  <2>8. left \in [Run -> 0..Stages]
    OBVIOUS
  <2>9. studies \in [Run -> 0..MaxStudies]
    OBVIOUS
  <2>10. outcome \in [Run -> {"none", "running"} \cup Ends]
    OBVIOUS
  <2>11. asked \in [Run -> {"no", "early", "late"}]
    OBVIOUS
  <2>12. heard \subseteq Run
    OBVIOUS
  <2>13. calls \in 0..MaxCalls
    OBVIOUS
  <2> QED
    BY <2>1, <2>2, <2>3, <2>4, <2>5, <2>6, <2>7, <2>8, <2>9, <2>10, <2>11, <2>12, <2>13
<1>2. RunningIsCurrent /\ IdleIsFree /\ RunsInOrder /\ FlagIsOfTheRun /\ CallbackIsKept
  OBVIOUS
<1>3. StacksOK
  BY DEF StacksOK
<1> QED
  BY <1>1, <1>2, <1>3 DEF SolverInv

LEMMA StartKeeps ==
  ASSUME SolverInv, NEW t \in Thread, Start(t)
  PROVE  (TypeOK /\ RunningIsCurrent /\ IdleIsFree /\ RunsInOrder /\ FlagIsOfTheRun /\ CallbackIsKept)'
<1> USE DEF SolverInv, Start, MayStart, Calls, ThreadAlive, IsAlive
<1>1. TypeOK'
  <2>1. status' \in {"idle", "running"} \cup Ends
    OBVIOUS
  <2>2. current' \in 0..MaxRuns
    OBVIOUS
  <2>3. {thread', stored', gate'} \subseteq Run \cup {None}
    OBVIOUS
  <2>4. owner' \in Thread \cup {None}
    OBVIOUS
  <2>5. flag' \in BOOLEAN
    OBVIOUS
  <2>6. open' \subseteq Run
    OBVIOUS
  <2>7. work' \in [Run -> Works]
    OBVIOUS
  <2>8. left' \in [Run -> 0..Stages]
    OBVIOUS
  <2>9. studies' \in [Run -> 0..MaxStudies]
    OBVIOUS
  <2>10. outcome' \in [Run -> {"none", "running"} \cup Ends]
    OBVIOUS
  <2>11. asked' \in [Run -> {"no", "early", "late"}]
    OBVIOUS
  <2>12. heard' \subseteq Run
    OBVIOUS
  <2>13. calls' \in 0..MaxCalls
    OBVIOUS
  <2> QED
    BY <2>1, <2>2, <2>3, <2>4, <2>5, <2>6, <2>7, <2>8, <2>9, <2>10, <2>11, <2>12, <2>13
<1>2. RunningIsCurrent'
  OBVIOUS
<1>3. IdleIsFree'
  OBVIOUS
<1>4. RunsInOrder'
  BY SMTT(30)
<1>5. FlagIsOfTheRun'
  BY SMTT(30)
<1>6. CallbackIsKept'
  OBVIOUS
<1> QED
  BY <1>1, <1>2, <1>3, <1>4, <1>5, <1>6

LEMMA StartFailsKeeps ==
  ASSUME SolverInv, NEW t \in Thread, StartFails(t)
  PROVE  (TypeOK /\ RunningIsCurrent /\ IdleIsFree /\ RunsInOrder /\ FlagIsOfTheRun /\ CallbackIsKept)'
<1> USE DEF SolverInv, StartFails, MayStart, Calls, ThreadAlive, IsAlive
<1>1. TypeOK'
  <2>1. status' \in {"idle", "running"} \cup Ends
    OBVIOUS
  <2>2. current' \in 0..MaxRuns
    OBVIOUS
  <2>3. {thread', stored', gate'} \subseteq Run \cup {None}
    OBVIOUS
  <2>4. owner' \in Thread \cup {None}
    OBVIOUS
  <2>5. flag' \in BOOLEAN
    OBVIOUS
  <2>6. open' \subseteq Run
    BY SMTT(30)
  <2>7. work' \in [Run -> Works]
    OBVIOUS
  <2>8. left' \in [Run -> 0..Stages]
    OBVIOUS
  <2>9. studies' \in [Run -> 0..MaxStudies]
    OBVIOUS
  <2>10. outcome' \in [Run -> {"none", "running"} \cup Ends]
    OBVIOUS
  <2>11. asked' \in [Run -> {"no", "early", "late"}]
    OBVIOUS
  <2>12. heard' \subseteq Run
    BY SMTT(30)
  <2>13. calls' \in 0..MaxCalls
    OBVIOUS
  <2> QED
    BY <2>1, <2>2, <2>3, <2>4, <2>5, <2>6, <2>7, <2>8, <2>9, <2>10, <2>11, <2>12, <2>13
<1>2. RunningIsCurrent'
  OBVIOUS
<1>3. IdleIsFree'
  OBVIOUS
<1>4. RunsInOrder'
  BY SMTT(30)
<1>5. FlagIsOfTheRun'
  OBVIOUS
<1>6. CallbackIsKept'
  OBVIOUS
<1> QED
  BY <1>1, <1>2, <1>3, <1>4, <1>5, <1>6

LEMMA CancelKeeps ==
  ASSUME SolverInv, NEW t \in Thread, Cancel(t)
  PROVE  (TypeOK /\ RunningIsCurrent /\ IdleIsFree /\ RunsInOrder /\ FlagIsOfTheRun /\ CallbackIsKept)'
<1> USE DEF SolverInv, Cancel, Calls
<1>0. status = "running" => current \in Run /\ work[current] \in Active
  OBVIOUS
<1>1. CASE status # "running"
  BY SMTT(30), <1>1
<1>2. CASE status = "running"
  <2> DEFINE new == IF asked[current] = "no" /\ work[current] \notin Before THEN "late"
                    ELSE IF work[current] \in Before THEN "early" ELSE asked[current]
  <2>11. /\ asked[current] \in {"no", "early", "late"}
         /\ asked[current] = "early" => work[current] \in Before
    BY <1>0, <1>2
  <2>9. /\ new \in {"no", "early", "late"} /\ new # "no"
        /\ new = "early" => work[current] \in Before
    BY <2>11
  <2>10. asked' = [asked EXCEPT ![current] = new]
    BY <1>2
  <2> HIDE DEF new
  <2>0. asked' \in [Run -> {"no", "early", "late"}] /\ calls' = calls + 1 /\ flag' = TRUE
    BY <1>2, <2>9, <2>10
  <2>7. \A r \in Run : r # current => asked'[r] = asked[r]
    BY <2>10
  <2>8. asked'[current] # "no" /\ (asked'[current] = "early" => work[current] \in Before)
    BY <1>0, <1>2, <2>9, <2>10
  <2>1. TypeOK'
    <3>1. status' \in {"idle", "running"} \cup Ends
      BY <1>0, <1>2, <2>0
    <3>2. current' \in 0..MaxRuns
      BY <1>0, <1>2, <2>0
    <3>3. {thread', stored', gate'} \subseteq Run \cup {None}
      BY <1>0, <1>2, <2>0
    <3>4. owner' \in Thread \cup {None}
      BY <1>0, <1>2, <2>0
    <3>5. flag' \in BOOLEAN
      BY <1>0, <1>2, <2>0
    <3>6. open' \subseteq Run
      BY <1>0, <1>2, <2>0
    <3>7. work' \in [Run -> Works]
      BY <1>0, <1>2, <2>0
    <3>8. left' \in [Run -> 0..Stages]
      BY <1>0, <1>2, <2>0
    <3>9. studies' \in [Run -> 0..MaxStudies]
      BY <1>0, <1>2, <2>0
    <3>10. outcome' \in [Run -> {"none", "running"} \cup Ends]
      BY <1>0, <1>2, <2>0
    <3>11. asked' \in [Run -> {"no", "early", "late"}]
      BY <1>0, <1>2, <2>0
    <3>12. heard' \subseteq Run
      BY <1>0, <1>2, <2>0
    <3>13. calls' \in 0..MaxCalls
      BY <1>0, <1>2, <2>0
    <3> QED
      BY <3>1, <3>2, <3>3, <3>4, <3>5, <3>6, <3>7, <3>8, <3>9, <3>10, <3>11, <3>12, <3>13
  <2>2. RunningIsCurrent'
    BY <1>0, <1>2, <2>0
  <2>3. IdleIsFree'
    BY <1>0, <1>2, <2>0
  <2>4. RunsInOrder'
    BY SMTT(30), <1>0, <1>2, <2>0, <2>7
  <2>5. FlagIsOfTheRun'
    BY <1>0, <1>2, <2>0, <2>7, <2>8
  <2>6. CallbackIsKept'
    BY <1>0, <1>2, <2>0
  <2> QED
    BY <2>1, <2>2, <2>3, <2>4, <2>5, <2>6
<1> QED
  BY <1>1, <1>2

LEMMA WaitKeeps ==
  ASSUME SolverInv, NEW t \in Thread, Wait(t)
  PROVE  (TypeOK /\ RunningIsCurrent /\ IdleIsFree /\ RunsInOrder /\ FlagIsOfTheRun /\ CallbackIsKept)'
<1> USE DEF SolverInv, Wait, Calls, solver, ghosts
<1>1. TypeOK'
  <2>1. status' \in {"idle", "running"} \cup Ends
    OBVIOUS
  <2>2. current' \in 0..MaxRuns
    OBVIOUS
  <2>3. {thread', stored', gate'} \subseteq Run \cup {None}
    OBVIOUS
  <2>4. owner' \in Thread \cup {None}
    OBVIOUS
  <2>5. flag' \in BOOLEAN
    OBVIOUS
  <2>6. open' \subseteq Run
    OBVIOUS
  <2>7. work' \in [Run -> Works]
    OBVIOUS
  <2>8. left' \in [Run -> 0..Stages]
    OBVIOUS
  <2>9. studies' \in [Run -> 0..MaxStudies]
    OBVIOUS
  <2>10. outcome' \in [Run -> {"none", "running"} \cup Ends]
    OBVIOUS
  <2>11. asked' \in [Run -> {"no", "early", "late"}]
    OBVIOUS
  <2>12. heard' \subseteq Run
    OBVIOUS
  <2>13. calls' \in 0..MaxCalls
    BY SMTT(30)
  <2> QED
    BY <2>1, <2>2, <2>3, <2>4, <2>5, <2>6, <2>7, <2>8, <2>9, <2>10, <2>11, <2>12, <2>13
<1>2. RunningIsCurrent'
  OBVIOUS
<1>3. IdleIsFree'
  OBVIOUS
<1>4. RunsInOrder'
  OBVIOUS
<1>5. FlagIsOfTheRun'
  OBVIOUS
<1>6. CallbackIsKept'
  OBVIOUS
<1> QED
  BY <1>1, <1>2, <1>3, <1>4, <1>5, <1>6

LEMMA ResetKeeps ==
  ASSUME SolverInv, NEW t \in Thread, Reset(t)
  PROVE  (TypeOK /\ RunningIsCurrent /\ IdleIsFree /\ RunsInOrder /\ FlagIsOfTheRun /\ CallbackIsKept)'
<1>1. CASE UNCHANGED vars
  BY <1>1 DEF SolverInv, vars, solver, ghosts
<1>2. CASE ~ThreadAlive /\ ResetAnyway(t)
  <2> USE <1>2 DEF SolverInv, ResetAnyway, Calls, ThreadAlive, IsAlive, ghosts
  <2>0. ASSUME NEW r \in Run, work[r] \in Active PROVE FALSE
    <3>1. thread = r /\ work[r] \notin {"none", "dead"}
      BY <2>0
    <3>2. r # None
      BY SMTT(30)
    <3> QED
      BY <3>1, <3>2
  <2>1. TypeOK'
    <3>1. status' \in {"idle", "running"} \cup Ends
      BY <2>0
    <3>2. current' \in 0..MaxRuns
      BY <2>0
    <3>3. {thread', stored', gate'} \subseteq Run \cup {None}
      BY <2>0
    <3>4. owner' \in Thread \cup {None}
      BY <2>0
    <3>5. flag' \in BOOLEAN
      BY <2>0
    <3>6. open' \subseteq Run
      BY <2>0
    <3>7. work' \in [Run -> Works]
      BY <2>0
    <3>8. left' \in [Run -> 0..Stages]
      BY <2>0
    <3>9. studies' \in [Run -> 0..MaxStudies]
      BY <2>0
    <3>10. outcome' \in [Run -> {"none", "running"} \cup Ends]
      BY <2>0
    <3>11. asked' \in [Run -> {"no", "early", "late"}]
      BY <2>0
    <3>12. heard' \subseteq Run
      BY <2>0
    <3>13. calls' \in 0..MaxCalls
      BY <2>0
    <3> QED
      BY <3>1, <3>2, <3>3, <3>4, <3>5, <3>6, <3>7, <3>8, <3>9, <3>10, <3>11, <3>12, <3>13
  <2>2. RunningIsCurrent'
    BY <2>0
  <2>3. IdleIsFree'
    BY <2>0
  <2>4. RunsInOrder'
    BY <2>0
  <2>5. FlagIsOfTheRun'
    BY <2>0
  <2>6. CallbackIsKept'
    BY <2>0
  <2> QED
    BY <2>1, <2>2, <2>3, <2>4, <2>5, <2>6
<1> QED
  BY <1>1, <1>2 DEF Reset

LEMMA CallbackReturnsKeeps ==
  ASSUME SolverInv, NEW t \in Thread, CallbackReturns(t)
  PROVE  (TypeOK /\ RunningIsCurrent /\ IdleIsFree /\ RunsInOrder /\ FlagIsOfTheRun /\ CallbackIsKept)'
<1> USE DEF SolverInv, CallbackReturns, solver, ghosts
<1>1. TypeOK'
  <2>1. status' \in {"idle", "running"} \cup Ends
    OBVIOUS
  <2>2. current' \in 0..MaxRuns
    OBVIOUS
  <2>3. {thread', stored', gate'} \subseteq Run \cup {None}
    OBVIOUS
  <2>4. owner' \in Thread \cup {None}
    OBVIOUS
  <2>5. flag' \in BOOLEAN
    OBVIOUS
  <2>6. open' \subseteq Run
    OBVIOUS
  <2>7. work' \in [Run -> Works]
    OBVIOUS
  <2>8. left' \in [Run -> 0..Stages]
    OBVIOUS
  <2>9. studies' \in [Run -> 0..MaxStudies]
    OBVIOUS
  <2>10. outcome' \in [Run -> {"none", "running"} \cup Ends]
    OBVIOUS
  <2>11. asked' \in [Run -> {"no", "early", "late"}]
    OBVIOUS
  <2>12. heard' \subseteq Run
    OBVIOUS
  <2>13. calls' \in 0..MaxCalls
    OBVIOUS
  <2> QED
    BY <2>1, <2>2, <2>3, <2>4, <2>5, <2>6, <2>7, <2>8, <2>9, <2>10, <2>11, <2>12, <2>13
<1>2. RunningIsCurrent'
  OBVIOUS
<1>3. IdleIsFree'
  OBVIOUS
<1>4. RunsInOrder'
  OBVIOUS
<1>5. FlagIsOfTheRun'
  OBVIOUS
<1>6. CallbackIsKept'
  OBVIOUS
<1> QED
  BY <1>1, <1>2, <1>3, <1>4, <1>5, <1>6

LEMMA OpenKeeps ==
  ASSUME SolverInv, NEW t \in Thread, Open(t)
  PROVE  (TypeOK /\ RunningIsCurrent /\ IdleIsFree /\ RunsInOrder /\ FlagIsOfTheRun /\ CallbackIsKept)'
<1> USE DEF SolverInv, Open, solver, ghosts
<1>0. RunOf(t) \in Run
  BY TopFrame
<1>1. TypeOK'
  <2>1. status' \in {"idle", "running"} \cup Ends
    BY <1>0
  <2>2. current' \in 0..MaxRuns
    BY <1>0
  <2>3. {thread', stored', gate'} \subseteq Run \cup {None}
    BY <1>0
  <2>4. owner' \in Thread \cup {None}
    BY <1>0
  <2>5. flag' \in BOOLEAN
    BY <1>0
  <2>6. open' \subseteq Run
    BY <1>0
  <2>7. work' \in [Run -> Works]
    BY <1>0
  <2>8. left' \in [Run -> 0..Stages]
    BY <1>0
  <2>9. studies' \in [Run -> 0..MaxStudies]
    BY <1>0
  <2>10. outcome' \in [Run -> {"none", "running"} \cup Ends]
    BY <1>0
  <2>11. asked' \in [Run -> {"no", "early", "late"}]
    BY <1>0
  <2>12. heard' \subseteq Run
    BY <1>0
  <2>13. calls' \in 0..MaxCalls
    BY <1>0
  <2> QED
    BY <2>1, <2>2, <2>3, <2>4, <2>5, <2>6, <2>7, <2>8, <2>9, <2>10, <2>11, <2>12, <2>13
<1>2. RunningIsCurrent'
  BY <1>0
<1>3. IdleIsFree'
  BY <1>0
<1>4. RunsInOrder'
  BY <1>0
<1>5. FlagIsOfTheRun'
  BY <1>0
<1>6. CallbackIsKept'
  BY <1>0
<1> QED
  BY <1>1, <1>2, <1>3, <1>4, <1>5, <1>6

LEMMA ClearKeeps ==
  ASSUME SolverInv, NEW t \in Thread, Clear(t)
  PROVE  (TypeOK /\ RunningIsCurrent /\ IdleIsFree /\ RunsInOrder /\ FlagIsOfTheRun /\ CallbackIsKept)'
<1> USE DEF SolverInv, Clear, ghosts
<1>1. TypeOK'
  <2>1. status' \in {"idle", "running"} \cup Ends
    OBVIOUS
  <2>2. current' \in 0..MaxRuns
    OBVIOUS
  <2>3. {thread', stored', gate'} \subseteq Run \cup {None}
    OBVIOUS
  <2>4. owner' \in Thread \cup {None}
    OBVIOUS
  <2>5. flag' \in BOOLEAN
    OBVIOUS
  <2>6. open' \subseteq Run
    OBVIOUS
  <2>7. work' \in [Run -> Works]
    OBVIOUS
  <2>8. left' \in [Run -> 0..Stages]
    OBVIOUS
  <2>9. studies' \in [Run -> 0..MaxStudies]
    OBVIOUS
  <2>10. outcome' \in [Run -> {"none", "running"} \cup Ends]
    OBVIOUS
  <2>11. asked' \in [Run -> {"no", "early", "late"}]
    OBVIOUS
  <2>12. heard' \subseteq Run
    OBVIOUS
  <2>13. calls' \in 0..MaxCalls
    OBVIOUS
  <2> QED
    BY <2>1, <2>2, <2>3, <2>4, <2>5, <2>6, <2>7, <2>8, <2>9, <2>10, <2>11, <2>12, <2>13
<1>2. RunningIsCurrent'
  OBVIOUS
<1>3. IdleIsFree'
  OBVIOUS
<1>4. RunsInOrder'
  OBVIOUS
<1>5. FlagIsOfTheRun'
  OBVIOUS
<1>6. CallbackIsKept'
  OBVIOUS
<1> QED
  BY <1>1, <1>2, <1>3, <1>4, <1>5, <1>6

LEMMA DropKeeps ==
  ASSUME SolverInv, NEW t \in Thread, Drop(t)
  PROVE  (TypeOK /\ RunningIsCurrent /\ IdleIsFree /\ RunsInOrder /\ FlagIsOfTheRun /\ CallbackIsKept)'
<1> USE DEF SolverInv, Drop, ghosts
<1>0. StartedInVain(RunOf(t)) /\ RunOf(t) \in Run
  BY TopFrame
<1>1. TypeOK'
  <2>1. status' \in {"idle", "running"} \cup Ends
    BY <1>0
  <2>2. current' \in 0..MaxRuns
    BY <1>0
  <2>3. {thread', stored', gate'} \subseteq Run \cup {None}
    BY <1>0
  <2>4. owner' \in Thread \cup {None}
    BY <1>0
  <2>5. flag' \in BOOLEAN
    BY <1>0
  <2>6. open' \subseteq Run
    BY <1>0
  <2>7. work' \in [Run -> Works]
    BY <1>0
  <2>8. left' \in [Run -> 0..Stages]
    BY <1>0
  <2>9. studies' \in [Run -> 0..MaxStudies]
    BY <1>0
  <2>10. outcome' \in [Run -> {"none", "running"} \cup Ends]
    BY <1>0
  <2>11. asked' \in [Run -> {"no", "early", "late"}]
    BY <1>0
  <2>12. heard' \subseteq Run
    BY <1>0
  <2>13. calls' \in 0..MaxCalls
    BY <1>0
  <2> QED
    BY <2>1, <2>2, <2>3, <2>4, <2>5, <2>6, <2>7, <2>8, <2>9, <2>10, <2>11, <2>12, <2>13
<1>2. RunningIsCurrent'
  BY <1>0
<1>3. IdleIsFree'
  BY <1>0
<1>4. RunsInOrder'
  BY <1>0
<1>5. FlagIsOfTheRun'
  BY <1>0
<1>6. CallbackIsKept'
  BY <1>0
<1> QED
  BY <1>1, <1>2, <1>3, <1>4, <1>5, <1>6

LEMMA JoinKeeps ==
  ASSUME SolverInv, NEW t \in Thread, Join(t)
  PROVE  (TypeOK /\ RunningIsCurrent /\ IdleIsFree /\ RunsInOrder /\ FlagIsOfTheRun /\ CallbackIsKept)'
<1> USE DEF SolverInv, Join, solver, ghosts
<1>1. TypeOK'
  <2>1. status' \in {"idle", "running"} \cup Ends
    OBVIOUS
  <2>2. current' \in 0..MaxRuns
    OBVIOUS
  <2>3. {thread', stored', gate'} \subseteq Run \cup {None}
    OBVIOUS
  <2>4. owner' \in Thread \cup {None}
    OBVIOUS
  <2>5. flag' \in BOOLEAN
    OBVIOUS
  <2>6. open' \subseteq Run
    OBVIOUS
  <2>7. work' \in [Run -> Works]
    OBVIOUS
  <2>8. left' \in [Run -> 0..Stages]
    OBVIOUS
  <2>9. studies' \in [Run -> 0..MaxStudies]
    OBVIOUS
  <2>10. outcome' \in [Run -> {"none", "running"} \cup Ends]
    OBVIOUS
  <2>11. asked' \in [Run -> {"no", "early", "late"}]
    OBVIOUS
  <2>12. heard' \subseteq Run
    OBVIOUS
  <2>13. calls' \in 0..MaxCalls
    OBVIOUS
  <2> QED
    BY <2>1, <2>2, <2>3, <2>4, <2>5, <2>6, <2>7, <2>8, <2>9, <2>10, <2>11, <2>12, <2>13
<1>2. RunningIsCurrent'
  OBVIOUS
<1>3. IdleIsFree'
  OBVIOUS
<1>4. RunsInOrder'
  OBVIOUS
<1>5. FlagIsOfTheRun'
  OBVIOUS
<1>6. CallbackIsKept'
  OBVIOUS
<1> QED
  BY <1>1, <1>2, <1>3, <1>4, <1>5, <1>6

LEMMA PassGateKeeps ==
  ASSUME SolverInv, NEW r \in Run, PassGate(r)
  PROVE  (TypeOK /\ RunningIsCurrent /\ IdleIsFree /\ RunsInOrder /\ FlagIsOfTheRun /\ CallbackIsKept)'
<1> USE DEF SolverInv, PassGate, Ready, solver, ghosts
<1>1. TypeOK'
  <2>1. status' \in {"idle", "running"} \cup Ends
    OBVIOUS
  <2>2. current' \in 0..MaxRuns
    OBVIOUS
  <2>3. {thread', stored', gate'} \subseteq Run \cup {None}
    OBVIOUS
  <2>4. owner' \in Thread \cup {None}
    OBVIOUS
  <2>5. flag' \in BOOLEAN
    OBVIOUS
  <2>6. open' \subseteq Run
    OBVIOUS
  <2>7. work' \in [Run -> Works]
    OBVIOUS
  <2>8. left' \in [Run -> 0..Stages]
    OBVIOUS
  <2>9. studies' \in [Run -> 0..MaxStudies]
    OBVIOUS
  <2>10. outcome' \in [Run -> {"none", "running"} \cup Ends]
    OBVIOUS
  <2>11. asked' \in [Run -> {"no", "early", "late"}]
    OBVIOUS
  <2>12. heard' \subseteq Run
    OBVIOUS
  <2>13. calls' \in 0..MaxCalls
    OBVIOUS
  <2> QED
    BY <2>1, <2>2, <2>3, <2>4, <2>5, <2>6, <2>7, <2>8, <2>9, <2>10, <2>11, <2>12, <2>13
<1>2. RunningIsCurrent'
  OBVIOUS
<1>3. IdleIsFree'
  OBVIOUS
<1>4. RunsInOrder'
  BY SMTT(30)
<1>5. FlagIsOfTheRun'
  OBVIOUS
<1>6. CallbackIsKept'
  OBVIOUS
<1> QED
  BY <1>1, <1>2, <1>3, <1>4, <1>5, <1>6

LEMMA AnnounceKeeps ==
  ASSUME SolverInv, NEW r \in Run, Announce(r)
  PROVE  (TypeOK /\ RunningIsCurrent /\ IdleIsFree /\ RunsInOrder /\ FlagIsOfTheRun /\ CallbackIsKept)'
<1> USE DEF SolverInv, Announce, Ready, solver, ghosts
<1>0. left[r] \in 1..Stages /\ r = current
  OBVIOUS
<1>1. TypeOK'
  <2>1. status' \in {"idle", "running"} \cup Ends
    BY <1>0
  <2>2. current' \in 0..MaxRuns
    BY <1>0
  <2>3. {thread', stored', gate'} \subseteq Run \cup {None}
    BY <1>0
  <2>4. owner' \in Thread \cup {None}
    BY <1>0
  <2>5. flag' \in BOOLEAN
    BY <1>0
  <2>6. open' \subseteq Run
    BY <1>0
  <2>7. work' \in [Run -> Works]
    BY <1>0
  <2>8. left' \in [Run -> 0..Stages]
    BY SMTT(30), <1>0
  <2>9. studies' \in [Run -> 0..MaxStudies]
    BY <1>0
  <2>10. outcome' \in [Run -> {"none", "running"} \cup Ends]
    BY <1>0
  <2>11. asked' \in [Run -> {"no", "early", "late"}]
    BY <1>0
  <2>12. heard' \subseteq Run
    BY <1>0
  <2>13. calls' \in 0..MaxCalls
    BY <1>0
  <2> QED
    BY <2>1, <2>2, <2>3, <2>4, <2>5, <2>6, <2>7, <2>8, <2>9, <2>10, <2>11, <2>12, <2>13
<1>2. RunningIsCurrent'
  BY <1>0
<1>3. IdleIsFree'
  BY <1>0
<1>4. RunsInOrder'
  BY SMTT(30), <1>0
<1>5. FlagIsOfTheRun'
  <2>1. ASSUME NEW q \in Run, work'[q] \in Active PROVE q = r /\ work[r] \in Active
    <3>1. work'[q] = IF q = r THEN "check" ELSE work[q]
      OBVIOUS
    <3>2. work[r] \in Active /\ (work[q] \in Active => q = current)
      OBVIOUS
    <3> QED
      BY <1>0, <2>1, <3>1, <3>2
  <2> QED
    BY SMTT(30), <1>0, <2>1
<1>6. CallbackIsKept'
  BY <1>0
<1> QED
  BY <1>1, <1>2, <1>3, <1>4, <1>5, <1>6

LEMMA CheckKeeps ==
  ASSUME SolverInv, NEW r \in Run, Check(r)
  PROVE  (TypeOK /\ RunningIsCurrent /\ IdleIsFree /\ RunsInOrder /\ FlagIsOfTheRun /\ CallbackIsKept)'
<1> USE DEF SolverInv, Check, Ready, solver, ghosts
<1>1. TypeOK'
  <2>1. status' \in {"idle", "running"} \cup Ends
    OBVIOUS
  <2>2. current' \in 0..MaxRuns
    OBVIOUS
  <2>3. {thread', stored', gate'} \subseteq Run \cup {None}
    OBVIOUS
  <2>4. owner' \in Thread \cup {None}
    OBVIOUS
  <2>5. flag' \in BOOLEAN
    OBVIOUS
  <2>6. open' \subseteq Run
    OBVIOUS
  <2>7. work' \in [Run -> Works]
    OBVIOUS
  <2>8. left' \in [Run -> 0..Stages]
    OBVIOUS
  <2>9. studies' \in [Run -> 0..MaxStudies]
    OBVIOUS
  <2>10. outcome' \in [Run -> {"none", "running"} \cup Ends]
    OBVIOUS
  <2>11. asked' \in [Run -> {"no", "early", "late"}]
    OBVIOUS
  <2>12. heard' \subseteq Run
    OBVIOUS
  <2>13. calls' \in 0..MaxCalls
    OBVIOUS
  <2> QED
    BY <2>1, <2>2, <2>3, <2>4, <2>5, <2>6, <2>7, <2>8, <2>9, <2>10, <2>11, <2>12, <2>13
<1>2. RunningIsCurrent'
  OBVIOUS
<1>3. IdleIsFree'
  OBVIOUS
<1>4. RunsInOrder'
  BY SMTT(30)
<1>5. FlagIsOfTheRun'
  BY SMTT(30)
<1>6. CallbackIsKept'
  OBVIOUS
<1> QED
  BY <1>1, <1>2, <1>3, <1>4, <1>5, <1>6

LEMMA SetCancelledKeeps ==
  ASSUME SolverInv, NEW r \in Run, SetCancelled(r)
  PROVE  (TypeOK /\ RunningIsCurrent /\ IdleIsFree /\ RunsInOrder /\ FlagIsOfTheRun /\ CallbackIsKept)'
<1> USE DEF SolverInv, SetCancelled, Ready, Publish, Ended
<1>1. TypeOK'
  <2>1. status' \in {"idle", "running"} \cup Ends
    OBVIOUS
  <2>2. current' \in 0..MaxRuns
    OBVIOUS
  <2>3. {thread', stored', gate'} \subseteq Run \cup {None}
    OBVIOUS
  <2>4. owner' \in Thread \cup {None}
    OBVIOUS
  <2>5. flag' \in BOOLEAN
    OBVIOUS
  <2>6. open' \subseteq Run
    OBVIOUS
  <2>7. work' \in [Run -> Works]
    OBVIOUS
  <2>8. left' \in [Run -> 0..Stages]
    OBVIOUS
  <2>9. studies' \in [Run -> 0..MaxStudies]
    OBVIOUS
  <2>10. outcome' \in [Run -> {"none", "running"} \cup Ends]
    OBVIOUS
  <2>11. asked' \in [Run -> {"no", "early", "late"}]
    OBVIOUS
  <2>12. heard' \subseteq Run
    <3>1. {stored} \subseteq Run \cup {None} /\ heard \subseteq Run
      OBVIOUS
    <3>2. heard' = IF stored = None THEN heard ELSE heard \cup {stored}
      OBVIOUS
    <3> HIDE DEF SolverInv, SetCancelled
    <3> QED
      BY <3>1, <3>2
  <2>13. calls' \in 0..MaxCalls
    OBVIOUS
  <2> QED
    BY <2>1, <2>2, <2>3, <2>4, <2>5, <2>6, <2>7, <2>8, <2>9, <2>10, <2>11, <2>12, <2>13
<1>2. RunningIsCurrent'
  OBVIOUS
<1>3. IdleIsFree'
  OBVIOUS
<1>4. RunsInOrder'
  BY SMTT(30)
<1>5. FlagIsOfTheRun'
  OBVIOUS
<1>6. CallbackIsKept'
  OBVIOUS
<1> QED
  BY <1>1, <1>2, <1>3, <1>4, <1>5, <1>6

LEMMA NextStudyKeeps ==
  ASSUME SolverInv, NEW r \in Run, NextStudy(r)
  PROVE  (TypeOK /\ RunningIsCurrent /\ IdleIsFree /\ RunsInOrder /\ FlagIsOfTheRun /\ CallbackIsKept)'
<1> USE DEF SolverInv, NextStudy, Ready, solver, ghosts
<1>0. studies[r] - 1 \in 0..MaxStudies /\ r = current /\ asked[r] # "early"
  <2>1. work[r] = "study" /\ studies[r] \in 0..MaxStudies /\ studies[r] > 0
    <3> HIDE DEF RunningIsCurrent, IdleIsFree, RunsInOrder, FlagIsOfTheRun, CallbackIsKept
    <3> QED
      OBVIOUS
  <2>2. r = current
    BY <2>1
  <2>3. asked[r] # "early"
    BY <2>1
  <2>4. studies[r] - 1 \in 0..MaxStudies
    <3> HIDE DEF SolverInv, NextStudy
    <3> QED
      BY <2>1
  <2> QED
    BY <2>2, <2>3, <2>4
<1>1. TypeOK'
  <2>1. status' \in {"idle", "running"} \cup Ends
    BY <1>0
  <2>2. current' \in 0..MaxRuns
    BY <1>0
  <2>3. {thread', stored', gate'} \subseteq Run \cup {None}
    BY <1>0
  <2>4. owner' \in Thread \cup {None}
    BY <1>0
  <2>5. flag' \in BOOLEAN
    BY <1>0
  <2>6. open' \subseteq Run
    BY <1>0
  <2>7. work' \in [Run -> Works]
    BY <1>0
  <2>8. left' \in [Run -> 0..Stages]
    BY <1>0
  <2>9. studies' \in [Run -> 0..MaxStudies]
    BY <1>0
  <2>10. outcome' \in [Run -> {"none", "running"} \cup Ends]
    BY <1>0
  <2>11. asked' \in [Run -> {"no", "early", "late"}]
    BY <1>0
  <2>12. heard' \subseteq Run
    BY <1>0
  <2>13. calls' \in 0..MaxCalls
    BY <1>0
  <2> QED
    BY <2>1, <2>2, <2>3, <2>4, <2>5, <2>6, <2>7, <2>8, <2>9, <2>10, <2>11, <2>12, <2>13
<1>2. RunningIsCurrent'
  BY <1>0
<1>3. IdleIsFree'
  BY <1>0
<1>4. RunsInOrder'
  BY SMTT(30), <1>0
<1>5. FlagIsOfTheRun'
  <2>1. ASSUME NEW q \in Run, work'[q] \in Active PROVE q = r /\ work[r] \in Active
    <3>1. work'[q] = IF q = r THEN "check" ELSE work[q]
      OBVIOUS
    <3>2. work[r] \in Active /\ (work[q] \in Active => q = current)
      OBVIOUS
    <3> QED
      BY <1>0, <2>1, <3>1, <3>2
  <2> QED
    BY <1>0, <2>1
<1>6. CallbackIsKept'
  BY <1>0
<1> QED
  BY <1>1, <1>2, <1>3, <1>4, <1>5, <1>6

LEMMA FinishKeeps ==
  ASSUME SolverInv, NEW r \in Run, Finish(r)
  PROVE  (TypeOK /\ RunningIsCurrent /\ IdleIsFree /\ RunsInOrder /\ FlagIsOfTheRun /\ CallbackIsKept)'
<1> USE DEF SolverInv, Finish, Ready, Publish, Ended
<1>1. TypeOK'
  <2>1. status' \in {"idle", "running"} \cup Ends
    OBVIOUS
  <2>2. current' \in 0..MaxRuns
    OBVIOUS
  <2>3. {thread', stored', gate'} \subseteq Run \cup {None}
    OBVIOUS
  <2>4. owner' \in Thread \cup {None}
    OBVIOUS
  <2>5. flag' \in BOOLEAN
    OBVIOUS
  <2>6. open' \subseteq Run
    OBVIOUS
  <2>7. work' \in [Run -> Works]
    OBVIOUS
  <2>8. left' \in [Run -> 0..Stages]
    OBVIOUS
  <2>9. studies' \in [Run -> 0..MaxStudies]
    OBVIOUS
  <2>10. outcome' \in [Run -> {"none", "running"} \cup Ends]
    OBVIOUS
  <2>11. asked' \in [Run -> {"no", "early", "late"}]
    OBVIOUS
  <2>12. heard' \subseteq Run
    OBVIOUS
  <2>13. calls' \in 0..MaxCalls
    OBVIOUS
  <2> QED
    BY <2>1, <2>2, <2>3, <2>4, <2>5, <2>6, <2>7, <2>8, <2>9, <2>10, <2>11, <2>12, <2>13
<1>2. RunningIsCurrent'
  OBVIOUS
<1>3. IdleIsFree'
  OBVIOUS
<1>4. RunsInOrder'
  BY SMTT(30)
<1>5. FlagIsOfTheRun'
  OBVIOUS
<1>6. CallbackIsKept'
  OBVIOUS
<1> QED
  BY <1>1, <1>2, <1>3, <1>4, <1>5, <1>6

LEMMA ExitKeeps ==
  ASSUME SolverInv, NEW r \in Run, Exit(r)
  PROVE  (TypeOK /\ RunningIsCurrent /\ IdleIsFree /\ RunsInOrder /\ FlagIsOfTheRun /\ CallbackIsKept)'
<1> USE DEF SolverInv, Exit, Ready, solver, ghosts
<1>1. TypeOK'
  <2>1. status' \in {"idle", "running"} \cup Ends
    OBVIOUS
  <2>2. current' \in 0..MaxRuns
    OBVIOUS
  <2>3. {thread', stored', gate'} \subseteq Run \cup {None}
    OBVIOUS
  <2>4. owner' \in Thread \cup {None}
    OBVIOUS
  <2>5. flag' \in BOOLEAN
    OBVIOUS
  <2>6. open' \subseteq Run
    OBVIOUS
  <2>7. work' \in [Run -> Works]
    OBVIOUS
  <2>8. left' \in [Run -> 0..Stages]
    OBVIOUS
  <2>9. studies' \in [Run -> 0..MaxStudies]
    OBVIOUS
  <2>10. outcome' \in [Run -> {"none", "running"} \cup Ends]
    OBVIOUS
  <2>11. asked' \in [Run -> {"no", "early", "late"}]
    OBVIOUS
  <2>12. heard' \subseteq Run
    OBVIOUS
  <2>13. calls' \in 0..MaxCalls
    OBVIOUS
  <2> QED
    BY <2>1, <2>2, <2>3, <2>4, <2>5, <2>6, <2>7, <2>8, <2>9, <2>10, <2>11, <2>12, <2>13
<1>2. RunningIsCurrent'
  OBVIOUS
<1>3. IdleIsFree'
  OBVIOUS
<1>4. RunsInOrder'
  OBVIOUS
<1>5. FlagIsOfTheRun'
  OBVIOUS
<1>6. CallbackIsKept'
  OBVIOUS
<1> QED
  BY <1>1, <1>2, <1>3, <1>4, <1>5, <1>6

\* A start in vain stays one.
LEMMA VainStays ==
  ASSUME SolverInv, Next, NEW q \in Run, StartedInVain(q)
  PROVE  StartedInVain(q)'
<1> USE DEF SolverInv
<1>1. ASSUME NEW t \in Thread, Call(t) \/ Frames(t) PROVE StartedInVain(q)'
  <2>1. CASE Start(t) \/ StartFails(t)
    <3>1. q # current + 1 /\ q \in Run
      OBVIOUS
    <3>2. outcome'[q] = outcome[q] /\ work'[q] = work[q]
      BY SMTT(40), <2>1, <3>1 DEF Start, StartFails, MayStart
    <3> QED
      BY <3>2
  <2>2. CASE UNCHANGED <<work, outcome>>
    BY <2>2
  <2> QED
    BY <1>1, <2>1, <2>2
       DEF Call, StartRefused, Cancel, Wait, Reset, ResetAnyway, Frames, CallbackReturns, Open, Clear,
           Drop, Join, vars, ghosts
<1>2. ASSUME NEW r \in Run, Worker(r) PROVE StartedInVain(q)'
  <2>1. work[r] # "none"
    BY <1>2 DEF Worker, Ready, PassGate, Announce, Check, SetCancelled, NextStudy, Finish, Exit
  <2>2. q # r
    BY <2>1
  <2>3. outcome'[q] = outcome[q] /\ work'[q] = work[q]
    <3>1. CASE SetCancelled(r) \/ Finish(r)
      BY SMTT(30), <2>2, <3>1 DEF SetCancelled, Finish, Publish
    <3> QED
      BY <1>2, <2>2, <3>1 DEF Worker, PassGate, Announce, Check, NextStudy, Exit, ghosts
  <2> QED
    BY <2>3
<1> QED
  BY <1>1, <1>2 DEF Next

LEMMA KnownStays ==
  ASSUME SolverInv, Next
  PROVE  /\ stack \in [Thread -> Seq(KnownFrame')]
         /\ \A at \in {"callback", "open", "clear", "join"}, r \in Run :
               [at |-> at, run |-> r] \in KnownFrame'
         /\ \A r \in Run : StartedInVain(r)' => [at |-> "drop", run |-> r] \in KnownFrame'
<1> HIDE DEF StartedInVain
<1>1. KnownFrame \subseteq KnownFrame'
  <2> SUFFICES ASSUME NEW f \in KnownFrame PROVE f \in KnownFrame'
    OBVIOUS
  <2>1. f \in Frame /\ f.run \in Run /\ (f.at = "drop" => StartedInVain(f.run))
    BY DEF KnownFrame, Frame
  <2> QED
    BY <2>1, VainStays DEF KnownFrame, Frame
<1>2. stack \in [Thread -> Seq(KnownFrame')]
  BY <1>1, Wider DEF SolverInv, StacksOK
<1> QED
  BY <1>2 DEF KnownFrame, Frame

LEMMA StacksKept ==
  ASSUME SolverInv, Next PROVE StacksOK'
<1> HIDE DEF TypeOK, RunningIsCurrent, IdleIsFree, RunsInOrder, FlagIsOfTheRun, CallbackIsKept,
             StartedInVain, Works, Ends, Active, Before
<1>0. /\ stack \in [Thread -> Seq(KnownFrame')]
      /\ stored \in Run \cup {None} /\ thread \in Run \cup {None}
  BY KnownStays DEF SolverInv, TypeOK
<1>1. ASSUME NEW t \in Thread, NEW f \in Seq(KnownFrame'), stack' = [stack EXCEPT ![t] = f \o @]
      PROVE  StacksOK'
  BY <1>0, <1>1, Pushed DEF StacksOK
<1>2. ASSUME NEW cb \in Run \cup {None} PROVE Notified(cb) \in Seq(KnownFrame')
  BY KnownStays, Notes
<1>3. ASSUME UNCHANGED stack PROVE StacksOK'
  BY <1>0, <1>3 DEF StacksOK
<1>4. ASSUME NEW t \in Thread, Start(t) PROVE StacksOK'
  <2> DEFINE r == current + 1
  <2>1. r \in Run
    BY <1>4 DEF Start, MayStart, SolverInv, TypeOK
  <2>2. <<[at |-> "open", run |-> r]>> \in Seq(KnownFrame')
    BY <2>1, KnownStays
  <2>3. Notified(r) \o <<[at |-> "open", run |-> r]>> \in Seq(KnownFrame')
    BY <1>2, <2>1, <2>2
  <2> QED
    BY <1>1, <1>4, <2>3 DEF Start, Push
<1>5. ASSUME NEW t \in Thread, StartFails(t) PROVE StacksOK'
  <2>1. PICK r \in Run : r = current + 1
    BY <1>5 DEF StartFails, MayStart, SolverInv, TypeOK
  <2>2. StartedInVain(r)'
    <3>1. work[r] = "none"
      BY <2>1 DEF SolverInv, TypeOK, RunsInOrder
    <3>2. work'[r] = "none" /\ outcome'[r] = "failed"
      BY <1>5, <2>1, <3>1 DEF StartFails, SolverInv, TypeOK
    <3> QED
      BY <3>2 DEF StartedInVain
  <2>3. [at |-> "drop", run |-> r] \in KnownFrame'
    BY <2>1, <2>2, KnownStays
  <2>4. <<[at |-> "drop", run |-> r]>> \in Seq(KnownFrame')
    BY <2>3
  <2>5. Notified(r) \o <<[at |-> "drop", run |-> r]>> \in Seq(KnownFrame')
    BY <1>2, <2>1, <2>4
  <2> QED
    BY <1>1, <1>5, <2>1, <2>5 DEF StartFails, Push
<1>6. ASSUME NEW t \in Thread, Cancel(t) PROVE StacksOK'
  BY <1>0, <1>1, <1>2, <1>3, <1>6 DEF Cancel, Push
<1>7. ASSUME NEW t \in Thread, Wait(t) PROVE StacksOK'
  <2>1. CASE thread # None /\ Push(t, <<[at |-> "join", run |-> thread]>>)
    <3>1. <<[at |-> "join", run |-> thread]>> \in Seq(KnownFrame')
      BY <1>0, <2>1, KnownStays
    <3> QED
      BY <1>1, <2>1, <3>1 DEF Push
  <2> QED
    BY <1>3, <1>7, <2>1 DEF Wait
<1>8. ASSUME NEW t \in Thread, stack[t] # <<>>, Pop(t) PROVE StacksOK'
  BY <1>0, <1>8, Popped DEF Pop, StacksOK
<1>9. ASSUME NEW t \in Thread, Open(t) PROVE StacksOK'
  <2>1. RunOf(t) \in Run /\ stack[t] # <<>>
    BY <1>9, TopFrame DEF Open, At
  <2>2. <<[at |-> "clear", run |-> RunOf(t)]>> \in Seq(KnownFrame')
    BY <2>1, KnownStays
  <2>3. Tail(stack[t]) \in Seq(KnownFrame')
    BY <1>0, <2>1, Popped
  <2>4. <<[at |-> "clear", run |-> RunOf(t)]>> \o Tail(stack[t]) \in Seq(KnownFrame')
    BY <2>2, <2>3
  <2> QED
    BY <1>0, <1>9, <2>4 DEF Open, StacksOK
<1>10. ASSUME NEW t \in Thread, Call(t) \/ Frames(t) PROVE StacksOK'
  BY <1>3, <1>4, <1>5, <1>6, <1>7, <1>8, <1>9, <1>10
     DEF Call, StartRefused, Reset, ResetAnyway, vars, Frames, CallbackReturns, Clear, Drop, Join, At
<1>11. ASSUME NEW r \in Run, Worker(r) PROVE StacksOK'
  <2>1. r \in Thread
    OBVIOUS
  <2>2. CASE Announce(r) \/ SetCancelled(r) \/ Finish(r)
    BY <1>0, <1>1, <1>2, <2>1, <2>2 DEF Announce, SetCancelled, Finish, Push
  <2> QED
    BY <1>3, <1>11, <2>2 DEF Worker, PassGate, Check, NextStudy, Exit
<1> QED
  BY <1>10, <1>11 DEF Next

LEMMA NextKeeps == SolverInv /\ [Next]_vars => SolverInv'
<1> HIDE DEF TypeOK, RunningIsCurrent, IdleIsFree, RunsInOrder, FlagIsOfTheRun, CallbackIsKept
<1> SUFFICES ASSUME SolverInv, [Next]_vars PROVE SolverInv'
  OBVIOUS
<1>1. CASE UNCHANGED vars
  BY SMTT(30), <1>1 DEF vars, solver, ghosts, SolverInv, TypeOK, RunningIsCurrent, IdleIsFree, RunsInOrder,
              FlagIsOfTheRun, CallbackIsKept, StacksOK, KnownFrame
<1>2. CASE Next
  <2>1. ASSUME NEW t \in Thread, Call(t) \/ Frames(t), ~(UNCHANGED vars) PROVE SolverInv'
    BY <1>2, <2>1, StartKeeps, StartFailsKeeps, CancelKeeps, WaitKeeps, ResetKeeps,
       CallbackReturnsKeeps, OpenKeeps, ClearKeeps, DropKeeps, JoinKeeps, StacksKept
       DEF Call, Frames, StartRefused, SolverInv
  <2>2. ASSUME NEW r \in Run, Worker(r) PROVE SolverInv'
    BY <1>2, <2>2, PassGateKeeps, AnnounceKeeps, CheckKeeps, SetCancelledKeeps, NextStudyKeeps,
       FinishKeeps, ExitKeeps, StacksKept DEF Worker, SolverInv
  <2> QED
    BY <1>1, <1>2, <2>1, <2>2 DEF Next
<1> QED
  BY <1>1, <1>2

\* The invariant of start_solve, cancel, wait, reset and the worker: one run at
\* a time is under way, and _thread, _cancel_flag and the status are its own.
THEOREM SolverInvariant == Spec => []SolverInv
  BY Initially, NextKeeps, PTL DEF Spec

-----------------------------------------------------------------------------
(* Cancellations, ends and the slot                                        *)

\* What the calls do to the runs: a new one, or a request for the current one.
LEMMA CallsAtRuns ==
  ASSUME SolverInv, NEW t \in Thread, Call(t) \/ Frames(t)
  PROVE  /\ heard \subseteq heard'
         /\ \/ UNCHANGED <<current, outcome, asked, work>>
            \/ /\ current' = current + 1 /\ current' \in Run
               /\ \A r \in Run : work[r] \notin Active
               /\ \/ /\ outcome' = [outcome EXCEPT ![current'] = "running"]
                     /\ work' = [work EXCEPT ![current'] = "gate"]
                  \/ outcome' = [outcome EXCEPT ![current'] = "failed"] /\ UNCHANGED work
               /\ UNCHANGED asked
            \/ /\ current \in Run /\ work[current] \in Active
               /\ \A r \in Run : r # current => asked'[r] = asked[r]
               /\ UNCHANGED <<current, outcome, work>>
<1> USE DEF SolverInv
<1>1. CASE Start(t)
  BY <1>1 DEF Start, MayStart
<1>2. CASE StartFails(t)
  BY <1>2 DEF StartFails, MayStart
<1>3. CASE Cancel(t)
  BY SMTT(30), <1>3 DEF Cancel
<1>4. CASE StartRefused(t) \/ Wait(t) \/ Reset(t)
  BY <1>4 DEF StartRefused, Wait, Reset, ResetAnyway, vars, solver, ghosts
<1>5. CASE Frames(t)
  BY <1>5 DEF Frames, CallbackReturns, Open, Clear, Drop, Join, solver, ghosts
<1> QED
  BY <1>1, <1>2, <1>3, <1>4, <1>5 DEF Call

\* The same, run by run.
LEMMA CallsOnRuns ==
  ASSUME SolverInv, NEW t \in Thread, Call(t) \/ Frames(t)
  PROVE  /\ heard \subseteq heard'
         /\ \A q \in Run : \/ outcome'[q] = outcome[q]
                           \/ outcome[q] = "none" /\ outcome'[q] \in {"running", "failed"}
         /\ \A q \in Run : asked'[q] = asked[q] \/ outcome[q] = "running"
         /\ current' # current => \A r \in Run : outcome[r] # "running"
         /\ \/ UNCHANGED <<current, outcome, work>>
            \/ /\ current' = current + 1 /\ current' \in Run
               /\ \/ /\ outcome' = [outcome EXCEPT ![current'] = "running"]
                     /\ work' = [work EXCEPT ![current'] = "gate"]
                  \/ outcome' = [outcome EXCEPT ![current'] = "failed"] /\ UNCHANGED work
<1> HIDE DEF TypeOK, RunningIsCurrent, IdleIsFree, RunsInOrder, FlagIsOfTheRun, CallbackIsKept,
             StartedInVain, Works, Ends, Active, Before
<1> DEFINE Unmoved == UNCHANGED <<current, outcome, asked, work>>
           NewRun == /\ outcome' = [outcome EXCEPT ![current'] = "running"]
                     /\ work' = [work EXCEPT ![current'] = "gate"]
           InVain == outcome' = [outcome EXCEPT ![current'] = "failed"] /\ UNCHANGED work
           Started == /\ current' = current + 1 /\ current' \in Run
                      /\ \A r \in Run : work[r] \notin Active
                      /\ NewRun \/ InVain
                      /\ UNCHANGED asked
           AskedFor == /\ current \in Run /\ work[current] \in Active
                       /\ \A r \in Run : r # current => asked'[r] = asked[r]
                       /\ UNCHANGED <<current, outcome, work>>
<1>0. heard \subseteq heard' /\ (Unmoved \/ Started \/ AskedFor)
  BY CallsAtRuns
<1>1. outcome \in [Run -> {"none", "running"} \cup Ends]
  BY DEF SolverInv, TypeOK
<1>2. ASSUME Started
      PROVE  outcome[current'] = "none" /\ \A r \in Run : outcome[r] # "running"
  <2>1. current \in 0..MaxRuns /\ current' > current
    BY <1>2 DEF SolverInv, TypeOK
  <2> QED
    BY <1>2, <2>1 DEF SolverInv, RunsInOrder
<1>3. ASSUME AskedFor PROVE outcome[current] = "running"
  BY <1>3 DEF SolverInv, RunningIsCurrent
<1>4. \A q \in Run : \/ outcome'[q] = outcome[q]
                     \/ outcome[q] = "none" /\ outcome'[q] \in {"running", "failed"}
  <2>1. CASE Started
    <3> SUFFICES ASSUME NEW q \in Run
                 PROVE  \/ outcome'[q] = outcome[q]
                        \/ outcome[q] = "none" /\ outcome'[q] \in {"running", "failed"}
      OBVIOUS
    <3>1. CASE q = current'
      BY <1>1, <1>2, <2>1, <3>1
    <3>2. CASE q # current'
      BY <1>1, <2>1, <3>2
    <3> QED
      BY <3>1, <3>2
  <2> QED
    BY <1>0, <2>1
<1>5. \A q \in Run : asked'[q] = asked[q] \/ outcome[q] = "running"
  <2>1. CASE AskedFor
    BY <1>3, <2>1
  <2> QED
    BY <1>0, <2>1
<1>6. current' # current => \A r \in Run : outcome[r] # "running"
  <2>1. CASE Started
    BY <1>2, <2>1
  <2> QED
    BY <1>0, <2>1
<1>7. \/ UNCHANGED <<current, outcome, work>>
      \/ current' = current + 1 /\ current' \in Run /\ (NewRun \/ InVain)
  <2> HIDE DEF NewRun, InVain
  <2> QED
    BY <1>0
<1> HIDE DEF Unmoved, Started, AskedFor, InVain, NewRun
<1> QED
  BY <1>0, <1>4, <1>5, <1>6, <1>7 DEF NewRun, InVain

\* What a worker does to the runs.
LEMMA WorkOnRuns ==
  ASSUME SolverInv, NEW r \in Run, Worker(r)
  PROVE  /\ heard \subseteq heard' /\ UNCHANGED <<current, asked>>
         /\ \A q \in Run : q # r => work'[q] = work[q] /\ outcome'[q] = outcome[q]
         /\ \/ UNCHANGED outcome /\ work[r] \in Active /\ work'[r] \in Active
            \/ UNCHANGED outcome /\ work[r] = "exit" /\ work'[r] = "dead"
            \/ /\ work[r] = "study" /\ work'[r] = "exit" /\ r \in heard'
               /\ \E end \in {"completed", "failed"} : outcome' = [outcome EXCEPT ![r] = end]
            \/ /\ work[r] = "check" /\ work'[r] = "exit" /\ flag
               /\ stored # None => stored \in heard'
               /\ outcome' = [outcome EXCEPT ![r] = "cancelled"]
<1> USE DEF SolverInv, Ready
<1>1. CASE PassGate(r) \/ Announce(r) \/ Check(r) \/ NextStudy(r) \/ Exit(r)
  BY <1>1 DEF PassGate, Announce, Check, NextStudy, Exit, solver, ghosts
<1>2. CASE SetCancelled(r)
  BY <1>2 DEF SetCancelled, Publish, Ended
<1>3. CASE Finish(r)
  <2>1. PICK end \in {"completed", "failed"} : Publish(r, end)
    BY <1>3 DEF Finish
  <2>2. work[r] = "study" /\ heard' = heard \cup {r}
    BY <1>3 DEF Finish, Ended
  <2>3. /\ outcome' = [outcome EXCEPT ![r] = end] /\ work' = [work EXCEPT ![r] = "exit"]
        /\ UNCHANGED <<current, asked>>
    BY <2>1 DEF Publish
  <2> QED
    BY ZenonT(40), <2>2, <2>3
<1> QED
  BY <1>1, <1>2, <1>3 DEF Worker

\* A request that comes before the first study is run is never overlooked, and
\* no run is cancelled that nobody asked to cancel.
THEOREM CancelHeeded == Spec => []CancelIsHeeded
<1>1. Init => CancelIsHeeded
  BY DEF Init, CancelIsHeeded
<1>2. ASSUME SolverInv, CancelIsHeeded, SolverInv', NEW t \in Thread, Call(t) \/ Frames(t)
      PROVE  CancelIsHeeded'
  <2> SUFFICES ASSUME NEW q \in Run
               PROVE  /\ outcome'[q] = "cancelled" => asked'[q] # "no"
                      /\ asked'[q] = "early" => outcome'[q] # "completed"
    BY DEF CancelIsHeeded
  <2>1. outcome[q] = "cancelled" => asked[q] # "no"
    BY <1>2 DEF CancelIsHeeded
  <2>2. asked[q] = "early" => outcome[q] # "completed"
    BY <1>2 DEF CancelIsHeeded
  <2>3. /\ outcome'[q] = outcome[q] \/ outcome'[q] \in {"running", "failed"}
        /\ asked'[q] = asked[q] \/ outcome'[q] = "running"
    BY <1>2, CallsOnRuns
  <2> QED
    BY <2>1, <2>2, <2>3
<1>3. ASSUME SolverInv, CancelIsHeeded, NEW r \in Run, Worker(r) PROVE CancelIsHeeded'
  <2> SUFFICES ASSUME NEW q \in Run
               PROVE  /\ outcome'[q] = "cancelled" => asked'[q] # "no"
                      /\ asked'[q] = "early" => outcome'[q] # "completed"
    BY DEF CancelIsHeeded
  <2>1. /\ outcome[q] = "cancelled" => asked[q] # "no"
        /\ asked[q] = "early" => outcome[q] # "completed"
    BY <1>3 DEF CancelIsHeeded
  <2>2. outcome \in [Run -> {"none", "running"} \cup Ends]
    BY <1>3 DEF SolverInv
  <2>3. CASE q # r
    BY <1>3, <2>1, <2>2, <2>3, WorkOnRuns
  <2>4. CASE q = r
    <3>1. asked'[q] = asked[q]
      BY <1>3, WorkOnRuns
    <3>2. work[q] = "study" => asked[q] # "early"
      BY <1>3 DEF SolverInv
    <3>3. work[q] = "check" /\ flag => asked[q] # "no"
      BY <1>3 DEF SolverInv
    <3>4. \/ outcome'[q] = outcome[q]
          \/ work[q] = "study" /\ outcome'[q] \in {"completed", "failed"}
          \/ work[q] = "check" /\ flag /\ outcome'[q] = "cancelled"
      BY <1>3, <2>2, <2>4, WorkOnRuns
    <3> QED
      BY <2>1, <3>1, <3>2, <3>3, <3>4
  <2> QED
    BY <2>3, <2>4
<1>4. SolverInv /\ CancelIsHeeded /\ [Next]_vars => CancelIsHeeded'
  <2>1. SolverInv /\ CancelIsHeeded /\ UNCHANGED vars => CancelIsHeeded'
    BY DEF vars, ghosts, CancelIsHeeded
  <2> QED
    BY <1>2, <1>3, <2>1, NextKeeps DEF Next
<1> QED
  BY <1>1, <1>4, SolverInvariant, PTL DEF Spec

\* Only a start in vain can keep a run's callback from hearing of its end.
THEOREM EndHeard == Spec => []EndIsHeard
<1> DEFINE Heard(q) == \/ q \in heard
                       \/ outcome[q] = "cancelled" /\ \E s \in Run : StartedInVain(s)
<1>1. Init => EndIsHeard
  BY DEF Init, EndIsHeard
<1>2. ASSUME SolverInv, EndIsHeard, Next, NEW q \in Run, work[q] \in {"exit", "dead"}
      PROVE  Heard(q)'
  <2>1. Heard(q)
    BY <1>2 DEF EndIsHeard
  <2>2. (\E s \in Run : StartedInVain(s)) => \E s \in Run : StartedInVain(s)'
    BY <1>2, VainStays
  <2>3. heard \subseteq heard'
    BY <1>2, CallsOnRuns, WorkOnRuns DEF Next
  <2>4. outcome[q] = "cancelled" => outcome'[q] = "cancelled"
    <3>1. ASSUME NEW t \in Thread, Call(t) \/ Frames(t), outcome[q] = "cancelled"
          PROVE  outcome'[q] = "cancelled"
      BY <1>2, <3>1, CallsOnRuns
    <3>2. ASSUME NEW r \in Run, Worker(r), outcome[q] = "cancelled"
          PROVE  outcome'[q] = "cancelled"
      <4>1. CASE r = q
        BY <1>2, <3>2, <4>1, WorkOnRuns
      <4> QED
        BY <1>2, <3>2, <4>1, WorkOnRuns
    <3> QED
      BY <1>2, <3>1, <3>2 DEF Next
  <2> QED
    BY <2>1, <2>2, <2>3, <2>4
<1>3. ASSUME SolverInv, Next, NEW q \in Run, work[q] \notin {"exit", "dead"},
             work'[q] \in {"exit", "dead"}
      PROVE  Heard(q)'
  <2>1. PICK r \in Run : Worker(r)
    BY ZenonT(40), <1>3, CallsOnRuns DEF Next, SolverInv
  <2>2. r = q
    BY <1>3, <2>1, WorkOnRuns
  <2>3. CASE work[q] = "study"
    BY <1>3, <2>1, <2>2, <2>3, WorkOnRuns
  <2>4. CASE work[q] = "check"
    <3>1. stored = q \/ \E s \in Run : StartedInVain(s)
      BY <1>3, <2>4 DEF SolverInv
    <3>2. outcome'[q] = "cancelled" /\ (stored = q => q \in heard')
      <4>1. outcome' = [outcome EXCEPT ![q] = "cancelled"] /\ (stored # None => stored \in heard')
        BY <1>3, <2>1, <2>2, <2>4, WorkOnRuns
      <4>2. outcome \in [Run -> {"none", "running"} \cup Ends] /\ q # None
        BY <1>3 DEF SolverInv
      <4> QED
        BY <4>1, <4>2
    <3> QED
      BY <1>3, <3>1, <3>2, VainStays
  <2> QED
    BY <1>3, <2>1, <2>2, <2>3, <2>4, WorkOnRuns
<1>4. SolverInv /\ EndIsHeard /\ [Next]_vars => EndIsHeard'
  <2>1. SolverInv /\ EndIsHeard /\ UNCHANGED vars => EndIsHeard'
    BY DEF vars, ghosts, EndIsHeard
  <2>2. SolverInv /\ EndIsHeard /\ Next => EndIsHeard'
    BY <1>2, <1>3 DEF EndIsHeard
  <2> QED
    BY <2>1, <2>2
<1> QED
  BY <1>1, <1>4, SolverInvariant, PTL DEF Spec

\* Solves run one at a time, in the order of their starts, and each ends once.
THEOREM SolverIsASlot == Spec => ImplementsSlot
<1>1. Init => Slot!Init
  BY DEF Init, Slot!Init
<1>2. ASSUME SolverInv, NEW t \in Thread, Call(t) \/ Frames(t)
      PROVE  [Slot!Next]_(Slot!vars)
  <2>1. CASE current' = current + 1
    <3>1. Slot!Idle
      <4>1. current' # current
        BY <1>2, <2>1 DEF SolverInv
      <4> QED
        BY <1>2, <4>1, CallsOnRuns DEF Slot!Idle
    <3>2. current' \in Run /\ Slot!Begin(current')
      <4>1. current' # current
        BY <1>2, <2>1 DEF SolverInv
      <4>2. /\ current' \in Run
            /\ \E o \in {"running", "failed"} : outcome' = [outcome EXCEPT ![current'] = o]
        BY <1>2, <4>1, CallsOnRuns
      <4> QED
        BY <2>1, <3>1, <4>2 DEF Slot!Begin
    <3> QED
      BY <3>2 DEF Slot!Next
  <2> QED
    BY <1>2, <2>1, CallsOnRuns DEF Slot!vars
<1>3. ASSUME SolverInv, NEW r \in Run, Worker(r) PROVE [Slot!Next]_(Slot!vars)
  <2>1. UNCHANGED current
    BY <1>3, WorkOnRuns
  <2>2. CASE UNCHANGED outcome
    BY <2>1, <2>2 DEF Slot!vars
  <2>3. CASE work[r] \in Active /\ \E end \in Ends : outcome' = [outcome EXCEPT ![r] = end]
    BY <1>3, <2>1, <2>3 DEF SolverInv, Slot!End, Slot!Ends, Slot!Next
  <2> QED
    BY <1>3, <2>2, <2>3, WorkOnRuns
<1>4. SolverInv /\ [Next]_vars => [Slot!Next]_(Slot!vars)
  BY <1>2, <1>3 DEF Next, vars, solver, ghosts, Slot!vars
<1> QED
  BY <1>1, <1>4, SolverInvariant, PTL DEF Spec, ImplementsSlot, Slot!Spec

=============================================================================
