-------------------------- MODULE WallWatchdogProofs --------------------------
(***************************************************************************)
(* What a wall budget and its record promise, for any number of attempts   *)
(* and faults.                                                             *)
(***************************************************************************)
EXTENDS WallWatchdogProperties, TLAPS

\* The bounds are naturals, and there is an attempt.
LEMMA Bounds ==
    MaxAttempts \in Nat /\ MaxAttempts >= 1 /\ MaxFaults \in Nat /\ 1 \in Attempt
  BY BoundsAssumption, SMT DEF Attempt

\* The initial state satisfies the invariant.
LEMMA InitInv == Init => WatchInv
<1> SUFFICES ASSUME Init PROVE WatchInv
  OBVIOUS
<1> USE Bounds DEF Init
<1>1. TypeOK
  BY SMT DEF TypeOK, Record, Outcome, Attempt
<1>2. RecordIsTrue /\ NativeHadWatchdog /\ RecordKnown /\ RequestIsCurrent
  BY SMT DEF RecordIsTrue, IsTrueOf, NativeHadWatchdog, RecordKnown, RequestIsCurrent, Attempt
<1>3. NobodyEarly /\ ArmsStarted /\ NotesAreTrue
  BY SMT DEF NobodyEarly, ArmsStarted, NotesAreTrue, Attempt
<1>4. QED
  BY <1>1, <1>2, <1>3 DEF WatchInv

-----------------------------------------------------------------------------
(* What a step may change                                                  *)

\* The job moves forward, and a watchdog that was started has been started.
Forward ==
    /\ \/ attempt' = attempt + 1 /\ attempt < MaxAttempts
       \/ attempt' = attempt
    /\ attempt' = attempt /\ status # "active" => status' # "active"
    /\ attempt' = attempt /\ request = attempt => request' = attempt
    /\ request' \in {0, attempt'}
    /\ \A a \in Attempt : watchdog[a] # "none" => watchdog'[a] # "none"

\* Whoever ends a job, a job that has ended does not run again by it.
LEMMA EndsOK ==
    ASSUME TypeOK, NEW a \in Attempt, NEW how \in {"completed", "ended"}, Ends(a, how)
    PROVE  /\ status' \in {"active", "completed", "ended"}
           /\ disowned' \subseteq Attempt
           /\ status # "active" => status' # "active"
  BY SMT DEF Ends, TypeOK

\* Every step of a process keeps the shapes and moves forward.
LEMMA ServerForward ==
    ASSUME TypeOK, RequestIsCurrent, NEW a \in Attempt,
           Server(a) \/ ServerDies(a) \/ Deadline(a)
    PROVE  TypeOK' /\ Forward
<1> USE Bounds DEF TypeOK, RequestIsCurrent, Forward, Record, Outcome, Attempt, ServerGoes,
        WatchdogGoes, Say, Cancel, CanCancel, Fault, NoFault, job
<1>1. CASE Launch(a)
  <2>1. /\ status' \in {"active", "completed", "ended"}
        /\ disowned' \subseteq Attempt
        /\ status # "active" => status' # "active"
    <3> HIDE DEF TypeOK, Attempt
    <3>1. CASE Ends(a, "ended")
      BY <3>1, EndsOK
    <3>2. CASE UNCHANGED <<status, disowned>>
      BY <3>2, SMT DEF TypeOK
    <3>3. QED
      BY <1>1, <3>1, <3>2, Zenon DEF Launch
  <2>2. /\ worker' \in [Attempt -> {"none", "waiting", "native", "over"}]
        /\ server' = [server EXCEPT ![a] = "mark"] \/ server' = [server EXCEPT ![a] = "gone"]
        /\ faults' \in 0..MaxFaults
    BY <1>1, SMT DEF Launch, WorkerRuns
  <2>3. TypeOK'
    BY <1>1, <2>1, <2>2, SMTT(30) DEF Launch
  <2>4. Forward
    BY <1>1, <2>1, SMTT(30) DEF Launch, WorkerRuns
  <2>5. QED
    BY <2>3, <2>4, Zenon
<1>2. CASE Mark(a)
  <2>1. TypeOK'
    BY <1>2, SMTT(30) DEF Mark
  <2>2. Forward
    BY <1>2, SMTT(30) DEF Mark
  <2>3. QED
    BY <2>1, <2>2, Zenon
<1>3. CASE Spawn(a)
  <2>1. /\ watchdog' \in {watchdog, [watchdog EXCEPT ![a] = "arming"]}
        /\ server' \in {[server EXCEPT ![a] = "arm"], [server EXCEPT ![a] = "abort"]}
        /\ record' \in {record, [attempt |-> a, status |-> "launch_failed"]}
        /\ faults' \in 0..MaxFaults
    BY <1>3, SMT DEF Spawn
  <2>2. TypeOK'
    BY <1>3, <2>1, SMTT(30) DEF Spawn
  <2>3. Forward
    BY <1>3, <2>1, SMTT(30) DEF Spawn
  <2>4. QED
    BY <2>2, <2>3, Zenon
<1>4. CASE Arm(a)
  BY <1>4, SMT DEF Arm
<1>5. CASE Abort(a)
  BY <1>5, SMT DEF Abort
<1>6. CASE ServerDies(a)
  BY <1>6, SMT DEF ServerDies
<1>7. CASE Deadline(a)
  BY <1>7, SMT DEF Deadline
<1>8. QED
  BY <1>1, <1>2, <1>3, <1>4, <1>5, <1>6, <1>7 DEF Server

\* So does a resume, and a client's request.
LEMMA JobForward ==
    ASSUME TypeOK, RequestIsCurrent, Resume \/ Client
    PROVE  TypeOK' /\ Forward
<1> USE Bounds DEF TypeOK, RequestIsCurrent, Forward, Record, Outcome, Attempt, ServerGoes,
        Cancel, CanCancel
<1>1. CASE Resume
  BY <1>1, SMT DEF Resume
<1>2. CASE Client
  BY <1>2, SMT DEF Client
<1>3. QED
  BY <1>1, <1>2

\* So does every step of a worker.
LEMMA WorkerForward ==
    ASSUME TypeOK, RequestIsCurrent, NEW a \in Attempt, Worker(a)
    PROVE  TypeOK' /\ Forward
<1> USE Bounds DEF TypeOK, RequestIsCurrent, Forward, Record, Outcome, Attempt, WorkerStops,
        job
<1>ends. ASSUME NEW how \in {"completed", "ended"}, Ends(a, how)
         PROVE  /\ status' \in {"active", "completed", "ended"}
                /\ disowned' \subseteq Attempt
                /\ status # "active" => status' # "active"
  <2> HIDE DEF TypeOK, Attempt
  <2>1. QED
    BY <1>ends, EndsOK
<1>1. CASE StartNative(a)
  BY <1>1, SMT DEF StartNative
<1>2. CASE StartRefused(a)
  BY <1>2, <1>ends, SMT DEF StartRefused
<1>3. CASE NativeEnds(a)
  BY <1>3, <1>ends, SMT DEF NativeEnds
<1>4. CASE Obey(a)
  BY <1>4, <1>ends, SMT DEF Obey
<1>5. CASE Commit(a)
  BY <1>5, SMT DEF Commit
<1>6. QED
  BY <1>1, <1>2, <1>3, <1>4, <1>5 DEF Worker

\* The steps of a watchdog, and what it may be about to note.
WatchdogsOK ==
    /\ watchdog \in [Attempt -> {"none", "arming", "watching", "firing", "reread", "report",
                                 "writing", "over"}]
    /\ note \in [Attempt -> Outcome]

\* Noting an outcome keeps the shapes of the watchdogs.
LEMMA ReportOK ==
    ASSUME WatchdogsOK, NEW a \in Attempt, NEW what \in Outcome, Report(a, what)
    PROVE  WatchdogsOK' /\ \A b \in Attempt : watchdog[b] # "none" => watchdog'[b] # "none"
  BY SMT DEF WatchdogsOK, Report, WatchdogGoes

\* Going to a step does.
LEMMA GoesOK ==
    ASSUME WatchdogsOK, NEW a \in Attempt, UNCHANGED note,
           NEW step \in {"watching", "firing", "reread", "over"}, WatchdogGoes(a, step)
    PROVE  WatchdogsOK' /\ \A b \in Attempt : watchdog[b] # "none" => watchdog'[b] # "none"
  BY SMT DEF WatchdogsOK, WatchdogGoes

\* So does every step of a watchdog.
LEMMA WatchdogForward ==
    ASSUME TypeOK, RequestIsCurrent, NEW a \in Attempt, Watchdog(a) \/ WatchdogDies(a)
    PROVE  TypeOK' /\ Forward
<1> USE Bounds DEF TypeOK, RequestIsCurrent, Forward, Record, Outcome, Attempt, WatchdogGoes,
        Say, Report, Fails, Cancel, CanCancel, Fault, NoFault, job
<1>1. CASE WaitArmed(a)
  BY <1>1, SMT DEF WaitArmed
<1>2. CASE GiveUp(a)
  BY <1>2, SMT DEF GiveUp
<1>3. CASE Watch(a)
  <2> HIDE DEF TypeOK, Report, WatchdogGoes
  <2>1. WatchdogsOK
    BY SMT DEF WatchdogsOK, TypeOK
  <2>2. WatchdogsOK' /\ \A b \in Attempt : watchdog[b] # "none" => watchdog'[b] # "none"
    BY <1>3, <2>1, ReportOK, GoesOK, Zenon DEF Watch, Fails, Outcome
  <2>3. faults' \in {faults, faults + 1} /\ faults' <= MaxFaults
    BY <1>3, SMT DEF Watch, Fails, TypeOK
  <2>4. lost' = lost \/ lost' = lost \cup {a}
    BY <1>3, Zenon DEF Watch, Fails
  <2>5. UNCHANGED <<attempt, status, record, server, worker, holder, late, disowned>> /\ request' \in {request, attempt}
    BY <1>3, SMT DEF Watch, Fails
  <2>6. TypeOK'
    <3>1. lost' \subseteq Attempt
      <4> HIDE DEF Attempt
      <4>1. lost \subseteq Attempt
        BY SMT DEF TypeOK
      <4>2. QED
        BY <2>4, <4>1, SMT
    <3>2. QED
      BY <2>2, <2>3, <2>5, <3>1, SMT DEF TypeOK, WatchdogsOK
  <2>7. Forward
    BY <2>2, <2>5, SMT DEF TypeOK
  <2>8. QED
    BY <2>6, <2>7
<1>4. CASE Fire(a)
  <2> HIDE DEF TypeOK, Report, WatchdogGoes
  <2>1. WatchdogsOK
    BY SMT DEF WatchdogsOK, TypeOK
  <2>2. WatchdogsOK' /\ \A b \in Attempt : watchdog[b] # "none" => watchdog'[b] # "none"
    BY <1>4, <2>1, ReportOK, GoesOK, Zenon DEF Fire, Fails, Outcome
  <2>3. faults' \in {faults, faults + 1} /\ faults' <= MaxFaults
    BY <1>4, SMT DEF Fire, Fails, TypeOK
  <2>4. lost' = lost \/ lost' = lost \cup {a}
    BY <1>4, Zenon DEF Fire, Fails
  <2>5. UNCHANGED <<attempt, status, record, server, worker, holder, late, disowned>> /\ request' \in {request, attempt}
    BY <1>4, SMT DEF Fire, Fails
  <2>6. TypeOK'
    <3>1. lost' \subseteq Attempt
      <4> HIDE DEF Attempt
      <4>1. lost \subseteq Attempt
        BY SMT DEF TypeOK
      <4>2. QED
        BY <2>4, <4>1, SMT
    <3>2. QED
      BY <2>2, <2>3, <2>5, <3>1, SMT DEF TypeOK, WatchdogsOK
  <2>7. Forward
    BY <2>2, <2>5, SMT DEF TypeOK
  <2>8. QED
    BY <2>6, <2>7
<1>5. CASE Reread(a)
  <2> HIDE DEF TypeOK, Report, WatchdogGoes
  <2>1. WatchdogsOK
    BY SMT DEF WatchdogsOK, TypeOK
  <2>2. WatchdogsOK' /\ \A b \in Attempt : watchdog[b] # "none" => watchdog'[b] # "none"
    BY <1>5, <2>1, ReportOK, GoesOK, Zenon DEF Reread, Fails, Outcome
  <2>3. faults' \in {faults, faults + 1} /\ faults' <= MaxFaults
    BY <1>5, SMT DEF Reread, Fails, TypeOK
  <2>4. lost' = lost \/ lost' = lost \cup {a}
    BY <1>5, Zenon DEF Reread, Fails
  <2>5. UNCHANGED <<attempt, status, record, server, worker, holder, late, disowned>> /\ request' \in {request, attempt}
    BY <1>5, SMT DEF Reread, Fails
  <2>6. TypeOK'
    <3>1. lost' \subseteq Attempt
      <4> HIDE DEF Attempt
      <4>1. lost \subseteq Attempt
        BY SMT DEF TypeOK
      <4>2. QED
        BY <2>4, <4>1, SMT
    <3>2. QED
      BY <2>2, <2>3, <2>5, <3>1, SMT DEF TypeOK, WatchdogsOK
  <2>7. Forward
    BY <2>2, <2>5, SMT DEF TypeOK
  <2>8. QED
    BY <2>6, <2>7
<1>6. CASE ReadRecord(a)
  BY <1>6, SMT DEF ReadRecord
<1>7. CASE WriteRecord(a)
  BY <1>7, SMT DEF WriteRecord
<1>8. CASE WatchdogDies(a)
  BY <1>8, SMT DEF WatchdogDies
<1>9. QED
  BY <1>1, <1>2, <1>3, <1>4, <1>5, <1>6, <1>7, <1>8 DEF Watchdog

\* What is true of an attempt stays true when the job moves forward.
LEMMA TruthStays ==
    ASSUME TypeOK, RequestIsCurrent, Forward, NEW a \in 0..MaxAttempts, NEW what,
           what # "none" => a \in Attempt /\ a <= attempt, IsTrueOf(a, what)
    PROVE  IsTrueOf(a, what)'
  BY Bounds, SMT DEF TypeOK, RequestIsCurrent, Forward, IsTrueOf, Attempt

-----------------------------------------------------------------------------
(* What a step says, and who it starts                                     *)

\* The file is left alone, or says what is so.
SaysTrue ==
    \/ record' = record
    \/ \E a \in Attempt, what \in {"launching", "armed", "launch_failed"} \cup Outcome :
        a <= attempt' /\ record' = [attempt |-> a, status |-> what] /\ IsTrueOf(a, what)'

\* A watchdog keeps its note, or takes one that is so.
NotesTrue ==
    \A a \in Attempt : watchdog'[a] \in {"report", "writing"} =>
        \/ watchdog[a] \in {"report", "writing"} /\ note'[a] = note[a]
        \/ IsTrueOf(a, note[a])'

\* The attempts of servers, watchdogs and native runs.
StartsInOrder == NobodyEarly' /\ ArmsStarted' /\ NativeHadWatchdog'

\* The steps of servers.
LEMMA ServerSays ==
    ASSUME WatchInv, TypeOK', Forward, NEW a \in Attempt,
           Server(a) \/ ServerDies(a) \/ Deadline(a)
    PROVE  SaysTrue /\ NotesTrue /\ StartsInOrder
<1> USE Bounds DEF WatchInv, TypeOK, Attempt, ServerGoes, WatchdogGoes, Say, job,
        SaysTrue, NotesTrue, StartsInOrder, NobodyEarly, ArmsStarted, NativeHadWatchdog
<1>1. CASE Launch(a)
  <2>1. SaysTrue
    BY <1>1, SMT DEF Launch, WorkerRuns
  <2>2. NotesTrue
    BY <1>1, SMT DEF Launch, WorkerRuns
  <2>3. StartsInOrder
    BY <1>1, SMT DEF Launch, WorkerRuns
  <2>4. QED
    BY <2>1, <2>2, <2>3
<1>2. CASE Mark(a)
  <2>1. SaysTrue
    BY <1>2, SMT DEF Mark, IsTrueOf
  <2>2. NotesTrue
    BY <1>2, SMT DEF Mark, IsTrueOf
  <2>3. StartsInOrder
    BY <1>2, SMT DEF Mark, IsTrueOf
  <2>4. QED
    BY <2>1, <2>2, <2>3
<1>3. CASE Spawn(a)
  BY <1>3, SMT DEF Spawn, IsTrueOf
<1>4. CASE Arm(a)
  <2>1. SaysTrue
    BY <1>4, SMT DEF Arm, IsTrueOf
  <2>2. NotesTrue
    BY <1>4, SMT DEF Arm, IsTrueOf
  <2>3. StartsInOrder
    BY <1>4, SMT DEF Arm, IsTrueOf
  <2>4. QED
    BY <2>1, <2>2, <2>3
<1>5. CASE Abort(a)
  <2>1. SaysTrue
    BY <1>5, SMT DEF Abort
  <2>2. NotesTrue
    BY <1>5, SMT DEF Abort
  <2>3. StartsInOrder
    BY <1>5, SMT DEF Abort
  <2>4. QED
    BY <2>1, <2>2, <2>3
<1>6. CASE ServerDies(a)
  <2>1. SaysTrue
    BY <1>6, SMT DEF ServerDies
  <2>2. NotesTrue
    BY <1>6, SMT DEF ServerDies
  <2>3. StartsInOrder
    BY <1>6, SMT DEF ServerDies
  <2>4. QED
    BY <2>1, <2>2, <2>3
<1>7. CASE Deadline(a)
  <2>1. SaysTrue
    BY <1>7, SMT DEF Deadline
  <2>2. NotesTrue
    BY <1>7, SMT DEF Deadline
  <2>3. StartsInOrder
    BY <1>7, SMT DEF Deadline
  <2>4. QED
    BY <2>1, <2>2, <2>3
<1>8. QED
  BY <1>1, <1>2, <1>3, <1>4, <1>5, <1>6, <1>7 DEF Server

\* A resume, and a client's request.
LEMMA JobSays ==
    ASSUME WatchInv, TypeOK', Forward, Resume \/ Client
    PROVE  SaysTrue /\ NotesTrue /\ StartsInOrder
<1> USE Bounds DEF WatchInv, TypeOK, Attempt, ServerGoes, SaysTrue, NotesTrue, StartsInOrder,
        NobodyEarly, ArmsStarted, NativeHadWatchdog
<1>1. CASE Resume
  BY <1>1, SMT DEF Resume
<1>2. CASE Client
  BY <1>2, SMT DEF Client
<1>3. QED
  BY <1>1, <1>2

\* The steps of workers: a native run starts on a record that is so.
LEMMA WorkerSays ==
    ASSUME WatchInv, TypeOK', Forward, NEW a \in Attempt, Worker(a)
    PROVE  SaysTrue /\ NotesTrue /\ StartsInOrder
<1> USE Bounds DEF WatchInv, TypeOK, Attempt, WorkerStops, job, SaysTrue, NotesTrue,
        StartsInOrder, NobodyEarly, ArmsStarted, NativeHadWatchdog
<1>1. CASE StartNative(a)
  <2>1. watchdog[a] # "none"
    BY <1>1, SMT DEF StartNative, Armed, RecordIsTrue, IsTrueOf
  <2>2. QED
    BY <1>1, <2>1, SMT DEF StartNative
<1>2. CASE StartRefused(a)
  BY <1>2, SMT DEF StartRefused
<1>3. CASE NativeEnds(a)
  BY <1>3, SMT DEF NativeEnds
<1>4. CASE Obey(a)
  BY <1>4, SMT DEF Obey
<1>5. CASE Commit(a)
  BY <1>5, SMT DEF Commit
<1>6. QED
  BY <1>1, <1>2, <1>3, <1>4, <1>5 DEF Worker

\* A watchdog that takes a note that is so, and changes nothing else of the file.
LEMMA ReportSays ==
    ASSUME WatchInv, NEW a \in Attempt, watchdog[a] # "none", NEW what, Report(a, what),
           UNCHANGED <<attempt, record, server, worker>>, IsTrueOf(a, what)'
    PROVE  SaysTrue /\ NotesTrue /\ StartsInOrder
<1>1. note'[a] = what /\ \A b \in Attempt : b # a => watchdog'[b] = watchdog[b] /\ note'[b] = note[b]
  BY SMT DEF WatchInv, TypeOK, Report, WatchdogGoes
<1>2. NotesTrue
  <2>1. IsTrueOf(a, note[a])'
    BY <1>1, SMT DEF IsTrueOf
  <2>2. QED
    BY <1>1, <2>1 DEF NotesTrue
<1>3. SaysTrue
  BY DEF SaysTrue
<1>4. StartsInOrder
  BY SMT DEF WatchInv, TypeOK, Report, WatchdogGoes, StartsInOrder, NobodyEarly, ArmsStarted,
     NativeHadWatchdog
<1>5. QED
  BY <1>2, <1>3, <1>4

\* A watchdog that goes on.
LEMMA GoesSays ==
    ASSUME WatchInv, NEW a \in Attempt, watchdog[a] # "none",
           NEW step \in {"watching", "firing", "reread", "over"}, WatchdogGoes(a, step),
           UNCHANGED <<attempt, record, server, worker, note>>
    PROVE  SaysTrue /\ NotesTrue /\ StartsInOrder
  BY SMT DEF WatchInv, TypeOK, WatchdogGoes, SaysTrue, NotesTrue, StartsInOrder,
     NobodyEarly, ArmsStarted, NativeHadWatchdog

\* The steps of watchdogs: what they note is so when they note it.
LEMMA WatchdogSays ==
    ASSUME WatchInv, TypeOK', Forward, NEW a \in Attempt, Watchdog(a) \/ WatchdogDies(a)
    PROVE  SaysTrue /\ NotesTrue /\ StartsInOrder
<1> USE DEF job
<1>1. CASE WaitArmed(a)
  BY <1>1, GoesSays, SMT DEF WaitArmed
<1>2. CASE GiveUp(a)
  BY <1>2, GoesSays, SMT DEF GiveUp
<1>3. watchdog[a] # "none" => a <= attempt
  BY SMT DEF WatchInv, NobodyEarly
<1>4. CASE Watch(a)
  <2>1. watchdog[a] # "none" /\ UNCHANGED <<attempt, status, request, record, server, worker>>
    BY <1>4, SMT DEF Watch
  <2>2. attempt # a => IsTrueOf(a, "stale")'
    BY <1>3, <2>1, Bounds, SMT DEF IsTrueOf, WatchInv, TypeOK, Attempt
  <2>3. status # "active" => IsTrueOf(a, "terminal")'
    BY <2>1, SMT DEF IsTrueOf
  <2>4. IsTrueOf(a, "failed")'
    BY SMT DEF IsTrueOf
  <2>5. QED
    BY <1>4, <2>1, <2>2, <2>3, <2>4, ReportSays, GoesSays, Zenon DEF Watch, Fails
<1>5. CASE Fire(a)
  <2>1. watchdog[a] # "none" /\ UNCHANGED <<attempt, status, record, server, worker>>
    BY <1>5, SMT DEF Fire
  <2>2. CanCancel(a) /\ Cancel(a) => IsTrueOf(a, "requested")'
    BY SMT DEF CanCancel, Cancel, IsTrueOf
  <2>3. IsTrueOf(a, "failed")'
    BY SMT DEF IsTrueOf
  <2>4. QED
    BY <1>5, <2>1, <2>2, <2>3, ReportSays, GoesSays, Zenon DEF Fire, Fails
<1>6. CASE Reread(a)
  <2>1. watchdog[a] # "none" /\ UNCHANGED <<attempt, status, request, record, server, worker>>
    BY <1>6, SMT DEF Reread
  <2>2. attempt # a => IsTrueOf(a, "stale")'
    BY <1>3, <2>1, Bounds, SMT DEF IsTrueOf, WatchInv, TypeOK, Attempt
  <2>3. status # "active" => IsTrueOf(a, "terminal")'
    BY <2>1, SMT DEF IsTrueOf
  <2>4. IsTrueOf(a, "failed")' /\ IsTrueOf(a, "refused")'
    BY SMT DEF IsTrueOf
  <2>5. QED
    BY <1>6, <2>1, <2>2, <2>3, <2>4, ReportSays, GoesSays, Zenon DEF Reread, Fails
<1>7. CASE ReadRecord(a)
  <2>1. UNCHANGED <<attempt, status, request, record, server, worker>> /\ watchdog[a] = "report"
    BY <1>7, SMT DEF ReadRecord
  <2>2. IsTrueOf(a, "failed")'
    BY SMT DEF IsTrueOf
  <2>3. CASE Report(a, "failed")
    BY <2>1, <2>2, <2>3, ReportSays, Zenon
  <2>4. CASE WatchdogGoes(a, "over") /\ UNCHANGED note
    BY <2>1, <2>4, GoesSays, SMT
  <2>5. CASE WatchdogGoes(a, "writing") /\ UNCHANGED note
    BY <2>1, <2>5, SMT DEF WatchInv, TypeOK, WatchdogGoes, SaysTrue, NotesTrue, StartsInOrder,
       NobodyEarly, ArmsStarted, NativeHadWatchdog
  <2>6. QED
    BY <1>7, <2>3, <2>4, <2>5, Zenon DEF ReadRecord
<1>8. CASE WriteRecord(a)
  <2> USE <1>8 DEF WriteRecord, Say
  <2>1. UNCHANGED <<attempt, status, request, note, server, worker>> /\ watchdog[a] = "writing"
    OBVIOUS
  <2>2. watchdog' = [watchdog EXCEPT ![a] = "over"]
    BY DEF WatchdogGoes
  <2>3. IsTrueOf(a, note[a])'
    <3>1. IsTrueOf(a, note[a])
      BY <2>1, SMT DEF WatchInv, NotesAreTrue
    <3>2. watchdog'[a] # "none"
      BY <2>2, SMT DEF WatchInv, TypeOK
    <3>3. QED
      BY <2>1, <3>1, <3>2, SMT DEF IsTrueOf
  <2>4. note'[a] = note[a] /\ note[a] \in Outcome /\ a <= attempt'
    BY <1>3, <2>1, SMT DEF WatchInv, TypeOK
  <2>5. SaysTrue
    BY <2>3, <2>4, Zenon DEF SaysTrue
  <2>6. NotesTrue
    BY <2>1, <2>2, SMT DEF NotesTrue, WatchInv, TypeOK
  <2>7. StartsInOrder
    BY <2>1, <2>2, SMT DEF WatchInv, TypeOK, StartsInOrder, NobodyEarly, ArmsStarted,
       NativeHadWatchdog
  <2>8. QED
    BY <2>5, <2>6, <2>7
<1>9. CASE WatchdogDies(a)
  BY <1>9, GoesSays, SMT DEF WatchdogDies
<1>10. QED
  BY <1>1, <1>2, <1>4, <1>5, <1>6, <1>7, <1>8, <1>9 DEF Watchdog

-----------------------------------------------------------------------------
(* The theorems                                                            *)

\* Such a step keeps the invariant.
LEMMA SaysKeeps ==
    ASSUME WatchInv, TypeOK', Forward, SaysTrue, NotesTrue, StartsInOrder
    PROVE  WatchInv'
<1> USE Bounds
<1>1. RecordIsTrue' /\ RecordKnown'
  <2>1. CASE record' = record
    <3>1. record.attempt \in 0..MaxAttempts
      BY SMT DEF WatchInv, TypeOK, Record
    <3>2. IsTrueOf(record.attempt, record.status)
      BY DEF WatchInv, RecordIsTrue
    <3>3. record.status # "none" => record.attempt \in Attempt /\ record.attempt <= attempt
      BY DEF WatchInv, RecordKnown
    <3>4. attempt' >= attempt
      BY SMT DEF Forward, WatchInv, TypeOK, Attempt
    <3>5. RecordKnown'
      BY <2>1, <3>3, <3>4, SMT DEF RecordKnown, WatchInv, TypeOK, Attempt
    <3>6. ASSUME NEW a \in 0..MaxAttempts, NEW what, a = record.attempt, what = record.status
          PROVE  IsTrueOf(a, what)'
      BY <3>2, <3>3, <3>6, TruthStays DEF WatchInv
    <3>7. RecordIsTrue'
      BY <2>1, <3>1, <3>6, SMT DEF RecordIsTrue, IsTrueOf
    <3>8. QED
      BY <3>5, <3>7
  <2>2. ASSUME NEW a \in Attempt, NEW what \in {"launching", "armed", "launch_failed"} \cup Outcome,
               a <= attempt', record' = [attempt |-> a, status |-> what], IsTrueOf(a, what)'
        PROVE  RecordIsTrue' /\ RecordKnown'
    BY <2>2, SMT DEF RecordIsTrue, RecordKnown, IsTrueOf
  <2>3. QED
    BY <2>1, <2>2 DEF SaysTrue
<1>2. NotesAreTrue'
  <2> SUFFICES ASSUME NEW a \in Attempt, watchdog'[a] \in {"report", "writing"}
               PROVE  IsTrueOf(a, note[a])'
    BY DEF NotesAreTrue
  <2>1. CASE watchdog[a] \in {"report", "writing"} /\ note'[a] = note[a]
    <3>1. a <= attempt /\ IsTrueOf(a, note[a]) /\ a \in 0..MaxAttempts
      BY <2>1, SMT DEF WatchInv, NobodyEarly, NotesAreTrue, Attempt
    <3>2. ASSUME NEW what, what = note[a]
          PROVE  IsTrueOf(a, what)'
      BY <3>1, <3>2, TruthStays DEF WatchInv
    <3>3. QED
      BY <2>1, <3>2, SMT DEF IsTrueOf
  <2>2. QED
    BY <2>1 DEF NotesTrue
<1>3. RequestIsCurrent'
  BY DEF Forward, RequestIsCurrent
<1>4. QED
  BY <1>1, <1>2, <1>3 DEF WatchInv, StartsInOrder

\* Every step keeps the invariant.
LEMMA NextInv == WatchInv /\ [Next]_vars => WatchInv'
<1> SUFFICES ASSUME WatchInv, [Next]_vars PROVE WatchInv'
  OBVIOUS
<1>1. TypeOK /\ RequestIsCurrent
  BY DEF WatchInv
<1>2. CASE UNCHANGED vars
  BY <1>2, SMT DEF vars, WatchInv, TypeOK, RecordIsTrue, IsTrueOf, NativeHadWatchdog, RecordKnown,
     RequestIsCurrent, NobodyEarly, ArmsStarted, NotesAreTrue
<1>3. ASSUME NEW a \in Attempt, Server(a) \/ ServerDies(a) \/ Deadline(a)
      PROVE  WatchInv'
  BY <1>1, <1>3, ServerForward, ServerSays, SaysKeeps
<1>4. ASSUME NEW a \in Attempt, Worker(a)
      PROVE  WatchInv'
  BY <1>1, <1>4, WorkerForward, WorkerSays, SaysKeeps
<1>5. ASSUME NEW a \in Attempt, Watchdog(a) \/ WatchdogDies(a)
      PROVE  WatchInv'
  BY <1>1, <1>5, WatchdogForward, WatchdogSays, SaysKeeps
<1>6. CASE Resume \/ Client
  BY <1>1, <1>6, JobForward, JobSays, SaysKeeps
<1>7. QED
  BY <1>2, <1>3, <1>4, <1>5, <1>6, Zenon DEF Next

\* Attempts, processes and the file agree in every reachable state.
THEOREM WatchInvariant == Spec => []WatchInv
<1>1. Init => WatchInv
  BY InitInv
<1>2. WatchInv /\ [Next]_vars => WatchInv'
  BY NextInv
<1>3. QED
  BY <1>1, <1>2, PTL DEF Spec

\* The file tells the truth about its attempt, whoever wrote it last
\* (native_wall_watchdog.py, _write_outcome).
THEOREM RecordTrue == Spec => []RecordIsTrue
<1>1. WatchInv => RecordIsTrue
  BY DEF WatchInv
<1>2. QED
  BY <1>1, WatchInvariant, PTL

\* No native run begins without a watchdog that was started for its attempt
\* (native_wall_watchdog.py, await_native_wall_watchdog).
THEOREM NativeWatched == Spec => []NativeHadWatchdog
<1>1. WatchInv => NativeHadWatchdog
  BY DEF WatchInv
<1>2. QED
  BY <1>1, WatchInvariant, PTL

\* A deadline that races a resume cancels its own attempt or nothing
\* (manager.py, cancel with expected_attempt; store.py, request_cancel).
THEOREM CancelsOwn == Spec => CancelsItsOwn
<1>1. ASSUME TypeOK, Next, NEW a \in Attempt, watchdog[a] = "firing", watchdog'[a] # "firing",
             request' # request
      PROVE  request' = a
  <2>1. PICK b \in Attempt : Fire(b)
    <3>1. ASSUME NEW c \in Attempt, Server(c) \/ ServerDies(c) \/ Deadline(c) \/ Worker(c)
          PROVE  watchdog'[a] = "firing" \/ request' = request
      <4> USE DEF TypeOK, WatchdogGoes, job
      <4>1. CASE Server(c) \/ ServerDies(c) \/ Deadline(c)
        BY <1>1, <4>1, SMT DEF Server, Launch, Mark, Spawn, Arm, Abort, ServerDies, Deadline
      <4>2. CASE Worker(c)
        BY <1>1, <4>2, SMT DEF Worker, StartNative, StartRefused, NativeEnds, Obey, Commit
      <4>3. QED
        BY <3>1, <4>1, <4>2
    <3>2. ASSUME NEW c \in Attempt, Watchdog(c) \/ WatchdogDies(c), ~Fire(c)
          PROVE  request' = request
      BY <3>2, SMT DEF Watchdog, WatchdogDies, WaitArmed, GiveUp, Watch, Reread, ReadRecord,
         WriteRecord, job
    <3>3. CASE Resume \/ Client
      BY <1>1, <3>3, SMT DEF Resume, Client
    <3>4. QED
      BY <1>1, <3>1, <3>2, <3>3, Zenon DEF Next
  <2>2. b = a
    BY <1>1, <2>1, SMT DEF TypeOK, Fire, Fails, Report, WatchdogGoes
  <2>3. QED
    BY <1>1, <2>1, <2>2, SMT DEF Fire, Cancel, Fails
<1>2. TypeOK /\ [Next]_vars =>
        [\A a \in Attempt :
            watchdog[a] = "firing" /\ watchdog'[a] # "firing" /\ request' # request =>
                request' = a]_vars
  BY <1>1, Zenon DEF vars
<1>3. WatchInv => TypeOK
  BY DEF WatchInv
<1>4. QED
  BY <1>2, <1>3, WatchInvariant, PTL DEF Spec, CancelsItsOwn

=============================================================================
