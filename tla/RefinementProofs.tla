-------------------------- MODULE RefinementProofs --------------------------
(***************************************************************************)
(* SyncBench implements MeasurementRun, under the mapping at the end of    *)
(* SyncBench: every step is a step of the abstract run or changes nothing  *)
(* an operator sees.                                                       *)
(***************************************************************************)
EXTENDS SyncBenchProofs

(***************************************************************************)
(* The verdict an operator sees depends on phases and results only.        *)
(***************************************************************************)
LEMMA SameVerdict ==
    ASSUME UNCHANGED <<phase, results>>
    PROVE  verdictBar' = verdictBar
BY DEF verdictBar, Ok

LEMMA SamePromise ==
    ASSUME UNCHANGED <<started, measured, phase, results>>
    PROVE  UNCHANGED Promise!vars
BY SameVerdict DEF Promise!vars

(***************************************************************************)
(* A change of phase that leaves the results alone.                        *)
(***************************************************************************)
LEMMA OpenPhaseChange ==
    ASSUME TypeOK, NEW r \in Runs, NEW p \in Phases \ Ended, SetPhase(r, p),
           phase[r] \notin Ended, UNCHANGED results
    PROVE  verdictBar' = verdictBar
<1>1. ASSUME NEW q \in Runs PROVE verdictBar'[q] = verdictBar[q]
  <2>1. CASE q = r
    BY <2>1 DEF verdictBar, SetPhase, TypeOK, CtrlTypeOK
  <2>2. CASE q # r
    BY <2>2 DEF verdictBar, SetPhase, TypeOK, CtrlTypeOK, Ok
  <2> QED BY <2>1, <2>2
<1> QED BY <1>1 DEF verdictBar

LEMMA EndPhaseChange ==
    ASSUME TypeOK, NEW r \in Runs, NEW p \in Ended, SetPhase(r, p),
           phase[r] \notin Ended, UNCHANGED results
    PROVE  /\ verdictBar[r] = "pending"
           /\ \E v \in {"ok", "failed"} :
                 /\ verdictBar' = [verdictBar EXCEPT ![r] = v]
                 /\ v = "ok" => p = "done" /\ \A a \in Expected[r] : results[r][a] = "complete"
<1>1. verdictBar[r] = "pending"
  BY DEF verdictBar
<1>2. phase'[r] = p
  BY DEF SetPhase, TypeOK, CtrlTypeOK
<1>3. ASSUME NEW q \in Runs, q # r PROVE verdictBar'[q] = verdictBar[q]
  BY <1>3 DEF verdictBar, SetPhase, TypeOK, CtrlTypeOK, Ok
<1>4. verdictBar'[r] = IF Ok(r)' THEN "ok" ELSE "failed"
  BY <1>2 DEF verdictBar
<1>5. verdictBar' = [verdictBar EXCEPT ![r] = IF Ok(r)' THEN "ok" ELSE "failed"]
  BY <1>3, <1>4 DEF verdictBar
<1>6. Ok(r)' => p = "done" /\ \A a \in Expected[r] : results[r][a] = "complete"
  BY <1>2 DEF Ok
<1>7. CASE Ok(r)'
  BY <1>1, <1>5, <1>6, <1>7
<1>8. CASE ~Ok(r)'
  BY <1>1, <1>5, <1>8
<1> QED BY <1>7, <1>8

(***************************************************************************)
(* A result that arrives changes the results of a run without verdict.     *)
(***************************************************************************)
LEMMA DeliverVerdict ==
    ASSUME TypeOK, NEW m \in reports, Deliver(m)
    PROVE  verdictBar' = verdictBar
<1>1. UNCHANGED phase
  BY DEF Deliver
<1>2. CASE UNCHANGED results
  BY <1>1, <1>2, SameVerdict
<1>3. CASE /\ session \in Runs /\ phase[session] \notin Ended
           /\ results' = [results EXCEPT ![session][m.agent] = m.body]
  <2>1. ASSUME NEW q \in Runs PROVE verdictBar'[q] = verdictBar[q]
    <3>1. CASE phase[q] \notin Ended
      BY <1>1, <3>1 DEF verdictBar
    <3>2. CASE phase[q] \in Ended
      <4>1. results'[q] = results[q]
        BY <1>3, <3>2 DEF TypeOK, CtrlTypeOK
      <4> QED BY <1>1, <4>1 DEF verdictBar, Ok
    <3> QED BY <3>1, <3>2
  <2> QED BY <2>1 DEF verdictBar
<1> QED BY <1>2, <1>3 DEF Deliver, OnAck, OnResult, TypeOK, NetTypeOK, RunOrNone

LEMMA ControllerImplements ==
    ASSUME TypeOK, CompleteIsMeasured, PhaseMatches,
           NEW r \in Runs, ControllerStep(r), UNCHANGED agentVars
    PROVE  [Promise!Next]_(Promise!vars)
<1> USE DEF TypeOK, CtrlTypeOK
<1>1. UNCHANGED <<measured, results>>
  BY DEF agentVars, ctrlVars, ControllerStep, RunStep, Connect, Begin, StartRun, AckTimeout,
     StartDownlinkClients, StopRun, Conclude, Close, Resume, StartServer, StopServer,
     SpawnFails, Interrupt
<1>2. CASE StartRun(r)
  <2>1. "armed" \in Phases \ Ended /\ SetPhase(r, "armed") /\ phase[r] \notin Ended
    BY <1>2 DEF StartRun, Phases, UnderWay, Ended
  <2>2. verdictBar' = verdictBar
    BY <1>1, <2>1, OpenPhaseChange
  <2>3. r \notin started /\ started' = started \cup {r} /\ verdictBar[r] = "pending"
    BY <1>2, <2>1 DEF StartRun, PhaseMatches, verdictBar
  <2>4. Promise!Launch(r)
    BY <1>1, <2>2, <2>3 DEF Promise!Launch
  <2> QED BY <2>4 DEF Promise!Next
<1>3. ASSUME NEW p \in Phases \ Ended, SetPhase(r, p), phase[r] \notin Ended, UNCHANGED started
      PROVE  [Promise!Next]_(Promise!vars)
  BY <1>1, <1>3, OpenPhaseChange DEF Promise!vars
<1>4. ASSUME NEW p \in Ended, SetPhase(r, p), phase[r] \notin Ended, UNCHANGED started,
             p = "done" => r \in started
      PROVE  [Promise!Next]_(Promise!vars)
  <2>1. PICK v \in {"ok", "failed"} :
            /\ verdictBar' = [verdictBar EXCEPT ![r] = v]
            /\ v = "ok" => p = "done" /\ \A a \in Expected[r] : results[r][a] = "complete"
    BY <1>1, <1>4, EndPhaseChange
  <2>2. verdictBar[r] = "pending"
    BY <1>4 DEF verdictBar
  <2>3. CASE v = "failed"
    <3>1. Promise!DeclareFailed(r)
      BY <1>1, <1>4, <2>1, <2>2, <2>3 DEF Promise!DeclareFailed
    <3> QED BY <3>1 DEF Promise!Next
  <2>4. CASE v = "ok"
    <3>1. \A a \in Expected[r] : a \in Agents
      BY NetAssumption DEF NetAssumption
    <3>2. \A a \in Expected[r] : <<r, a>> \in measured
      BY <2>1, <2>4, <3>1 DEF CompleteIsMeasured
    <3>3. Promise!DeclareOk(r)
      BY <1>1, <1>4, <2>1, <2>2, <2>4, <3>2 DEF Promise!DeclareOk
    <3> QED BY <3>3 DEF Promise!Next
  <2> QED BY <2>1, <2>3, <2>4
<1>5. CASE UNCHANGED <<phase, started>>
  BY <1>1, <1>5, SamePromise
<1>6. CASE Conclude(r)
  <2>1. SetPhase(r, "done") /\ UNCHANGED started /\ phase[r] = "collecting"
    BY <1>6 DEF Conclude
  <2> QED BY <1>4, <2>1 DEF PhaseMatches, Ended
<1>7. CASE AckTimeout(r)
  <2>1. SetPhase(r, "failed") /\ UNCHANGED started /\ phase[r] = "preparing"
    BY <1>7 DEF AckTimeout
  <2> QED BY <1>4, <2>1 DEF Ended
<1>8. CASE SpawnFails(r) \/ (Interrupt(r) /\ phase[r] \notin Ended)
  <2>1. UNCHANGED started /\ phase[r] \notin Ended
    BY <1>8 DEF SpawnFails, Interrupt, Ended
  <2>2. SetPhase(r, "aborted")
    BY <1>8 DEF SpawnFails, Interrupt, SetPhase
  <2> QED BY <1>4, <2>1, <2>2 DEF Ended
<1>9. CASE Interrupt(r) /\ phase[r] \in Ended
  BY <1>5, <1>9 DEF Interrupt
<1>10. CASE Connect(r) \/ Begin(r) \/ StartDownlinkClients(r) \/ StopRun(r)
  <2>1. PICK p \in {"connected", "preparing", "running", "collecting"} : SetPhase(r, p)
    BY <1>10 DEF Connect, Begin, StartDownlinkClients, StopRun
  <2>2. UNCHANGED started /\ phase[r] \notin Ended
    BY <1>10 DEF Connect, Begin, StartDownlinkClients, StopRun, Ended, ctrlVars
  <2> QED BY <1>3, <2>1, <2>2 DEF Phases, UnderWay, Ended
<1>11. CASE Close(r) \/ Resume(r) \/ StartServer(r) \/ StopServer(r)
  BY <1>5, <1>11 DEF Close, Resume, StartServer, StopServer, ctrlVars
<1> QED BY <1>2, <1>6, <1>7, <1>8, <1>9, <1>10, <1>11 DEF ControllerStep, RunStep

LEMMA AgentImplements ==
    ASSUME TypeOK, StartsAreStarted, NEW a \in Agents, AgentStep(a), UNCHANGED ctrlVars
    PROVE  [Promise!Next]_(Promise!vars)
<1>1. UNCHANGED <<phase, results, started>> /\ verdictBar' = verdictBar
  BY SameVerdict DEF ctrlVars
<1>2. ASSUME NEW t \in Threads, NEW status \in Statuses, Finish(a, t, status)
      PROVE  [Promise!Next]_(Promise!vars)
  <2>1. worker[a][t].pc # "none"
    BY <1>2 DEF Finish, CanEnd
  <2>2. worker[a][t].run \in started
    BY <2>1 DEF StartsAreStarted
  <2>3. worker[a][t].run \in Runs
    BY <2>2 DEF TypeOK, CtrlTypeOK
  <2>4. CASE UNCHANGED measured
    BY <1>1, <2>4 DEF Promise!vars
  <2>5. CASE measured' = measured \cup {<<worker[a][t].run, a>>}
    <3>1. Promise!Measure(worker[a][t].run, a)
      BY <1>1, <2>2, <2>5 DEF Promise!Measure
    <3> QED BY <2>3, <3>1 DEF Promise!Next
  <2> QED BY <1>2, <2>4, <2>5 DEF Finish
<1>3. CASE ~\E t \in Threads, status \in Statuses : Finish(a, t, status)
  <2>1. UNCHANGED measured
    BY <1>3 DEF AgentStep, MqttThread, HandlePrepare, HandleStartAt, HandleStop,
        HandleTeardown, FinishPrepare, WorkerThread, WakeUp, StartTraffic, Release, GoIdle,
        BootDone, Crash, Restart, Network, agentVars
  <2> QED BY <1>1, <2>1 DEF Promise!vars
<1> QED BY <1>2, <1>3

LEMMA StepImplements ==
    ASSUME TypeOK, CompleteIsMeasured, StartsAreStarted, PhaseMatches, [Next]_vars
    PROVE  [Promise!Next]_(Promise!vars)
<1>1. ASSUME NEW a \in Agents, AgentStep(a), UNCHANGED ctrlVars
      PROVE  [Promise!Next]_(Promise!vars)
  BY <1>1, AgentImplements
<1>2. ASSUME NEW r \in Runs, ControllerStep(r), UNCHANGED agentVars
      PROVE  [Promise!Next]_(Promise!vars)
  BY <1>2, ControllerImplements
<1>3. CASE UNCHANGED <<started, measured, phase, results>>
  BY <1>3, SamePromise
<1>4. ASSUME NEW m \in reports, Deliver(m), UNCHANGED agentVars
      PROVE  [Promise!Next]_(Promise!vars)
  BY <1>4, DeliverVerdict DEF Deliver, agentVars, Promise!vars
<1> QED BY <1>1, <1>2, <1>3, <1>4 DEF Next, Heartbeat, OnAgentHeartbeat, Broker,
        ControllerLinkLost, vars, agentVars, ctrlVars

(***************************************************************************)
(* The test bed keeps the promise of MeasurementRun: runs are launched     *)
(* once and only while undecided, stations measure for launched runs only, *)
(* and a verdict is final, "ok" only with every station's measurement.     *)
(***************************************************************************)
THEOREM Refinement == Spec => ImplementsPromise
<1>1. Init => PhaseMatches /\ CompleteIsMeasured /\ StartsAreStarted
  BY DEF Init, NetInit, AgentInit, CtrlInit, PhaseMatches, CompleteIsMeasured,
     StartsAreStarted, OnlyStarted, NoWorker
<1>2. Init => Promise!Init
  BY DEF Init, AgentInit, CtrlInit, Promise!Init, verdictBar, Ended
<1>3. TypeOK /\ PhaseMatches /\ [Next]_vars => PhaseMatches'
  BY PhaseStep
<1>4. TypeOK /\ CompleteIsMeasured /\ [Next]_vars => CompleteIsMeasured'
  BY EvidenceStep
<1>5. TypeOK /\ StartsAreStarted /\ [Next]_vars => StartsAreStarted'
  BY StartsStep
<1>6. TypeOK /\ CompleteIsMeasured /\ StartsAreStarted /\ PhaseMatches /\ [Next]_vars
          => [Promise!Next]_(Promise!vars)
  BY StepImplements
<1> QED BY <1>1, <1>2, <1>3, <1>4, <1>5, <1>6, TypeCorrect, PTL
        DEF Spec, ImplementsPromise, Promise!Spec

=============================================================================
