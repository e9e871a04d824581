--------------------------- MODULE BenchJobProofs ---------------------------
(* Theorems about BenchJob for any launches, runs, cells and log tolerance.*)
EXTENDS BenchJob, TLAPS

----------------------------------------------------------------------------
(* The inductive invariant, by subject.                                    *)

(* The kernel's lock: one holder, and none beside the diagnostic.          *)
LockInv ==
    /\ \A l, m \in Launches : HoldsLock(l) /\ HoldsLock(m) => l = m
    /\ diagnostic => \A l \in Launches : ~HoldsLock(l)

(* How far the processes of one launch can be apart.                       *)
StageInv ==
    \A l \in Launches :
        /\ client[l] = "idle" => wrapper[l] = "none"
        /\ wrapper[l] \in {"none", "forked"} => entry[l] = "none"
        /\ wrapper[l] = "writing" => entry[l] \in {"exited", "killed"}
        /\ entry[l] \in {"none", "lock", "owner", "initialize", "transform"}
             => child[l] = "none"
        /\ entry[l] = "publish"
             => child[l] \in {"publishing", "pushed", "published", "failed"}
        /\ entry[l] \in {"cleanup", "exiting", "exited"} => rc[l] # "none"
        /\ entry[l] = "killed" /\ wrapper[l] \in {"waiting", "writing"}
             => rc[l] # "none"

(* The hosts file and the result directory belong to the lock's holder.    *)
MeasureInv ==
    \A l \in Launches :
        /\ entry[l] = "execute" => hosts = runOf[l]
        /\ child[l] = "none" => done[l] = 0
        /\ child[l] = "running" => hosts = runOf[l] /\ results[runOf[l]] = done[l]
        /\ child[l] \in {"passed", "publishing", "pushed", "published"}
             => results[runOf[l]] = Cells

(* Everything that reports success speaks of a complete artifact.          *)
PublishInv ==
    /\ \A l \in Launches :
        \/ child[l] \in {"pushed", "published"}
        \/ rc[l] = "0" \/ seen[l] = "0" \/ client[l] = "complete"
        => artifact[runOf[l]] = Cells
    /\ \A r \in Runs :
        /\ status[r] = "0" \/ resultRef[r] => artifact[r] = Cells
        /\ fetched[r] \in {Absent, Cells}

IInv == TypeOK /\ LockInv /\ StageInv /\ MeasureInv /\ PublishInv /\ LiveOwnerNamed

----------------------------------------------------------------------------
(* Every step keeps the types.                                             *)
LEMMA TypeStep ==
    ASSUME IInv, [Next]_vars
    PROVE  TypeOK'
<1> USE DEF IInv, TypeOK, EntryStates, Holding, ChildStates, ChildAlive,
        Absent, Trapped, workstationVars, processVars, fileVars, hostVars,
        resultVars
<1>1. CASE UNCHANGED <<runOf, client, seen, fetched, wrapper, entry, rc,
      child, done, status, logAge, resultRef, pidFile, hosts, diagnostic,
      oomLogged, results, artifact>>
  BY <1>1
<1>2. ASSUME NEW l \in Launches, Launch(l) PROVE TypeOK'
  BY <1>2 DEF Launch
<1>3. ASSUME NEW l \in Launches, LaunchFails(l) PROVE TypeOK'
  BY <1>3 DEF LaunchFails
<1>4. ASSUME NEW l \in Launches, PollRead(l) PROVE TypeOK'
  BY <1>4
     DEF PollRead, Answer, LogSilent, Answers
<1>5. ASSUME NEW l \in Launches, PollDecide(l) PROVE TypeOK'
  BY <1>5 DEF PollDecide, Answers
<1>6. ASSUME NEW l \in Launches, PollFails(l) PROVE TypeOK'
  BY <1>6 DEF PollFails
<1>7. ASSUME NEW l \in Launches, TakeLock(l) PROVE TypeOK'
  BY <1>7 DEF TakeLock, EntryGoes
<1>8. ASSUME NEW l \in Launches, Busy(l) PROVE TypeOK'
  BY <1>8, StaleAssumption DEF Busy, EntryGoes, Print2Log
<1>9. ASSUME NEW l \in Launches, WriteOwner(l) PROVE TypeOK'
  BY <1>9, StaleAssumption DEF WriteOwner, EntryGoes, Print2Log
<1>10. ASSUME NEW l \in Launches, Initialize(l) PROVE TypeOK'
  BY <1>10, StaleAssumption
     DEF Initialize, EntryGoes, EntryFails, Print2Log
<1>11. ASSUME NEW l \in Launches, Transform(l) PROVE TypeOK'
  BY <1>11, StaleAssumption
     DEF Transform, EntryGoes, EntryFails, Print2Log
<1>12. ASSUME NEW l \in Launches, AfterRunner(l) PROVE TypeOK'
  BY <1>12, StaleAssumption
     DEF AfterRunner, EntryGoes, ChildGoes, EntryFails, Print2Log
<1>13. ASSUME NEW l \in Launches, AfterPublish(l) PROVE TypeOK'
  BY <1>13 DEF AfterPublish, EntryGoes, EntryFails
<1>14. ASSUME NEW l \in Launches, Push(l) PROVE TypeOK'
  BY <1>14, StaleAssumption
     DEF Push, ChildGoes, Print2Log
<1>15. ASSUME NEW l \in Launches, PrintReference(l) PROVE TypeOK'
  BY <1>15, StaleAssumption DEF PrintReference, ChildGoes, Print2Log
<1>16. ASSUME NEW l \in Launches, Cleanup(l) PROVE TypeOK'
  BY <1>16 DEF Cleanup, EntryGoes
<1>17. ASSUME NEW l \in Launches, ExitEntry(l) PROVE TypeOK'
  BY <1>17 DEF ExitEntry, EntryGoes
<1>18. ASSUME NEW l \in Launches, StartRunner(l) PROVE TypeOK'
  BY <1>18, StaleAssumption DEF StartRunner, ChildGoes, Print2Log
<1>19. ASSUME NEW l \in Launches, RefuseRun(l) PROVE TypeOK'
  BY <1>19, StaleAssumption DEF RefuseRun, ChildGoes, Print2Log
<1>20. ASSUME NEW l \in Launches, RunCell(l) PROVE TypeOK'
  BY <1>20, CellsAssumption, StaleAssumption DEF RunCell, Print2Log
<1>21. ASSUME NEW l \in Launches, FailCell(l) PROVE TypeOK'
  BY <1>21, StaleAssumption DEF FailCell, ChildGoes, Print2Log
<1>22. ASSUME NEW l \in Launches, CompleteRun(l) PROVE TypeOK'
  BY <1>22, StaleAssumption DEF CompleteRun, ChildGoes, Print2Log
<1>23. ASSUME NEW l \in Launches, StartEntry(l) PROVE TypeOK'
  BY <1>23, StaleAssumption DEF StartEntry, EntryGoes, Print2Log
<1>24. ASSUME NEW l \in Launches, TruncateStatus(l) PROVE TypeOK'
  BY <1>24 DEF TruncateStatus
<1>25. ASSUME NEW l \in Launches, WriteStatus(l) PROVE TypeOK'
  BY <1>25 DEF WriteStatus, StageInv
<1>26. ASSUME NEW l \in Launches, OomKillsK6(l) PROVE TypeOK'
  BY <1>26 DEF OomKillsK6, ChildGoes
<1>27. ASSUME NEW l \in Launches, KillEntry(l) PROVE TypeOK'
  BY <1>27 DEF KillEntry, EntryGoes
<1>28. ASSUME NEW l \in Launches, KillWrapper(l) PROVE TypeOK'
  BY <1>28 DEF KillWrapper
<1>29. ASSUME NEW r \in Runs, Fetch(r) PROVE TypeOK'
  BY <1>29 DEF Fetch
<1>30. CASE Reboot
  <2>1. wrapper' \in [Launches -> {"none", "forked", "waiting", "writing", "finished", "killed"}]
    BY <1>30 DEF Reboot, Live
  <2>2. entry' \in [Launches -> EntryStates]
    BY <1>30 DEF Reboot, Live
  <2>3. child' \in [Launches -> ChildStates]
    BY <1>30 DEF Reboot
  <2>4. status' \in [Runs -> {"absent", "empty", "RUNNING", "0", "nonzero"}]
    BY <1>30 DEF Reboot
  <2>5. logAge' \in [Runs -> (0 .. StaleAfter + 1) \cup {Absent}]
    BY <1>30 DEF Reboot
  <2>6. resultRef' \in [Runs -> BOOLEAN]
    <3>1. resultRef' = resultRef \/ resultRef' = [r \in Runs |-> FALSE]
      BY <1>30 DEF Reboot
    <3>2. resultRef \in [Runs -> BOOLEAN]
      OBVIOUS
    <3>3. [r \in Runs |-> FALSE] \in [Runs -> BOOLEAN]
      OBVIOUS
    <3>4. QED
      BY <3>1, <3>2, <3>3, Zenon
  <2>7. QED
    BY <1>30, <2>1, <2>2, <2>3, <2>4, <2>5, <2>6 DEF Reboot
<1>31. CASE StartDiagnostic
  BY <1>31 DEF StartDiagnostic
<1>32. CASE EndDiagnostic
  BY <1>32 DEF EndDiagnostic
<1>33. CASE Tick
  BY <1>33, StaleAssumption DEF Tick
<1>34. QED
  BY <1>1, <1>2, <1>3, <1>4, <1>5, <1>6, <1>7, <1>8, <1>9, <1>10, <1>11,
     <1>12, <1>13, <1>14, <1>15, <1>16, <1>17, <1>18, <1>19, <1>20, <1>21,
     <1>22, <1>23, <1>24, <1>25, <1>26, <1>27, <1>28, <1>29, <1>30, <1>31,
     <1>32, <1>33
     DEF Next, vars, Workstation, Entry, Runner, Publisher, Wrapper, Killed

(* Only TakeLock and StartDiagnostic acquire, and only a free lock; the    *)
(* runner starts under the lock of its entry.                              *)
LEMMA LockStep ==
    ASSUME IInv, [Next]_vars
    PROVE  LockInv'
<1> USE DEF IInv, TypeOK, LockInv, HoldsLock, LockFree, EntryStates, Holding,
        ChildStates, ChildAlive, workstationVars, processVars, fileVars,
        hostVars, resultVars
<1>1. CASE UNCHANGED <<entry, child, diagnostic>>
  BY <1>1
<1>2. ASSUME NEW l \in Launches, TakeLock(l) PROVE LockInv'
  BY <1>2 DEF TakeLock, EntryGoes
<1>3. ASSUME NEW l \in Launches, Busy(l) PROVE LockInv'
  BY <1>3 DEF Busy, EntryGoes
<1>4. ASSUME NEW l \in Launches, WriteOwner(l) PROVE LockInv'
  BY <1>4 DEF WriteOwner, EntryGoes
<1>5. ASSUME NEW l \in Launches, Initialize(l) PROVE LockInv'
  BY <1>5 DEF Initialize, EntryGoes, EntryFails
<1>6. ASSUME NEW l \in Launches, Transform(l) PROVE LockInv'
  BY <1>6 DEF Transform, EntryGoes, EntryFails
<1>7. ASSUME NEW l \in Launches, AfterRunner(l) PROVE LockInv'
  BY <1>7 DEF AfterRunner, EntryGoes, ChildGoes, EntryFails
<1>8. ASSUME NEW l \in Launches, AfterPublish(l) PROVE LockInv'
  BY <1>8 DEF AfterPublish, EntryGoes, EntryFails
<1>9. ASSUME NEW l \in Launches, Push(l) PROVE LockInv'
  BY <1>9 DEF Push, ChildGoes
<1>10. ASSUME NEW l \in Launches, PrintReference(l) PROVE LockInv'
  BY <1>10 DEF PrintReference, ChildGoes
<1>11. ASSUME NEW l \in Launches, Cleanup(l) PROVE LockInv'
  BY <1>11 DEF Cleanup, EntryGoes
<1>12. ASSUME NEW l \in Launches, ExitEntry(l) PROVE LockInv'
  BY <1>12 DEF ExitEntry, EntryGoes
<1>13. ASSUME NEW l \in Launches, StartRunner(l) PROVE LockInv'
  BY <1>13 DEF StartRunner, ChildGoes
<1>14. ASSUME NEW l \in Launches, RefuseRun(l) PROVE LockInv'
  BY <1>14 DEF RefuseRun, ChildGoes
<1>15. ASSUME NEW l \in Launches, FailCell(l) PROVE LockInv'
  BY <1>15 DEF FailCell, ChildGoes
<1>16. ASSUME NEW l \in Launches, CompleteRun(l) PROVE LockInv'
  BY <1>16 DEF CompleteRun, ChildGoes
<1>17. ASSUME NEW l \in Launches, StartEntry(l) PROVE LockInv'
  BY <1>17 DEF StartEntry, EntryGoes
<1>18. ASSUME NEW l \in Launches, OomKillsK6(l) PROVE LockInv'
  BY <1>18 DEF OomKillsK6, ChildGoes
<1>19. ASSUME NEW l \in Launches, KillEntry(l) PROVE LockInv'
  BY <1>19 DEF KillEntry, EntryGoes
<1>20. CASE Reboot
  BY <1>20 DEF Reboot, Live
<1>21. CASE StartDiagnostic
  BY <1>21 DEF StartDiagnostic
<1>22. CASE EndDiagnostic
  BY <1>22 DEF EndDiagnostic
<1>23. QED
  BY <1>1, <1>2, <1>3, <1>4, <1>5, <1>6, <1>7, <1>8, <1>9, <1>10, <1>11,
     <1>12, <1>13, <1>14, <1>15, <1>16, <1>17, <1>18, <1>19, <1>20, <1>21,
     <1>22
     DEF Next, vars, Workstation, Entry, Runner, Publisher, Wrapper, Killed, Launch,
         LaunchFails, PollRead, PollDecide, PollFails, RunCell,
         TruncateStatus, WriteStatus, KillWrapper, Fetch, Tick

(* The processes of a launch keep in step.                                 *)
LEMMA StageStep ==
    ASSUME IInv, [Next]_vars
    PROVE  StageInv'
<1> USE DEF IInv, TypeOK, StageInv, EntryStates, Holding, ChildStates,
        ChildAlive, workstationVars, processVars, fileVars, hostVars,
        resultVars
<1>1. CASE UNCHANGED <<client, wrapper, entry, child, rc>>
  BY <1>1
<1>2. ASSUME NEW l \in Launches, Launch(l) PROVE StageInv'
  BY <1>2 DEF Launch
<1>3. ASSUME NEW l \in Launches, LaunchFails(l) PROVE StageInv'
  BY <1>3 DEF LaunchFails
<1>4. ASSUME NEW l \in Launches, PollRead(l) PROVE StageInv'
  BY <1>4 DEF PollRead
<1>5. ASSUME NEW l \in Launches, PollDecide(l) PROVE StageInv'
  BY <1>5 DEF PollDecide
<1>6. ASSUME NEW l \in Launches, PollFails(l) PROVE StageInv'
  BY <1>6 DEF PollFails
<1>7. ASSUME NEW l \in Launches, TakeLock(l) PROVE StageInv'
  BY <1>7 DEF TakeLock, EntryGoes
<1>8. ASSUME NEW l \in Launches, Busy(l) PROVE StageInv'
  BY <1>8 DEF Busy, EntryGoes
<1>9. ASSUME NEW l \in Launches, WriteOwner(l) PROVE StageInv'
  BY <1>9 DEF WriteOwner, EntryGoes
<1>10. ASSUME NEW l \in Launches, Initialize(l) PROVE StageInv'
  BY <1>10 DEF Initialize, EntryGoes, EntryFails
<1>11. ASSUME NEW l \in Launches, Transform(l) PROVE StageInv'
  BY <1>11 DEF Transform, EntryGoes, EntryFails
<1>12. ASSUME NEW l \in Launches, AfterRunner(l) PROVE StageInv'
  BY <1>12 DEF AfterRunner, EntryGoes, ChildGoes, EntryFails
<1>13. ASSUME NEW l \in Launches, AfterPublish(l) PROVE StageInv'
  BY <1>13 DEF AfterPublish, EntryGoes, EntryFails
<1>14. ASSUME NEW l \in Launches, Push(l) PROVE StageInv'
  BY <1>14 DEF Push, ChildGoes
<1>15. ASSUME NEW l \in Launches, PrintReference(l) PROVE StageInv'
  BY <1>15 DEF PrintReference, ChildGoes
<1>16. ASSUME NEW l \in Launches, Cleanup(l) PROVE StageInv'
  BY <1>16 DEF Cleanup, EntryGoes
<1>17. ASSUME NEW l \in Launches, ExitEntry(l) PROVE StageInv'
  BY <1>17 DEF ExitEntry, EntryGoes
<1>18. ASSUME NEW l \in Launches, StartRunner(l) PROVE StageInv'
  BY <1>18 DEF StartRunner, ChildGoes
<1>19. ASSUME NEW l \in Launches, RefuseRun(l) PROVE StageInv'
  BY <1>19 DEF RefuseRun, ChildGoes
<1>20. ASSUME NEW l \in Launches, FailCell(l) PROVE StageInv'
  BY <1>20 DEF FailCell, ChildGoes
<1>21. ASSUME NEW l \in Launches, CompleteRun(l) PROVE StageInv'
  BY <1>21 DEF CompleteRun, ChildGoes
<1>22. ASSUME NEW l \in Launches, StartEntry(l) PROVE StageInv'
  BY <1>22 DEF StartEntry, EntryGoes
<1>23. ASSUME NEW l \in Launches, TruncateStatus(l) PROVE StageInv'
  BY <1>23 DEF TruncateStatus
<1>24. ASSUME NEW l \in Launches, WriteStatus(l) PROVE StageInv'
  BY <1>24 DEF WriteStatus
<1>25. ASSUME NEW l \in Launches, OomKillsK6(l) PROVE StageInv'
  BY <1>25 DEF OomKillsK6, ChildGoes
<1>26. ASSUME NEW l \in Launches, KillEntry(l) PROVE StageInv'
  BY <1>26 DEF KillEntry, EntryGoes
<1>27. ASSUME NEW l \in Launches, KillWrapper(l) PROVE StageInv'
  BY <1>27 DEF KillWrapper
<1>28. CASE Reboot
  BY <1>28 DEF Reboot, Live
<1>29. QED
  BY <1>1, <1>2, <1>3, <1>4, <1>5, <1>6, <1>7, <1>8, <1>9, <1>10, <1>11,
     <1>12, <1>13, <1>14, <1>15, <1>16, <1>17, <1>18, <1>19, <1>20, <1>21,
     <1>22, <1>23, <1>24, <1>25, <1>26, <1>27, <1>28
     DEF Next, vars, Workstation, Entry, Runner, Publisher, Wrapper, Killed, RunCell,
         Fetch, StartDiagnostic, EndDiagnostic, Tick

(* Whoever changes the hosts file or a result directory holds the lock, so *)
(* it is the launch that measures.                                         *)
LEMMA MeasureStep ==
    ASSUME IInv, [Next]_vars
    PROVE  MeasureInv'
<1> USE DEF IInv, TypeOK, LockInv, StageInv, MeasureInv, HoldsLock,
        EntryStates, Holding, ChildStates, ChildAlive, Absent,
        workstationVars, processVars, fileVars, hostVars, resultVars
<1>1. CASE UNCHANGED <<runOf, entry, child, done, hosts, results>>
  BY <1>1
<1>2. ASSUME NEW l \in Launches, TakeLock(l) PROVE MeasureInv'
  BY <1>2 DEF TakeLock, EntryGoes
<1>3. ASSUME NEW l \in Launches, Busy(l) PROVE MeasureInv'
  BY <1>3 DEF Busy, EntryGoes
<1>4. ASSUME NEW l \in Launches, WriteOwner(l) PROVE MeasureInv'
  BY <1>4 DEF WriteOwner, EntryGoes
<1>5. ASSUME NEW l \in Launches, Initialize(l) PROVE MeasureInv'
  BY <1>5 DEF Initialize, EntryGoes, EntryFails
<1>6. ASSUME NEW l \in Launches, Transform(l) PROVE MeasureInv'
  BY <1>6 DEF Transform, EntryGoes, EntryFails
<1>7. ASSUME NEW l \in Launches, AfterRunner(l) PROVE MeasureInv'
  BY <1>7 DEF AfterRunner, EntryGoes, ChildGoes, EntryFails
<1>8. ASSUME NEW l \in Launches, AfterPublish(l) PROVE MeasureInv'
  BY <1>8 DEF AfterPublish, EntryGoes, EntryFails
<1>9. ASSUME NEW l \in Launches, Push(l) PROVE MeasureInv'
  BY <1>9 DEF Push, ChildGoes
<1>10. ASSUME NEW l \in Launches, PrintReference(l) PROVE MeasureInv'
  BY <1>10 DEF PrintReference, ChildGoes
<1>11. ASSUME NEW l \in Launches, Cleanup(l) PROVE MeasureInv'
  BY <1>11 DEF Cleanup, EntryGoes
<1>12. ASSUME NEW l \in Launches, ExitEntry(l) PROVE MeasureInv'
  BY <1>12 DEF ExitEntry, EntryGoes
<1>13. ASSUME NEW l \in Launches, StartRunner(l) PROVE MeasureInv'
  BY <1>13 DEF StartRunner, ChildGoes
<1>14. ASSUME NEW l \in Launches, RefuseRun(l) PROVE MeasureInv'
  BY <1>14 DEF RefuseRun, ChildGoes
<1>15. ASSUME NEW l \in Launches, RunCell(l) PROVE MeasureInv'
  BY <1>15 DEF RunCell
<1>16. ASSUME NEW l \in Launches, FailCell(l) PROVE MeasureInv'
  BY <1>16 DEF FailCell, ChildGoes
<1>17. ASSUME NEW l \in Launches, CompleteRun(l) PROVE MeasureInv'
  BY <1>17 DEF CompleteRun, ChildGoes
<1>18. ASSUME NEW l \in Launches, StartEntry(l) PROVE MeasureInv'
  BY <1>18 DEF StartEntry, EntryGoes
<1>19. ASSUME NEW l \in Launches, OomKillsK6(l) PROVE MeasureInv'
  BY <1>19 DEF OomKillsK6, ChildGoes
<1>20. ASSUME NEW l \in Launches, KillEntry(l) PROVE MeasureInv'
  BY <1>20 DEF KillEntry, EntryGoes
<1>21. CASE Reboot
  BY <1>21 DEF Reboot, Live
<1>22. QED
  BY <1>1, <1>2, <1>3, <1>4, <1>5, <1>6, <1>7, <1>8, <1>9, <1>10, <1>11,
     <1>12, <1>13, <1>14, <1>15, <1>16, <1>17, <1>18, <1>19, <1>20, <1>21
     DEF Next, vars, Workstation, Entry, Runner, Publisher, Wrapper, Killed, Launch,
         LaunchFails, PollRead, PollDecide, PollFails, TruncateStatus,
         WriteStatus, KillWrapper, Fetch, StartDiagnostic, EndDiagnostic,
         Tick

(* An artifact is pushed after the runner passed; every report of success  *)
(* is copied from an earlier one.                                          *)
LEMMA PublishStep ==
    ASSUME IInv, [Next]_vars
    PROVE  PublishInv'
<1> USE DEF IInv, TypeOK, StageInv, ChildStates, ChildAlive, MeasureInv,
        PublishInv, Answers, workstationVars, processVars, fileVars, hostVars,
        resultVars
<1>1. CASE UNCHANGED <<runOf, client, seen, child, rc, status, resultRef,
      fetched, artifact>>
  BY <1>1
<1>2. ASSUME NEW l \in Launches, Launch(l) PROVE PublishInv'
  BY <1>2 DEF Launch
<1>3. ASSUME NEW l \in Launches, LaunchFails(l) PROVE PublishInv'
  BY <1>3 DEF LaunchFails
<1>4. ASSUME NEW l \in Launches, PollRead(l) PROVE PublishInv'
  BY <1>4 DEF PollRead, Answer
<1>5. ASSUME NEW l \in Launches, PollDecide(l) PROVE PublishInv'
  BY <1>5 DEF PollDecide
<1>6. ASSUME NEW l \in Launches, PollFails(l) PROVE PublishInv'
  BY <1>6 DEF PollFails
<1>7. ASSUME NEW l \in Launches, TakeLock(l) PROVE PublishInv'
  BY <1>7 DEF TakeLock, EntryGoes
<1>8. ASSUME NEW l \in Launches, Busy(l) PROVE PublishInv'
  BY <1>8 DEF Busy, EntryGoes
<1>9. ASSUME NEW l \in Launches, WriteOwner(l) PROVE PublishInv'
  BY <1>9 DEF WriteOwner, EntryGoes
<1>10. ASSUME NEW l \in Launches, Initialize(l) PROVE PublishInv'
  BY <1>10 DEF Initialize, EntryGoes, EntryFails
<1>11. ASSUME NEW l \in Launches, Transform(l) PROVE PublishInv'
  BY <1>11 DEF Transform, EntryGoes, EntryFails
<1>12. ASSUME NEW l \in Launches, AfterRunner(l) PROVE PublishInv'
  BY <1>12 DEF AfterRunner, EntryGoes, ChildGoes, EntryFails
<1>13. ASSUME NEW l \in Launches, AfterPublish(l) PROVE PublishInv'
  BY <1>13 DEF AfterPublish, EntryGoes, EntryFails
<1>14. ASSUME NEW l \in Launches, Push(l) PROVE PublishInv'
  BY <1>14 DEF Push, ChildGoes
<1>15. ASSUME NEW l \in Launches, PrintReference(l) PROVE PublishInv'
  BY <1>15 DEF PrintReference, ChildGoes
<1>16. ASSUME NEW l \in Launches, Cleanup(l) PROVE PublishInv'
  BY <1>16 DEF Cleanup, EntryGoes
<1>17. ASSUME NEW l \in Launches, ExitEntry(l) PROVE PublishInv'
  BY <1>17 DEF ExitEntry, EntryGoes
<1>18. ASSUME NEW l \in Launches, StartEntry(l) PROVE PublishInv'
  BY <1>18 DEF StartEntry, EntryGoes
<1>19. ASSUME NEW l \in Launches, TruncateStatus(l) PROVE PublishInv'
  BY <1>19 DEF TruncateStatus
<1>20. ASSUME NEW l \in Launches, WriteStatus(l) PROVE PublishInv'
  BY <1>20 DEF WriteStatus
<1>21. ASSUME NEW l \in Launches, KillEntry(l) PROVE PublishInv'
  BY <1>21 DEF KillEntry, EntryGoes
<1>22. ASSUME NEW r \in Runs, Fetch(r) PROVE PublishInv'
  BY <1>22 DEF Fetch
<1>23. CASE Reboot
  BY <1>23 DEF Reboot, Live
<1>24. ASSUME NEW l \in Launches, StartRunner(l) PROVE PublishInv'
  BY <1>24 DEF StartRunner, ChildGoes
<1>25. ASSUME NEW l \in Launches, RefuseRun(l) PROVE PublishInv'
  BY <1>25 DEF RefuseRun, ChildGoes
<1>26. ASSUME NEW l \in Launches, FailCell(l) PROVE PublishInv'
  BY <1>26 DEF FailCell, ChildGoes
<1>27. ASSUME NEW l \in Launches, CompleteRun(l) PROVE PublishInv'
  BY <1>27 DEF CompleteRun, ChildGoes
<1>28. ASSUME NEW l \in Launches, OomKillsK6(l) PROVE PublishInv'
  BY <1>28 DEF OomKillsK6, ChildGoes
<1>29. QED
  BY <1>1, <1>2, <1>3, <1>4, <1>5, <1>6, <1>7, <1>8, <1>9, <1>10, <1>11,
     <1>12, <1>13, <1>14, <1>15, <1>16, <1>17, <1>18, <1>19, <1>20, <1>21,
     <1>22, <1>23, <1>24, <1>25, <1>26, <1>27, <1>28
     DEF Next, vars, Workstation, Entry, Runner, Publisher, Wrapper, Killed,
         RunCell, KillWrapper, StartDiagnostic, EndDiagnostic, Tick

(* The pid file is written and removed by the lock's holder only.          *)
LEMMA OwnerStep ==
    ASSUME IInv, [Next]_vars
    PROVE  LiveOwnerNamed'
<1> USE DEF IInv, TypeOK, LockInv, LiveOwnerNamed, HoldsLock, EntryStates,
        Holding, ChildStates, ChildAlive, Trapped, workstationVars,
        processVars, fileVars, hostVars, resultVars
<1>1. CASE UNCHANGED <<entry, pidFile>>
  BY <1>1
<1>2. ASSUME NEW l \in Launches, TakeLock(l) PROVE LiveOwnerNamed'
  BY <1>2 DEF TakeLock, EntryGoes
<1>3. ASSUME NEW l \in Launches, Busy(l) PROVE LiveOwnerNamed'
  BY <1>3 DEF Busy, EntryGoes
<1>4. ASSUME NEW l \in Launches, WriteOwner(l) PROVE LiveOwnerNamed'
  BY <1>4 DEF WriteOwner, EntryGoes
<1>5. ASSUME NEW l \in Launches, Initialize(l) PROVE LiveOwnerNamed'
  BY <1>5 DEF Initialize, EntryGoes, EntryFails
<1>6. ASSUME NEW l \in Launches, Transform(l) PROVE LiveOwnerNamed'
  BY <1>6 DEF Transform, EntryGoes, EntryFails
<1>7. ASSUME NEW l \in Launches, AfterRunner(l) PROVE LiveOwnerNamed'
  BY <1>7 DEF AfterRunner, EntryGoes, ChildGoes, EntryFails
<1>8. ASSUME NEW l \in Launches, AfterPublish(l) PROVE LiveOwnerNamed'
  BY <1>8 DEF AfterPublish, EntryGoes, EntryFails
<1>9. ASSUME NEW l \in Launches, Push(l) PROVE LiveOwnerNamed'
  BY <1>9 DEF Push, ChildGoes
<1>10. ASSUME NEW l \in Launches, PrintReference(l) PROVE LiveOwnerNamed'
  BY <1>10 DEF PrintReference, ChildGoes
<1>11. ASSUME NEW l \in Launches, Cleanup(l) PROVE LiveOwnerNamed'
  BY <1>11 DEF Cleanup, EntryGoes
<1>12. ASSUME NEW l \in Launches, ExitEntry(l) PROVE LiveOwnerNamed'
  BY <1>12 DEF ExitEntry, EntryGoes
<1>13. ASSUME NEW l \in Launches, StartEntry(l) PROVE LiveOwnerNamed'
  BY <1>13 DEF StartEntry, EntryGoes
<1>14. ASSUME NEW l \in Launches, KillEntry(l) PROVE LiveOwnerNamed'
  BY <1>14 DEF KillEntry, EntryGoes
<1>15. CASE Reboot
  BY <1>15 DEF Reboot, Live
<1>16. QED
  BY <1>1, <1>2, <1>3, <1>4, <1>5, <1>6, <1>7, <1>8, <1>9, <1>10, <1>11,
     <1>12, <1>13, <1>14, <1>15
     DEF Next, vars, Workstation, Entry, Runner, Publisher, Wrapper, Killed, Launch,
         LaunchFails, PollRead, PollDecide, PollFails, StartRunner,
         RefuseRun, RunCell, FailCell, CompleteRun, TruncateStatus,
         WriteStatus, OomKillsK6, KillWrapper, Fetch, StartDiagnostic,
         EndDiagnostic, Tick

----------------------------------------------------------------------------
LEMMA InitIInv == Init => IInv
<1> SUFFICES ASSUME Init PROVE IInv
  OBVIOUS
<1> USE DEF Init
<1>1. TypeOK
  <2>1. /\ client \in [Launches -> {"idle", "polling", "deciding", "complete", "failed", "gone"}]
        /\ seen \in [Launches -> Answers]
        /\ wrapper \in [Launches -> {"none", "forked", "waiting", "writing", "finished", "killed"}]
        /\ entry \in [Launches -> EntryStates]
    BY DEF Answers, EntryStates
  <2>2. /\ rc \in [Launches -> {"none", "0", "nonzero"}]
        /\ child \in [Launches -> ChildStates]
        /\ done \in [Launches -> 0 .. Cells]
    BY CellsAssumption DEF ChildStates
  <2>3. /\ status \in [Runs -> {"absent", "empty", "RUNNING", "0", "nonzero"}]
        /\ logAge \in [Runs -> (0 .. StaleAfter + 1) \cup {Absent}]
        /\ resultRef \in [Runs -> BOOLEAN]
    BY DEF Absent
  <2>4. fetched \in [Runs -> Nat \cup {Absent}] /\ results \in [Runs -> Nat \cup {Absent}]
        /\ artifact \in [Runs -> Nat \cup {Absent}]
    BY DEF Absent
  <2>5. QED
    BY <2>1, <2>2, <2>3, <2>4 DEF TypeOK
<1>2. LockInv
  BY DEF LockInv, HoldsLock, Holding, ChildAlive
<1>3. StageInv
  BY DEF StageInv
<1>4. MeasureInv
  BY DEF MeasureInv
<1>5. PublishInv
  BY DEF PublishInv
<1>6. LiveOwnerNamed
  BY DEF LiveOwnerNamed, Trapped, Holding
<1>7. QED
  BY <1>1, <1>2, <1>3, <1>4, <1>5, <1>6 DEF IInv

(* The invariant of BenchJob for any number of launches, runs and cells.   *)
THEOREM Invariance == Spec => []IInv
<1>1. Init => IInv
  BY InitIInv
<1>2. IInv /\ [Next]_vars => IInv'
  BY TypeStep, LockStep, StageStep, MeasureStep, PublishStep, OwnerStep DEF IInv
<1>3. QED
  BY <1>1, <1>2, PTL DEF Spec

(* Every variable keeps its type.                                          *)
THEOREM TypeCorrect == Spec => []TypeOK
<1>1. IInv => TypeOK
  BY DEF IInv
<1>2. QED
  BY <1>1, Invariance, PTL

(* Load is generated by one launch at a time, against the target that its  *)
(* preflight probed: flock -n on an inherited descriptor is enough even    *)
(* when the entry is killed under its runner.                              *)
THEOREM MeasurementsExclude == Spec => []ExclusiveMeasurement
<1>1. IInv => ExclusiveMeasurement
  BY DEF IInv, LockInv, MeasureInv, ExclusiveMeasurement, HoldsLock, ChildAlive
<1>2. QED
  BY <1>1, Invariance, PTL

(* Completion is reported, and results are fetched, only of a run whose    *)
(* whole plan is in the registry.                                          *)
THEOREM CompleteIsPublished == Spec => []CompleteMeansPublished
<1>1. IInv => CompleteMeansPublished
  BY DEF IInv, PublishInv, CompleteMeansPublished
<1>2. QED
  BY <1>1, Invariance, PTL

(* A busy client names the entry that keeps it busy.                       *)
THEOREM OwnerIsNamed == Spec => []LiveOwnerNamed
<1>1. IInv => LiveOwnerNamed
  BY DEF IInv
<1>2. QED
  BY <1>1, Invariance, PTL

----------------------------------------------------------------------------
(* BenchJob implements BenchOutcome.                                       *)

(* A step that leaves the registry and the workstation's view alone is a   *)
(* stutter of BenchOutcome.                                                *)
LEMMA QuietStep ==
    ASSUME UNCHANGED <<runOf, client, artifact>>
    PROVE  UNCHANGED Outcome!vars
  BY DEF Outcome!vars, Verdict

(* A launch that gets its final verdict makes one step of BenchOutcome.    *)
LEMMA VerdictStep ==
    ASSUME TypeOK, NEW l \in Launches, NEW c \in {"complete", "failed", "gone"},
           client[l] \in {"idle", "polling", "deciding"},
           client' = [client EXCEPT ![l] = c],
           c = "complete" => artifact[runOf[l]] = Cells,
           UNCHANGED <<runOf, artifact>>
    PROVE  Outcome!ReportComplete(l) \/ Outcome!GiveUp(l)
<1>1. Verdict(l) = "none"
  BY DEF Verdict
<1>2. Verdict(l)' = IF c = "complete" THEN "complete" ELSE "gave up"
  BY DEF Verdict, TypeOK
<1>3. \A m \in Launches \ {l} : Verdict(m)' = Verdict(m)
  BY DEF Verdict, TypeOK
<1>4. [m \in Launches |-> Verdict(m)]' =
        [[m \in Launches |-> Verdict(m)] EXCEPT ![l] = Verdict(l)']
  BY <1>3
<1>5. [r \in Runs |-> artifact[r] = Cells]' = [r \in Runs |-> artifact[r] = Cells]
  OBVIOUS
<1>6. CASE c = "complete"
  <2>1. [r \in Runs |-> artifact[r] = Cells][runOf[l]]
    BY <1>6 DEF TypeOK
  <2>2. Outcome!ReportComplete(l)
    BY <1>1, <1>2, <1>4, <1>5, <1>6, <2>1 DEF Outcome!ReportComplete
  <2>3. QED
    BY <2>2
<1>7. CASE c # "complete"
  BY <1>1, <1>2, <1>4, <1>5, <1>7 DEF Outcome!GiveUp
<1>8. QED
  BY <1>6, <1>7

(* A push makes the run published, or repeats what was published.          *)
LEMMA PushStep ==
    ASSUME IInv, NEW l \in Launches, Push(l), NEW r \in Runs, r = runOf[l]
    PROVE  [Outcome!Publish(r)]_Outcome!vars
<1> DEFINE pub == [x \in Runs |-> artifact[x] = Cells]
<1>1. UNCHANGED <<runOf, client>>
  BY DEF Push, workstationVars
<1>2. [m \in Launches |-> Verdict(m)]' = [m \in Launches |-> Verdict(m)]
  BY <1>1 DEF Verdict
<1>3. \/ UNCHANGED artifact
      \/ artifact' = [artifact EXCEPT ![r] = Cells]
  BY DEF IInv, StageInv, MeasureInv, Push
<1>4. CASE UNCHANGED artifact
  BY <1>1, <1>4, QuietStep
<1>5. CASE artifact' = [artifact EXCEPT ![r] = Cells]
  <2>1. \A x \in Runs : artifact'[x] = IF x = r THEN Cells ELSE artifact[x]
    BY <1>5 DEF IInv, TypeOK
  <2>2. CASE artifact[r] = Cells
    <3>1. pub' = pub
      BY <2>1, <2>2
    <3>2. QED
      BY <1>1, <1>2, <3>1 DEF Outcome!vars
  <2>3. CASE artifact[r] # Cells
    <3>1. ~pub[r]
      BY <2>3
    <3>2. pub' = [pub EXCEPT ![r] = TRUE]
      BY <2>1
    <3>3. QED
      BY <1>1, <1>2, <3>1, <3>2 DEF Outcome!Publish
  <2>4. QED
    BY <2>2, <2>3
<1>6. QED
  BY <1>3, <1>4, <1>5

LEMMA OutcomeStep ==
    ASSUME IInv, [Next]_vars
    PROVE  [Outcome!Next]_Outcome!vars
<1> USE DEF Outcome!Next
<1>1. CASE UNCHANGED <<runOf, client, artifact>>
  BY <1>1, QuietStep
<1>2. ASSUME NEW l \in Launches, Launch(l) \/ LaunchFails(l) \/ PollFails(l)
      PROVE  [Outcome!Next]_Outcome!vars
  <2>1. /\ client[l] \in {"idle", "polling"}
        /\ UNCHANGED <<runOf, artifact>>
        /\ \/ client' = [client EXCEPT ![l] = "polling"] /\ client[l] = "idle"
           \/ client' = [client EXCEPT ![l] = "gone"]
    BY <1>2 DEF Launch, LaunchFails, PollFails, resultVars
  <2>2. CASE client' = [client EXCEPT ![l] = "gone"]
    BY <2>1, <2>2, VerdictStep DEF IInv
  <2>3. CASE client' = [client EXCEPT ![l] = "polling"] /\ client[l] = "idle"
    <3>1. [m \in Launches |-> Verdict(m)]' = [m \in Launches |-> Verdict(m)]
      BY <2>3 DEF Verdict, IInv, TypeOK
    <3>2. QED
      BY <2>1, <3>1 DEF Outcome!vars
  <2>4. QED
    BY <2>1, <2>2, <2>3
<1>3. ASSUME NEW l \in Launches, PollRead(l)
      PROVE  [Outcome!Next]_Outcome!vars
  <2>1. [m \in Launches |-> Verdict(m)]' = [m \in Launches |-> Verdict(m)]
    BY <1>3 DEF Verdict, IInv, TypeOK, PollRead
  <2>2. QED
    BY <1>3, <2>1 DEF Outcome!vars, PollRead, resultVars
<1>4. ASSUME NEW l \in Launches, PollDecide(l)
      PROVE  [Outcome!Next]_Outcome!vars
  <2>1. UNCHANGED <<runOf, artifact>> /\ client[l] = "deciding"
    BY <1>4 DEF PollDecide, resultVars
  <2>2. CASE client' = [client EXCEPT ![l] = "polling"]
    <3>1. [m \in Launches |-> Verdict(m)]' = [m \in Launches |-> Verdict(m)]
      BY <2>1, <2>2 DEF Verdict, IInv, TypeOK
    <3>2. QED
      BY <2>1, <3>1 DEF Outcome!vars
  <2>3. CASE client' = [client EXCEPT ![l] = "failed"]
    BY <2>1, <2>3, VerdictStep DEF IInv
  <2>4. CASE client' = [client EXCEPT ![l] = "complete"] /\ seen[l] = "0"
    BY <2>1, <2>4, VerdictStep DEF IInv, PublishInv
  <2>5. QED
    BY <1>4, <2>2, <2>3, <2>4 DEF PollDecide
<1>5. ASSUME NEW l \in Launches, Push(l)
      PROVE  [Outcome!Next]_Outcome!vars
  <2>1. PICK r \in Runs : r = runOf[l]
    BY DEF IInv, TypeOK
  <2>2. [Outcome!Publish(r)]_Outcome!vars
    BY <1>5, <2>1, PushStep
  <2>3. QED
    BY <2>2
<1>6. QED
  BY <1>1, <1>2, <1>3, <1>4, <1>5
     DEF Next, vars, workstationVars, processVars, fileVars, hostVars, resultVars,
         Workstation, Entry, Runner, Publisher, Wrapper, Killed, TakeLock, Busy, WriteOwner,
         Initialize, Transform, AfterRunner, AfterPublish, PrintReference, Cleanup, ExitEntry,
         StartRunner, RefuseRun, RunCell, FailCell, CompleteRun, StartEntry,
         TruncateStatus, WriteStatus, OomKillsK6, KillEntry, KillWrapper, Fetch,
         Reboot, StartDiagnostic, EndDiagnostic, Tick

LEMMA OutcomeInit ==
    ASSUME Init
    PROVE  Outcome!Init
<1>1. \A r \in Runs : artifact[r] # Cells
  BY CellsAssumption DEF Init, Absent
<1>2. \A l \in Launches : Verdict(l) = "none"
  BY DEF Init, Verdict
<1>3. QED
  BY <1>1, <1>2 DEF Init, Outcome!Init

(* Whatever is killed, lost or started twice, a run is published once and  *)
(* as a whole and each launch gets one final verdict that is true of it.   *)
THEOREM Implementation == Spec => ImplementsOutcome
<1>1. Init => Outcome!Init
  BY OutcomeInit
<1>2. IInv /\ [Next]_vars => [Outcome!Next]_Outcome!vars
  BY OutcomeStep
<1>3. QED
  BY <1>1, <1>2, Invariance, PTL DEF Spec, ImplementsOutcome, Outcome!Spec
=============================================================================
