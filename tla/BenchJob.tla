------------------------------ MODULE BenchJob ------------------------------
(***************************************************************************)
(* One benchmark on the client VM, from `make bench' on a workstation to   *)
(* the OCI artifact in the registry.  Four programs take part, each with a *)
(* life of its own:                                                        *)
(*                                                                         *)
(*   workstation  scripts/bench-run.sh, bench-status.sh, bench-get.sh      *)
(*   wrapper      the detached `bash -c' that bench-run.sh leaves behind:  *)
(*                it runs the entry and writes its exit code to a file     *)
(*   entry        bench-entry.sh: takes the client lock, points /etc/hosts *)
(*                at the target, runs the runner, then the publisher       *)
(*   child        bench-runner.sh with its k6, then bench-publish.sh       *)
(*                                                                         *)
(* They share the status file and log of the run (/tmp/wtt-benchmark-RUN), *)
(* the lock file and its pid file, /etc/hosts, the run's result directory  *)
(* and the registry.  Any process may be killed and the VM may reboot.     *)
(*                                                                         *)
(* A launch is one invocation of bench-run.sh followed by bench-status.sh. *)
(* Two launches may carry the same run id: bench-run.sh started twice with *)
(* one JSON file, or two bench-prepare.sh within the same second.          *)
(***************************************************************************)
EXTENDS Integers

CONSTANTS
    Launches,    \* invocations of bench-run.sh
    Polled,      \* those made by `make bench', which go on with bench-status.sh
    Runs,        \* run ids; a run has one target and one plan
    Cells,       \* executions in the plan of a run
    StaleAfter,  \* ticks of log silence the poller tolerates (300 s)
    None         \* no owner, no target

ASSUME PolledAssumption == Polled \subseteq Launches
ASSUME CellsAssumption == Cells \in Nat \ {0}
ASSUME StaleAssumption == StaleAfter \in Nat
ASSUME NoneAssumption == None \notin Launches \cup Runs

VARIABLES
    runOf,      \* the run id in the JSON file of a launch
    client,     \* the workstation's side of a launch
    seen,       \* the answer of the last poll, before it is acted upon
    fetched,    \* executions bench-get.sh brought back for a run, or Absent
    wrapper,    \* the detached wrapper of a launch
    entry,      \* bench-entry.sh of a launch
    rc,         \* its exit code, "0" or "nonzero"
    child,      \* the entry's: bench-runner.sh with k6, then bench-publish.sh
    done,       \* cells the runner of a launch has executed
    status,     \* <prefix>.status of a run
    logAge,     \* ticks since <prefix>.log was last written, or Absent
    resultRef,  \* whether that log holds a WTT_RESULT_REF line
    pidFile,    \* the launch named by <lock file>.pid
    hosts,      \* the run whose target /etc/hosts maps the hostname to
    diagnostic, \* whether scripts/debug/client-tls-shutdown.sh is running
    oomLogged,  \* whether dmesg holds a line of the OOM killer
    results,    \* executions stored in the run's result directory, or Absent
    artifact    \* executions in the artifact pushed for a run, or Absent

workstationVars == <<client, seen, fetched>>
processVars == <<wrapper, entry, rc, child, done>>
fileVars == <<status, logAge, resultRef>>
hostVars == <<pidFile, hosts, diagnostic, oomLogged>>
resultVars == <<results, artifact>>
vars == <<runOf, client, seen, fetched, wrapper, entry, rc, child, done, status,
          logAge, resultRef, pidFile, hosts, diagnostic, oomLogged,
          results, artifact>>

Absent == -1

(* Where bench-entry.sh has descriptor 9 open and locked: from the flock   *)
(* at line 11 until the process is gone.                                   *)
Holding == {"owner", "initialize", "transform", "execute", "publish",
            "cleanup", "exiting"}

(* Its EXIT trap is installed only once it owns the lock (line 19).        *)
Trapped == Holding \ {"owner"}

(* bench-runner.sh runs; bench-publish.sh runs, before and after its push. *)
ChildAlive == {"running", "publishing", "pushed"}
ChildStates == ChildAlive \cup {"none", "passed", "failed", "published"}

EntryStates == Holding \cup {"none", "lock", "exited", "killed"}
Answers == {"none", "RUNNING", "empty", "0", "nonzero", "STALE", "OOM_KILLED"}

TypeOK ==
    /\ runOf \in [Launches -> Runs]
    /\ client \in [Launches -> {"idle", "polling", "deciding", "complete",
                                "failed", "gone"}]
    /\ seen \in [Launches -> Answers]
    /\ fetched \in [Runs -> Nat \cup {Absent}]
    /\ wrapper \in [Launches -> {"none", "forked", "waiting", "writing",
                                 "finished", "killed"}]
    /\ entry \in [Launches -> EntryStates]
    /\ rc \in [Launches -> {"none", "0", "nonzero"}]
    /\ child \in [Launches -> ChildStates]
    /\ done \in [Launches -> 0 .. Cells]
    /\ status \in [Runs -> {"absent", "empty", "RUNNING", "0", "nonzero"}]
    /\ logAge \in [Runs -> (0 .. StaleAfter + 1) \cup {Absent}]
    /\ resultRef \in [Runs -> BOOLEAN]
    /\ pidFile \in Launches \cup {None}
    /\ hosts \in Runs \cup {None}
    /\ diagnostic \in BOOLEAN
    /\ oomLogged \in BOOLEAN
    /\ results \in [Runs -> Nat \cup {Absent}]
    /\ artifact \in [Runs -> Nat \cup {Absent}]

Init ==
    /\ runOf \in [Launches -> Runs]
    /\ client = [l \in Launches |-> "idle"]
    /\ seen = [l \in Launches |-> "none"]
    /\ fetched = [r \in Runs |-> Absent]
    /\ wrapper = [l \in Launches |-> "none"]
    /\ entry = [l \in Launches |-> "none"]
    /\ rc = [l \in Launches |-> "none"]
    /\ child = [l \in Launches |-> "none"]
    /\ done = [l \in Launches |-> 0]
    /\ status = [r \in Runs |-> "absent"]
    /\ logAge = [r \in Runs |-> Absent]
    /\ resultRef = [r \in Runs |-> FALSE]
    /\ pidFile = None
    /\ hosts = None
    /\ diagnostic = FALSE
    /\ oomLogged = FALSE
    /\ results = [r \in Runs |-> Absent]
    /\ artifact = [r \in Runs |-> Absent]

----------------------------------------------------------------------------
(* The client lock.  flock(2) belongs to the open file description, which  *)
(* every child inherits as descriptor 9: the kernel drops the lock when    *)
(* the last of them is gone, not when bench-entry.sh is.                   *)

HoldsLockEntryOnly(l) == entry[l] \in Holding

HoldsLock(l) == entry[l] \in Holding \/ child[l] \in ChildAlive

LockFree == ~diagnostic /\ \A l \in Launches : ~HoldsLock(l)

(* Every line a process prints goes to the log of its run.                 *)
Print2Log(l) == logAge' = [logAge EXCEPT ![runOf[l]] = 0]

EntryGoes(l, to) == entry' = [entry EXCEPT ![l] = to]
ChildGoes(l, to) == child' = [child EXCEPT ![l] = to]

(* set -e: a failing command ends the entry through its EXIT trap.         *)
EntryFails(l) ==
    /\ EntryGoes(l, "cleanup")
    /\ rc' = [rc EXCEPT ![l] = "nonzero"]

----------------------------------------------------------------------------
(* The workstation: bench-run.sh.                                          *)

(* The run command is delivered: RUNNING is written before the wrapper is  *)
(* forked, so nobody sees the run without a status.  The call may still    *)
(* report failure, and then `make bench' does not get to its poll.         *)
Launch(l) ==
    /\ client[l] = "idle"
    /\ \/ l \in Polled /\ client' = [client EXCEPT ![l] = "polling"]
       \/ client' = [client EXCEPT ![l] = "gone"]
    /\ status' = [status EXCEPT ![runOf[l]] = "RUNNING"]
    /\ wrapper' = [wrapper EXCEPT ![l] = "forked"]
    /\ UNCHANGED <<runOf, seen, fetched, entry, rc, child, done, logAge,
                   resultRef, hostVars, resultVars>>

(* The call fails before the script reaches the VM.                        *)
LaunchFails(l) ==
    /\ client[l] = "idle"
    /\ client' = [client EXCEPT ![l] = "gone"]
    /\ UNCHANGED <<runOf, seen, fetched, processVars, fileVars, hostVars, resultVars>>

(* bench-status.sh.  What the script on the VM answers about run r: a      *)
(* missing status file counts as RUNNING, and RUNNING is believed only     *)
(* while the log is being written.                                         *)
LogSilent(r) == logAge[r] = Absent \/ logAge[r] > StaleAfter

AnswerTrustingStatus(r) ==
    IF status[r] = "absent" THEN "RUNNING" ELSE status[r]

Answer(r) ==
    IF status[r] \notin {"absent", "RUNNING"} THEN status[r]
    ELSE IF ~LogSilent(r) THEN "RUNNING"
    ELSE IF oomLogged THEN "OOM_KILLED"
    ELSE "STALE"

PollRead(l) ==
    /\ client[l] = "polling"
    /\ client' = [client EXCEPT ![l] = "deciding"]
    /\ seen' = [seen EXCEPT ![l] = Answer(runOf[l])]
    /\ UNCHANGED <<runOf, fetched, processVars, fileVars, hostVars, resultVars>>

(* The loop body on the workstation, some time later: an empty answer is   *)
(* taken for RUNNING (line 55), 0 ends the loop, anything else is fatal.   *)
PollDecide(l) ==
    /\ client[l] = "deciding"
    /\ client' = [client EXCEPT ![l] =
                     CASE seen[l] = "0" -> "complete"
                       [] seen[l] \in {"RUNNING", "empty"} -> "polling"
                       [] OTHER -> "failed"]
    /\ seen' = [seen EXCEPT ![l] = IF @ \in {"RUNNING", "empty"} THEN "none" ELSE @]
    /\ UNCHANGED <<runOf, fetched, processVars, fileVars, hostVars, resultVars>>

(* The poll itself fails and set -e ends bench-status.sh.                  *)
PollFails(l) ==
    /\ client[l] = "polling"
    /\ client' = [client EXCEPT ![l] = "gone"]
    /\ UNCHANGED <<runOf, seen, fetched, processVars, fileVars, hostVars, resultVars>>

(* bench-get.sh, started by hand whenever the operator likes: it pulls the *)
(* artifact named by the last reference in the run's log.                  *)
Fetch(r) ==
    /\ resultRef[r]
    /\ fetched' = [fetched EXCEPT ![r] = artifact[r]]
    /\ UNCHANGED <<runOf, client, seen, processVars, fileVars, hostVars, resultVars>>

----------------------------------------------------------------------------
(* The wrapper.                                                            *)

(* The redirection truncates the log, whatever run wrote it before.        *)
StartEntry(l) ==
    /\ wrapper[l] = "forked"
    /\ wrapper' = [wrapper EXCEPT ![l] = "waiting"]
    /\ EntryGoes(l, "lock")
    /\ Print2Log(l)
    /\ resultRef' = [resultRef EXCEPT ![runOf[l]] = FALSE]
    /\ UNCHANGED <<runOf, workstationVars, rc, child, done, status, hostVars,
                   resultVars>>

(* `printf rc > status' opens the file with O_TRUNC first ...              *)
TruncateStatus(l) ==
    /\ wrapper[l] = "waiting"
    /\ entry[l] \in {"exited", "killed"}
    /\ wrapper' = [wrapper EXCEPT ![l] = "writing"]
    /\ status' = [status EXCEPT ![runOf[l]] = "empty"]
    /\ UNCHANGED <<runOf, workstationVars, entry, rc, child, done, logAge,
                   resultRef, hostVars, resultVars>>

(* ... and writes the exit code second.                                    *)
WriteStatus(l) ==
    /\ wrapper[l] = "writing"
    /\ wrapper' = [wrapper EXCEPT ![l] = "finished"]
    /\ status' = [status EXCEPT ![runOf[l]] = rc[l]]
    /\ UNCHANGED <<runOf, workstationVars, entry, rc, child, done, logAge,
                   resultRef, hostVars, resultVars>>

----------------------------------------------------------------------------
(* bench-entry.sh.                                                         *)

TakeLock(l) ==
    /\ entry[l] = "lock"
    /\ LockFree
    /\ EntryGoes(l, "owner")
    /\ UNCHANGED <<runOf, workstationVars, wrapper, rc, child, done, fileVars,
                   hostVars, resultVars>>

(* Were the trap installed before the flock, a loser would remove the pid  *)
(* file of the owner.                                                      *)
BusyTrapped(l) ==
    /\ entry[l] = "lock"
    /\ ~LockFree
    /\ EntryGoes(l, "exited")
    /\ rc' = [rc EXCEPT ![l] = "nonzero"]
    /\ Print2Log(l)
    /\ pidFile' = None
    /\ UNCHANGED <<runOf, workstationVars, wrapper, child, done, status,
                   resultRef, hosts, diagnostic, oomLogged, resultVars>>

(* The client is busy: exit before the trap exists.                        *)
Busy(l) ==
    /\ entry[l] = "lock"
    /\ ~LockFree
    /\ EntryGoes(l, "exited")
    /\ rc' = [rc EXCEPT ![l] = "nonzero"]
    /\ Print2Log(l)
    /\ UNCHANGED <<runOf, workstationVars, wrapper, child, done, status,
                   resultRef, hostVars, resultVars>>

WriteOwner(l) ==
    /\ entry[l] = "owner"
    /\ EntryGoes(l, "initialize")
    /\ pidFile' = l
    /\ Print2Log(l)
    /\ UNCHANGED <<runOf, workstationVars, wrapper, rc, child, done, status,
                   resultRef, hosts, diagnostic, oomLogged, resultVars>>

(* Waits for cloud-init, in silence, for as long as that takes; a missing  *)
(* bootstrap.env is fatal.                                                 *)
Initialize(l) ==
    /\ entry[l] = "initialize"
    /\ \/ EntryGoes(l, "transform") /\ UNCHANGED rc
       \/ EntryFails(l)
    /\ Print2Log(l)
    /\ UNCHANGED <<runOf, workstationVars, wrapper, child, done, status,
                   resultRef, hostVars, resultVars>>

(* Decodes the configuration and rewrites /etc/hosts for its target.       *)
Transform(l) ==
    /\ entry[l] = "transform"
    /\ \/ EntryGoes(l, "execute") /\ hosts' = runOf[l] /\ UNCHANGED rc
       \/ EntryFails(l) /\ UNCHANGED hosts
    /\ Print2Log(l)
    /\ UNCHANGED <<runOf, workstationVars, wrapper, child, done, status,
                   resultRef, pidFile, diagnostic, oomLogged, resultVars>>

(* Without set -e, a failed runner's directory would be published too.     *)
PublishRegardless(l) ==
    /\ entry[l] = "execute"
    /\ child[l] \in {"passed", "failed"}
    /\ EntryGoes(l, "publish")
    /\ ChildGoes(l, "publishing")
    /\ Print2Log(l)
    /\ UNCHANGED <<runOf, workstationVars, wrapper, rc, done, status,
                   resultRef, hostVars, resultVars>>

(* bench-runner.sh returned.  Its failure is the entry's, and only its     *)
(* success starts bench-publish.sh.                                        *)
AfterRunner(l) ==
    /\ entry[l] = "execute"
    /\ \/ child[l] = "passed" /\ EntryGoes(l, "publish")
          /\ ChildGoes(l, "publishing") /\ UNCHANGED rc
       \/ child[l] = "failed" /\ EntryFails(l) /\ UNCHANGED child
    /\ Print2Log(l)
    /\ UNCHANGED <<runOf, workstationVars, wrapper, done, status,
                   resultRef, hostVars, resultVars>>

(* bench-publish.sh returned: its exit code is the entry's.                *)
AfterPublish(l) ==
    /\ entry[l] = "publish"
    /\ \/ /\ child[l] = "published"
          /\ EntryGoes(l, "cleanup")
          /\ rc' = [rc EXCEPT ![l] = "0"]
       \/ child[l] = "failed" /\ EntryFails(l)
    /\ UNCHANGED <<runOf, workstationVars, wrapper, child, done, fileVars,
                   hostVars, resultVars>>

(* The EXIT trap removes the pid file while the lock is still held.        *)
Cleanup(l) ==
    /\ entry[l] = "cleanup"
    /\ EntryGoes(l, "exiting")
    /\ pidFile' = None
    /\ UNCHANGED <<runOf, workstationVars, wrapper, rc, child, done, fileVars,
                   hosts, diagnostic, oomLogged, resultVars>>

ExitEntry(l) ==
    /\ entry[l] = "exiting"
    /\ EntryGoes(l, "exited")
    /\ UNCHANGED <<runOf, workstationVars, wrapper, rc, child, done, fileVars,
                   hostVars, resultVars>>

----------------------------------------------------------------------------
(* bench-runner.sh.                                                        *)

(* The configuration is valid and the run has no result directory yet.     *)
StartRunnerOverExisting(l) ==
    /\ entry[l] = "execute" /\ child[l] = "none"
    /\ ChildGoes(l, "running")
    /\ results' = [results EXCEPT ![runOf[l]] = IF @ = Absent THEN 0 ELSE @]
    /\ Print2Log(l)
    /\ UNCHANGED <<runOf, workstationVars, wrapper, entry, rc, done, status,
                   resultRef, hostVars, artifact>>

StartRunner(l) ==
    /\ entry[l] = "execute" /\ child[l] = "none"
    /\ results[runOf[l]] = Absent
    /\ ChildGoes(l, "running")
    /\ results' = [results EXCEPT ![runOf[l]] = 0]
    /\ Print2Log(l)
    /\ UNCHANGED <<runOf, workstationVars, wrapper, entry, rc, done, status,
                   resultRef, hostVars, artifact>>

(* It is invalid, or the directory exists (line 130).                      *)
RefuseRun(l) ==
    /\ entry[l] = "execute" /\ child[l] = "none"
    /\ ChildGoes(l, "failed")
    /\ Print2Log(l)
    /\ UNCHANGED <<runOf, workstationVars, wrapper, entry, rc, done, status,
                   resultRef, hostVars, resultVars>>

(* An off-by-one in the plan loop.                                         *)
RunCellPastPlan(l) ==
    /\ child[l] = "running"
    /\ done[l] <= Cells
    /\ done' = [done EXCEPT ![l] = @ + 1]
    /\ results' = [results EXCEPT ![runOf[l]] = @ + 1]
    /\ Print2Log(l)
    /\ UNCHANGED <<runOf, workstationVars, wrapper, entry, rc, child, status,
                   resultRef, hostVars, artifact>>

(* One execution of the plan: preflight, k6 against the hostname, results.  *)
(* It counts once the runner has been through it, also when k6 left no      *)
(* summary to append (bench-runner.sh:374; see BenchRunner and ResultImport *)
(* for what becomes of such an execution).                                  *)
RunCell(l) ==
    /\ child[l] = "running"
    /\ done[l] < Cells
    /\ done' = [done EXCEPT ![l] = @ + 1]
    /\ results' = [results EXCEPT ![runOf[l]] = @ + 1]
    /\ Print2Log(l)
    /\ UNCHANGED <<runOf, workstationVars, wrapper, entry, rc, child, status,
                   resultRef, hostVars, artifact>>

(* The preflight rejects the target, or k6 exits nonzero.                  *)
FailCell(l) ==
    /\ child[l] = "running"
    /\ done[l] < Cells
    /\ ChildGoes(l, "failed")
    /\ Print2Log(l)
    /\ UNCHANGED <<runOf, workstationVars, wrapper, entry, rc, done, status,
                   resultRef, hostVars, resultVars>>

CompleteRun(l) ==
    /\ child[l] = "running"
    /\ done[l] = Cells
    /\ ChildGoes(l, "passed")
    /\ Print2Log(l)
    /\ UNCHANGED <<runOf, workstationVars, wrapper, entry, rc, done, status,
                   resultRef, hostVars, resultVars>>

----------------------------------------------------------------------------
(* bench-publish.sh.                                                       *)

(* The archive of the result directory is pushed under the run id, or      *)
(* something on the way there fails ...                                    *)
Push(l) ==
    /\ child[l] = "publishing"
    /\ \/ /\ ChildGoes(l, "pushed")
          /\ artifact' = [artifact EXCEPT ![runOf[l]] = results[runOf[l]]]
       \/ ChildGoes(l, "failed") /\ UNCHANGED artifact
    /\ Print2Log(l)
    /\ UNCHANGED <<runOf, workstationVars, wrapper, entry, rc, done, status,
                   resultRef, hostVars, results>>

(* ... and the reference is printed after the push succeeded.              *)
PrintReference(l) ==
    /\ child[l] = "pushed"
    /\ ChildGoes(l, "published")
    /\ resultRef' = [resultRef EXCEPT ![runOf[l]] = TRUE]
    /\ Print2Log(l)
    /\ UNCHANGED <<runOf, workstationVars, wrapper, entry, rc, done, status,
                   hostVars, resultVars>>

----------------------------------------------------------------------------
(* What the operating system and the operator do.                          *)

(* The OOM killer takes k6: k6 is the memory hog, and the runner sees 137. *)
OomKillsK6(l) ==
    /\ child[l] = "running"
    /\ ChildGoes(l, "failed")
    /\ oomLogged' = TRUE
    /\ UNCHANGED <<runOf, workstationVars, wrapper, entry, rc, done, fileVars,
                   pidFile, hosts, diagnostic, resultVars>>

(* Somebody kills the PID that a busy client printed.  SIGTERM still runs  *)
(* the trap, SIGKILL does not; the child lives on in both cases.           *)
KillEntry(l) ==
    /\ entry[l] \in Holding \cup {"lock"}
    /\ EntryGoes(l, "killed")
    /\ rc' = [rc EXCEPT ![l] = "nonzero"]
    /\ \/ UNCHANGED pidFile
       \/ entry[l] \in Trapped /\ pidFile' = None
    /\ UNCHANGED <<runOf, workstationVars, wrapper, child, done, fileVars,
                   hosts, diagnostic, oomLogged, resultVars>>

(* Somebody kills the PID that bench-run.sh printed, or the write of the   *)
(* exit code fails on a full disk after the truncation.                    *)
KillWrapper(l) ==
    /\ wrapper[l] \in {"forked", "waiting", "writing"}
    /\ wrapper' = [wrapper EXCEPT ![l] = "killed"]
    /\ UNCHANGED <<runOf, workstationVars, entry, rc, child, done, fileVars,
                   hostVars, resultVars>>

Live(state, running) == [l \in Launches |-> IF state[l] \in running THEN "killed" ELSE state[l]]

(* The VM restarts: every process dies, /run/lock and dmesg start empty,   *)
(* /tmp may be emptied, /etc and /opt persist.                             *)
Reboot ==
    /\ wrapper' = Live(wrapper, {"forked", "waiting", "writing"})
    /\ entry' = Live(entry, Holding \cup {"lock"})
    /\ child' = [l \in Launches |-> IF child[l] \in ChildAlive THEN "failed" ELSE child[l]]
    /\ pidFile' = None
    /\ diagnostic' = FALSE
    /\ oomLogged' = FALSE
    /\ \/ UNCHANGED fileVars
       \/ /\ status' = [r \in Runs |-> "absent"]
          /\ logAge' = [r \in Runs |-> Absent]
          /\ resultRef' = [r \in Runs |-> FALSE]
    /\ UNCHANGED <<runOf, workstationVars, rc, done, hosts, resultVars>>

(* The TLS shutdown diagnostic takes the same lock and writes no pid file. *)
StartDiagnostic ==
    /\ LockFree
    /\ diagnostic' = TRUE
    /\ UNCHANGED <<runOf, workstationVars, processVars, fileVars, pidFile, hosts,
                   oomLogged, resultVars>>

EndDiagnostic ==
    /\ diagnostic
    /\ diagnostic' = FALSE
    /\ UNCHANGED <<runOf, workstationVars, processVars, fileVars, pidFile, hosts,
                   oomLogged, resultVars>>

(* Time: logs grow older.  Ages above StaleAfter are all alike.            *)
Tick ==
    /\ logAge' = [r \in Runs |-> IF logAge[r] \in 0 .. StaleAfter
                                 THEN logAge[r] + 1 ELSE logAge[r]]
    /\ UNCHANGED <<runOf, workstationVars, processVars, status, resultRef,
                   hostVars, resultVars>>

----------------------------------------------------------------------------
Workstation(l) ==
    \/ Launch(l) \/ LaunchFails(l)
    \/ PollRead(l) \/ PollDecide(l) \/ PollFails(l)

Entry(l) ==
    \/ TakeLock(l) \/ Busy(l) \/ WriteOwner(l) \/ Initialize(l) \/ Transform(l)
    \/ AfterRunner(l) \/ AfterPublish(l) \/ Cleanup(l) \/ ExitEntry(l)

Runner(l) ==
    \/ StartRunner(l) \/ RefuseRun(l)
    \/ RunCell(l) \/ FailCell(l) \/ CompleteRun(l)

Publisher(l) == Push(l) \/ PrintReference(l)

Wrapper(l) == StartEntry(l) \/ TruncateStatus(l) \/ WriteStatus(l)

Killed(l) == OomKillsK6(l) \/ KillEntry(l) \/ KillWrapper(l)

Next ==
    \/ \E l \in Launches : Workstation(l) \/ Wrapper(l) \/ Entry(l)
    \/ \E l \in Launches : Runner(l) \/ Publisher(l) \/ Killed(l)
    \/ \E r \in Runs : Fetch(r)
    \/ Reboot
    \/ StartDiagnostic \/ EndDiagnostic
    \/ Tick

Spec == Init /\ [][Next]_vars

(* Only the poller and the clock must go on: nothing obliges a process on  *)
(* the VM to make progress.                                                *)
Fairness ==
    /\ \A l \in Launches : WF_vars(PollRead(l) \/ PollDecide(l))
    /\ WF_vars(Tick)

FairSpec == Spec /\ Fairness

----------------------------------------------------------------------------
(* k6 of two launches never runs at the same time, and while k6 of a       *)
(* launch runs /etc/hosts still maps the hostname to the target that its   *)
(* preflight probed by IP - also when the entry was killed under it.       *)
ExclusiveMeasurement ==
    \A l \in Launches : child[l] = "running" =>
        /\ ~diagnostic
        /\ hosts = runOf[l]
        /\ \A m \in Launches \ {l} : child[m] # "running"

(* When bench-status.sh reports completion, and whenever bench-get.sh      *)
(* brings something back, the registry holds the run's artifact with each  *)
(* execution once: no partial, appended or foreign result is reported.     *)
CompleteMeansPublished ==
    /\ \A l \in Launches : client[l] = "complete" => artifact[runOf[l]] = Cells
    /\ \A r \in Runs : fetched[r] \in {Absent, Cells}

(* A client that is busy with a live entry names that entry: from the end  *)
(* of WriteOwner to the trap, nobody else touches the pid file.            *)
LiveOwnerNamed ==
    \A l \in Launches :
        entry[l] \in Trapped \ {"exiting"} => pidFile = l

(* The launches and the registry implement BenchOutcome: a complete        *)
(* artifact is never retracted, overwritten or extended, and the final     *)
(* verdict on a launch does not change.                                    *)
Verdict(l) ==
    CASE client[l] = "complete" -> "complete"
      [] client[l] \in {"failed", "gone"} -> "gave up"
      [] OTHER -> "none"

Outcome == INSTANCE BenchOutcome WITH
    published <- [r \in Runs |-> artifact[r] = Cells],
    verdict <- [l \in Launches |-> Verdict(l)]

ImplementsOutcome == Outcome!Spec

(* Polling ends, whatever is killed, unless the status file was truncated  *)
(* and never written.                                                      *)
PollingEndsUnlessTorn ==
    \A l \in Launches :
        client[l] \in {"polling", "deciding"} ~>
            \/ client[l] \in {"complete", "failed", "gone"}
            \/ status[runOf[l]] = "empty"

(* Polling ends, whatever is killed: the claim of the STALE answer, "log   *)
(* is missing or stale" (bench-status.sh lines 32-39).                     *)
PollingEnds ==
    \A l \in Launches :
        client[l] \in {"polling", "deciding"} ~>
            client[l] \in {"complete", "failed", "gone"}

(* A run of which bench-status.sh says "k6 was killed by the kernel OOM     *)
(* killer" (line 35) is not still running k6.                              *)
OomVerdictTruthful ==
    \A l \in Launches :
        client[l] = "failed" /\ seen[l] = "OOM_KILLED" =>
            \A m \in Launches : runOf[m] = runOf[l] => child[m] # "running"
=============================================================================
