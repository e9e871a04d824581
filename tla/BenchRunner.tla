---------------------------- MODULE BenchRunner ----------------------------
(***************************************************************************)
(* bench-runner.sh: the plan it compiles from the matrix of a run, and the *)
(* loop that executes the plan - preflight of the target, config.json for  *)
(* k6, k6 itself (main.js), its results.  The target may be deployed anew  *)
(* at any moment; nothing locks it for the benchmark.                      *)
(*                                                                         *)
(* config.json is one file for all executions and all runs.  It names the  *)
(* execution it was written for and the preflight whose evidence it holds, *)
(* both by the number of an execution.                                     *)
(***************************************************************************)
EXTENDS Naturals, SequencesExt

CONSTANTS
    Matrices,     \* matrices a run may have
    Targets,      \* targets as bench-prepare.sh resolved them
    Deployments   \* what may be deployed behind the target's address

Versions == {"none", "1.2", "1.3"}
Groups == {"P-256", "X25519"}

(* How a server chooses the key-exchange group.                            *)
Policies == {"only P-256", "only X25519", "prefers P-256", "prefers X25519", "client order"}

ASSUME TargetsAssumption ==
    Targets \subseteq [version : Versions, group : Groups, traefik : BOOLEAN]
ASSUME DeploymentsAssumption ==
    Deployments \subseteq [version : Versions, policy : Policies, traefik : BOOLEAN]

(* A matrix: combinations of endpoint, HTTP version, resumption and reuse, *)
(* profiles, whether there is a warm-up, and the repeats.  Combinations    *)
(* and profiles are known by what file names show of them; two may show    *)
(* the same, for no name has the resumption or the VU limits in it.        *)
Combinations(m) == DOMAIN m.combinations
Profiles(m) == DOMAIN m.profiles

ASSUME MatricesAssumption ==
    \A m \in Matrices :
        /\ m.combinations \in Seq(STRING)
        /\ m.profiles \in Seq([label : STRING, race : BOOLEAN])
        /\ m.warmup \in BOOLEAN /\ m.repeats \in Nat \ {0}

VARIABLES
    matrix,     \* of the run
    target,     \* of the run
    server,     \* what the target's address leads to
    stable,     \* whether it has been there since the current preflight began
    pc,         \* where the runner is
    plan,       \* the compiled plan
    current,    \* number of the execution at hand
    evidence,   \* the execution whose preflight left evidence, or NoEvidence
    k6Config,   \* config.json beside main.js
    raw,        \* raw points: files and the execution that wrote them
    records,    \* summaries likewise
    jsonl       \* executions in raw.jsonl

runVars == <<matrix, target>>
serverVars == <<server, stable>>
resultVars == <<raw, records, jsonl>>
vars == <<runVars, serverVars, pc, plan, current, evidence, k6Config, resultVars>>

NoEvidence == 0
Probes == {"order1", "order2", "other", "meta"}

----------------------------------------------------------------------------
(* execution_plan().  Repeat 0 is the warm-up, which a race has none of.   *)

(* A race warmed up like the other profiles.                               *)
WarmupsOfAll(m, c) ==
    IF m.warmup
    THEN [p \in Profiles(m) |-> [combination |-> c, profile |-> p, repeat |-> 0]]
    ELSE <<>>

Warmups(m, c) ==
    FlattenSeq([p \in Profiles(m) |->
        IF m.warmup /\ ~m.profiles[p].race
        THEN <<[combination |-> c, profile |-> p, repeat |-> 0]>> ELSE <<>>])

Measured(m, c) ==
    FlattenSeq([r \in 1 .. m.repeats |->
        [p \in Profiles(m) |-> [combination |-> c, profile |-> p, repeat |-> r]]])

Plan(m) ==
    FlattenSeq([c \in Combinations(m) |-> Warmups(m, c) \o Measured(m, c)])

(* The tag that names an execution's files; and one without the index.     *)
PathUnindexed(i) ==
    <<matrix.profiles[plan[i].profile].label,
      matrix.combinations[plan[i].combination], plan[i].repeat>>

Path(i) ==
    <<matrix.profiles[plan[i].profile].label,
      matrix.combinations[plan[i].combination], plan[i].repeat, i>>

Files(S) == {f.path : f \in S}
Store(S, path, i) == {f \in S : f.path # path} \cup {[path |-> path, execution |-> i]}

----------------------------------------------------------------------------
TypeOK ==
    /\ matrix \in Matrices /\ target \in Targets /\ server \in Deployments
    /\ stable \in BOOLEAN
    /\ pc \in Probes \cup {"prepare", "next", "verified", "start", "load", "append",
                           "complete", "failed"}
    /\ current \in 0 .. Len(plan)
    /\ evidence \in 0 .. Len(plan)
    /\ k6Config \in [execution : 0 .. Len(plan), evidence : 0 .. Len(plan)]
    /\ \A f \in raw \cup records : f.execution \in 1 .. Len(plan)
    /\ jsonl \in Seq(1 .. Len(plan))

Init ==
    /\ matrix \in Matrices /\ target \in Targets /\ server \in Deployments
    /\ stable = FALSE
    /\ pc = "prepare"
    /\ plan = <<>>
    /\ current = 0
    /\ evidence = NoEvidence
    /\ k6Config = [execution |-> 0, evidence |-> NoEvidence]
    /\ raw = {} /\ records = {}
    /\ jsonl = <<>>

(* load_config() and execution_plan().                                     *)
Prepare ==
    /\ pc = "prepare"
    /\ pc' = "next"
    /\ plan' = Plan(matrix)
    /\ UNCHANGED <<runVars, serverVars, current, evidence, k6Config, resultVars>>

(* config.json written for the first execution only.                       *)
NextExecutionReusing ==
    /\ pc = "next" /\ current < Len(plan)
    /\ current' = current + 1
    /\ k6Config' = IF current = 0 THEN [execution |-> 1, evidence |-> NoEvidence] ELSE k6Config
    /\ evidence' = NoEvidence
    /\ stable' = TRUE
    /\ pc' = IF target.version = "none" THEN "meta" ELSE "order1"
    /\ UNCHANGED <<runVars, server, plan, resultVars>>

(* One execution too many.                                                 *)
NextExecutionPastPlan ==
    /\ pc = "next" /\ current <= Len(plan)
    /\ current' = current + 1
    /\ k6Config' = [execution |-> current + 1, evidence |-> NoEvidence]
    /\ evidence' = NoEvidence
    /\ stable' = TRUE
    /\ pc' = IF target.version = "none" THEN "meta" ELSE "order1"
    /\ UNCHANGED <<runVars, server, plan, resultVars>>

(* The head of the loop: config.json is written from the plan, and the     *)
(* evidence of the execution before is forgotten.                          *)
NextExecution ==
    /\ pc = "next" /\ current < Len(plan)
    /\ current' = current + 1
    /\ k6Config' = [execution |-> current + 1, evidence |-> NoEvidence]
    /\ evidence' = NoEvidence
    /\ stable' = TRUE
    /\ pc' = IF target.version = "none" THEN "meta" ELSE "order1"
    /\ UNCHANGED <<runVars, server, plan, resultVars>>

----------------------------------------------------------------------------
(* verify_tls_group().                                                     *)

(* What the server makes of an offer of groups: one of them, or an alert.  *)
Negotiate(policy, offer) ==
    LET fixed(g) == IF \E k \in DOMAIN offer : offer[k] = g THEN g ELSE "alert"
        favoured(g) == IF \E k \in DOMAIN offer : offer[k] = g THEN g ELSE offer[1]
    IN  CASE policy = "only P-256" -> fixed("P-256")
          [] policy = "only X25519" -> fixed("X25519")
          [] policy = "prefers P-256" -> favoured("P-256")
          [] policy = "prefers X25519" -> favoured("X25519")
          [] policy = "client order" -> offer[1]

Handshake(offer) ==
    IF server.version # target.version THEN "failed" ELSE Negotiate(server.policy, offer)

(* Both groups in both orders, then for P-256 the other group alone, which *)
(* has to be refused; then the metadata over a handshake of the target's   *)
(* kind, which has to come from the TLS endpoint unless that is Traefik.   *)
(* A runtime need not expose the group it negotiated.                      *)
Passes(probe) ==
    CASE probe = "order1" -> Handshake(<<"P-256", "X25519">>) = target.group
      [] probe = "order2" -> Handshake(<<"X25519", "P-256">>) = target.group
      [] probe = "other" -> Handshake(<<"X25519">>) = "alert"
      [] probe = "meta" /\ target.version = "none" -> server.version = "none"
      [] probe = "meta" /\ target.version # "none" ->
            /\ Handshake(IF target.group = "P-256" THEN <<"P-256">> ELSE <<"X25519", "P-256">>)
                  \in Groups
            /\ ~target.traefik => ~server.traefik

(* The restricted probe left out.                                          *)
AfterProbeUnrestricted(probe) ==
    CASE probe = "order1" -> "order2"
      [] probe = "order2" -> "meta"
      [] probe = "other" -> "meta"
      [] probe = "meta" -> "verified"

AfterProbe(probe) ==
    CASE probe = "order1" -> "order2"
      [] probe = "order2" -> IF target.group = "P-256" THEN "other" ELSE "meta"
      [] probe = "other" -> "meta"
      [] probe = "meta" -> "verified"

Probe ==
    /\ pc \in Probes
    /\ Passes(pc)
    /\ pc' = AfterProbe(pc)
    /\ evidence' = IF pc = "meta" /\ target.version # "none" THEN current ELSE evidence
    /\ UNCHANGED <<runVars, serverVars, plan, current, k6Config, resultVars>>

----------------------------------------------------------------------------
(* k6.                                                                     *)

(* The evidence is added to config.json (lines 369 to 372).                *)
WriteVerified ==
    /\ pc = "verified"
    /\ pc' = "start"
    /\ k6Config' = [k6Config EXCEPT !.evidence = evidence]
    /\ UNCHANGED <<runVars, serverVars, plan, current, evidence, resultVars>>

(* main.js reads config.json and throws if a TLS target has no evidence.   *)
StartLoad ==
    /\ pc = "start"
    /\ target.version = "none" \/ k6Config.evidence # NoEvidence
    /\ pc' = "load"
    /\ UNCHANGED <<runVars, serverVars, plan, current, evidence, k6Config, resultVars>>

(* k6 exits with 0: no threshold can fail.  The raw points are where the   *)
(* runner said, the summary where config.json said - or nowhere, when k6   *)
(* could not produce or write it.                                          *)
EndLoad ==
    /\ pc = "load"
    /\ pc' = "append"
    /\ raw' = Store(raw, Path(current), current)
    /\ \/ records' = Store(records, Path(k6Config.execution), k6Config.execution)
       \/ UNCHANGED records
    /\ UNCHANGED <<runVars, serverVars, plan, current, evidence, k6Config, jsonl>>

(* All the summaries there are, each time.                                 *)
AppendEverything ==
    /\ pc = "append"
    /\ pc' = "next"
    /\ jsonl' = jsonl \o SetToSeq({f.execution : f \in records})
    /\ UNCHANGED <<runVars, serverVars, plan, current, evidence, k6Config, raw, records>>

(* A summary that is missing is passed over (line 374).                    *)
AppendRecord ==
    /\ pc = "append"
    /\ pc' = "next"
    /\ \/ /\ Path(current) \in Files(records)
          /\ \E f \in records : f.path = Path(current) /\ jsonl' = Append(jsonl, f.execution)
       \/ Path(current) \notin Files(records) /\ UNCHANGED jsonl
    /\ UNCHANGED <<runVars, serverVars, plan, current, evidence, k6Config, raw, records>>

Complete ==
    /\ pc = "next" /\ plan # <<>> /\ current = Len(plan)
    /\ pc' = "complete"
    /\ UNCHANGED <<runVars, serverVars, plan, current, evidence, k6Config, resultVars>>

(* Any command may fail, and set -e or fail() ends the runner.             *)
Abort ==
    /\ pc \notin {"complete", "failed"}
    /\ pc' = "failed"
    /\ UNCHANGED <<runVars, serverVars, plan, current, evidence, k6Config, resultVars>>

(* The target is deployed anew, the same way or another.                   *)
Redeploy ==
    /\ server' \in Deployments
    /\ stable' = FALSE
    /\ UNCHANGED <<runVars, pc, plan, current, evidence, k6Config, resultVars>>

Next ==
    \/ Prepare \/ NextExecution \/ Probe \/ WriteVerified
    \/ StartLoad \/ EndLoad \/ AppendRecord \/ Complete \/ Abort
    \/ Redeploy

Spec == Init /\ [][Next]_vars

----------------------------------------------------------------------------
(* Load meets only a server that is pinned as configured - one that cannot *)
(* give k6 another version or group, and terminates TLS where the scenario *)
(* says - unless the target was deployed anew since the preflight of this  *)
(* very execution began (bench/README.md, "Preflight Verification").       *)
Pinned ==
    /\ server.version = target.version
    /\ target.version # "none" =>
        /\ \/ target.group = "P-256" /\ server.policy = "only P-256"
           \/ target.group = "X25519" /\ server.policy \in {"only X25519", "prefers X25519"}
        /\ server.traefik => target.traefik

LoadMeetsPinnedServer == pc = "load" /\ stable => Pinned

(* k6 runs with the configuration of the execution at hand and evidence of *)
(* that execution's own preflight, never what an earlier execution left in *)
(* config.json.                                                            *)
FreshEvidence ==
    pc = "load" =>
        k6Config = [execution |-> current,
                    evidence |-> IF target.version = "none" THEN NoEvidence ELSE current]

(* Every execution so far has raw points of its own, no file was written   *)
(* by two executions, and a summary lies beside the raw points of the same *)
(* execution, though its path comes from config.json.                      *)
ResultsPerExecution ==
    LET finished == 1 .. IF pc \in {"append", "complete"} \/ (pc = "next" /\ current > 0)
                         THEN current ELSE current - 1
    IN  /\ current > 0 => \A i \in finished : [path |-> Path(i), execution |-> i] \in raw
        /\ records \subseteq raw

(* raw.jsonl lists summaries in the order of the plan, each at most once.  *)
JsonlInPlanOrder ==
    /\ \A j, k \in DOMAIN jsonl : j < k => jsonl[j] < jsonl[k]
    /\ \A k \in DOMAIN jsonl : \E f \in records : f.execution = jsonl[k]

(* The plan has each measurement of the matrix once and each warm-up of a  *)
(* profile that is not a race once per combination; combinations follow    *)
(* each other, and in each the warm-ups come first, then repeat by repeat  *)
(* (bench/README.md, "Warmup Isolation").                                  *)
PlanCoversMatrix ==
    plan # <<>> =>
        LET repeats(p) == IF matrix.warmup /\ ~matrix.profiles[p].race
                          THEN 0 .. matrix.repeats ELSE 1 .. matrix.repeats
            wanted == UNION {{[combination |-> c, profile |-> p, repeat |-> r] :
                                  c \in Combinations(matrix), r \in repeats(p)} :
                             p \in Profiles(matrix)}
        IN  /\ ToSet(plan) = wanted
            /\ IsInjective(plan)
            /\ \A i, j \in DOMAIN plan : i < j =>
                \/ plan[i].combination < plan[j].combination
                \/ /\ plan[i].combination = plan[j].combination
                   /\ plan[i].repeat <= plan[j].repeat
=============================================================================
