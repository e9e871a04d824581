----------------------------- MODULE Executions -----------------------------
(***************************************************************************)
(* The executions of the workloads, as expected_executions() of runs.py    *)
(* lists them, and the profile and the repeat that profile_slot() of       *)
(* common.py takes each for.                                               *)
(***************************************************************************)
EXTENDS Naturals

Repeats == {0, 1, 2}

(* The executions of a workload, and the profile and repeat each stands    *)
(* for.                                                                    *)
ExpectedExecutions(family) ==
    IF family = "baseline"
    THEN {<<"linear", 1>>, <<"flat", 2>>, <<"sine", 3>>,
          <<"linear", 4>>, <<"flat", 5>>, <<"sine", 6>>,
          <<"linear", 7>>, <<"flat", 8>>, <<"sine", 9>>}
    ELSE IF family = "linear" THEN {"linear"} \X (1 .. 6)
    ELSE {"race"} \X (1 .. 9)

(* The executions of the linear workload taken by halves.                  *)
ProfileSlotByHalves(family, execution) ==
    LET profile == execution[1]
        n == execution[2]
    IN  IF family = "baseline"
        THEN <<[linear |-> "Linear", flat |-> "Flat", sine |-> "Sine"][profile], (n - 1) \div 3>>
        ELSE IF family = "linear"
        THEN IF n <= 3 THEN <<"Fixed 100 VUs", n - 1>> ELSE <<"Expandable to 1,000 VUs", n - 4>>
        ELSE <<(<<"10 VUs", "100 VUs", "1,000 VUs">>)[((n - 1) % 3) + 1], (n - 1) \div 3>>

ProfileSlot(family, execution) ==
    LET profile == execution[1]
        n == execution[2]
    IN  IF family = "baseline"
        THEN <<[linear |-> "Linear", flat |-> "Flat", sine |-> "Sine"][profile],
               CHOOSE k \in Repeats : n = 3 * k + [linear |-> 1, flat |-> 2, sine |-> 3][profile]>>
        ELSE IF family = "linear"
        THEN IF n \in {1, 3, 5} THEN <<"Fixed 100 VUs", (n - 1) \div 2>>
             ELSE <<"Expandable to 1,000 VUs", (n - 2) \div 2>>
        ELSE <<(<<"10 VUs", "100 VUs", "1,000 VUs">>)[((n - 1) % 3) + 1], (n - 1) \div 3>>

=============================================================================
