--------------------------- MODULE MCBenchRunner ---------------------------
(* Targets of every kind the scenarios have, servers pinned and not, and   *)
(* matrices whose executions look alike in their file names.               *)
EXTENDS BenchRunner

Profile(label, race) == [label |-> label, race |-> race]

SmallMatrices ==
    { \* one profile twice, with different VU limits, and a race
      [combinations |-> <<"payload">>, repeats |-> 1, warmup |-> TRUE,
       profiles |-> <<Profile("linear", FALSE), Profile("linear", FALSE), Profile("race", TRUE)>>],
      \* resumption off and on, repeated
      [combinations |-> <<"ping", "ping">>, repeats |-> 2, warmup |-> FALSE,
       profiles |-> <<Profile("flat", FALSE)>>],
      [combinations |-> <<"ping", "payload">>, repeats |-> 1, warmup |-> TRUE,
       profiles |-> <<Profile("flat", FALSE)>>] }

AllTargets ==
    { [version |-> "none", group |-> "P-256", traefik |-> FALSE],
      [version |-> "1.2", group |-> "P-256", traefik |-> FALSE],
      [version |-> "1.3", group |-> "P-256", traefik |-> TRUE],
      [version |-> "1.3", group |-> "X25519", traefik |-> FALSE] }

Pinnings ==
    { [version |-> "none", policy |-> "only P-256", traefik |-> FALSE],
      [version |-> "1.2", policy |-> "only P-256", traefik |-> FALSE],
      [version |-> "1.3", policy |-> "only P-256", traefik |-> TRUE],
      [version |-> "1.3", policy |-> "only P-256", traefik |-> FALSE],
      [version |-> "1.3", policy |-> "only X25519", traefik |-> FALSE],
      [version |-> "1.3", policy |-> "prefers P-256", traefik |-> TRUE],
      [version |-> "1.3", policy |-> "prefers X25519", traefik |-> FALSE],
      [version |-> "1.3", policy |-> "client order", traefik |-> FALSE] }
=============================================================================
