----------------------------- MODULE MCWordScan -----------------------------
(* Instances of WordScan for model checking. *)
EXTENDS WordScan

Two == {{}, {0}, {0, 1}}      \* the fills: empty, partial and full words of two bits

Machine(arch, pop, two, five, vpop) ==
  [arch |-> arch, popcnt |-> pop, avx2 |-> two, avx512f |-> five, avx512vpopcntdq |-> vpop]

(* Machines by the capabilities they detect.                               *)
Ice     == Machine("x86_64", TRUE, TRUE, TRUE, TRUE)
Skylake == Machine("x86_64", TRUE, TRUE, TRUE, FALSE)
Haswell == Machine("x86_64", TRUE, TRUE, FALSE, FALSE)
Nehalem == Machine("x86_64", TRUE, FALSE, FALSE, FALSE)
Core2   == Machine("x86_64", FALSE, FALSE, FALSE, FALSE)
Neon    == Machine("aarch64", FALSE, FALSE, FALSE, FALSE)
Other   == Machine("other", FALSE, FALSE, FALSE, FALSE)

AllMachines == {Ice, Skylake, Haswell, Nehalem, Core2, Neon, Other}
(* Those whose popcount goes through AVX2, and the others. *)
Avx2Counters   == {Skylake, Haswell}
OtherCounters  == AllMachines \ Avx2Counters
=============================================================================
