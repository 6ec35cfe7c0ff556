------------------------------ MODULE MCStages ------------------------------
(***************************************************************************)
(* The stages of mining that share nothing in the models, side by side:    *)
(* each behaviour is one of one part, chosen at the beginning, while the   *)
(* variables of the others keep their initial values.                      *)
(***************************************************************************)
EXTENDS PrimeMining, HashRing, NonceSpace, ZcashPipeline, ZcashCpuMiner, ClientSetup,
        SolutionRate, TLC

MCWorkTime == <<0, 1>>

\* Two devices of one architecture and a third of another; five pointers for
\* binaries scaled down to two.  At most one list is absent, and the lists end
\* before the last device.
MCArch == [i \in 0 .. 2 |-> IF i = 2 THEN "b" ELSE "a"]
MCRoom == [xpm |-> 2, zcash |-> 64]
MCLists == {"devices", "sieveprimorial", "corefreq", "memfreq", "powertune", "fanspeed",
            "sievePerRound", "worksizes", "threads"}
MCConfigs ==
    [present : {MCLists} \cup {MCLists \ {list} : list \in {"devices", "fanspeed", "threads"}},
     length : {2}, on : [0 .. 2 -> BOOLEAN], params : {"p", "q"}, legacy : {FALSE},
     onCrash : {0, 1}]

Symmetry == Permutations(Id)

VARIABLE part   \* the part whose behaviour this is

Parts == {"mining", "ring", "nonces", "zcash GPU", "zcash CPU", "setup", "rate"}

Init ==
    /\ part \in Parts
    /\ MiningInit /\ RingInit /\ NonceInit /\ GpuInit /\ CpuInit /\ SetupInit /\ RateInit
    /\ part # "setup" => client = "xpm" /\ cfg = CHOOSE c \in MCConfigs : TRUE

Others(mine) ==
    /\ mine # "mining" => UNCHANGED miningVars
    /\ mine # "ring" => UNCHANGED ringVars
    /\ mine # "nonces" => UNCHANGED nonceVars
    /\ mine # "zcash GPU" => UNCHANGED gpuVars
    /\ mine # "zcash CPU" => UNCHANGED cpuVars
    /\ mine # "setup" => UNCHANGED setupVars
    /\ mine # "rate" => UNCHANGED rateVars

Next ==
    /\ UNCHANGED part
    /\ \/ part = "mining" /\ MiningNext
       \/ part = "ring" /\ RingNext
       \/ part = "nonces" /\ NonceNext
       \/ part = "zcash GPU" /\ GpuNext
       \/ part = "zcash CPU" /\ CpuNext
       \/ part = "setup" /\ SetupNext
       \/ part = "rate" /\ RateNext
    /\ Others(part)

Spec == Init /\ [][Next]_<<part, miningVars, ringVars, nonceVars, gpuVars, cpuVars, setupVars,
                          rateVars>>

-----------------------------------------------------------------------------
(* The other properties are those of the modules.                          *)

\* The variables of every part have their types.
TypeOK ==
    /\ MiningTypeOK /\ RingTypeOK /\ NonceTypeOK /\ GpuTypeOK /\ CpuTypeOK
    /\ SetupTypeOK /\ RateTypeOK
=============================================================================
