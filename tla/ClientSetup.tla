----------------------------- MODULE ClientSetup -----------------------------
(***************************************************************************)
(* How a GPU client starts, over many starts of its process: it reads the  *)
(* lists of the configuration, numbers the devices in use as GPUs,         *)
(* compiles the kernels unless a file holds them already, loads the file,  *)
(* compares it with the configuration and starts a thread for every GPU    *)
(* (XPMClient::Initialize, ZCashGPUClient::Initialize, clInitialize and    *)
(* clCompileKernel).  Only the file outlives the process, which may be     *)
(* killed between any two steps.  Everything that is set in the file by    *)
(* the configuration is a value of Params; the number of a device stands   *)
(* for what the lists say of it.                                           *)
(***************************************************************************)
EXTENDS Integers, Sequences

CONSTANTS
    mNumDevices,    \* the devices of the platform
    Arch,           \* the architecture of each of them
    Configs,        \* the configurations the user may write
    Room            \* for each client, how many binaries it has pointers for

ASSUME DevicesAssumption == mNumDevices \in Nat

Devices == 0 .. mNumDevices - 1
Clients == {"xpm", "zcash"}

NoFile == [holds |-> "missing"]
EmptyFile == [holds |-> "nothing"]
Default == -1       \* what is not in a list
Failed == [failed |-> "kernel"]

VARIABLES
    client,         \* which of the two programs this is
    file,           \* kernel.bin or equiw200k9.bin, on disk
    cfg,            \* config.txt, on disk
    setup,          \* where Initialize is, "off" when there is no process
    program,        \* gProgram
    mDeviceMap, mDeviceMapRev,
    workers,        \* mWorkers
    dead,           \* the GPUs whose thread has ended unexpectedly
    mPaused

setupVars == <<client, file, cfg, setup, program, mDeviceMap, mDeviceMapRev, workers, dead,
               mPaused>>

-----------------------------------------------------------------------------
(* The configuration *)

\* The lists in the order in which they are looked up.
ListOrder ==
    [xpm |-> <<"devices", "sieveprimorial", "corefreq", "memfreq", "powertune",
               "fanspeed", "sievePerRound">>,
     zcash |-> <<"worksizes", "threads", "devices", "corefreq", "memfreq", "powertune",
                 "fanspeed">>]

\* The first list that is absent throws, and one handler surrounds them all.
IsRead(list) ==
    \E k \in DOMAIN ListOrder[client] :
        /\ ListOrder[client][k] = list
        /\ \A j \in 1 .. k : ListOrder[client][j] \in cfg.present

\* What the list says of device i.
Entry(list, i) == IF IsRead(list) /\ i < cfg.length THEN i ELSE Default

usegpu(i) == Entry("devices", i) = Default \/ cfg.on[i]

\* gpus after n turns of the loop that numbers the devices.
used[n \in 0 .. mNumDevices] ==
    IF n = 0 THEN <<>> ELSE IF usegpu(n - 1) THEN Append(used[n - 1], n - 1) ELSE used[n - 1]

gpus == used[mNumDevices]

\* What a thread is given: the entries with the number of its GPU.
WorkerLists == [xpm |-> {"sieveprimorial", "sievePerRound"}, zcash |-> {"threads", "worksizes"}]
Settings(g) == [list \in WorkerLists[client] |-> Entry(list, g)]

\* What the source is compiled with.  That of Equihash has fixed arguments.
Source == IF client = "xpm" THEN cfg.params ELSE "WN200WK9"

\* What it is compiled for, and the status of each binary: that of Equihash is
\* compiled for every device, used or not.
Targets == IF client = "xpm" THEN gpus ELSE [i \in 1 .. mNumDevices |-> i - 1]
binstatus(g) == program.arch = Arch[Targets[g + 1]]

-----------------------------------------------------------------------------
(* The process *)

SetupInit ==
    /\ client \in Clients
    /\ file = NoFile
    /\ cfg \in Configs
    /\ setup = "off"
    /\ program = NoFile
    /\ mDeviceMap = <<>> /\ mDeviceMapRev = <<>>
    /\ workers = <<>> /\ dead = {} /\ mPaused = TRUE

\* The process ends, in whatever way.
Ends ==
    /\ setup' = "off"
    /\ program' = NoFile
    /\ mDeviceMap' = <<>> /\ mDeviceMapRev' = <<>>
    /\ workers' = <<>> /\ dead' = {} /\ mPaused' = TRUE

Kill == setup # "off" /\ Ends /\ UNCHANGED <<client, file, cfg>>

\* The user edits the configuration or removes the file, as the message of the
\* client asks for.
Edit ==
    /\ setup = "off"
    /\ cfg' \in Configs
    /\ file' \in {file, NoFile}
    /\ UNCHANGED <<client, setup, program, mDeviceMap, mDeviceMapRev, workers, dead, mPaused>>

\* Devices in use are numbered as GPUs.
MapDevices ==
    /\ setup = "off"
    /\ gpus # <<>>
    /\ mDeviceMap' = [i \in Devices |-> IF usegpu(i) THEN Len(used[i]) ELSE -1]
    /\ mDeviceMapRev' = [g \in 0 .. Len(gpus) - 1 |-> gpus[g + 1]]
    /\ setup' = IF file = NoFile THEN "compile" ELSE "load"
    /\ UNCHANGED <<client, file, cfg, program, workers, dead, mPaused>>

\* The binaries of all devices are written into one buffer, so that any of them
\* may be what is left; clGetProgramInfo refuses an array that is too short.
\* The file is truncated when it is opened.
Compile ==
    /\ setup = "compile"
    /\ Len(Targets) <= Room[client]
    /\ \E k \in DOMAIN Targets :
          program' = [holds |-> "kernel", params |-> Source, legacy |-> cfg.legacy,
                      arch |-> Arch[Targets[k]]]
    /\ file' = EmptyFile
    /\ setup' = "save"
    /\ UNCHANGED <<client, cfg, mDeviceMap, mDeviceMapRev, workers, dead, mPaused>>

CompileFails == setup = "compile" /\ Ends /\ UNCHANGED <<client, file, cfg>>

Save ==
    /\ setup = "save"
    /\ file' = program
    /\ setup' = "load"
    /\ UNCHANGED <<client, cfg, program, mDeviceMap, mDeviceMapRev, workers, dead, mPaused>>

\* A driver may refuse a binary that one of the devices cannot run or report it
\* for that device only (LoadFails).
Load ==
    /\ setup = "load"
    /\ file # EmptyFile
    /\ program' = file
    /\ setup' = "start"
    /\ UNCHANGED <<client, file, cfg, mDeviceMap, mDeviceMapRev, workers, dead, mPaused>>

\* The file is empty or refused, or there was a benchmark only.
LoadFails == setup = "load" /\ Ends /\ UNCHANGED <<client, file, cfg>>

CompatibleAlways == TRUE                                  \* mutated form

Compatible == program.params = cfg.params

StartWorker ==
    /\ setup = "start"
    /\ LET g == Len(workers)
       IN  /\ g < Len(gpus)
           /\ IF ~ binstatus(g)
              THEN workers' = Append(workers, Failed)
              ELSE /\ client = "xpm" => Compatible
                   /\ workers' = Append(workers, [device |-> gpus[g + 1], set |-> Settings(g)])
    /\ UNCHANGED <<client, file, cfg, setup, program, mDeviceMap, mDeviceMapRev, dead, mPaused>>

\* A kernel that does not fit the configuration, or a miner that cannot be
\* initialised: in a PrimeMiner the parameters are 0 then.
Incompatible ==
    /\ setup = "start"
    /\ Len(workers) < Len(gpus) /\ binstatus(Len(workers))
    /\ Ends
    /\ UNCHANGED <<client, file, cfg>>

Started ==
    /\ setup = "start"
    /\ Len(workers) = Len(gpus)
    /\ setup' = "run"
    /\ UNCHANGED <<client, file, cfg, program, mDeviceMap, mDeviceMapRev, workers, dead, mPaused>>

ToggleAll ==
    /\ setup = "run"
    /\ mPaused' = ~ mPaused
    /\ UNCHANGED <<client, file, cfg, setup, program, mDeviceMap, mDeviceMapRev, workers, dead>>

ThreadDies ==
    /\ setup = "run"
    /\ \E g \in DOMAIN workers \ dead : workers[g] # Failed /\ dead' = dead \cup {g}
    /\ UNCHANGED <<client, file, cfg, setup, program, mDeviceMap, mDeviceMapRev, workers, mPaused>>

\* GetStats: with onCrash 1 the process ends, with 2 the machine is started anew;
\* the client of ZCash does nothing.
ExitOnCrash ==
    /\ setup = "run" /\ client = "xpm"
    /\ dead # {} /\ ~ mPaused
    /\ cfg.onCrash \in {1, 2}
    /\ Ends
    /\ UNCHANGED <<client, file, cfg>>

SetupNext ==
    \/ Kill \/ Edit \/ MapDevices \/ Compile \/ CompileFails \/ Save \/ Load \/ LoadFails
    \/ StartWorker \/ Incompatible \/ Started \/ ToggleAll \/ ThreadDies \/ ExitOnCrash

SetupSpec == SetupInit /\ [][SetupNext]_setupVars

-----------------------------------------------------------------------------
SetupTypeOK ==
    /\ client \in Clients /\ cfg \in Configs /\ mPaused \in BOOLEAN
    /\ setup \in {"off", "compile", "save", "load", "start", "run"}
    /\ \A f \in {file, program} :
          f \in {NoFile, EmptyFile} \/ f.arch \in {Arch[i] : i \in Devices}
    /\ Len(workers) <= mNumDevices /\ dead \subseteq DOMAIN workers

EarlierOff(i) == \E j \in 0 .. i - 1 : ~ usegpu(j)

\* A thread of the Primecoin client never runs a kernel of other parameters,
\* whatever was edited, crashed or left behind by an earlier start (but for
\* amdLegacy and the size of a work group, which nothing compares); no thread runs
\* what a crash left of a file.  The two maps are inverse.  A thread works on its
\* device with the entries of that device, and no device has a kernel of another
\* architecture, unless a device before it is not used: the lists are indexed with
\* the number of the device, the threads' settings and the status with that of
\* the GPU.
SetupRight ==
    setup \in {"start", "run"} =>
        /\ program = file /\ file # EmptyFile
        /\ \A i \in Devices : mDeviceMap[i] # -1 => mDeviceMapRev[mDeviceMap[i]] = i
        /\ \A g \in DOMAIN mDeviceMapRev : mDeviceMap[mDeviceMapRev[g]] = g
        /\ \A k \in DOMAIN workers :
              workers[k] # Failed =>
                 LET i == workers[k].device
                 IN  /\ i = mDeviceMapRev[k - 1]
                     /\ client = "xpm" => program.params = cfg.params
                     /\ ~ EarlierOff(i) \/ client = "xpm" => program.arch = Arch[i]
                     /\ \/ EarlierOff(i)
                        \/ \A list \in WorkerLists[client] : workers[k].set[list] = Entry(list, i)
=============================================================================
