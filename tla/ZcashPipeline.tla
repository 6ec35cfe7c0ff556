--------------------------- MODULE ZcashPipeline ---------------------------
(***************************************************************************)
(* The iterations of the ZCash GPU miner, zcash/zcashgpuclient.cpp lines   *)
(* 269-454: the thread hands one nonce after the other to the instances of *)
(* the solver, each with an in-order command queue and buffers of its own, *)
(* and sends what an instance has found as shares.                         *)
(*                                                                         *)
(* Writes to the device do not block: a command in the queue reads the     *)
(* host's buffer when the device comes to it, not when it was enqueued.    *)
(* Reads block until the queue has been worked off.                        *)
(*                                                                         *)
(* The pair of block and work that the thread starts a work with is the    *)
(* business of MiningWorker; here works are numbered.  A header is a work  *)
(* and a nonce; a solution is represented by the header that it solves.    *)
(***************************************************************************)
EXTENDS ZcashParameters, Sequences, FiniteSets

Instance == 0 .. pipelinesNum - 1
VARIABLES
    pc,                             \* "top" | "collect"
    work, nNonce,                   \* header
    currentInstance, readyInstance,
    \* the instances: in the memory of the host
    state,                          \* blake2bState.HostData
    nonce,                          \* miner.nonce
    \* between the host and the device
    queue,
    \* the instances: on the device
    devState,                       \* blake2bState.DeviceData
    devSols,                        \* numSols and sols
    \* ghosts
    share,                          \* the last share sent
    collected                       \* the headers whose solutions were read

instances == <<state, nonce, queue, devState, devSols>>
gpuVars == <<pc, work, nNonce, currentInstance, readyInstance, instances, share, collected>>

NoHeader == [work |-> 0, nonce |-> 0]

Command == {"write", "solve"}

NoShare == [merkle |-> 0, hash |-> NoHeader, bignonce |-> 0, solves |-> NoHeader]

GpuTypeOK ==
    /\ pc \in {"top", "collect"}
    /\ work \in 0 .. MaxWork /\ nNonce \in 0 .. MaxNonce
    /\ currentInstance \in Instance
    /\ readyInstance \in -pipelinesNum .. pipelinesNum - 1
    /\ state \in [Instance -> Header] /\ nonce \in [Instance -> 0 .. MaxNonce]
    /\ queue \in [Instance -> Seq(Command)]
    /\ devState \in [Instance -> Header]
    /\ devSols \in [Instance -> SUBSET Header]
    /\ share \in [merkle : 0 .. MaxWork, hash : Header, bignonce : 0 .. MaxNonce,
                  solves : Header]
    /\ collected \subseteq Header

GpuInit ==
    /\ pc = "top"
    /\ work = 0 /\ nNonce = 0
    /\ currentInstance = 0 /\ readyInstance = -pipelinesNum
    /\ state = [i \in Instance |-> NoHeader]
    /\ nonce = [i \in Instance |-> 0]
    /\ queue = [i \in Instance |-> << >>]
    /\ devState = [i \in Instance |-> NoHeader]
    /\ devSols = [i \in Instance |-> {}]
    /\ share = NoShare
    /\ collected = {}

-----------------------------------------------------------------------------

ReadyOneEarlier == 1 - pipelinesNum                       \* mutated form

\* Lines 267 and 344: no instance is ready in the first iterations of a work.
NoneReady == -pipelinesNum

\* Lines 308-345.  What the instances are doing is left alone.
NewWork(w) ==
    /\ pc = "top" /\ w > work
    /\ work' = w /\ nNonce' = 0
    /\ currentInstance' = 0 /\ readyInstance' = NoneReady
    /\ UNCHANGED <<pc, instances, share, collected>>

\* Lines 348-376: the header is written, the counts are zeroed, the kernels of
\* the solver follow.
Launch(i) ==
    /\ state' = [state EXCEPT ![i] = [work |-> work, nonce |-> nNonce]]
    /\ nonce' = [nonce EXCEPT ![i] = nNonce]
    /\ queue' = [queue EXCEPT ![i] = @ \o <<"write", "solve">>]

AdvanceNoWrap ==                                          \* mutated form
    /\ nNonce < MaxNonce
    /\ nNonce' = nNonce + 1
    /\ currentInstance' = (currentInstance + 1) % pipelinesNum
    /\ readyInstance' = readyInstance + 1

\* Lines 450-453.
Advance ==
    /\ nNonce < MaxNonce
    /\ nNonce' = nNonce + 1
    /\ currentInstance' = (currentInstance + 1) % pipelinesNum
    /\ readyInstance' = IF readyInstance + 1 >= 0
                        THEN (readyInstance + 1) % pipelinesNum
                        ELSE readyInstance + 1

\* An iteration up to line 378, and all of it while no instance is ready.
Iterate ==
    /\ pc = "top" /\ work > 0
    /\ Launch(currentInstance)
    /\ IF readyInstance >= 0
       THEN /\ pc' = "collect"
            /\ UNCHANGED <<nNonce, currentInstance, readyInstance>>
       ELSE /\ Advance
            /\ UNCHANGED pc
    /\ UNCHANGED <<work, devState, devSols, share, collected>>

CollectAtOnce ==                                          \* mutated form
    /\ pc = "collect"
    /\ collected' = collected \cup devSols[readyInstance]
    /\ \/ \E sol \in devSols[readyInstance] :
             share' = [merkle |-> work, hash |-> [work |-> work, nonce |-> nNonce],
                       bignonce |-> nonce[readyInstance], solves |-> sol]
       \/ UNCHANGED share
    /\ pc' = "top"
    /\ Advance
    /\ UNCHANGED <<work, instances>>

\* Lines 379-449: wait for the ready instance, hash each solution that is not
\* duped with the header, send a share when the hash is small enough, perhaps
\* never.
Collect ==
    /\ pc = "collect"
    /\ queue[readyInstance] = << >>
    /\ collected' = collected \cup devSols[readyInstance]
    /\ \/ \E sol \in devSols[readyInstance] :
             share' = [merkle |-> work, hash |-> [work |-> work, nonce |-> nNonce],
                       bignonce |-> nonce[readyInstance], solves |-> sol]
       \/ UNCHANGED share
    /\ pc' = "top"
    /\ Advance
    /\ UNCHANGED <<work, instances>>

\* The device executes the next command of a queue.  The kernels append to the
\* solutions that are there.
Execute(i) ==
    /\ queue[i] # << >>
    /\ queue' = [queue EXCEPT ![i] = Tail(@)]
    /\ IF Head(queue[i]) = "write"
       THEN /\ devState' = [devState EXCEPT ![i] = state[i]]
            /\ devSols' = [devSols EXCEPT ![i] = {}]
       ELSE /\ devSols' = [devSols EXCEPT ![i] = @ \cup {devState[i]}]
            /\ UNCHANGED devState
    /\ UNCHANGED <<pc, work, nNonce, currentInstance, readyInstance, state, nonce,
                   share, collected>>

GpuNext ==
    \/ \E w \in Work : NewWork(w)
    \/ Iterate
    \/ Collect
    \/ \E i \in Instance : Execute(i)

GpuSpec == GpuInit /\ [][GpuNext]_gpuVars

-----------------------------------------------------------------------------

\* A share is of one piece: the solution solves the header whose hash was
\* compared with the target, the nonce is the one of that header, and the work
\* is the current one, however far the instances are behind.
ShareOfOnePiece ==
    share # NoShare =>
       /\ share.solves = share.hash
       /\ share.bignonce = share.hash.nonce
       /\ share.merkle = share.hash.work

\* The instance that is read is the one that has just been launched: a wait for
\* it is a wait for everything that was enqueued, so the instances never run
\* ahead and none is overwritten before it was read, but also none of the first
\* nonces of a work is ever read.
Collected(w) == {h.nonce : h \in {c \in collected : c.work = w}}

AllButTheFirstCollected ==
    pc = "top" /\ work > 0 => Collected(work) = pipelinesNum .. nNonce - 1

=============================================================================
