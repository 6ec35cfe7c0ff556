----------------------------- MODULE NonceSpace -----------------------------
(***************************************************************************)
(* How the mining threads share out the headers of a work, and what the    *)
(* device and the host make of them: the hashmod part of                   *)
(* PrimeMiner::Mining, xpmclient.cpp lines 434-449 and 452-534.            *)
(*                                                                         *)
(* The threads never talk to each other.  Each starts at the time of the   *)
(* work plus its own number, walks through the nonces in batches whose     *)
(* size depends on how many hashes it lacks, and steps the time by the     *)
(* number of threads when the nonces run out.  The device only returns the *)
(* nonces of the hashes it has found; one iteration later the host builds  *)
(* the headers again from what its own header holds by then.               *)
(*                                                                         *)
(* Works are numbered in the order they are published.  The merkle roots   *)
(* of two works are assumed to differ.                                     *)
(***************************************************************************)
EXTENDS NonceParameters, Sequences

Thread == 0 .. mThreads - 1

VARIABLES
    header,         \* blockheader of each thread; work 0 before the first
    batch,          \* what the device has been given and not been asked for
    rebuilt,        \* the header the host has built again in the last step, if any
    hashed          \* ghost: the batches each thread has ever dispatched, in order

nonceVars == <<header, batch, rebuilt, hashed>>

Nonce == 0 .. 2 * HalfWord - 1
BlockHeader == [work : 0 .. LastWork, time : Nat, nonce : Nonce]
Batch == [work : 0 .. LastWork, time : Nat, first : Nonce, size : Nat]
NoBatch == [work |-> 0, time |-> 0, first |-> 0, size |-> 0]
NothingRebuilt == [device |-> NoBatch, nonce |-> 0, host |-> [work |-> 0, time |-> 0, nonce |-> 0]]

NonceTypeOK ==
    /\ header \in [Thread -> BlockHeader]
    /\ batch \in [Thread -> Batch]
    /\ rebuilt \in [device : Batch, nonce : Nonce, host : BlockHeader]
    /\ hashed \in [Thread -> Seq(Batch)]

NonceInit ==
    /\ header = [t \in Thread |-> [work |-> 0, time |-> 0, nonce |-> 0]]
    /\ batch = [t \in Thread |-> NoBatch]
    /\ rebuilt = NothingRebuilt
    /\ hashed = [t \in Thread |-> << >>]

\* Lines 435-440.
FirstHeader(t, w) == [work |-> w, time |-> WorkTime[w] + t, nonce |-> 1]

StartWorkKeepsBatch(t, w) ==                                \* mutated form
    /\ w > header[t].work
    /\ header' = [header EXCEPT ![t] = FirstHeader(t, w)]
    /\ rebuilt' = NothingRebuilt
    /\ UNCHANGED <<batch, hashed>>

\* Lines 417-449: a new work starts a new header, and what the device has found
\* for the old one is dropped.  A thread may skip works.
StartWork(t, w) ==
    /\ w > header[t].work
    /\ header' = [header EXCEPT ![t] = FirstHeader(t, w)]
    /\ batch' = [batch EXCEPT ![t] = NoBatch]
    /\ rebuilt' = NothingRebuilt
    /\ UNCHANGED hashed

\* Lines 455-484: the header of a nonce that was found, on the host.
Fetch(t) ==
    /\ batch[t] # NoBatch
    /\ \E n \in batch[t].first .. batch[t].first + batch[t].size - 1 :
          rebuilt' = [device |-> batch[t], nonce |-> n,
                      host   |-> [header[t] EXCEPT !.nonce = n]]
    /\ UNCHANGED <<header, batch, hashed>>

\* Lines 515-518: numhash, when `missing' hashes are missing.
NumHash(missing) == missing * Unit + mLSize - ((missing * Unit) % mLSize)

NextTimeByOne(h) ==                                       \* mutated form
    IF h.nonce > HalfWord THEN [h EXCEPT !.time = @ + 1, !.nonce = 1] ELSE h

NextTimeKeepsNonce(h) ==                                  \* mutated form
    IF h.nonce > HalfWord THEN [h EXCEPT !.time = @ + mThreads] ELSE h

NextTimeAtEnd(h) ==                                       \* mutated form
    IF h.nonce >= 2 * HalfWord - 1
    THEN [h EXCEPT !.time = @ + mThreads, !.nonce = 1] ELSE h

\* Lines 519-523.
NextTime(h) ==
    IF h.nonce > HalfWord THEN [h EXCEPT !.time = @ + mThreads, !.nonce = 1] ELSE h

\* Lines 515-534, when `missing' hashes are missing, and the fetch of what was
\* found before, which always comes first.
Dispatch(t, missing) ==
    /\ header[t].work > 0
    /\ LET h    == NextTime(header[t])
           size == NumHash(missing)
       IN  /\ h.time <= MaxTime
           /\ batch' = [batch EXCEPT ![t] = [work |-> h.work, time |-> h.time,
                                             first |-> h.nonce, size |-> size]]
           /\ header' = [header EXCEPT ![t] = [h EXCEPT !.nonce = @ + size]]
           /\ hashed' = [hashed EXCEPT ![t] = Append(@, batch'[t])]
    /\ rebuilt' = NothingRebuilt

\* No hash is missing: nothing is dispatched, and nothing will be found.
DispatchNothing(t) ==
    /\ batch' = [batch EXCEPT ![t] = NoBatch]
    /\ rebuilt' = NothingRebuilt
    /\ UNCHANGED <<header, hashed>>

NonceNext ==
    \E t \in Thread :
       \/ \E w \in 1 .. LastWork : StartWork(t, w)
       \/ Fetch(t)
       \/ \E missing \in 1 .. Capacity : Dispatch(t, missing)
       \/ DispatchNothing(t)

NonceSpec == NonceInit /\ [][NonceNext]_nonceVars

-----------------------------------------------------------------------------

\* No header is hashed twice, by one thread or by two: batches of the same work
\* and the same time have no nonce in common.
Overlap(a, b) ==
    /\ a.work = b.work /\ a.time = b.time
    /\ a.first < b.first + b.size /\ b.first < a.first + a.size

NoHeaderTwice ==
    \A t, u \in Thread : \A i \in DOMAIN hashed[t], j \in DOMAIN hashed[u] :
       <<t, i>> # <<u, j>> => ~Overlap(hashed[t][i], hashed[u][j])

\* A batch never runs over the end of the 32 bit nonce: the test of the nonce
\* comes before the size of the batch is added to it.
NonceFits ==
    \A t \in Thread : \A i \in DOMAIN hashed[t] :
       hashed[t][i].first + hashed[t][i].size - 1 \in Nonce

\* The header that the host hashes again is the one in which the device has found
\* the nonce, although the work or the time may have changed since.
RebuiltAsFound ==
    /\ rebuilt.host.work = rebuilt.device.work
    /\ rebuilt.host.time = rebuilt.device.time
=============================================================================
