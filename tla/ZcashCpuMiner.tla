--------------------------- MODULE ZcashCpuMiner ---------------------------
(***************************************************************************)
(* The ZCash miner on the CPU, zcashcpuclient.cpp: the main thread         *)
(* publishes a work and then sets _cancel, the mining thread solves one    *)
(* nonce after the other and gives up the solver at the next test of       *)
(* _cancel.                                                                *)
(*                                                                         *)
(* The flag is a plain bool that both threads write: the main thread sets  *)
(* it in TakeWork after the work has been published, the mining thread     *)
(* clears it when it has taken a work.  How blocks and works are paired is *)
(* the business of MiningWorker; here works are numbered, and an iteration *)
(* takes one of them, or more when a block comes in between, as there.     *)
(***************************************************************************)
EXTENDS ZcashParameters, Sequences

CONSTANTS
    MaxQueue,       \* bound: works waiting in the subscription
    Unsupported     \* the works whose n and k EhInitialiseState does not know

VARIABLES
    mpc,            \* main thread: "idle", or "cancel" within TakeWork
    published,      \* the last work published
    worksub,        \* works waiting in the subscription
    _cancel,        \* ZCashMiner::_cancel
    cpuPc,          \* the mining thread, see PCs
    cpuHeader,      \* header.data and header.nNonce
    current_sha,    \* what current_sha has absorbed
    \* ghosts
    judged,         \* the last solution judged, and the bytes that were hashed
    late            \* a call of cancel() came after its work had been taken

mainVars == <<mpc, published>>
cpuVars == <<mainVars, worksub, _cancel, cpuPc, cpuHeader, current_sha, judged, late>>

PCs == {"top",      \* lines 77-100
        "nonce",    \* lines 131-136
        "solve",    \* within EhOptimisedSolve
        "stopped",  \* the thread has ended
        "aborted"}  \* an exception has left the thread and ended the program

Bytes == [header : Header, then : {"nothing", "remains"}]
HeaderOnly == [header |-> cpuHeader, then |-> "nothing"]
NoneJudged == [header |-> [work |-> 0, nonce |-> 0], hashed |-> "nothing"]

CpuTypeOK ==
    /\ mpc \in {"idle", "cancel"} /\ published \in 0 .. MaxWork
    /\ worksub \in Seq(Work) /\ _cancel \in BOOLEAN
    /\ cpuPc \in PCs /\ cpuHeader \in Header
    /\ current_sha \in Bytes
    /\ judged \in [header : Header, hashed : {"nothing", "header", "remains"}]
    /\ late \in BOOLEAN

CpuInit ==
    /\ mpc = "idle" /\ published = 0
    /\ worksub = << >> /\ _cancel = FALSE
    /\ cpuPc = "top" /\ cpuHeader = [work |-> 0, nonce |-> 0]
    /\ current_sha = HeaderOnly
    /\ judged = NoneJudged
    /\ late = FALSE

-----------------------------------------------------------------------------
(* The main thread.                                                        *)

\* Line 225: the work is on its way to the thread.
TakeWork ==
    /\ cpuPc # "aborted" /\ mpc = "idle"
    /\ published < MaxWork /\ Len(worksub) < MaxQueue
    /\ published' = published + 1
    /\ worksub' = Append(worksub, published')
    /\ mpc' = "cancel"
    /\ UNCHANGED <<_cancel, cpuPc, cpuHeader, current_sha, judged, late>>

\* Lines 226-227, once per work.
Cancel ==
    /\ cpuPc # "aborted" /\ mpc = "cancel"
    /\ _cancel' = TRUE
    /\ late' = (late \/ cpuHeader.work = published)
    /\ mpc' = "idle"
    /\ UNCHANGED <<published, worksub, cpuPc, cpuHeader, current_sha, judged>>

-----------------------------------------------------------------------------
(* The mining thread.                                                      *)

TakeKeepsFlag ==                                          \* mutated form
    /\ cpuPc = "top"
    /\ \E k \in 1 .. Len(worksub) :
          /\ worksub' = SubSeq(worksub, k + 1, Len(worksub))
          /\ IF worksub[k] \in Unsupported
             THEN cpuPc' = "aborted" /\ UNCHANGED <<cpuHeader, _cancel, late>>
             ELSE /\ cpuHeader' = [work |-> worksub[k], nonce |-> 0]
                  /\ UNCHANGED _cancel /\ late' = FALSE
                  /\ cpuPc' = "nonce"
    /\ UNCHANGED <<mainVars, current_sha, judged>>

\* Lines 83-100 and 104-128: the last of the works taken makes the header, and
\* the flag is cleared, late calls included.  Unknown n and k throw outside of
\* the try.
Take ==
    /\ cpuPc = "top"
    /\ \E k \in 1 .. Len(worksub) :
          /\ worksub' = SubSeq(worksub, k + 1, Len(worksub))
          /\ IF worksub[k] \in Unsupported
             THEN cpuPc' = "aborted" /\ UNCHANGED <<cpuHeader, _cancel, late>>
             ELSE /\ cpuHeader' = [work |-> worksub[k], nonce |-> 0]
                  /\ _cancel' = FALSE /\ late' = FALSE
                  /\ cpuPc' = "nonce"
    /\ UNCHANGED <<mainVars, current_sha, judged>>

\* Without a work in the subscription the thread goes on with the one it has.
GoOn ==
    /\ cpuPc = "top" /\ worksub = << >> /\ cpuHeader.work > 0
    /\ cpuPc' = "nonce"
    /\ UNCHANGED <<mainVars, worksub, _cancel, cpuHeader, current_sha, judged, late>>

\* Lines 131-136: the two hash states of this nonce, copied from those of the
\* header.
StartNonce ==
    /\ cpuPc = "nonce"
    /\ current_sha' = HeaderOnly
    /\ cpuPc' = "solve"
    /\ UNCHANGED <<mainVars, worksub, _cancel, cpuHeader, judged, late>>

NextNonce ==
    /\ cpuHeader.nonce < MaxNonce
    /\ cpuHeader' = [cpuHeader EXCEPT !.nonce = @ + 1]
    /\ cpuPc' = "top"

\* The solver has found nothing that is a block, line 167.
EndNonce ==
    /\ cpuPc = "solve"
    /\ NextNonce
    /\ UNCHANGED <<mainVars, worksub, _cancel, current_sha, judged, late>>

\* A test of the flag in the solver throws, lines 156-167.
Cancelled ==
    /\ cpuPc = "solve" /\ _cancel
    /\ NextNonce
    /\ UNCHANGED <<mainVars, worksub, _cancel, current_sha, judged, late>>

\* Lines 138-154, called for every solution of the nonce: the first leaves in
\* current_sha what remains of the hash of the hash.  A hash above the target
\* lets the solver go on, else the thread ends (line 162): it has said so on the
\* console, and has sent no share.
validBlock ==
    /\ cpuPc = "solve"
    /\ judged' = [header |-> cpuHeader,
                  hashed |-> IF current_sha = HeaderOnly
                             THEN "header" ELSE "remains"]
    /\ current_sha' = [header |-> cpuHeader, then |-> "remains"]
    /\ cpuPc' = "stopped" \/ UNCHANGED cpuPc
    /\ UNCHANGED <<mainVars, worksub, _cancel, cpuHeader, late>>

CpuNext ==
    \/ TakeWork \/ Cancel
    \/ Take \/ GoOn \/ StartNonce \/ EndNonce \/ Cancelled \/ validBlock

CpuSpec == CpuInit /\ [][CpuNext]_cpuVars

-----------------------------------------------------------------------------

\* A solver is given up only for a newer work: while the flag is set a work is
\* waiting, or about to be taken, that the header does not have yet.  The one
\* exception is the call of cancel() that comes late, when the thread has taken
\* the work already and cleared the flag: then every nonce of that work is given
\* up, until the next one.
GivenUpForNewerWork ==
    _cancel /\ ~late /\ cpuPc \in {"nonce", "solve"} => cpuHeader.work < published

\* The hash of a solution is that of its header: of the nonce being solved, not
\* of an earlier one, and with this solution only.  It holds of the first
\* solution of each nonce; later ones are hashed on top of what remains of the
\* first.
FirstSolutionHashedRight ==
    validBlock /\ (judged.header # cpuHeader) => judged'.hashed = "header"

\* Both, along every step.
CpuMinerRight == [][GivenUpForNewerWork' /\ FirstSolutionHashedRight]_cpuVars
=============================================================================
