------------------------------- MODULE MergeTxn -------------------------------
(***************************************************************************)
(* The I/O of one DdlRT_LRC merge: the coordinator asks one datanode per   *)
(* parity j to combine the old parities A_j and B_j into M_j, commits the  *)
(* merged stripe when all of them answered, and cleans up through a proxy: *)
(* the new blocks after a failure, the old ones after the commit.          *)
(*                                                                         *)
(* The operator may ask again after a failure; the new block keys are a    *)
(* function of the pair and the round, so every attempt writes the same    *)
(* files.  An RPC that fails at the coordinator (deadline or transport)    *)
(* does not stop its handler.  DdlrtMerge shows that the migration list is *)
(* empty, and that A_j and B_j are on the same datanode.                   *)
(***************************************************************************)
EXTENDS Naturals

CONSTANTS ParityNum,     \* r + z, the parities of a stripe
          MaxAttempts,   \* bound: merge requests for this pair
          Readers,       \* threads that repair or read with the stripe's parity
          PatientRetry   \* does the operator wait for what a failed attempt
                         \* left running before asking again?

ASSUME ConstantsAssumption ==
    /\ ParityNum \in Nat \ {0}
    /\ MaxAttempts \in Nat
    /\ PatientRetry \in BOOLEAN

Parities == 1..ParityNum
Attempts == 1..MaxAttempts
Handlers == Attempts \X Parities
Keys     == {"A", "B", "M"} \X Parities
NoKey    == <<"none", 0>>

VARIABLES
    merged,   \* the stripe table holds the merged stripe, not the pair
    request,  \* what the client knows: "none", "pending", "failed", "succeeded"
    coord,    \* mergeStripesDdlrtLrc: "idle", "computing" or "cleanup"
    attempt,  \* number of the current or last attempt
    rpc,      \* per parity: the attempt's RPC, "waiting", "ok" or "failed"
    files,    \* the block files: "absent", "partial", "good" or "bad"
    step,     \* where each handleStripeMergeParity call is
    buf,      \* what it has read so far: "good" or "bad"
    undo,     \* per attempt: next item of its clean-up of new blocks, 0 if none
    purge,    \* next item of the clean-up of old blocks, 0 if none
    want,     \* per reader: the key it looked up
    got       \* per reader: "none", or what the datanode sent: "good", "bad"

coordVars  == <<merged, request, coord, attempt, rpc>>
sweepVars  == <<undo, purge>>
readerVars == <<want, got>>
vars == <<coordVars, files, step, buf, sweepVars, readerVars>>

Busy(h) == step[h] \notin {"none", "ended"}
Quiet   == /\ \A h \in Handlers : ~Busy(h)
           /\ \A t \in Attempts : undo[t] = 0

Init ==
    /\ merged = FALSE /\ request = "none" /\ coord = "idle" /\ attempt = 0
    /\ rpc = [j \in Parities |-> "ok"]
    /\ files = [f \in Keys |-> IF f[1] = "M" THEN "absent" ELSE "good"]
    /\ step = [h \in Handlers |-> "none"]
    /\ buf = [h \in Handlers |-> "bad"]
    /\ undo = [t \in Attempts |-> 0] /\ purge = 0
    /\ want = [r \in Readers |-> NoKey] /\ got = [r \in Readers |-> "none"]

-----------------------------------------------------------------------------
(***************************************************************************)
(* mergeStripesDdlrtLrc, which holds m_mutex from here to its answer.  A   *)
(* request for a pair that is already merged is refused: not modelled.     *)
(***************************************************************************)
StartMerge ==
    /\ coord = "idle" /\ ~merged /\ attempt < MaxAttempts
    /\ PatientRetry => Quiet
    /\ coord' = "computing" /\ request' = "pending" /\ attempt' = attempt + 1
    /\ rpc' = [j \in Parities |-> "waiting"]
    /\ step' = [h \in Handlers |-> IF h[1] = attempt + 1 THEN "sent" ELSE step[h]]
    /\ UNCHANGED <<merged, files, buf, sweepVars, readerVars>>

(***************************************************************************)
(* The deadline of 3 * MERGE_GRPC_TCP_TIMEOUT_SEC, or a broken connection. *)
(***************************************************************************)
RpcFails(j) ==
    /\ coord = "computing" /\ rpc[j] = "waiting"
    /\ rpc' = [rpc EXCEPT ![j] = "failed"]
    /\ UNCHANGED <<merged, request, coord, attempt, files, step, buf, sweepVars, readerVars>>

Commit_AnyOk ==
    /\ coord = "computing" /\ \A j \in Parities : rpc[j] # "waiting"
    /\ \E j \in Parities : rpc[j] = "ok"
    /\ merged' = TRUE /\ coord' = "cleanup" /\ purge' = 1
    /\ UNCHANGED <<request, attempt, rpc, files, step, buf, undo, readerVars>>

Commit ==
    /\ coord = "computing" /\ \A j \in Parities : rpc[j] = "ok"
    /\ merged' = TRUE /\ coord' = "cleanup" /\ purge' = 1
    /\ UNCHANGED <<request, attempt, rpc, files, step, buf, undo, readerVars>>

Rollback_AllFailed ==
    /\ coord = "computing" /\ \A j \in Parities : rpc[j] = "failed"
    /\ coord' = "cleanup" /\ undo' = [undo EXCEPT ![attempt] = 1]
    /\ UNCHANGED <<merged, request, attempt, rpc, files, step, buf, purge, readerVars>>

Rollback ==
    /\ coord = "computing"
    /\ \A j \in Parities : rpc[j] # "waiting"
    /\ \E j \in Parities : rpc[j] = "failed"
    /\ coord' = "cleanup" /\ undo' = [undo EXCEPT ![attempt] = 1]
    /\ UNCHANGED <<merged, request, attempt, rpc, files, step, buf, purge, readerVars>>

Answer_Optimistic ==
    /\ coord' = "idle"
    /\ request' = "succeeded"
    /\ UNCHANGED <<merged, attempt, rpc, files, step, buf, sweepVars, readerVars>>

(***************************************************************************)
(* The answer to the client, once the cleanupBlocks RPC returned           *)
(* (CleanupReturns) or broke (CleanupBreaks); its status is not looked at. *)
(***************************************************************************)
Answer ==
    /\ coord' = "idle"
    /\ request' = IF merged THEN "succeeded" ELSE "failed"
    /\ UNCHANGED <<merged, attempt, rpc, files, step, buf, sweepVars, readerVars>>

SweepOver == undo[attempt] = 0 /\ purge = 0
CleanupReturns == coord = "cleanup" /\ SweepOver /\ Answer
CleanupBreaks  == coord = "cleanup" /\ ~SweepOver /\ Answer

-----------------------------------------------------------------------------
(***************************************************************************)
(* handleStripeMergeParity on the datanode of parity h[2].  The existence  *)
(* checks and the reads are separate steps; the result of a read is not    *)
(* checked, so a file gone in between leaves the buffer uninitialised.     *)
(***************************************************************************)
GoTo(h, s) == step' = [step EXCEPT ![h] = s]

CheckFile(h, kind, next) ==
    /\ GoTo(h, IF files[<<kind, h[2]>>] = "absent" THEN "refuse" ELSE next)
    /\ UNCHANGED <<coordVars, files, buf, sweepVars, readerVars>>

CheckA(h) == step[h] = "sent" /\ CheckFile(h, "A", "readA")

ReadA(h) ==
    /\ step[h] = "readA" /\ GoTo(h, "checkB")
    /\ buf' = [buf EXCEPT ![h] = IF files[<<"A", h[2]>>] = "good" THEN "good" ELSE "bad"]
    /\ UNCHANGED <<coordVars, files, sweepVars, readerVars>>

(***************************************************************************)
(* B_j is on the same datanode: when it is not found the remote read that  *)
(* follows asks this datanode again, and the call is refused.              *)
(***************************************************************************)
CheckB(h) == step[h] = "checkB" /\ CheckFile(h, "B", "readB")

ReadB(h) ==
    /\ step[h] = "readB" /\ GoTo(h, "truncate")
    /\ buf' = [buf EXCEPT ![h] =
                 IF buf[h] = "good" /\ files[<<"B", h[2]>>] = "good" THEN "good" ELSE "bad"]
    /\ UNCHANGED <<coordVars, files, sweepVars, readerVars>>

Truncate_InPlace(h) ==
    /\ step[h] = "truncate" /\ GoTo(h, "write")
    /\ files' = [files EXCEPT ![<<"A", h[2]>>] = "partial"]
    /\ UNCHANGED <<coordVars, buf, sweepVars, readerVars>>

Truncate(h) ==
    /\ step[h] = "truncate" /\ GoTo(h, "write")
    /\ files' = [files EXCEPT ![<<"M", h[2]>>] = "partial"]
    /\ UNCHANGED <<coordVars, buf, sweepVars, readerVars>>

Write(h) ==
    /\ step[h] = "write" /\ GoTo(h, "answer")
    /\ files' = [files EXCEPT ![<<"M", h[2]>>] = buf[h]]
    /\ UNCHANGED <<coordVars, buf, sweepVars, readerVars>>

(***************************************************************************)
(* The file was removed after it was opened: the write reaches no file.    *)
(***************************************************************************)
WriteUnlinked(h) ==
    /\ step[h] = "unlinked" /\ GoTo(h, "answer")
    /\ UNCHANGED <<coordVars, files, buf, sweepVars, readerVars>>

HandlerAnswers_AnyAttempt(h) ==
    /\ step[h] \in {"answer", "refuse"} /\ GoTo(h, "ended")
    /\ rpc' = IF coord = "computing" /\ rpc[h[2]] = "waiting"
              THEN [rpc EXCEPT ![h[2]] = IF step[h] = "answer" THEN "ok" ELSE "failed"]
              ELSE rpc
    /\ UNCHANGED <<merged, request, coord, attempt, files, buf, sweepVars, readerVars>>

(***************************************************************************)
(* The answer counts only if the coordinator still waits for this call.    *)
(***************************************************************************)
HandlerAnswers(h) ==
    /\ step[h] \in {"answer", "refuse"} /\ GoTo(h, "ended")
    /\ rpc' = IF h[1] = attempt /\ coord = "computing" /\ rpc[h[2]] = "waiting"
              THEN [rpc EXCEPT ![h[2]] = IF step[h] = "answer" THEN "ok" ELSE "failed"]
              ELSE rpc
    /\ UNCHANGED <<merged, request, coord, attempt, files, buf, sweepVars, readerVars>>

(***************************************************************************)
(* The call never reaches the datanode, or the datanode goes down with     *)
(* every call it is serving; its files stay as they are.                   *)
(***************************************************************************)
RequestLost(h) ==
    /\ step[h] = "sent" /\ GoTo(h, "ended")
    /\ UNCHANGED <<coordVars, files, buf, sweepVars, readerVars>>

DatanodeCrash(j) ==
    /\ \E t \in Attempts : Busy(<<t, j>>)
    /\ step' = [h \in Handlers |-> IF h[2] = j /\ Busy(h) THEN "ended" ELSE step[h]]
    /\ UNCHANGED <<coordVars, files, buf, sweepVars, readerVars>>

-----------------------------------------------------------------------------
(***************************************************************************)
(* cleanupBlocks on the proxy of the parity rack: one delete after the     *)
(* other, going on when a datanode does not answer (DelInDatanode returns  *)
(* true whatever happens).  It runs to its end even if the coordinator's   *)
(* RPC broke.  New blocks are listed as M_1, M_2, ..., old ones as         *)
(* A_1, B_1, A_2, ...                                                      *)
(***************************************************************************)
UndoKey_Old(i) == <<"A", i>>

UndoKey(i)  == <<"M", i>>
PurgeKey(i) == <<IF i % 2 = 1 THEN "A" ELSE "B", (i + 1) \div 2>>

(***************************************************************************)
(* remove() on a file a handler has open for writing unlinks it.           *)
(***************************************************************************)
Remove(f) ==
    /\ files' = [files EXCEPT ![f] = "absent"]
    /\ step' = [h \in Handlers |->
                  IF f = <<"M", h[2]>> /\ step[h] = "write" THEN "unlinked" ELSE step[h]]

NodeUnreachable == UNCHANGED <<files, step>>

UndoNext(t) ==
    /\ undo[t] # 0
    /\ Remove(UndoKey(undo[t])) \/ NodeUnreachable
    /\ undo' = [undo EXCEPT ![t] = IF undo[t] = ParityNum THEN 0 ELSE undo[t] + 1]
    /\ UNCHANGED <<coordVars, buf, purge, readerVars>>

PurgeNext_Overrun ==
    /\ purge # 0
    /\ Remove(PurgeKey(purge)) \/ NodeUnreachable
    /\ purge' = IF purge > 2 * ParityNum THEN 0 ELSE purge + 1
    /\ UNCHANGED <<coordVars, buf, undo, readerVars>>

PurgeNext ==
    /\ purge # 0
    /\ Remove(PurgeKey(purge)) \/ NodeUnreachable
    /\ purge' = IF purge = 2 * ParityNum THEN 0 ELSE purge + 1
    /\ UNCHANGED <<coordVars, buf, undo, readerVars>>

(***************************************************************************)
(* The proxy goes down, or was not reachable in the first place.           *)
(***************************************************************************)
ProxyCrash ==
    /\ purge # 0 \/ \E t \in Attempts : undo[t] # 0
    /\ undo' = [t \in Attempts |-> 0] /\ purge' = 0
    /\ UNCHANGED <<coordVars, files, step, buf, readerVars>>

-----------------------------------------------------------------------------
(***************************************************************************)
(* Repairs and degraded reads look a parity's key up in the stripe table   *)
(* without m_mutex, and fetch the block later.  handleGet sends its        *)
(* uninitialised buffer when the file is not there, and reports success.   *)
(***************************************************************************)
LookUp(rd) ==
    /\ \E f \in Keys : /\ merged <=> f[1] = "M"
                       /\ want' = [want EXCEPT ![rd] = f]
    /\ got' = [got EXCEPT ![rd] = "none"]
    /\ UNCHANGED <<coordVars, files, step, buf, sweepVars>>

Fetch(rd) ==
    /\ want[rd] # NoKey /\ got[rd] = "none"
    /\ got' = [got EXCEPT ![rd] = IF files[want[rd]] = "good" THEN "good" ELSE "bad"]
    /\ UNCHANGED <<coordVars, files, step, buf, sweepVars, want>>

-----------------------------------------------------------------------------
Coordinator == \/ StartMerge \/ Commit \/ Rollback
               \/ CleanupReturns \/ CleanupBreaks
               \/ \E j \in Parities : RpcFails(j)

Handler(h) == \/ CheckA(h) \/ ReadA(h) \/ CheckB(h) \/ ReadB(h)
              \/ Truncate(h) \/ Write(h) \/ WriteUnlinked(h)
              \/ HandlerAnswers(h) \/ RequestLost(h)

Next == \/ Coordinator
        \/ \E h \in Handlers : Handler(h)
        \/ \E j \in Parities : DatanodeCrash(j)
        \/ \E t \in Attempts : UndoNext(t)
        \/ PurgeNext \/ ProxyCrash
        \/ \E rd \in Readers : LookUp(rd) \/ Fetch(rd)

Spec == Init /\ [][Next]_vars

(***************************************************************************)
(* The coordinator's thread runs, every parity RPC ends by its deadline,   *)
(* and the proxy works its list off (cleanupBlocks and handleDelete are    *)
(* called without a deadline: a datanode that hangs is not modelled).      *)
(* Nothing is assumed of the handlers, of the operator or of the readers.  *)
(***************************************************************************)
Fairness ==
    /\ WF_vars(Commit) /\ WF_vars(Rollback) /\ WF_vars(CleanupReturns)
    /\ \A j \in Parities : WF_vars(RpcFails(j))
    /\ \A t \in Attempts : WF_vars(UndoNext(t))
    /\ WF_vars(PurgeNext)

FairSpec == Spec /\ Fairness

-----------------------------------------------------------------------------
FileStates == {"absent", "partial", "good", "bad"}
Steps == {"none", "sent", "readA", "checkB", "readB", "truncate", "write",
          "unlinked", "answer", "refuse", "ended"}

(***************************************************************************)
(* Every variable stays in its range; in particular the clean-up counters  *)
(* never run past their lists.                                             *)
(***************************************************************************)
TypeOK ==
    /\ merged \in BOOLEAN
    /\ request \in {"none", "pending", "failed", "succeeded"}
    /\ coord \in {"idle", "computing", "cleanup"}
    /\ attempt \in 0..MaxAttempts
    /\ rpc \in [Parities -> {"waiting", "ok", "failed"}]
    /\ files \in [Keys -> FileStates]
    /\ step \in [Handlers -> Steps]
    /\ buf \in [Handlers -> {"good", "bad"}]
    /\ undo \in [Attempts -> 0..ParityNum]
    /\ purge \in 0..(2 * ParityNum)
    /\ want \in [Readers -> Keys \cup {NoKey}]
    /\ got \in [Readers -> {"none", "good", "bad"}]

(***************************************************************************)
(* As long as the table names the pair, every old parity is there and      *)
(* right, whatever failed, crashed or is being cleaned up: a failed merge  *)
(* can always be asked for again.                                          *)
(***************************************************************************)
SourcesKept ==
    ~merged => \A j \in Parities : files[<<"A", j>>] = "good" /\ files[<<"B", j>>] = "good"

(***************************************************************************)
(* Once the table names the merged stripe, every new parity is there and   *)
(* right, and stays so: no call, clean-up or crash left over from a failed *)
(* attempt takes it away, provided retries are patient.                    *)
(***************************************************************************)
MergedSound ==
    merged => \A j \in Parities : files[<<"M", j>>] = "good"

(***************************************************************************)
(* A commit rests on this attempt's own calls: each of them has read both  *)
(* old parities and written its result.  The answer of a call an earlier   *)
(* attempt gave up on never stands in for one of them, however late.       *)
(***************************************************************************)
CommitEarned ==
    [][merged' # merged =>
         \A j \in Parities : /\ step[<<attempt, j>>] = "ended"
                             /\ buf[<<attempt, j>>] = "good"]_vars

(***************************************************************************)
(* A repair or degraded read is given something else than the parity only  *)
(* if a merge committed between its look-up and its read.                  *)
(***************************************************************************)
BadReadsOvertaken ==
    \A rd \in Readers : got[rd] = "bad" => merged /\ want[rd][1] \in {"A", "B"}

(***************************************************************************)
(* The coordinator answers every merge request, whatever fails.            *)
(***************************************************************************)
EveryRequestAnswered == (request = "pending") ~> (request # "pending")

(***************************************************************************)
(* The merge is atomic for its client and for the readers of the table.    *)
(***************************************************************************)
Intact ==
    \A j \in Parities :
        IF merged THEN files[<<"M", j>>] = "good"
        ELSE files[<<"A", j>>] = "good" /\ files[<<"B", j>>] = "good"

Atomic == INSTANCE AtomicMerge WITH intact <- Intact

ImplementsAtomicMerge == Atomic!Spec

-----------------------------------------------------------------------------
(***************************************************************************)
(* What the client tells the operator after a failure ("You can retry from *)
(* the current stripe set after checking logs", client.cpp, start_merge):  *)
(* retrying is safe.  Asked of an operator who retries at once.            *)
(***************************************************************************)
RetrySound ==
    request = "succeeded" /\ attempt > 1 =>
        \A j \in Parities : files[<<"M", j>>] = "good"

(***************************************************************************)
(* recovery_one_block "uses the surviving data in the same local group     *)
(* plus that group's local parity" (comment in coordinator.cpp): what a    *)
(* repair is given for the parity is the parity.                           *)
(***************************************************************************)
RepairUsesParity == \A rd \in Readers : got[rd] # "bad"
=============================================================================
