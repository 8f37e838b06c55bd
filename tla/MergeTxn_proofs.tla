--------------------------- MODULE MergeTxn_proofs ---------------------------
(***************************************************************************)
(* Proofs about MergeTxn, for every number of parities, attempts and       *)
(* readers.                                                                *)
(***************************************************************************)
EXTENDS MergeTxn, TLAPS

(***************************************************************************)
(* Handlers are pairs; their components can be taken apart.                *)
(***************************************************************************)
LEMMA HandlerPairs ==
    \A h \in Handlers : /\ h[1] \in Attempts /\ h[2] \in Parities
                        /\ h = <<h[1], h[2]>>
  BY DEF Handlers

(***************************************************************************)
(* A block key is a kind and a parity.                                     *)
(***************************************************************************)
LEMMA KeyPairs ==
    \A j \in Parities : /\ <<"A", j>> \in Keys
                        /\ <<"B", j>> \in Keys
                        /\ <<"M", j>> \in Keys
  BY DEF Keys

-----------------------------------------------------------------------------
(***************************************************************************)
(* Types.                                                                  *)
(***************************************************************************)
(***************************************************************************)
(* The initial values are in range.                                        *)
(***************************************************************************)
LEMMA TypeInit == Init => TypeOK
  <1> SUFFICES ASSUME Init PROVE TypeOK
    OBVIOUS
  <1>1. files \in [Keys -> FileStates] /\ step \in [Handlers -> Steps]
    BY DEF Init, Steps, FileStates
  <1>2. undo \in [Attempts -> 0..ParityNum] /\ purge \in 0..(2 * ParityNum)
    BY ConstantsAssumption DEF Init
  <1>3. want \in [Readers -> Keys \cup {NoKey}]
    BY DEF Init
  <1>4. attempt \in 0..MaxAttempts
    BY ConstantsAssumption DEF Init
  <1>5. /\ rpc \in [Parities -> {"waiting", "ok", "failed"}]
        /\ buf \in [Handlers -> {"good", "bad"}]
        /\ got \in [Readers -> {"none", "good", "bad"}]
    BY DEF Init
  <1>6. /\ merged \in BOOLEAN
        /\ request \in {"none", "pending", "failed", "succeeded"}
        /\ coord \in {"idle", "computing", "cleanup"}
    BY DEF Init
  <1> QED
    BY <1>1, <1>2, <1>3, <1>4, <1>5, <1>6 DEF TypeOK

(***************************************************************************)
(* Every step of the coordinator, a datanode, the proxy or a reader keeps  *)
(* the variables in range.                                                 *)
(***************************************************************************)
LEMMA TypeNext == TypeOK /\ [Next]_vars => TypeOK'
  <1> SUFFICES ASSUME TypeOK, [Next]_vars PROVE TypeOK'
    OBVIOUS
  <1> USE DEF TypeOK
  <1> USE DEF coordVars, sweepVars, readerVars
  <1>1. CASE StartMerge
    BY <1>1, ConstantsAssumption DEF StartMerge, Steps
  <1>2. CASE Commit
    <2>1. purge' \in 0..(2 * ParityNum)
      BY <1>2, ConstantsAssumption DEF Commit
    <2> QED
      BY <1>2, <2>1 DEF Commit
  <1>3. CASE Rollback
    <2>1. 1 \in 0..ParityNum
      BY ConstantsAssumption
    <2>2. undo' \in [Attempts -> 0..ParityNum]
      BY <1>3, <2>1 DEF Rollback
    <2> QED
      BY <1>3, <2>2 DEF Rollback
  <1>4. CASE Answer
    BY <1>4 DEF Answer
  <1>5. ASSUME NEW j \in Parities, RpcFails(j) PROVE TypeOK'
    BY <1>5 DEF RpcFails
  <1>6. ASSUME NEW h \in Handlers, Handler(h) PROVE TypeOK'
    <2>1. CASE CheckA(h) \/ CheckB(h) \/ RequestLost(h) \/ WriteUnlinked(h)
      BY <2>1 DEF CheckA, CheckB, RequestLost, WriteUnlinked, CheckFile, GoTo, Steps
    <2>2. CASE ReadA(h) \/ ReadB(h)
      BY <2>2 DEF ReadA, ReadB, GoTo, Steps
    <2>3. CASE Truncate(h) \/ Write(h)
      BY <2>3 DEF Truncate, Write, GoTo, Steps, FileStates
    <2>4. CASE HandlerAnswers(h)
      BY <2>4 DEF HandlerAnswers, GoTo, Steps
    <2> QED
      BY <1>6, <2>1, <2>2, <2>3, <2>4 DEF Handler
  <1>7. ASSUME NEW j \in Parities, DatanodeCrash(j) PROVE TypeOK'
    BY <1>7 DEF DatanodeCrash, Steps
  <1>8. ASSUME NEW t \in Attempts, UndoNext(t) PROVE TypeOK'
    <2>1. files' \in [Keys -> FileStates] /\ step' \in [Handlers -> Steps]
      BY <1>8 DEF UndoNext, Remove, NodeUnreachable, Steps, FileStates
    <2>2. undo' \in [Attempts -> 0..ParityNum]
      BY <1>8, ConstantsAssumption DEF UndoNext
    <2> QED
      BY <1>8, <2>1, <2>2 DEF UndoNext
  <1>9. CASE PurgeNext
    <2>1. files' \in [Keys -> FileStates] /\ step' \in [Handlers -> Steps]
      BY <1>9 DEF PurgeNext, Remove, NodeUnreachable, Steps, FileStates
    <2>2. purge' \in 0..(2 * ParityNum)
      BY <1>9, ConstantsAssumption DEF PurgeNext
    <2> QED
      BY <1>9, <2>1, <2>2 DEF PurgeNext
  <1>10. CASE ProxyCrash
    BY <1>10, ConstantsAssumption DEF ProxyCrash
  <1>11. ASSUME NEW rd \in Readers, LookUp(rd) \/ Fetch(rd) PROVE TypeOK'
    BY <1>11 DEF LookUp, Fetch
  <1>12. CASE UNCHANGED vars
    BY <1>12 DEF vars
  <1> QED
    BY <1>1, <1>2, <1>3, <1>4, <1>5, <1>6, <1>7, <1>8, <1>9, <1>10, <1>11, <1>12
    DEF Next, Coordinator, CleanupReturns, CleanupBreaks

(***************************************************************************)
(* Every variable stays in its range.                                      *)
(***************************************************************************)
THEOREM TypeCorrect == Spec => []TypeOK
  BY TypeInit, TypeNext, PTL DEF Spec
-----------------------------------------------------------------------------
(***************************************************************************)
(* What holds of every retry policy: the old parities outlive the pair,    *)
(* so whatever a handler reads before the commit is right, and an RPC that *)
(* counts as answered has a handler that came to its end.                  *)
(***************************************************************************)
HasRead(h) == step[h] \in {"checkB", "readB", "truncate", "write", "unlinked", "answer"}

OwnAnswers ==
    coord = "computing" =>
        \A j \in Parities : rpc[j] = "ok" => /\ step[<<attempt, j>>] = "ended"
                                            /\ buf[<<attempt, j>>] = "good"

ReadsGood == ~merged => \A h \in Handlers : HasRead(h) => buf[h] = "good"

Unborn == \A h \in Handlers : h[1] > attempt => step[h] = "none"

Basic ==
    /\ TypeOK
    /\ SourcesKept
    /\ purge # 0 => merged
    /\ coord = "computing" => ~merged /\ attempt \in Attempts
    /\ Unborn
    /\ ReadsGood
    /\ OwnAnswers

(***************************************************************************)
(* Before the first request the old parities are good and no call exists.  *)
(***************************************************************************)
LEMMA BasicInit == Init => Basic
  <1> SUFFICES ASSUME Init PROVE Basic
    OBVIOUS
  <1>1. TypeOK
    BY TypeInit
  <1>2. SourcesKept
    BY KeyPairs DEF Init, SourcesKept
  <1>3. Unborn /\ ReadsGood /\ OwnAnswers
    BY DEF Init, Unborn, ReadsGood, OwnAnswers, HasRead
  <1> QED
    BY <1>1, <1>2, <1>3 DEF Basic, Init

(***************************************************************************)
(* A step of a handler: what it reads is right before the commit, it       *)
(* writes new parities only, and its answer counts for its own attempt.    *)
(***************************************************************************)
LEMMA BasicHandler ==
    ASSUME Basic, NEW h \in Handlers, Handler(h)
    PROVE  SourcesKept' /\ Unborn' /\ ReadsGood' /\ OwnAnswers'
  <1> USE DEF coordVars, sweepVars, readerVars
  <1>0. /\ h[1] \in Attempts /\ h[2] \in Parities /\ h = <<h[1], h[2]>>
        /\ \A j \in Parities : <<attempt, j>> = h => h[1] = attempt /\ h[2] = j
    BY HandlerPairs
  <1>1. step[h] # "none" /\ step[h] # "ended" /\ UNCHANGED <<merged, coord, attempt>>
    BY DEF Handler, CheckA, ReadA, CheckB, ReadB, Truncate, Write, WriteUnlinked,
           HandlerAnswers, RequestLost, CheckFile
  <1>2. /\ step' = [step EXCEPT ![h] = step'[h]]
        /\ step \in [Handlers -> Steps]
    BY DEF Handler, CheckA, ReadA, CheckB, ReadB, Truncate, Write, WriteUnlinked,
           HandlerAnswers, RequestLost, CheckFile, GoTo, Basic, TypeOK
  <1>3. SourcesKept'
    <2>1. \A j \in Parities : /\ files'[<<"A", j>>] = files[<<"A", j>>]
                              /\ files'[<<"B", j>>] = files[<<"B", j>>]
      BY KeyPairs DEF Handler, CheckA, ReadA, CheckB, ReadB, Truncate, Write,
         WriteUnlinked, HandlerAnswers, RequestLost, CheckFile, Basic, TypeOK
    <2> QED
      BY <1>1, <2>1 DEF Basic, SourcesKept
  <1>4. Unborn'
    BY <1>1, <1>2 DEF Basic, Unborn
  <1>5. ReadsGood'
    <2>1. CASE ReadA(h) \/ ReadB(h)
      BY <1>0, <1>1, <2>1 DEF ReadA, ReadB, GoTo, Basic, TypeOK, ReadsGood, HasRead, SourcesKept
    <2>2. CASE CheckA(h) \/ CheckB(h)
      BY <1>1, <2>2 DEF CheckA, CheckB, CheckFile, GoTo, Basic, TypeOK, ReadsGood, HasRead
    <2>3. CASE Truncate(h) \/ Write(h) \/ WriteUnlinked(h)
      BY <1>1, <2>3 DEF Truncate, Write, WriteUnlinked, GoTo, Basic, TypeOK, ReadsGood, HasRead
    <2>4. CASE HandlerAnswers(h) \/ RequestLost(h)
      BY <1>1, <2>4 DEF HandlerAnswers, RequestLost, GoTo, Basic, TypeOK, ReadsGood, HasRead
    <2> QED
      BY <2>1, <2>2, <2>3, <2>4 DEF Handler
  <1>6. OwnAnswers'
    <2>1. CASE HandlerAnswers(h)
      <3> SUFFICES ASSUME coord' = "computing", NEW j \in Parities, rpc'[j] = "ok"
                   PROVE  step'[<<attempt, j>>] = "ended" /\ buf'[<<attempt, j>>] = "good"
        BY <1>1 DEF OwnAnswers
      <3>1. <<attempt, j>> \in Handlers
        BY <1>1 DEF Basic, Handlers
      <3>2. CASE rpc[j] = "ok"
        BY <1>1, <2>1, <3>1, <3>2 DEF HandlerAnswers, GoTo, Basic, TypeOK, OwnAnswers
      <3>3. CASE rpc[j] # "ok"
        <4>1. h = <<attempt, j>> /\ step[h] = "answer"
          BY <1>0, <2>1, <3>3 DEF HandlerAnswers, Basic, TypeOK
        <4>2. buf[h] = "good"
          BY <1>1, <4>1 DEF Basic, ReadsGood, HasRead
        <4> QED
          BY <2>1, <3>1, <4>1, <4>2 DEF HandlerAnswers, GoTo, Basic, TypeOK
      <3> QED
        BY <3>2, <3>3
    <2>2. CASE ~HandlerAnswers(h)
      <3>1. /\ rpc' = rpc
            /\ \A g \in Handlers : g # h => buf'[g] = buf[g]
        BY <2>2 DEF Handler, CheckA, ReadA, CheckB, ReadB, Truncate, Write,
           WriteUnlinked, RequestLost, CheckFile, Basic, TypeOK
      <3> SUFFICES ASSUME coord = "computing", NEW j \in Parities, rpc[j] = "ok"
                   PROVE  step'[<<attempt, j>>] = "ended" /\ buf'[<<attempt, j>>] = "good"
        BY <1>1, <3>1 DEF OwnAnswers
      <3>2. <<attempt, j>> \in Handlers /\ step[<<attempt, j>>] = "ended"
        BY DEF Basic, OwnAnswers, Handlers
      <3> QED
        BY <1>1, <1>2, <3>1, <3>2 DEF Basic, OwnAnswers
    <2> QED
      BY <2>1, <2>2
  <1> QED
    BY <1>3, <1>4, <1>5, <1>6

(***************************************************************************)
(* No step spoils an old parity before the commit, lends an answer to      *)
(* another attempt, or starts a call of an attempt that was not made.      *)
(***************************************************************************)
LEMMA BasicNext == Basic /\ [Next]_vars => Basic'
  <1> SUFFICES ASSUME Basic, [Next]_vars PROVE Basic'
    OBVIOUS
  <1> USE DEF coordVars, sweepVars, readerVars
  <1>0. TypeOK'
    BY TypeNext DEF Basic
  <1> DEFINE Rest == /\ SourcesKept
                     /\ purge # 0 => merged
                     /\ coord = "computing" => ~merged /\ attempt \in Attempts
                     /\ Unborn /\ ReadsGood /\ OwnAnswers
  <1> SUFFICES Rest'
    BY <1>0 DEF Basic
  <1>1. CASE StartMerge
    <2>1. attempt \in Nat /\ attempt' \in Attempts /\ ~merged /\ ~merged'
      BY <1>1, ConstantsAssumption DEF StartMerge, Basic, TypeOK, Attempts
    <2>2. Unborn'
      BY <1>1, <2>1 DEF StartMerge, Basic, Unborn, Handlers, Attempts
    <2>3. ReadsGood'
      BY <1>1, <2>1 DEF StartMerge, Basic, ReadsGood, HasRead
    <2>4. OwnAnswers'
      BY <1>1 DEF StartMerge, OwnAnswers
    <2> QED
      BY <1>1, <2>1, <2>2, <2>3, <2>4 DEF StartMerge, Basic, SourcesKept
  <1>2. CASE Commit
    BY <1>2 DEF Commit, Basic, SourcesKept, Unborn, ReadsGood, OwnAnswers
  <1>3. CASE Rollback \/ Answer
    BY <1>3 DEF Rollback, Answer, Basic, SourcesKept, Unborn, ReadsGood, OwnAnswers, HasRead
  <1>4. ASSUME NEW j \in Parities, RpcFails(j) PROVE Rest'
    BY <1>4 DEF RpcFails, Basic, TypeOK, SourcesKept, Unborn, ReadsGood, OwnAnswers, HasRead
  <1>5. ASSUME NEW h \in Handlers, Handler(h) PROVE Rest'
    <2>1. UNCHANGED <<merged, coord, attempt, purge>>
      BY <1>5 DEF Handler, CheckA, ReadA, CheckB, ReadB, Truncate, Write, WriteUnlinked,
         HandlerAnswers, RequestLost, CheckFile
    <2>2. SourcesKept' /\ Unborn' /\ ReadsGood' /\ OwnAnswers'
      BY <1>5, BasicHandler
    <2> QED
      BY <2>1, <2>2 DEF Basic
  <1>6. ASSUME NEW j \in Parities, DatanodeCrash(j) PROVE Rest'
    <2>1. /\ \A h \in Handlers : /\ step'[h] = step[h] \/ step'[h] = "ended"
                                 /\ ~Busy(h) => step'[h] = step[h]
          /\ UNCHANGED <<coordVars, files, buf, sweepVars>>
      BY <1>6 DEF DatanodeCrash
    <2>2. SourcesKept'
      BY <2>1 DEF Basic, SourcesKept
    <2>3. Unborn' /\ ReadsGood'
      BY <2>1 DEF Basic, Unborn, ReadsGood, HasRead, Busy
    <2>4. OwnAnswers'
      BY <2>1 DEF Basic, OwnAnswers, Busy, Handlers
    <2> QED
      BY <2>1, <2>2, <2>3, <2>4 DEF Basic
  <1>7. CASE (\E t \in Attempts : UndoNext(t)) \/ PurgeNext
    <2>1. /\ \A h \in Handlers : \/ step'[h] = step[h]
                                 \/ step[h] = "write" /\ step'[h] = "unlinked"
          /\ UNCHANGED <<coordVars, buf>>
      BY <1>7 DEF UndoNext, PurgeNext, Remove, NodeUnreachable, Basic, TypeOK
    <2>2. SourcesKept'
      <3>1. CASE PurgeNext
        BY <3>1 DEF PurgeNext, Basic, SourcesKept
      <3>2. ASSUME NEW t \in Attempts, UndoNext(t) PROVE SourcesKept'
        BY <3>2, KeyPairs DEF UndoNext, Remove, UndoKey, NodeUnreachable, Basic, TypeOK, SourcesKept
      <3> QED
        BY <1>7, <3>1, <3>2
    <2>3. Unborn' /\ ReadsGood'
      BY <2>1 DEF Basic, Unborn, ReadsGood, HasRead
    <2>4. OwnAnswers'
      BY <2>1 DEF Basic, OwnAnswers, Handlers
    <2>5. purge' # 0 => merged'
      BY <1>7 DEF UndoNext, PurgeNext, Basic
    <2> QED
      BY <2>1, <2>2, <2>3, <2>4, <2>5 DEF Basic
  <1>8. CASE ProxyCrash
    BY <1>8 DEF ProxyCrash, Basic, SourcesKept, Unborn, ReadsGood, OwnAnswers, HasRead
  <1>9. ASSUME NEW rd \in Readers, LookUp(rd) \/ Fetch(rd) PROVE Rest'
    BY <1>9 DEF LookUp, Fetch, Basic, SourcesKept, Unborn, ReadsGood, OwnAnswers, HasRead
  <1>10. CASE UNCHANGED vars
    BY <1>10 DEF vars, Basic, SourcesKept, Unborn, ReadsGood, OwnAnswers, HasRead
  <1> QED
    BY <1>1, <1>2, <1>3, <1>4, <1>5, <1>6, <1>7, <1>8, <1>9, <1>10
    DEF Next, Coordinator, CleanupReturns, CleanupBreaks

(***************************************************************************)
(* What holds before and after the commit whatever the retry policy: the   *)
(* old parities of an unmerged pair are good, what calls have read is good *)
(* until the commit, and an RPC counted as answered was answered by its    *)
(* own call.                                                               *)
(***************************************************************************)
THEOREM BasicAlways == Spec => []Basic
  BY BasicInit, BasicNext, PTL DEF Spec

(***************************************************************************)
(* As long as the table names the pair, its parities are there and right,  *)
(* with patient and impatient retries alike.                               *)
(***************************************************************************)
THEOREM SourcesAlwaysKept == Spec => []SourcesKept
  <1>1. Basic => SourcesKept
    BY DEF Basic
  <1> QED
    BY <1>1, BasicAlways, PTL

(***************************************************************************)
(* A commit rests on its own attempt's calls, whatever earlier attempts    *)
(* left behind.                                                            *)
(***************************************************************************)
THEOREM CommitsAreEarned == Spec => CommitEarned
  <1> DEFINE Earned == \A j \in Parities : /\ step[<<attempt, j>>] = "ended"
                                           /\ buf[<<attempt, j>>] = "good"
  <1>1. Basic /\ [Next]_vars => [merged' # merged => Earned]_vars
    <2> SUFFICES ASSUME Basic, Next, merged' # merged PROVE Earned
      BY DEF vars
    <2>1. CASE Commit
      BY <2>1 DEF Commit, Basic, OwnAnswers
    <2>2. CASE ~Commit
      BY <2>2 DEF Next, Coordinator, StartMerge, Rollback, CleanupReturns, CleanupBreaks,
         Answer, RpcFails, Handler, CheckA, ReadA, CheckB, ReadB, Truncate, Write,
         WriteUnlinked, HandlerAnswers, RequestLost, CheckFile, DatanodeCrash, UndoNext,
         PurgeNext, ProxyCrash, LookUp, Fetch, coordVars
    <2> QED
      BY <2>1, <2>2
  <1> QED
    BY <1>1, BasicAlways, PTL DEF Spec, CommitEarned

-----------------------------------------------------------------------------
(***************************************************************************)
(* What patient retries add.  While an attempt computes, the only calls    *)
(* still running are its own and no clean-up is, so nobody takes away what *)
(* an answered call wrote; after the commit nothing runs but the clean-up  *)
(* of the old parities.                                                    *)
(***************************************************************************)
OnlyOwnCalls ==
    coord = "computing" =>
        /\ \A h \in Handlers : Busy(h) => h[1] = attempt /\ step[h] # "unlinked"
        /\ \A t \in Attempts : undo[t] = 0

WrittenStays ==
    coord = "computing" =>
        /\ \A j \in Parities : rpc[j] = "ok" => files[<<"M", j>>] = "good"
        /\ \A h \in Handlers : step[h] = "answer" => files[<<"M", h[2]>>] = "good"

Settled ==
    /\ merged => Quiet
    /\ OnlyOwnCalls
    /\ WrittenStays
    /\ MergedSound

(***************************************************************************)
(* Nothing has been written or left behind initially.                      *)
(***************************************************************************)
LEMMA SettledInit == Init => Settled
  BY DEF Init, Settled, OnlyOwnCalls, WrittenStays, MergedSound

(***************************************************************************)
(* A step of a handler can only happen before the commit; while its        *)
(* attempt computes, it is the only call on its parity.                    *)
(***************************************************************************)
LEMMA SettledHandler ==
    ASSUME Basic, Settled, NEW h \in Handlers, Handler(h)
    PROVE  Settled'
  <1> USE DEF coordVars, sweepVars, readerVars
  <1>0. h[1] \in Attempts /\ h[2] \in Parities /\ h = <<h[1], h[2]>>
    BY HandlerPairs
  <1>1. Busy(h) /\ UNCHANGED <<merged, coord, attempt, undo>>
    BY DEF Handler, CheckA, ReadA, CheckB, ReadB, Truncate, Write, WriteUnlinked,
           HandlerAnswers, RequestLost, CheckFile, Busy
  <1>2. step' = [step EXCEPT ![h] = step'[h]] /\ step \in [Handlers -> Steps]
    BY DEF Handler, CheckA, ReadA, CheckB, ReadB, Truncate, Write, WriteUnlinked,
           HandlerAnswers, RequestLost, CheckFile, GoTo, Basic, TypeOK
  <1>3. ~merged
    BY <1>1 DEF Settled, Quiet
  <1>4. step'[h] # "unlinked"
    BY DEF Handler, CheckA, ReadA, CheckB, ReadB, Truncate, Write, WriteUnlinked,
           HandlerAnswers, RequestLost, CheckFile, GoTo, Basic, TypeOK
  <1>5. OnlyOwnCalls'
    BY <1>1, <1>2, <1>4 DEF Settled, OnlyOwnCalls, Busy
  <1>6. WrittenStays'
    <2> SUFFICES ASSUME coord = "computing" PROVE WrittenStays'
      BY <1>1 DEF WrittenStays
    <2>1. h = <<attempt, h[2]>> /\ step[h] # "unlinked"
      BY <1>0, <1>1 DEF Settled, OnlyOwnCalls
    <2>2. rpc[h[2]] # "ok"
      BY <1>0, <1>1, <2>1 DEF Basic, OwnAnswers, Busy
    <2>3. \A g \in Handlers \ {h} : step[g] = "answer" => g[2] # h[2]
      BY <2>1, HandlerPairs DEF Settled, OnlyOwnCalls, Busy
    <2>4. CASE Truncate(h)
      BY <1>0, <2>2, <2>3, <2>4, HandlerPairs, KeyPairs
      DEF Truncate, GoTo, Basic, TypeOK, Settled, WrittenStays
    <2>5. CASE Write(h)
      <3>1. buf[h] = "good"
        BY <1>3, <2>5 DEF Write, Basic, ReadsGood, HasRead
      <3> QED
        BY <1>0, <2>2, <2>3, <2>5, <3>1, HandlerPairs, KeyPairs
        DEF Write, GoTo, Basic, TypeOK, Settled, WrittenStays
    <2>6. CASE HandlerAnswers(h)
      <3>1. step[h] = "answer" => files[<<"M", h[2]>>] = "good"
        BY DEF Settled, WrittenStays
      <3> QED
        BY <1>0, <2>6, <3>1 DEF HandlerAnswers, GoTo, Basic, TypeOK, Settled, WrittenStays
    <2>7. CASE ~(Truncate(h) \/ Write(h) \/ HandlerAnswers(h))
      <3>1. UNCHANGED <<files, rpc>> /\ step'[h] # "answer"
        BY <2>1, <2>7 DEF Handler, CheckA, ReadA, CheckB, ReadB, WriteUnlinked, RequestLost,
           CheckFile, GoTo, Basic, TypeOK
      <3> QED
        BY <1>2, <3>1 DEF Settled, WrittenStays
    <2> QED
      BY <2>4, <2>5, <2>6, <2>7
  <1> QED
    BY <1>1, <1>3, <1>5, <1>6 DEF Settled, MergedSound

(***************************************************************************)
(* With patient retries no step lets a call or clean-up of a failed        *)
(* attempt survive into the next one, nor removes a parity written by the  *)
(* attempt that commits.                                                   *)
(***************************************************************************)
LEMMA SettledNext ==
    ASSUME PatientRetry, Basic, Settled, [Next]_vars
    PROVE  Settled'
  <1> USE DEF coordVars, sweepVars, readerVars
  <1>1. CASE StartMerge
    <2>1. Quiet /\ ~merged' /\ UNCHANGED <<files, undo>>
      BY <1>1 DEF StartMerge
    <2>2. OnlyOwnCalls'
      BY <1>1, <2>1 DEF StartMerge, OnlyOwnCalls, Quiet, Busy
    <2>3. WrittenStays'
      BY <1>1, <2>1 DEF StartMerge, WrittenStays, Quiet, Busy
    <2> QED
      BY <2>1, <2>2, <2>3 DEF Settled, MergedSound
  <1>2. CASE Commit
    <2>1. coord = "computing" /\ coord' # "computing" /\ UNCHANGED <<files, step, undo>>
      BY <1>2 DEF Commit
    <2>2. \A j \in Parities : files[<<"M", j>>] = "good" /\ step[<<attempt, j>>] = "ended"
      BY <1>2, <2>1 DEF Commit, Settled, WrittenStays, Basic, OwnAnswers
    <2>3. Quiet'
      BY <2>1, <2>2, HandlerPairs DEF Quiet, Busy, Settled, OnlyOwnCalls
    <2> QED
      BY <2>1, <2>2, <2>3 DEF Settled, OnlyOwnCalls, WrittenStays, MergedSound
  <1>3. CASE Rollback
    BY <1>3 DEF Rollback, Basic, Settled, OnlyOwnCalls, WrittenStays, MergedSound
  <1>4. CASE Answer
    BY <1>4 DEF Answer, Settled, OnlyOwnCalls, WrittenStays, MergedSound, Quiet, Busy
  <1>5. ASSUME NEW j \in Parities, RpcFails(j) PROVE Settled'
    BY <1>5 DEF RpcFails, Basic, TypeOK, Settled, OnlyOwnCalls, WrittenStays, MergedSound,
       Quiet, Busy
  <1>6. ASSUME NEW h \in Handlers, Handler(h) PROVE Settled'
    BY <1>6, SettledHandler
  <1>7. ASSUME NEW j \in Parities, DatanodeCrash(j) PROVE Settled'
    BY <1>7 DEF DatanodeCrash, Settled, OnlyOwnCalls, WrittenStays, MergedSound, Quiet, Busy
  <1>8. ASSUME NEW t \in Attempts, UndoNext(t) PROVE Settled'
    <2>1. ~merged /\ coord # "computing" /\ UNCHANGED <<merged, coord>>
      BY <1>8 DEF UndoNext, Settled, Quiet, OnlyOwnCalls
    <2> QED
      BY <2>1 DEF Settled, OnlyOwnCalls, WrittenStays, MergedSound
  <1>9. CASE PurgeNext
    <2>1. merged /\ coord # "computing" /\ UNCHANGED <<merged, coord, undo>>
      BY <1>9 DEF PurgeNext, Basic
    <2>2. \A j \in Parities : files'[<<"M", j>>] = files[<<"M", j>>]
      BY <1>9, KeyPairs DEF PurgeNext, Remove, PurgeKey, NodeUnreachable, Basic, TypeOK
    <2>3. \A h \in Handlers : step'[h] = step[h]
      BY <1>9, HandlerPairs DEF PurgeNext, Remove, PurgeKey, NodeUnreachable
    <2> QED
      BY <2>1, <2>2, <2>3 DEF Settled, OnlyOwnCalls, WrittenStays, MergedSound, Quiet, Busy
  <1>10. CASE ProxyCrash
    BY <1>10 DEF ProxyCrash, Settled, OnlyOwnCalls, WrittenStays, MergedSound, Quiet, Busy
  <1>11. ASSUME NEW rd \in Readers, LookUp(rd) \/ Fetch(rd) PROVE Settled'
    BY <1>11 DEF LookUp, Fetch, Settled, OnlyOwnCalls, WrittenStays, MergedSound, Quiet, Busy
  <1>12. CASE UNCHANGED vars
    BY <1>12 DEF vars, Settled, OnlyOwnCalls, WrittenStays, MergedSound, Quiet, Busy
  <1> QED
    BY <1>1, <1>2, <1>3, <1>4, <1>5, <1>6, <1>7, <1>8, <1>9, <1>10, <1>11, <1>12
    DEF Next, Coordinator, CleanupReturns, CleanupBreaks

(***************************************************************************)
(* With patient retries a committed merge has all its parities, for ever.  *)
(***************************************************************************)
THEOREM MergedAlwaysSound == PatientRetry /\ Spec => []MergedSound
  <1>1. Settled => MergedSound
    BY DEF Settled
  <1>2. PatientRetry /\ Spec => []Settled
    <2>1. CASE PatientRetry
      <3>1. Basic /\ Settled /\ [Next]_vars => Settled'
        BY <2>1, SettledNext
      <3> QED
        BY <3>1, SettledInit, BasicAlways, PTL DEF Spec
    <2>2. CASE ~PatientRetry
      BY <2>2
    <2> QED
      BY <2>1, <2>2
  <1> QED
    BY <1>1, <1>2, PTL

-----------------------------------------------------------------------------
(***************************************************************************)
(* A reader that looked up a new parity gets it; one that looked up an old *)
(* parity misses it only after a commit.                                   *)
(***************************************************************************)
Overtaken ==
    \A rd \in Readers : /\ want[rd][1] = "M" => merged
                        /\ got[rd] = "bad" => merged /\ want[rd][1] \in {"A", "B"}

(***************************************************************************)
(* No step gives a reader a wrong parity except after a commit that        *)
(* overtook its look-up.                                                   *)
(***************************************************************************)
LEMMA ReadersNext ==
    ASSUME Basic, MergedSound, Overtaken, [Next]_vars
    PROVE  Overtaken'
  <1> USE DEF coordVars, sweepVars
  <1>1. ASSUME NEW rd \in Readers, LookUp(rd) PROVE Overtaken'
    BY <1>1 DEF LookUp, Overtaken, Basic, TypeOK
  <1>2. ASSUME NEW rd \in Readers, Fetch(rd) PROVE Overtaken'
    <2>1. ASSUME files[want[rd]] # "good"
          PROVE  merged /\ want[rd][1] \in {"A", "B"}
      <3>1. PICK f \in Keys : want[rd] = f
        BY <1>2 DEF Fetch, Basic, TypeOK
      <3>2. f[1] \in {"A", "B", "M"} /\ f[2] \in Parities /\ f = <<f[1], f[2]>>
        BY DEF Keys
      <3>3. f[1] # "M"
        BY <2>1, <3>1, <3>2 DEF Overtaken, MergedSound
      <3>4. merged
        BY <2>1, <3>1, <3>2, <3>3 DEF Basic, SourcesKept
      <3> QED
        BY <3>1, <3>2, <3>3, <3>4
    <2> QED
      BY <1>2, <2>1 DEF Fetch, Overtaken, Basic, TypeOK
  <1>3. CASE (merged => merged') /\ UNCHANGED readerVars
    BY <1>3 DEF readerVars, Overtaken
  <1>4. ~(\E rd \in Readers : LookUp(rd) \/ Fetch(rd)) => UNCHANGED readerVars /\ (merged => merged')
    BY DEF vars, Next, Coordinator, StartMerge, Commit, Rollback, CleanupReturns, CleanupBreaks,
       Answer, RpcFails, Handler, CheckA, ReadA, CheckB, ReadB, Truncate, Write,
       WriteUnlinked, HandlerAnswers, RequestLost, CheckFile, DatanodeCrash, UndoNext,
       PurgeNext, ProxyCrash, readerVars
  <1> QED
    BY <1>1, <1>2, <1>3, <1>4

(***************************************************************************)
(* With patient retries a repair or degraded read is misled only by a      *)
(* commit between its look-up and its read.                                *)
(***************************************************************************)
THEOREM BadReadsAlwaysOvertaken == PatientRetry /\ Spec => []BadReadsOvertaken
  <1>1. Init => Overtaken
    BY DEF Init, Overtaken, NoKey
  <1>2. Basic /\ MergedSound /\ Overtaken /\ [Next]_vars => Overtaken'
    BY ReadersNext
  <1>3. Overtaken => BadReadsOvertaken
    BY DEF Overtaken, BadReadsOvertaken
  <1> QED
    BY <1>1, <1>2, <1>3, BasicAlways, MergedAlwaysSound, PTL DEF Spec

-----------------------------------------------------------------------------
(***************************************************************************)
(* Refinement: the commit is Apply, the answer is Answer, and every other  *)
(* step leaves the client and the table alone.                             *)
(***************************************************************************)
Pending == coord = "idle" <=> request # "pending"

(***************************************************************************)
(* The client waits exactly while the coordinator works on its request.    *)
(***************************************************************************)
LEMMA PendingNext ==
    ASSUME TypeOK, Pending, [Next]_vars
    PROVE  Pending'
  BY DEF TypeOK, Pending, vars, Next, Coordinator, StartMerge, Commit, Rollback, CleanupReturns,
     CleanupBreaks, Answer, RpcFails, Handler, CheckA, ReadA, CheckB, ReadB, Truncate, Write,
     WriteUnlinked, HandlerAnswers, RequestLost, CheckFile, DatanodeCrash, UndoNext,
     PurgeNext, ProxyCrash, LookUp, Fetch, coordVars

(***************************************************************************)
(* The two safety invariants are the mapped variable of the abstract       *)
(* merge.                                                                  *)
(***************************************************************************)
LEMMA IntactHolds ==
    ASSUME SourcesKept, MergedSound
    PROVE  Intact
  BY DEF SourcesKept, MergedSound, Intact

(***************************************************************************)
(* Every step is a step of the abstract merge or leaves it unchanged.      *)
(***************************************************************************)
LEMMA StepRefines ==
    ASSUME Basic, Pending, Intact, Intact', [Next]_vars
    PROVE  [Atomic!Next]_(Atomic!vars)
  <1>0. Intact' = Intact
    BY DEF Intact
  <1>1. CASE StartMerge
    BY <1>0, <1>1 DEF StartMerge, Pending, Atomic!Next, Atomic!Ask
  <1>2. CASE Commit
    BY <1>0, <1>2 DEF Commit, Pending, Basic, TypeOK, Atomic!Next, Atomic!Apply
  <1>3. CASE CleanupReturns \/ CleanupBreaks
    BY <1>0, <1>3 DEF CleanupReturns, CleanupBreaks, Answer, Pending, Atomic!Next, Atomic!Answer
  <1>4. CASE UNCHANGED <<request, merged>>
    BY <1>0, <1>4 DEF Atomic!vars
  <1>5. ~(StartMerge \/ Commit \/ CleanupReturns \/ CleanupBreaks) => UNCHANGED <<request, merged>>
    BY DEF vars, Next, Coordinator, Rollback, RpcFails, Handler, CheckA, ReadA, CheckB, ReadB,
       Truncate, Write, WriteUnlinked, HandlerAnswers, RequestLost, CheckFile, DatanodeCrash,
       UndoNext, PurgeNext, ProxyCrash, LookUp, Fetch, coordVars
  <1> QED
    BY <1>1, <1>2, <1>3, <1>4, <1>5

(***************************************************************************)
(* With patient retries the merge of a pair is atomic: its client is told  *)
(* the truth, the table changes in one step, and whoever reads the table   *)
(* finds the parities it names.                                            *)
(***************************************************************************)
THEOREM MergeIsAtomic == PatientRetry /\ Spec => ImplementsAtomicMerge
  <1>1. Init => Atomic!Init
    <2>1. ASSUME Init PROVE Intact
      BY <2>1, KeyPairs DEF Init, Intact
    <2> QED
      BY <2>1 DEF Init, Atomic!Init
  <1>2. Init => Pending
    BY DEF Init, Pending
  <1>3. TypeOK /\ Pending /\ [Next]_vars => Pending'
    BY PendingNext
  <1>4. SourcesKept /\ MergedSound => Intact
    BY IntactHolds
  <1>5. Basic /\ Pending /\ Intact /\ Intact' /\ [Next]_vars => [Atomic!Next]_(Atomic!vars)
    BY StepRefines
  <1> QED
    BY <1>1, <1>2, <1>3, <1>4, <1>5, TypeCorrect, BasicAlways, SourcesAlwaysKept,
       MergedAlwaysSound, PTL DEF Spec, ImplementsAtomicMerge, Atomic!Spec
=============================================================================
