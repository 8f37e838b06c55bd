----------------------------- MODULE MergeRounds -----------------------------
(***************************************************************************)
(* Merging whole rounds: start_merge of the client lists the stripes,      *)
(* pairs the sorted ids and asks the coordinator to merge the pairs in     *)
(* batches of threads, while other clients upload and delete stripes.      *)
(* mergeStripes checks a request, does its I/O and changes the table; for  *)
(* DdlRT_LRC it holds m_mutex from the first check to the answer, for RS   *)
(* it takes no lock and changes the table even when its I/O failed.        *)
(*                                                                         *)
(* A stripe is the sequence of uploaded stripes its data comes from.  The  *)
(* I/O of a DdlRT_LRC merge is the subject of MergeTxn, its placement of   *)
(* DdlrtMerge, those of an RS merge of RsStripes.                          *)
(***************************************************************************)
EXTENDS Integers, FiniteSets, Sequences, SequencesExt, Sorting

CONSTANTS Modes,      \* [code, threads, shared]: the code, MERGE_CONCURRENCY, and
                      \* whether others use the system during a round
          Rounds,     \* N, the merge rounds of the configuration
          StripeNum,  \* bound: uploads
          MaxCalls,   \* bound: calls of start_merge
          MaxFaults,  \* bound: failed uploads, merges and calls
          MaxDeletes  \* bound: calls of delByStripe

BatchSize == 2^Rounds
Uploads   == 0..(StripeNum - 1)

ASSUME ConstantsAssumption ==
    /\ Modes \subseteq [code : {"DdlRT_LRC", "RS"}, threads : Nat \ {0}, shared : BOOLEAN]
    /\ Rounds \in Nat /\ StripeNum \in Nat
    /\ MaxCalls \in Nat /\ MaxFaults \in Nat /\ MaxDeletes \in Nat
    /\ BatchSize \in Nat \ {0}

VARIABLES
    mode,     \* the configuration
    table,    \* m_stripe_table: id -> [parts, k, batch, pos], k in base stripes
    nextId,   \* m_cur_stripe_id
    round,    \* start_merge: the round typed in, 0 when it is not running
    ids,      \* the sorted ids it listed
    next,     \* batch_start: the first pair not yet asked for
    stopped,  \* merge_failed
    tries,    \* calls of start_merge so far
    await,    \* calls the threads of the running batch wait for
    calls,    \* mergeStripes calls that have not ended at the coordinator
    deletes,  \* delByStripe calls whose report has not been handled
    gone,     \* uploads whose block files a proxy has deleted
    excused,  \* uploads that failed, or in a stripe when its deletion was asked for
    overtaken,\* uploads merged while a deletion of their stripe was under way
    asked,    \* deletions so far, for the bound
    faults    \* faults so far, for the bound

clientVars == <<round, ids, next, stopped, tries, await>>
deleteVars == <<deletes, gone, asked>>
lossVars   == <<excused, overtaken>>
vars == <<mode, table, nextId, clientVars, calls, deleteVars, lossVars, faults>>

DdlRT == mode.code = "DdlRT_LRC"

(***************************************************************************)
(* The uploads whose data the table knows.                                 *)
(***************************************************************************)
Stored == UNION {ToSet(table[sid].parts) : sid \in DOMAIN table}

NewStripe(sid) == [parts |-> <<sid>>, k |-> 1,
                   batch |-> sid \div BatchSize, pos |-> sid % BatchSize]

Init ==
    /\ mode \in Modes
    /\ table = <<>> /\ nextId = 0
    /\ round = 0 /\ ids = <<>> /\ next = 0 /\ stopped = FALSE /\ tries = 0
    /\ await = {} /\ calls = {}
    /\ deletes = {} /\ gone = {} /\ excused = {} /\ asked = 0
    /\ overtaken = {} /\ faults = 0

-----------------------------------------------------------------------------
(***************************************************************************)
(* uploadSetValue; alone, the client uploads between its rounds.  A failed *)
(* upload spends its id.                                                   *)
(***************************************************************************)
MayUpload == nextId < StripeNum /\ (mode.shared \/ round = 0)

SetStripe ==
    /\ MayUpload
    /\ table' = [s \in DOMAIN table \cup {nextId} |->
                   IF s = nextId THEN NewStripe(s) ELSE table[s]]
    /\ nextId' = nextId + 1
    /\ UNCHANGED <<mode, clientVars, calls, deleteVars, lossVars, faults>>

SetFails ==
    /\ MayUpload /\ faults < MaxFaults
    /\ nextId' = nextId + 1 /\ faults' = faults + 1
    /\ excused' = excused \cup {nextId}
    /\ UNCHANGED <<mode, table, clientVars, calls, deleteVars, overtaken>>

-----------------------------------------------------------------------------
(***************************************************************************)
(* start_merge.  It returns at once on fewer than two stripes and, for     *)
(* DdlRT_LRC, on an odd number.  A client alone waits for what it left     *)
(* running before it asks again.                                           *)
(***************************************************************************)
MayStart ==
    /\ Cardinality(DOMAIN table) >= 2
    /\ DdlRT => Cardinality(DOMAIN table) % 2 = 0

Listing == Ascending(DOMAIN table)

StartMerge(rd) ==
    /\ round = 0 /\ tries < MaxCalls /\ MayStart
    /\ mode.shared \/ calls = {}
    /\ round' = rd /\ ids' = Listing /\ next' = 0 /\ stopped' = FALSE
    /\ tries' = tries + 1
    /\ UNCHANGED <<mode, table, nextId, await, calls, deleteVars, lossVars, faults>>

Pairs == Len(ids) \div 2

Target(p) == IF DdlRT THEN ids[2 * p + 1] ELSE p

Request(p) ==
    [try |-> tries, a |-> ids[2 * p + 1], b |-> ids[2 * p + 2],
     to |-> Target(p), round |-> round, at |-> "asked", k |-> 0]

StartBatch_Unjoined ==
    /\ round > 0 /\ next < Pairs /\ ~stopped
    /\ LET batch == {p \in next..(next + mode.threads - 1) : p < Pairs}
       IN  /\ calls' = calls \cup {Request(p) : p \in batch}
           /\ await' = await \cup {<<tries, Request(p).a>> : p \in batch}
    /\ next' = next + mode.threads
    /\ UNCHANGED <<mode, table, nextId, round, ids, stopped, tries, deleteVars,
                   lossVars, faults>>

StartBatch ==
    /\ round > 0 /\ await = {} /\ ~stopped /\ next < Pairs
    /\ LET batch == {p \in next..(next + mode.threads - 1) : p < Pairs}
       IN  /\ calls' = calls \cup {Request(p) : p \in batch}
           /\ await' = {<<tries, Request(p).a>> : p \in batch}
    /\ next' = next + mode.threads
    /\ UNCHANGED <<mode, table, nextId, round, ids, stopped, tries, deleteVars,
                   lossVars, faults>>

EndRound_AllAsked ==
    /\ round > 0 /\ await = {} /\ next >= Pairs
    /\ round' = 0
    /\ UNCHANGED <<mode, table, nextId, ids, next, stopped, tries, await, calls,
                   deleteVars, lossVars, faults>>

EndRound ==
    /\ round > 0 /\ await = {} /\ (stopped \/ next >= Pairs)
    /\ round' = 0
    /\ UNCHANGED <<mode, table, nextId, ids, next, stopped, tries, await, calls,
                   deleteVars, lossVars, faults>>

Tell_RpcOnly(c, success) ==
    /\ await' = await \ {<<c.try, c.a>>}
    /\ UNCHANGED <<round, ids, next, tries, stopped>>

(***************************************************************************)
(* What a thread of the batch does with its answer, if it still waits.     *)
(***************************************************************************)
Tell(c, success) ==
    /\ await' = await \ {<<c.try, c.a>>}
    /\ stopped' = (stopped \/ (<<c.try, c.a>> \in await /\ ~success))
    /\ UNCHANGED <<round, ids, next, tries>>

(***************************************************************************)
(* The client's RPC breaks: the call goes on at the coordinator, or never  *)
(* got there.                                                              *)
(***************************************************************************)
CallBreaks(c) ==
    /\ <<c.try, c.a>> \in await /\ faults < MaxFaults
    /\ faults' = faults + 1 /\ Tell(c, FALSE)
    /\ UNCHANGED <<mode, table, nextId, calls, deleteVars, lossVars>>

CallLost(c) ==
    /\ c.at = "asked" /\ <<c.try, c.a>> \in await /\ faults < MaxFaults
    /\ calls' = calls \ {c}
    /\ faults' = faults + 1 /\ Tell(c, FALSE)
    /\ UNCHANGED <<mode, table, nextId, deleteVars, lossVars>>

-----------------------------------------------------------------------------
(***************************************************************************)
(* mergeStripes.  m_mutex is held by a DdlRT_LRC merge during its I/O.     *)
(***************************************************************************)
MutexFree == DdlRT => \A c \in calls : c.at # "working"

Accepted_AnyNeighbour(c) ==
    /\ {c.a, c.b} \subseteq DOMAIN table
    /\ c.round \in 1..Rounds
    /\ table[c.a].k = table[c.b].k
    /\ DdlRT => /\ table[c.a].k = 2^(c.round - 1)
                /\ table[c.a].batch = table[c.b].batch
                /\ table[c.a].pos < table[c.b].pos

Accepted(c) ==
    /\ {c.a, c.b} \subseteq DOMAIN table
    /\ c.round \in 1..Rounds
    /\ table[c.a].k = table[c.b].k
    /\ DdlRT => /\ table[c.a].k = 2^(c.round - 1)
                /\ table[c.a].batch = table[c.b].batch
                /\ table[c.a].pos + 2^(c.round - 1) = table[c.b].pos

Refuse(c) ==
    /\ c.at = "asked" /\ MutexFree /\ ~Accepted(c)
    /\ calls' = calls \ {c} /\ Tell(c, FALSE)
    /\ UNCHANGED <<mode, table, nextId, deleteVars, lossVars, faults>>

Begin(c) ==
    /\ c.at = "asked" /\ MutexFree /\ Accepted(c)
    /\ calls' = (calls \ {c}) \cup {[c EXCEPT !.at = "working", !.k = table[c.a].k]}
    /\ UNCHANGED <<mode, table, nextId, clientVars, deleteVars, lossVars, faults>>

(***************************************************************************)
(* The merged stripe is built from the table's entries as they are now,    *)
(* through the references taken when the request was checked, with the k   *)
(* read then.                                                              *)
(***************************************************************************)
MergedStripe(c) ==
    [parts |-> SubSeq(table[c.a].parts, 1, c.k) \o SubSeq(table[c.b].parts, 1, c.k),
     k |-> 2 * c.k, batch |-> table[c.a].batch, pos |-> table[c.a].pos]

Commit_EraseLast(c) ==
    /\ {c.a, c.b} \subseteq DOMAIN table
    /\ table' = [s \in (DOMAIN table \cup {c.to}) \ {c.a, c.b} |->
                   IF s = c.to THEN MergedStripe(c) ELSE table[s]]
    /\ overtaken' = IF \E d \in deletes : d.sid \in {c.a, c.b}
                    THEN overtaken \cup ToSet(MergedStripe(c).parts) ELSE overtaken

Commit(c) ==
    /\ {c.a, c.b} \subseteq DOMAIN table
    /\ table' = [s \in (DOMAIN table \ {c.a, c.b}) \cup {c.to} |->
                   IF s = c.to THEN MergedStripe(c) ELSE table[s]]
    /\ overtaken' = IF \E d \in deletes : d.sid \in {c.a, c.b}
                    THEN overtaken \cup ToSet(MergedStripe(c).parts) ELSE overtaken

MergeSucceeds(c) ==
    /\ c.at = "working" /\ Commit(c)
    /\ calls' = calls \ {c} /\ Tell(c, TRUE)
    /\ UNCHANGED <<mode, nextId, deleteVars, excused, faults>>

MergeFails(c) ==
    /\ c.at = "working" /\ faults < MaxFaults
    /\ IF DdlRT THEN UNCHANGED <<table, overtaken>> ELSE Commit(c)
    /\ calls' = calls \ {c} /\ Tell(c, FALSE)
    /\ faults' = faults + 1
    /\ UNCHANGED <<mode, nextId, deleteVars, excused>>

-----------------------------------------------------------------------------
(***************************************************************************)
(* delByStripe: it takes m_mutex to note the id, then reads the blocks of  *)
(* the stripe without it; a proxy deletes their files on a thread of its   *)
(* own and reports, and the report erases the id from the table.  The id   *)
(* is one the table holds: reading any other is undefined.                 *)
(***************************************************************************)
AskDelete(sid) ==
    /\ mode.shared /\ asked < MaxDeletes /\ MutexFree
    /\ \A d \in deletes : d.sid # sid
    /\ deletes' = deletes \cup {[sid |-> sid, at |-> "asked", blocks |-> {}]}
    /\ excused' = excused \cup ToSet(table[sid].parts)
    /\ asked' = asked + 1
    /\ UNCHANGED <<mode, table, nextId, clientVars, calls, gone, overtaken, faults>>

ReadBlocks(d) ==
    /\ d.at = "asked" /\ d.sid \in DOMAIN table
    /\ deletes' = (deletes \ {d})
                    \cup {[d EXCEPT !.at = "read", !.blocks = ToSet(table[d.sid].parts)]}
    /\ UNCHANGED <<mode, table, nextId, clientVars, calls, gone, asked, lossVars, faults>>

DeleteFiles(d) ==
    /\ d.at = "read"
    /\ gone' = gone \cup d.blocks
    /\ deletes' = (deletes \ {d}) \cup {[d EXCEPT !.at = "deleted"]}
    /\ UNCHANGED <<mode, table, nextId, clientVars, calls, asked, lossVars, faults>>

ReportDelete_KeepsEntry(d) ==
    /\ d.at = "deleted" /\ MutexFree
    /\ deletes' = deletes \ {d}
    /\ UNCHANGED <<mode, table, nextId, clientVars, calls, gone, asked, lossVars, faults>>

ReportDelete(d) ==
    /\ d.at = "deleted" /\ MutexFree
    /\ table' = [s \in DOMAIN table \ {d.sid} |-> table[s]]
    /\ deletes' = deletes \ {d}
    /\ UNCHANGED <<mode, nextId, clientVars, calls, gone, asked, lossVars, faults>>

-----------------------------------------------------------------------------
StartRound == \E rd \in 1..Rounds : StartMerge(rd)
Handle(c)  == Refuse(c) \/ Begin(c) \/ MergeSucceeds(c)
CallFault(c) == CallBreaks(c) \/ CallLost(c) \/ MergeFails(c)

Next ==
    \/ SetStripe \/ SetFails
    \/ StartRound \/ StartBatch \/ EndRound
    \/ \E c \in calls : Handle(c) \/ CallFault(c)
    \/ \E sid \in DOMAIN table : AskDelete(sid)
    \/ \E d \in deletes : ReadBlocks(d) \/ DeleteFiles(d) \/ ReportDelete(d)

Spec == Init /\ [][Next]_vars

(***************************************************************************)
(* The client goes on with its loop, and a merge is checked and ends once  *)
(* the mutex lets it (MergeTxn shows that its I/O ends).                   *)
(***************************************************************************)
Handled == \E c \in calls : Handle(c)
Fairness == WF_vars(StartBatch) /\ WF_vars(EndRound) /\ WF_vars(Handled)
FairSpec == Spec /\ Fairness
-----------------------------------------------------------------------------
CallType == [try : 1..MaxCalls, a : Uploads, b : Uploads, to : Uploads,
             round : 1..Rounds, at : {"asked", "working"}, k : 0..StripeNum]

(***************************************************************************)
(* Every variable stays in its range, ids in the table are spent ids, and  *)
(* the client waits for no more than one batch of threads.                 *)
(***************************************************************************)
TypeOK ==
    /\ mode \in Modes /\ nextId \in 0..StripeNum
    /\ DOMAIN table \subseteq 0..(nextId - 1)
    /\ \A sid \in DOMAIN table :
          /\ table[sid].parts \in Seq(Uploads) /\ table[sid].k = Len(table[sid].parts)
          /\ table[sid].k >= 1
    /\ round \in 0..Rounds /\ ids \in Seq(Uploads) /\ next \in Nat
    /\ stopped \in BOOLEAN /\ tries \in 0..MaxCalls
    /\ await \subseteq {tries} \X ToSet(ids) /\ Cardinality(await) <= mode.threads
    /\ calls \subseteq CallType
    /\ deletes \subseteq [sid : Uploads, at : {"asked", "read", "deleted"},
                          blocks : SUBSET Uploads]
    /\ gone \subseteq Uploads /\ excused \subseteq Uploads /\ overtaken \subseteq Uploads
    /\ asked \in 0..MaxDeletes /\ faults \in 0..MaxFaults

(***************************************************************************)
(* No data block is in two stripes or twice in one, and no uploaded stripe *)
(* drops out of the table, through rounds that fail half-way, retries that *)
(* overlap the calls of an earlier round and merged stripes that take      *)
(* other stripes' ids.  One exception is a stripe somebody asked to        *)
(* delete; the other is real: a deletion whose stripe is merged before its *)
(* report is handled takes the merged stripe's entry with it.              *)
(***************************************************************************)
StripesConserved ==
    /\ \A s, t \in DOMAIN table : \A i \in 1..Len(table[s].parts) :
         \A j \in 1..Len(table[t].parts) :
            table[s].parts[i] = table[t].parts[j] => s = t /\ i = j
    /\ (0..(nextId - 1)) \ Stored \subseteq excused \cup overtaken

(***************************************************************************)
(* A stripe of the table has all its block files, unless a proxy is about  *)
(* to report its deletion or a merge overtook one.                         *)
(***************************************************************************)
TableHasBlocks ==
    Stored \cap gone \subseteq
        overtaken \cup UNION {d.blocks : d \in {e \in deletes : e.at = "deleted"}}

(***************************************************************************)
(* A DdlRT_LRC stripe of the table is a run of consecutive stripes of one  *)
(* batch, in order and under the id of the first: what the position and    *)
(* level checks must keep up through holes left by failed uploads and      *)
(* deletions, because the pairs come from whatever ids are left.  The      *)
(* layout and the parity coefficients of DdlrtMerge rest on it.            *)
(***************************************************************************)
RunsOfBatch ==
    DdlRT => \A sid \in DOMAIN table :
        LET s == table[sid]
        IN  /\ s.parts = [i \in 1..s.k |-> sid + i - 1]
            /\ s.pos + s.k <= BatchSize /\ sid = s.batch * BatchSize + s.pos

(***************************************************************************)
(* A round that ends without a failure has merged every pair: a client     *)
(* alone is left with half the stripes it listed, rounded up.              *)
(***************************************************************************)
FullRound ==
    [][round > 0 /\ round' = 0 /\ ~stopped /\ ~mode.shared
         => Cardinality(DOMAIN table) = Len(ids) - Pairs]_vars

(***************************************************************************)
(* Every call of start_merge returns, however its pairs are refused, fail  *)
(* or queue for the mutex.                                                 *)
(***************************************************************************)
RoundReturns == round > 0 ~> round = 0

-----------------------------------------------------------------------------
(***************************************************************************)
(* What start_merge tells the operator after a failure ("You can retry     *)
(* from the current stripe set"): after a round that stopped half-way, as  *)
(* long as two stripes are left that some round could merge, some call of  *)
(* start_merge starts and has the first of its pairs accepted.             *)
(***************************************************************************)
Mergeable(rd) == \E a, b \in DOMAIN table : Accepted([a |-> a, b |-> b, round |-> rd])

CanRetry ==
    /\ stopped /\ round = 0 /\ calls = {}
    /\ \E sid \in DOMAIN table : table[sid].k > 1
    /\ \E rd \in 1..Rounds : Mergeable(rd)
    =>
        /\ MayStart
        /\ \E rd \in 1..Rounds :
              Accepted([a |-> Listing[1], b |-> Listing[2], round |-> rd])
=============================================================================
