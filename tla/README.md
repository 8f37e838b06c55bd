# DdlRT_LRC storage prototype: TLA+ models, model checking and proofs

The repository is an erasure-coded block store. A **coordinator** keeps all
metadata, one **proxy** per cluster (rack) moves blocks, **datanodes** keep them
as files, and a **client** with a menu drives uploads, repairs and merges. Its
subject is a redundancy transition: two stripes of a `DdlRT_LRC` code are merged
into one with twice the data and the same number of parities, without moving
data. The models follow `src/project/src`; line numbers are in `PROJECT.json`.

## 1. Inventory

| component | state | operations | interacts with |
|---|---|---|---|
| `Config` | k, r, z, cluster dimensions, merge rounds N, shared racks S | `validateConfig`, `init_ddlrt_lrc_merge_parameters` | read by everyone |
| Coordinator, stripes | `m_stripe_table`, `m_cur_stripe_id`, indexes in `m_cluster_table`, `m_node_table` | set, append, delete, merge, recovery, reads | calls proxies, and datanodes for parities |
| Coordinator, objects | `m_object_updating_table`, `m_object_commit_table`, deleting lists, `cv` | `reportCommitAbort`, `checkCommitAbort`, `delByKey`, `delByStripe` | called by proxies and the client |
| Proxy | acceptor for client data, detached threads, stubs of datanodes | `scheduleAppend2Datanode`, `recovery`, `degradedRead*`, `relocateBlock`, `deleteBlock`, `cleanupBlocks`, `getBlocks` | called by the coordinator; TCP to client and datanodes |
| Datanode | block files, one acceptor | `handleAppend`, `handleGet`, `handleSet`, `handleRecovery`, `handleMergeParity`, `handleStripeMergeParity`, `handleDelete` | gRPC with a TCP connection per transfer |
| Client | cached parities, logical offset | `set`, `sub_set`, `append`, `get`, `start_merge`, `delete_*` | coordinator by gRPC, proxies by TCP |
| Encoder, RS | none | GF(2^8) arithmetic, encode, decode | used by client, proxy, datanode |

What is hard: gRPC runs handlers concurrently and only some of them take
`m_mutex`; proxies and datanodes do the real work on detached threads after they
have answered; an RPC that fails at its caller does not stop its handler; a
datanode has one acceptor for all its transfers; metadata is changed by late
reports; and the layout has to survive several rounds of merges, failed uploads
and deletions. `PROJECT.json` lists each such hazard at its line.

What makes each part correct:

- layout: losing one rack leaves every stripe decodable, after any merges;
- merge planning: it never refuses an accepted request and never moves data;
- merge transaction: atomic for its client and for readers of the stripe table;
- set path: a stripe the client is told is stored has all its blocks;
- deletion: it removes what was asked for and nothing that was merged since;
- merge rounds of a client: every stripe's data stays in exactly one stripe of
  the table, whatever fails and is asked for again;
- the other codes: a rack can be lost, an RS merge keeps blocks readable and
  parities right, a repair reads what its decoder needs and finds a node;
- transfers: a block reaches the peer it was sent to.

## 2. Modules

| module | models | state and actions |
|---|---|---|
| `DdlrtConfig` | `config.cpp` and the geometry of `initialize_ddlrt_lrc_stripe_placement` | operators on a record `[k, r, z]`: `Racks`, `MergeRounds`, `TailRoots` (the union-find), `DataSlot` |
| `DdlrtMerge` | the coordinator's stripes | `stripes` is `m_stripe_table`, `nextId` is `m_cur_stripe_id`; `SetStripe`, `SetRefused`, `SetUnavailable`, `DeleteStripe`, `MergeStripes` |
| `DdlrtMerge_proofs` | theorems on `DdlrtMerge` | |
| `AtomicMerge` | the promise of a merge | `request`, `merged`, `intact` |
| `MergeTxn` | the I/O of one merge: coordinator, datanodes, proxy, readers | one action per step a crash or another actor can separate |
| `MergeTxn_proofs` | theorems on `MergeTxn` | |
| `SetPath` | the upload of stripes, from `uploadSetValue` to the block files | coordinator, proxies, datanodes and clients; one action per step another thread, a fault or a crash can separate |
| `SetPath_proofs` | theorems on `SetPath` | |
| `MergeRounds` | `start_merge` of several clients' rounds against the coordinator's table | one action per RPC, answer, table change and step of a deletion |
| `MergeRounds_proofs` | theorems on what the table holds and on what the client knows | |
| `CodeConfig` | configuration, merge rounds and orthogonal arrays of the codes other than DdlRT_LRC | operators on a record `[code, k, r, z]` |
| `RsStripes` | RS: Equiox placement, `mergeStripes`, relocation and parity files | `stripes`, `dataFiles`, `parityFiles`, and `pairs`, what is left of a round |
| `LrcStripes` | UniLRC, AzureLRC, OptimalLRC, UniformLRC: groups, random nodes, repair plans | `placed`, `repaired`, `spinning` |
| `CodeStripes` | a deployment of one of these codes | composes `RsStripes` and `LrcStripes` by its configuration |
| `RsPlacement_proofs` | lemmas on where the blocks of RS stripes are | |
| `RsStripes_proofs` | theorems on the RS stripes and merges of `CodeStripes` | |
| `CodeStripes_proofs` | theorems on the LRCs and on the types of `CodeStripes` | |
| `Sorting` | the order of `std::map`, `std::set` and `std::sort` over numbers | `Ascending` |
| `PlacementLemmas` | division, counting, least elements and sorted lists, for the proofs | |
| `MCDdlrtMerge`, `MCMergeTxn`, `MCSetPath`, `MCMergeRounds`, `MCCodeStripes` | instances for TLC | |

A definition with a suffix, such as `Commit_AnyOk` before `Commit`, states a plausible
mistake in the definition it precedes; nothing uses it. It is what a property
is tried against: with the mistake in place TLC finds the property violated.

**`DdlrtMerge`.** A deployment is any of `Configs`. Contents are symbolic. A
global parity is a set of pairs (block, power): the code gives block n of a
stripe the coefficient (2^(j+1))^n in global parity j, so combining two parities
with the coefficient (2^(j+1))^k adds k to the right powers. A local parity is
a set of blocks. `LeavingRack`, `FreePlaces` and `MovePlan` are the migration
planner, which does run, in every reachable state, through `MergeNeverRefused`;
`DataStaysPut` shows that its plan is always empty for the batches the
placement makes. `MergeTxn` therefore has no relocation step, and the same
layout puts A_j and B_j on one datanode, so the remote read of B_j in
`handleStripeMergeParity` asks the datanode that has just not found the file.
A merge is one step here because the handler holds `m_mutex` and changes the
table in one piece; deletions, which do not take the mutex at every point, are
one step at the proxy's report, when the table changes.

**`MergeTxn`.** For every parity j the files `A_j`, `B_j` (old) and `M_j` (new)
are absent, partial, good or bad. `StartMerge` sends one RPC per parity;
`CheckA` ... `HandlerAnswers` are the handler, with the existence checks, the
unchecked reads, the truncation and the write apart; `Commit` and `Rollback` are
the two ends of the coordinator's computation, and `UndoNext` and `PurgeNext`
the proxy's clean-up lists. `RpcFails` ends an RPC at the coordinator and leaves
its handler running, `RequestLost`, `DatanodeCrash` and `ProxyCrash` do the
rest of the damage; a crash keeps files. `LookUp` and `Fetch` are a repair or
degraded read, which takes its key without the mutex. The new keys are the same
in every attempt, because a key is a function of the pair and the round.

`PatientRetry` is the operator. TRUE: a new request is made when nothing of the
failed one runs any more. FALSE: at any time.

**`SetPath`.** `stage` says where `uploadSetValue` and `Client::set` are. `StartSet` and `Plan`
are the read and the write of `m_cur_stripe_id++`, which no lock protects; `Plan` also
forgets old commits of the keys and starts the notifying threads. `Schedule` is the
proxy starting its detached thread, `NotifyReturns` and `NotifyFails` the coordinator's
side of that call; `Accepted` and `Refused` join the threads. `Connect` and `SeeCommit` are
the client's thread per slice, `LockAccept`, `Accept`, `Call`, `Link`, `Report` the proxy's
thread, `Receive` and `Save` the datanode's. A connection carries no key: `Accept` and
`Receive` give it to whoever is served, and `slice`, `hold` and `disk` record whose
data that was. `ReadBreaks`, `ReportLost`, `NotifyFails`, `LostBit`, `NodeStops`,
`ProxyRestarts` and the faulty branches of `Call` and `Link` are the faults, at most
`MaxFaults`. A group is one data block on one datanode behind one proxy, the same for
all stripes, because that is when stripes meet. Left out: a client that dies while
sending (the proxy then stores a slice padded with zeros), a restarted coordinator
(it hands out ids again), several blocks behind one proxy, blocks that do not fit in
the socket buffers (`Link` then waits for the datanode), and the file of a parity
block, to which a second write is appended instead of aborting.

**`MergeRounds`.** A stripe of the table is its uploads and its level. `StartRound`
lists and pairs the sorted ids (`Pairs`), `StartBatch` starts the threads of a
batch, `Tell`, `CallBreaks` and `CallLost` are the ways a call ends for its
thread, `EndRound` joins them and goes on, stops or finishes. On the
coordinator `Begin`, `Refuse`, `Commit`, `MergeSucceeds` and `MergeFails` are
`mergeStripes` or `mergeStripesDdlrtLrc`, one at a time for DdlRT_LRC
(`MutexFree`) and concurrently for RS. A broken call leaves its request running,
so a retry can ask for the same pair. `AskDelete`, `ReadBlocks`, `DeleteFiles` and
`ReportDelete` are `delByStripe` (which takes no mutex when it reads the
table), the proxy and its report, with merges in between. What happens to
blocks inside a merge is `MergeTxn`'s and `RsStripes`' subject. Asking to delete
an id the table does not have is left out: the code picks a proxy from an
empty set.

**`CodeStripes`.** `RsStripes` has the whole placement and the whole merge, as one
step each, for a client that sends one request after the other: `Slot` is the
block loop, `Surplus` the choice of blocks to move, `NewRack` and `MoveColumn`
their new node, `Relocated` the proxy and `ParitySources` and `CombinedParity` the
datanode. `MergeHurt` lets a relocation, a whole proxy or a parity fail; the
table changes all the same. Data blocks keep their key; a parity file is (id,
number, node), so that old files under a reused id are seen. In `LrcStripes`
`Group` is the placement, `Plan`, `Helpers` and `Sent` what a repair asks for,
`Operands` what the encoder combined. Nodes are chosen at random in the code;
which free node it is changes nothing, so the model takes the first, and a
handler that finds none is `spinning`. Some things these modules show in passing:

- the rack the planner chooses for a surplus block is never used: its target is
  `map2cluster`, which still names its old rack. Where r does not divide k a
  merge leaves more than r blocks on a rack;
- a move onto the block's own node deletes the block. The first merges of aligned
  pairs never make one while a rack has a node more than r, and merges within a batch never do
  where r divides k; other merges (of two batches, of two stripes that are no aligned pair, or a second
  time) do: `MergesKeepData` says for which stripes it holds;
- `validateConfig` accepts RS(17,1), (33,2) and (34,2) on 17 clusters, whose last columns wrap around
  to the rack of the parities (`FitsRacks` leaves them out of `RsRackTolerance` and `MergesKeepData`);
- `relocateBlock` answers OK whatever it could not move, so the table names a
  node without the block (`damaged` marks the stripe, as a history variable);
- merging across batches (after a failed upload or a deletion) can combine an old
  parity file: with the uploads 0, 1, 4 and 5, of which 4 and 5 are merged into
  stripe 1 while the files of the first stripe 1 are still there;
- a repair of a data or a global block of OptimalLRC hands its decoder a list that mixes
  data and parities, whose ids index a table of k entries;
- `UniformLRC` plans count racks of r blocks where the placement makes racks of
  r+1; an AzureLRC global needs r-1 >= k/z; RS has no repair plan at all;
- AzureLRC (4,9,2) and UniformLRC (9,7,2) are accepted with 8 nodes per cluster
  and have an upload that never finds a node.

## 3. Runs

| run | shows | bounds |
|---|---|---|
| `layouts` | `RackTolerance`, `MergeNeverRefused`, `RacksMinimal`, `ParityEncodesData`, `DataStaysPut` | every accepted (k, r, z) with k <= 10, r <= 3, z <= 3 and one or two merge rounds, and (6,2,2) with three; one batch and two more stripes; one failed upload or deletion |
| `shared_tail` | violation of `SharedTailCapacity` | (10,2,2) |
| `merge_txn` | `SourcesKept`, `MergedSound`, `BadReadsOvertaken`, `ImplementsAtomicMerge`, `EveryRequestAnswered` | two parities, two attempts, one reader, patient |
| `merge_impatient` | `SourcesKept`, `CommitEarned` | two parities, two attempts, impatient |
| `retry` | violation of `RetrySound` | two parities, two attempts, impatient |
| `repair` | violation of `RepairUsesParity` | two parities, one attempt, one reader |
| `set_path` | `AckedSlicesOwn`, `AckedMetadata`, `SlicesConserved`, `EventuallySaved` | one client, two stripes, two groups, one fault |
| `set_clients` | `SetReturns` | two clients, one stripe each, one group, no fault |
| `set_order` | violation of `AckedBlocksOwn` | one client, two stripes, one group, no fault |
| `merge_rounds` | `StripesConserved`, `TableHasBlocks`, `RunsOfBatch`, `FullRound`, `RoundReturns` | five uploads, two rounds in DdlRT_LRC (one and two threads) and RS (one), one fault of a call, one deletion |
| `round_retry` | violation of `CanRetry` | DdlRT_LRC, one thread |
| `code_layouts` | `RsRackTolerance`, `RsRacksBounded`, `MergesKeepData`, `RsParityEncodes`, `LrcRackTolerance`, `RepairExact`, `PlacementEnds` | 17 configurations on 17 clusters of 8 nodes, six ids, two losses, one fault, one repair |

Why the bounds are enough. The configurations of `layouts` include every shape
of S reachable in two rounds: no tails shared, tails shared in the first, the
second or both rounds, full racks only, and levels after which the 17 racks stop
the merges. `ExtraStripes` makes part of a second batch exist, on another row of
`OA_1.txt`; one loss is what makes misaligned neighbours, which the request
checks accept after a deletion. Two parities are the least a stripe has, enough
for one call to fail while the other is answered, late or lost; the actors of
different parities only meet in the coordinator. Two attempts are the least in
which one outlives another. In `SetPath` two stripes are the least that can meet at an
acceptor, and two groups the least of which one can fail alone; one fault leaves a
thread accepting for the next stripe. One client is what `run_cpp/main_client.cpp`
starts: a menu that stores one stripe after the other. With two clients slices
can be swapped at a proxy (`AckedSlicesOwn` is false), so `set_clients` claims
only that their calls return. The inductive invariant of the proof was checked with three
stripes as well. Deadlock checking is off only in runs whose bounded
counters end the behaviour (a fully used number of uploads or attempts).

In `merge_rounds` five uploads are a batch of four and one more, so there are
rounds with an odd number, pairs across batches and, after a failed upload or a
deletion, pairs that are not neighbours; three calls of `start_merge` let a
retry overlap a broken round and a third find what both left. RS is there with
one thread and a client alone, because only then is `StripesConserved` true of
it: with `MCRsThreads` for `MCModes`, pair 1 of four stripes, (2, 3), commits as
stripe 1 while pair 0, (0, 1), has not been asked for, and stripe 1 is lost. In
`code_layouts` six ids with two losses are the least that lead to an old parity file
under a reused id; the RS configurations have r dividing k and not, one to
three merge rounds and both layouts, the LRCs are such for which the three computations of a
repair agree and such for which they do not, one wraps around the 17 racks, and
(16,7,2) of OptimalLRC is one that the validation must refuse. The first two rows
of each orthogonal array give a stripe and its batch's successor the same racks
on other nodes. Deadlock checking is off there too, as the ids run out.

The five violations are disagreements with the repository's own words, quoted
in `PROJECT.json`:

- `shared_tail`: the validation accepts configurations whose later rounds
  share tail racks that are full; the layout test excludes this for one
  configuration only. The upload throws, and its id is spent.
- `retry`: "You can retry from the current stripe set after checking logs" is
  unsafe while a clean-up or a late call of the failed attempt is running.
- `repair`: a repair that looked its parity up before a merge commits is given
  an uninitialised buffer instead of the parity it needs.
- `set_order`: a stripe is acknowledged before its blocks are saved, and the
  threads that save them are not ordered: two stripes can swap their blocks.
  `SlicesConserved` shows that this is all that can happen without faults: nothing
  is lost or stored twice.
- `round_retry`: after "You can retry" the client refuses every further call, as the
  pairs that succeeded have left an odd number of stripes.

## 4. Fairness

`FairSpec` assumes weak fairness of the coordinator's own steps, of the end of
every parity RPC (it has a deadline of `3 * MERGE_GRPC_TCP_TIMEOUT_SEC`), and of
the proxy's clean-up loop. `cleanupBlocks` and `handleDelete` have no deadline:
that the loop goes on assumes a datanode either answers or refuses the
connection, which is stated here because the code does not enforce it. Nothing
is assumed of handlers, readers, the operator or crashes.

`FairSpec` of `SetPath` assumes weak fairness of every thread's own steps, one
assumption per thread: the operating system runs them, and each waits only for
a lock, a connection or a condition. A plan that was sent is scheduled unless its
call fails. Nothing is assumed of the clients' wish to store, of the faults, or of
the restart of a datanode. `SetReturns` and `EventuallySaved` claim nothing
after a fault: `checkCommitAbort` then really waits for ever, and an acknowledged
block is really lost, since the append thread looks at no status.

`FairSpec` of `MergeRounds` assumes weak fairness of the client's own loop
(`StartBatch`, `EndRound`) and of the coordinator's handling of its calls taken
together (`Handled`): every call that arrived is checked when the mutex is free,
and a merge ends because its RPCs have deadlines, which `EveryRequestAnswered`
shows of `MergeTxn`. A lost call is a fault that ends the wait of its thread.
Nothing is assumed of uploads, deletions and faults. `CodeStripes` states no
liveness: a handler that draws for ever is a state of its own (`spinning`).

## 5. Proofs

`MergeTxn_proofs` proves, for every number of parities and attempts and every set of
readers, the safety properties of the two passing `MergeTxn` runs. The
only assumption is `ConstantsAssumption`.

- `Basic` is inductive whatever the retry policy. Before the commit all old
  parities are good (`SourcesKept`), so all a call has read is good
  (`ReadsGood`); clean-ups of old blocks only run after it; an attempt
  not yet made has no calls (`Unborn`); and an RPC counted as answered was
  answered by its own call, after both reads (`OwnAnswers`). `SourcesKept` is not
  inductive alone: a running purge could delete a source, hence the clause that
  ties purges to the commit. `SourcesAlwaysKept` and `CommitsAreEarned` follow.
- `Settled` adds what patience buys. While an attempt computes, only its own
  calls run (`OnlyOwnCalls`) and what they wrote stays (`WrittenStays`); after
  the commit nothing is left running, so the merged parities stay good.
  `MergedAlwaysSound` and, with `Overtaken`, `BadReadsAlwaysOvertaken` follow.
- `MergeIsAtomic`: under the mapping `intact <- Intact`, `Commit` is `Apply`, the
  answers are `Answer`, and everything else stutters.

`SetPath_proofs` assumes `SetAssumption` only, and one client where it says so
(`SingleClient`).

- `SetTypeCorrect`, for any number of clients. `TypeOK` is not inductive: an id stays
  in range because uploads take ids in turn (`InTurn`, `IdsBounded`), even if two take
  the same one, and a thread passes on data because it has some (`SliceHeld`).
- `AckedSlicesAlwaysOwn` and `AckedMetadataAlways`, for one client and any faults, follow
  from `Sound`. The argument: uploads come one at a time (`OneAtATime`) with ids of their
  own (`IdsFresh`), so a commit of a live upload's key comes from its own thread,
  which has ended with some slice (`CommitsFromThreads`). That slice is at one place
  (`SliceOnce`) and was sent by an accepted upload (`OnlyAcceptedSend`); earlier
  acknowledged uploads have their slices in their own threads, so it is this
  one's (`RunningSlicesOwn`). `AckedSlicesOwn` is needed in its own induction.
- `SlicesAlwaysConserved`, for one client: until something fails (`Kept`), the data of a slice is
  passed from the client's connection to a proxy's thread, to the datanode's call and to
  a file in that order, and is at one of these places at a time, whoever's thread took
  it. A file comes from a thread that is through with its call (`Flow`), so nothing
  overwrites it. With several clients two uploads can have one id, and their files
  one name.

`DdlrtMerge_proofs` proves all the invariants of `layouts` and its action property, for every set of
configurations that `validateConfig` accepts, every number of merge rounds, of uploads,
failures and deletions, and the row contents that `OA_1.txt` and `OA_2.txt` have
(permutations). It assumes `DimensionsAssumption`, `TablesAssumption` and `PowersAssumption`, which
states that powers of two are positive and multiply: the prover has no theory of
exponents, and TLC evaluates it for the levels of its runs. The argument:

- The union-find gives every position of a batch a root, a number (`RootsAreNumbers`); the
  rank of a root and the group number the tail columns, and full racks come after
  (`TailColumns`, `FullColumns`). A stripe's blocks are on columns of its own or at offsets
  that the earlier stripes of its class leave free (`OffsetsApart`), so no two blocks of
  a batch share a place (`SlotsApart`), and the rows, which are permutations, keep them apart
  (`PlacesApart`).
- `LiveInv` is the invariant. Every block of a live stripe is still where its upload
  put it, in the stripe's batch, and no block is in two stripes. A pair that the checks
  accept has distinct blocks of one batch (`MergeablePair`), no place is taken twice and no rack is too full, so the planner's
  sets of leaving blocks are empty (`NothingLeaves`), the plan is the blocks' own places
  (`PlanKeeps`) and the layout is accepted: `MergesGoThrough`, `NoDataMoves`.
- The merged contents are the two stripes' contents, the right powers shifted by the left
  size (`MergedEncodes`): `ParityCorrect`. What a rack holds of one stripe is one group's
  blocks, at most r+1, or the parities (`RackOfStripe`): `RackLossTolerated`.
- `RacksAlwaysMinimal` ties the union-find to the closed formula of
  `get_ddlrt_lrc_racks`. `LiveInv` does not say which blocks a stripe has; `RunInv` adds
  that they are all those of 2^l consecutive uploads from the stripe's id on, which a merge keeps
  because its right stripe starts where the left one ends (`MergedRun`). An aligned run takes
  the positions of one super-stripe (`AlignedRun`), and so its columns. What is left
  is a count, by induction on the levels (`Counted`): joining two halves identifies exactly the
  classes of their last stripes, and only when the level shares a tail rack
  (`JoinsImages`, `JoinCounts`), and the levels above never join two classes of one half
  (`JoinInHalf`). So a super-stripe has `TailRacks` classes, the recurrence of the
  formula (`TailRacksOfLevels`, from `LevelFits`: two halves share the parity rack and none
  or one rack of each group), and z times these and the full racks are `Racks`
  (`ColumnsCounted`).

`MergeRounds_proofs` proves, for DdlRT_LRC and every number of uploads, rounds, threads, calls,
faults and deletions, three invariants of `merge_rounds`, under
`ConstantsAssumption` and the assumption that every mode is DdlRT_LRC, as RS with
several threads has none of them. The argument is a chain. The mutex lets one
merge work at a time, so what its checks saw still holds when it commits
(`Checked`): no report can erase a source in between. The checks make the pair two
adjacent runs of one batch (`Runs`, `Apart`), so the merged stripe is one run that
covers the same uploads and overlaps no other (`RunsJoin`). An upload
that is in no run was failed, deleted or merged while a deletion of its stripe was
under way (`Excused`, `Deletions`, `Gone`).

The second part of the module is the client's side.

- `TypeCorrect` (DdlRT_LRC): what a client waits for are pairs of its list with calls of
  their own, at most as many as threads, so counters stay in their ranges.
- `RoundsAreFull`, for DdlRT_LRC with any number of threads and for RS with one
  (`OneThreadForRs`; section 3 says how two of them lose a stripe). `ClientInv`
  says that the ids a round lists are distinct and ascending (`Ascending` is
  characterised by `SetInOrder`), and that while nothing fails every pair is still to
  be asked for, being asked for, or merged under an id of the table. A merged id is one that just
  left the table or, for RS, one that no later pair has. So the stripes of the table and
  the pairs that are done always add up to the ids listed, and a round that ends has
  done them all.

`CodeStripes_proofs` proves the three LRC properties of `code_layouts` for all codes, every
number of racks and nodes and every set of configurations, under `CodeAssumption`.
The invariant `IInv` says that what the table and the repairs hold is what the placement
and the plan compute from the configuration, so it suffices to prove the placements right
once:

- Arithmetic: a quotient is unique and bounded (`DivUnique`, `DivBound`), a quotient rounded up
  is scaled by z on both sides (`CeilDivScale`: the condition on the clusters of
  OptimalLRC is about k and z(r+1), its placement about k/z and r+1).
- `UniGroups`, `AzureGroups` and `OptimalGroups` say which group a block is in, and by what
  `validateConfig` asks for there are fewer groups than racks (`GroupRange`); so blocks of a
  stripe share a rack only within their group (`RackIsGroup`). For UniformLRC the rows
  before a row have a closed form, rows and their racks are intervals one after the
  other, and the encoder's groups are the same rows.
- `UniLoad`, `AzureLoad` and `OptimalLoad` bound a group by intervals of block numbers.
  With the nodes `validateConfig` asks for, every block finds one (`EveryNodeFound`), and so
  does a repair (`SpareForRepair`); with the limit the property names, the loss of a
  rack leaves enough (`RackLoss`).
- The groups a plan names hold exactly an equation of the lost block
  (`UniEquation`, `AzureEquation`, `OptimalLocalReads`), or the k rows of AzureLRC's
  decoder (`AzureGlobalReads`), which is `ReadsFit`.

The proof of rack tolerance failed at first for UniformLRC: the encoder takes every group
for the smaller size, so when more than r groups are larger the last data blocks are behind
the last local parity, and a rack full of them cannot be restored. (27,2,6) is the
configuration that shows it, and is one of `code_layouts`; `ToleratesRackLoss` therefore asks
that (k+r) % z <= r, and the property is proved with that.

`RecordsAlwaysTyped` joins the two families: the records of RS stripes are typed by their
placement and by what merges do to them (`PlacementTyped`, `RecordsTyped`), those of the LRCs
by `IInv`. It needs the bounds of the model to be numbers (`BoundsAssumption`,
`FaultsAssumption`) and nothing else that the other theorems do not.

`RsStripes_proofs` proves the four RS properties of `code_layouts` for every configuration with
at least as many data blocks as parities, every number of rounds, deletions, failed moves and
parity merges, in two invariants. `RsInv` is about parities and is enough for
`RsParityEncodes`. The danger is a file: targets reuse ids, files of merged stripes stay, and the datanode looks for
the right parity on the left one's node first. The places of a stripe's
parities depend on its batch alone (`ParitiesOfBatch`: the rows by division, the columns are
constants), and a merged stripe has its left half's. So within a batch the file
found first is the one the table names. That this file is current is `Requests`: pairs of a
round share no stripe and no target, and a target is a number of the table only
while its stripe belongs to a pair not after it, because the p-th of sorted ids is at
least p (`SetInOrder`); so a merge writes no file of a stripe that stays
(`MergeKeeps`). The terms of the two contents have different powers and cannot
cancel (`CombinedRight`). `SameBatch` must be about the blocks and not the ids:
a stripe's id is not its first upload's.

`RsPlacement_proofs` is the geometry that the other three need.

- The placement cuts the data into groups of r or r-1 blocks, small ones first at odd
  positions of a batch and large ones first at even ones (positions count from 1). `SmallFirst` and `LargeFirst` turn its
  formulas into a group and an offset per block, `SlotsApart` concludes that no two
  blocks of an upload have one column and one node column, and `PlacesApart` that they have
  no node in common, in the deployments that the arrays fit (`FitsRacks`).
- The first column of an upload is a sum of what the uploads before it take less
  `Overlaps`, which deducts at every position the rack that the two halves meeting there
  share, or none (`OverlapsByPosition`, `TwosInBatch`). Over an aligned run the deductions
  add up to what the run saves together (`OverlapsOfRun`, by induction on the levels), so the
  columns of 2^l uploads are no more than the racks of 2^l k blocks (`Span`). The prover
  has no exponentiation; the powers of two below `LevelBound` are numbers by
  `PowersAssumption`, which TLC evaluates.
- Where r divides k nothing is shared, and the uploads of a batch have no column in common
  but that of the parities (`ColumnsOfBatch`).

`PlacedInv` is what merges keep of it, next to `RsInv`; none of the three properties is
inductive. A merged record says nothing of where a block was uploaded, so `Placed` ties
every block to its first place: merges leave it on that rack, if not on that node. Two
stripes share no block, and a stripe of s.k blocks has blocks of at most s.k/k uploads, so
the bound for the uploads it comes from is one for its length.

- `StripesSurviveRacks`: blocks at their places, of one batch and with no column shared
  between uploads, are at most r to a rack with the parities (`LoadInPlace`).
- `RacksAlwaysBounded`: by `Span`, an aligned run is on one row's columns from its first group
  to its last (`RunOfRacks`, `RunRacks`), with whatever was moved still on them.
- `MergesAlwaysKeepData`: the code moves a block by writing it to the target and deleting the
  source, so a move onto the same node loses it. Where r divides k the plan is empty
  (`NoSurplus`). An aligned pair of uploads is on every rack the merged stripe may
  take (`PairOccupies`), so its surplus stays on its rack and goes to node
  column r, on which no upload has a block (`PairMoves`).

Two of the properties were corrected by the attempt. `MergesKeepData` first promised the data of
every first merge. Its proof needs the surplus to have no other rack to go to, which two uploads of two batches or
of no aligned pair do not give: a column r of the left one's row may be the block's own
node. So it promises first merges of aligned pairs and, where r divides k, all of one batch.
`RsRackTolerance` and `MergesKeepData` ask for `FitsRacks`: `validateConfig` does
not see that RS(17,1) takes 18 racks and wraps around to the rack of its parity.

Model-checked only: liveness (`EveryRequestAnswered`, `SetReturns`, `EventuallySaved`, `RoundReturns`),
which is out of the prover's reach; `TypeOK` of `MergeRounds` for RS and `FullRound` outside the hypotheses above. That the
inductive invariants hold was first checked with TLC on the instances of
`merge_txn`, `set_path`, `merge_rounds`, `layouts` and `code_layouts`.

## 6. Not modelled, and why

- GF tables and matrix inversion (numeric), XML parsing, generated and
  vendored code, the simulation, benchmark drivers and scripts, and the ClusterRT merge,
  which is compiled out; the ClusterRT placement needs an `AppendMode` that
  `validateConfig` refuses. Wording, timing measurements and printing are left out
  everywhere.
- AzureLRC and OptimalLRC with a number of data blocks that z does not divide: the
  code rounds k/z down and the blocks left over share racks, or exceed them, by
  accident (`EqualGroups` leaves such configurations out).
- RS with fewer data blocks than parities: its placement names parity blocks as
  data, and nothing after that means anything.
- RS merges requested concurrently, at the level of blocks. `MergeRounds` has
  the requests; for two threads nothing holds that could be stated.
- A second repair of a block: the table keeps the old node, and what is then
  read depends on nodes that are down. Full-node recovery, the degraded reads
  and the breakdown variants repeat the plans and the look-ups of
  `recovery_one_block` with other timing output.
- Plans with groups the placement did not make: the code indexes an empty vector,
  which is undefined, so `Repair` is not enabled there.
- `delByKey`: no block carries the key it is given, and its choice of a proxy is
  from an empty set. `delByStripe` of an unknown id does the same.
- `append` and `sub_set`: offsets inside blocks and byte ranges of cached parities are
  data; the control they share with `set` is in `SetPath`.
- The datanode's acceptor under reads and `handleSet`: the exchange of two transfers is
  what `set_order` shows for appends.
- The secondary indexes of clusters and nodes: they only choose nodes for the same
  stripe id again, which is spent after a failed placement.
- A restarted coordinator: nothing is persisted, it forgets every stripe.
