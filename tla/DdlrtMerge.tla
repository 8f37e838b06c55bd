----------------------------- MODULE DdlrtMerge ------------------------------
(***************************************************************************)
(* The coordinator's view of DdlRT_LRC stripes: placing the stripes of a   *)
(* batch, planning the merge of two neighbours, and committing the merged  *)
(* stripe.  The I/O of a merge is the subject of MergeTxn; here a merge    *)
(* either commits or leaves the table alone, which is what the handler     *)
(* does under the coordinator's mutex.                                     *)
(*                                                                         *)
(* Contents are symbolic: a global parity is the set of pairs <<block,     *)
(* power>> it combines (the coefficient of a block in global parity j is   *)
(* (2^(j+1))^power, the same power for every j), a local parity is the set *)
(* of blocks it combines.                                                  *)
(***************************************************************************)
EXTENDS DdlrtConfig, Sequences, SequencesExt, Sorting

CONSTANTS Configs,      \* the parameter records a deployment may be started with
          OA1, OA2,     \* the rows of OA_1.txt and OA_2.txt
          ExtraStripes, \* bound: stripes uploaded beyond the first batch
          MaxLosses     \* bound: failed uploads and deleted stripes

ASSUME TablesAssumption ==
    /\ Configs \subseteq [k : Int, r : Int, z : Int]
    /\ \A c \in Configs : ConfigValid(c) /\ Racks(c, LevelBound) > ClusterNum
    /\ OA1 \in Seq(Seq(Nat)) \ {<<>>} /\ OA2 \in Seq(Seq(Nat)) \ {<<>>}
    /\ ExtraStripes \in Nat /\ MaxLosses \in Nat
    /\ \A row \in ToSet(OA1) : Len(row) >= 17 /\ ToSet(SubSeq(row, 1, 17)) = 1..17
    /\ \A row \in ToSet(OA2) : /\ Len(row) >= DatanodeNumPerCluster
                               /\ ToSet(SubSeq(row, 1, DatanodeNumPerCluster))
                                    = 1..DatanodeNumPerCluster

VARIABLES cfg,      \* the configuration file: k, r, z
          nextId,   \* m_cur_stripe_id
          stripes,  \* m_stripe_table: a function on the ids of the live stripes
          losses    \* failed uploads and deletions so far, for the bound only

vars == <<cfg, nextId, stripes, losses>>

-----------------------------------------------------------------------------
(***************************************************************************)
(* Physical places.  The two rows are chosen by the batch: OA_1 permutes   *)
(* the racks, OA_2 the nodes inside a rack.                                *)
(***************************************************************************)
Cycle(batch)   == batch % (Len(OA1) * Len(OA2))
RackRow(batch) == OA1[(Cycle(batch) \div Len(OA2)) + 1]
NodeRow(batch) == OA2[(Cycle(batch) % Len(OA2)) + 1]

Cluster(batch, col) == RackRow(batch)[col] - 1
Node(batch, col, ncol) == <<Cluster(batch, col), NodeRow(batch)[ncol] - 1>>

BatchOf(sid) == sid \div BatchSize(cfg)
PosOf(sid)   == sid % BatchSize(cfg)

(***************************************************************************)
(* A freshly placed stripe: k data blocks in id order, the parities on     *)
(* columns 1..r+z of the parity rack, encoded by the client.               *)
(***************************************************************************)
PlacedBlock(sid, i) ==
    LET slot == DataSlot(cfg, PosOf(sid), i)
    IN  [id |-> <<sid, i>>, group |-> slot.group, col |-> slot.col, ncol |-> slot.ncol]

NewStripe(sid) ==
    LET data == [n \in 1..cfg.k |-> PlacedBlock(sid, n - 1)]
    IN  [k      |-> cfg.k,
         batch  |-> BatchOf(sid),
         pos    |-> PosOf(sid),
         data   |-> data,
         parity |-> [p \in 1..(cfg.r + cfg.z) |-> [col |-> ParityCol, ncol |-> p]],
         global |-> {<<data[n].id, n - 1>> : n \in 1..cfg.k},
         local  |-> [g \in 0..(cfg.z - 1) |->
                       {data[n].id : n \in {m \in 1..cfg.k : data[m].group = g}}]]

BlockCluster(s, b) == Cluster(s.batch, b.col)
BlockNode(s, b)    == Node(s.batch, b.col, b.ncol)

-----------------------------------------------------------------------------
(***************************************************************************)
(* The migration plan of a merge.  Blocks are numbered 1..2k, the left     *)
(* stripe's first; loc gives each one's planned columns.                   *)
(***************************************************************************)
Combined(a, b) == a.data \o b.data
Locations(a, b) ==
    [n \in 1..(2 * a.k) |-> [col  |-> Combined(a, b)[n].col,
                             ncol |-> Combined(a, b)[n].ncol]]
LocCluster(a, l) == Cluster(a.batch, l.col)
LocNode(a, l)    == Node(a.batch, l.col, l.ncol)

(***************************************************************************)
(* The blocks of one group that must leave one rack, in the order they are *)
(* picked: right blocks on a node a left block uses, then as many other    *)
(* right blocks as exceed the rack's capacity.                             *)
(***************************************************************************)
LeavingRack(a, b, group, rack) ==
    LET loc       == Locations(a, b)
        here      == {n \in 1..(2 * a.k) : /\ Combined(a, b)[n].group = group
                                           /\ LocCluster(a, loc[n]) = rack}
        leftNodes == {LocNode(a, loc[n]) : n \in here \cap (1..a.k)}
        right     == here \cap ((a.k + 1)..(2 * a.k))
        clash     == {n \in right : LocNode(a, loc[n]) \in leftNodes}
        others    == right \ clash
        excess    == Max({0, Cardinality(here) - RackCapacity(cfg) - Cardinality(clash)})
    IN  Ascending(clash)
          \o SubSeq(Ascending(others), 1, Min({excess, Cardinality(others)}))

Leaving(a, b, group) ==
    LET racks == {LocCluster(a, Locations(a, b)[n]) :
                    n \in {m \in 1..(2 * a.k) : Combined(a, b)[m].group = group}}
    IN  FlattenSeq([i \in 1..Cardinality(racks) |->
                      LeavingRack(a, b, group, Ascending(racks)[i])])

(***************************************************************************)
(* Free places for block n: a rack that already holds data of its group,   *)
(* is not its own and is not full, at its first free node column.          *)
(***************************************************************************)
FreePlaces(a, b, loc, n) ==
    LET group   == Combined(a, b)[n].group
        others  == (1..(2 * a.k)) \ {n}
        In(col) == {m \in others : LocCluster(a, loc[m]) = Cluster(a.batch, col)}
        Free(col) == {nc \in 1..Min({RackCapacity(cfg), Len(NodeRow(a.batch))}) :
                        \A m \in In(col) : LocNode(a, loc[m]) # Node(a.batch, col, nc)}
        cols    == {loc[m].col : m \in {x \in 1..(2 * a.k) :
                                          Combined(a, b)[x].group = group}}
    IN  {[load |-> Cardinality(In(col)), col |-> col, ncol |-> Min(Free(col))] :
           col \in {x \in cols : /\ Cluster(a.batch, x) # LocCluster(a, loc[n])
                                 /\ Cardinality(In(x)) < RackCapacity(cfg)
                                 /\ Free(x) # {}}}

BestPlace(places) ==
    CHOOSE p \in places : \A q \in places :
        \/ p.load < q.load
        \/ p.load = q.load /\ p.col <= q.col

(***************************************************************************)
(* The whole plan: group by group, each leaving block in turn takes the    *)
(* best free place; with no free place the request is refused.             *)
(***************************************************************************)
MovePlan(a, b) ==
    LET leaving == FlattenSeq([g \in 1..cfg.z |-> Leaving(a, b, g - 1)])
        Step(plan, n) ==
            LET places == FreePlaces(a, b, plan.loc, n)
            IN  IF ~plan.ok \/ places = {} THEN [plan EXCEPT !.ok = FALSE]
                ELSE LET to == BestPlace(places)
                     IN  [plan EXCEPT !.loc[n] = [col |-> to.col, ncol |-> to.ncol]]
    IN  FoldLeft(Step, [ok |-> TRUE, loc |-> Locations(a, b)], leaving)

(***************************************************************************)
(* The checks of the planned layout before any I/O.                        *)
(***************************************************************************)
LayoutAccepted(a, loc) ==
    \A n \in DOMAIN loc :
        LET rack == {m \in DOMAIN loc : LocCluster(a, loc[m]) = LocCluster(a, loc[n])}
        IN  /\ LocCluster(a, loc[n]) # Cluster(a.batch, a.parity[1].col)
            /\ Cardinality(rack) <= RackCapacity(cfg)
            /\ \A m \in rack \ {n} : LocNode(a, loc[m]) # LocNode(a, loc[n])

(***************************************************************************)
(* The checks on the request.                                              *)
(***************************************************************************)
RequestValid(a, b, round) ==
    /\ round \in 1..MergeRounds(cfg)
    /\ b.k = a.k
    /\ a.k = cfg.k * 2^(round - 1)
    /\ a.batch = b.batch
    /\ a.pos + 2^(round - 1) = b.pos

(***************************************************************************)
(* The merged stripe: left data then right data at their planned places,   *)
(* and each parity combined with the coefficient base^k on the right.      *)
(***************************************************************************)
MergedGlobal_BaseK(a, b) == a.global \cup {<<p[1], p[2] + cfg.k>> : p \in b.global}

MergedGlobal(a, b) == a.global \cup {<<p[1], p[2] + a.k>> : p \in b.global}

MergedStripe(a, b, loc) ==
    [k      |-> 2 * a.k,
     batch  |-> a.batch,
     pos    |-> a.pos,
     data   |-> [n \in 1..(2 * a.k) |->
                   [Combined(a, b)[n] EXCEPT !.col = loc[n].col, !.ncol = loc[n].ncol]],
     parity |-> a.parity,
     global |-> MergedGlobal(a, b),
     local  |-> [g \in DOMAIN a.local |-> a.local[g] \cup b.local[g]]]

-----------------------------------------------------------------------------
IdBound == BatchSize(cfg) + ExtraStripes

Init ==
    /\ cfg \in Configs
    /\ nextId = 0
    /\ stripes = <<>>
    /\ losses = 0

(***************************************************************************)
(* uploadSetValue with every proxy accepting its plan.                     *)
(***************************************************************************)
SetStripe ==
    /\ nextId < IdBound
    /\ nextId' = nextId + 1
    /\ PlacementFits(cfg, PosOf(nextId))
    /\ stripes' = [s \in DOMAIN stripes \cup {nextId} |->
                     IF s = nextId THEN NewStripe(s) ELSE stripes[s]]
    /\ UNCHANGED <<cfg, losses>>

(***************************************************************************)
(* uploadSetValue whose placement throws: the id is spent.                 *)
(***************************************************************************)
SetRefused ==
    /\ nextId < IdBound
    /\ ~PlacementFits(cfg, PosOf(nextId))
    /\ nextId' = nextId + 1
    /\ UNCHANGED <<cfg, stripes, losses>>

(***************************************************************************)
(* uploadSetValue with a proxy that does not answer: the id is spent too.  *)
(***************************************************************************)
SetUnavailable ==
    /\ nextId < IdBound /\ losses < MaxLosses
    /\ PlacementFits(cfg, PosOf(nextId))
    /\ nextId' = nextId + 1
    /\ losses' = losses + 1
    /\ UNCHANGED <<cfg, stripes>>

(***************************************************************************)
(* delByStripe, up to the proxy's report that the blocks are gone.         *)
(***************************************************************************)
DeleteStripe(sid) ==
    /\ losses < MaxLosses
    /\ stripes' = [s \in DOMAIN stripes \ {sid} |-> stripes[s]]
    /\ losses' = losses + 1
    /\ UNCHANGED <<cfg, nextId>>

(***************************************************************************)
(* mergeStripesDdlrtLrc with all its I/O succeeding; the target id is the  *)
(* left stripe's.                                                          *)
(***************************************************************************)
MergeStripes(sa, sb, round) ==
    LET a == stripes[sa]
        b == stripes[sb]
        plan == MovePlan(a, b)
    IN  /\ RequestValid(a, b, round)
        /\ plan.ok
        /\ LayoutAccepted(a, plan.loc)
        /\ stripes' = [s \in DOMAIN stripes \ {sb} |->
                         IF s = sa THEN MergedStripe(a, b, plan.loc) ELSE stripes[s]]
        /\ UNCHANGED <<cfg, nextId, losses>>

Merge == \E sa, sb \in DOMAIN stripes :
            \E round \in 1..MergeRounds(cfg) : MergeStripes(sa, sb, round)

Next ==
    \/ SetStripe \/ SetRefused \/ SetUnavailable
    \/ \E sid \in DOMAIN stripes : DeleteStripe(sid)
    \/ Merge

Spec == Init /\ [][Next]_vars

-----------------------------------------------------------------------------
Live == DOMAIN stripes
DataIds(s) == {s.data[n].id : n \in 1..s.k}
Level(s) == CHOOSE l \in 0..MergeRounds(cfg) : s.k = cfg.k * 2^l
DataClusters(s) == {BlockCluster(s, s.data[n]) : n \in 1..s.k}
ParityCluster(s) == BlockCluster(s, s.parity[1])

(***************************************************************************)
(* Stripe records have the shape the coordinator gives them, on existing   *)
(* rack and node columns.                                                  *)
(***************************************************************************)
TypeOK ==
    /\ cfg \in Configs
    /\ nextId \in 0..IdBound
    /\ losses \in 0..MaxLosses
    /\ Live \subseteq 0..(nextId - 1)
    /\ \A sid \in Live :
         LET s == stripes[sid]
         IN  /\ s.pos = PosOf(sid) /\ s.batch = BatchOf(sid)
             /\ \E l \in 0..MergeRounds(cfg) : s.k = cfg.k * 2^l
             /\ DOMAIN s.data = 1..s.k /\ DOMAIN s.parity = 1..(cfg.r + cfg.z)
             /\ \A b \in ToSet(s.data) \cup ToSet(s.parity) :
                   b.col \in 1..17 /\ b.ncol \in 1..DatanodeNumPerCluster
             /\ \A n \in 1..s.k : s.data[n].group \in 0..(cfg.z - 1)

(***************************************************************************)
(* The reason for the layout: losing any one rack must leave every stripe, *)
(* merged or not, decodable.  A rack holds data of one local group only,   *)
(* at most r+1 blocks of it (r globals and the group's own parity make up  *)
(* for them), no data shares the parity rack, and no two blocks of a       *)
(* stripe share a node.  It is about the placement's columns surviving     *)
(* every sequence of uploads, deletions and merges of any two stripes the  *)
(* handler accepts as neighbours, aligned or not.                          *)
(***************************************************************************)
RackTolerance ==
    \A sid \in Live :
        LET s == stripes[sid]
            On(rack) == {n \in 1..s.k : BlockCluster(s, s.data[n]) = rack}
        IN  /\ ParityCluster(s) \notin DataClusters(s)
            /\ \A rack \in DataClusters(s) :
                  /\ Cardinality(On(rack)) <= RackCapacity(cfg)
                  /\ Cardinality({s.data[n].group : n \in On(rack)}) = 1
                  /\ Cardinality({BlockNode(s, s.data[n]) : n \in On(rack)})
                       = Cardinality(On(rack))
            /\ Cardinality({BlockNode(s, s.parity[p]) : p \in DOMAIN s.parity})
                 = Cardinality(DOMAIN s.parity)

(***************************************************************************)
(* A merge the request checks accept is never turned down by the planner   *)
(* ("no pure-data rack with a free node") nor by the layout validation.    *)
(***************************************************************************)
MergeNeverRefused ==
    \A sa, sb \in Live : \A round \in 1..MergeRounds(cfg) :
        RequestValid(stripes[sa], stripes[sb], round) =>
            LET plan == MovePlan(stripes[sa], stripes[sb])
            IN  plan.ok /\ LayoutAccepted(stripes[sa], plan.loc)

(***************************************************************************)
(* The point of the scheme: no data block ever changes rack or node.  The  *)
(* planner has the code to migrate, but the placement of a batch leaves it *)
(* nothing to do in any round.                                             *)
(***************************************************************************)
DataStaysPut ==
    [][\A sid \in Live : \A t \in DOMAIN stripes' :
         \A n \in 1..stripes[sid].k : \A m \in 1..stripes'[t].k :
            stripes[sid].data[n].id = stripes'[t].data[m].id =>
                BlockNode(stripes[sid], stripes[sid].data[n])
                  = Node(stripes'[t].batch, stripes'[t].data[m].col,
                         stripes'[t].data[m].ncol)]_vars

(***************************************************************************)
(* A stripe merged from an aligned run of 2^l stripes occupies exactly the *)
(* racks get_ddlrt_lrc_racks(l) counts, the number S was derived from.     *)
(***************************************************************************)
RacksMinimal ==
    \A sid \in Live :
        LET s == stripes[sid]
        IN  s.pos % 2^Level(s) = 0 =>
              Cardinality(DataClusters(s) \cup {ParityCluster(s)}) = Racks(cfg, Level(s))

(***************************************************************************)
(* Combining old parities gives the parities of the merged data in its     *)
(* order: the block in column n of the stripe carries the power n, and a   *)
(* local parity covers the data the coordinator lists in its group.        *)
(***************************************************************************)
ParityEncodesData ==
    \A sid \in Live :
        LET s == stripes[sid]
        IN  /\ s.global = {<<s.data[n].id, n - 1>> : n \in 1..s.k}
            /\ \A g \in 0..(cfg.z - 1) :
                 s.local[g] = {s.data[n].id : n \in {m \in 1..s.k : s.data[m].group = g}}

(***************************************************************************)
(* What the layout test asserts of its one configuration with shared tails *)
(* (test_shared_tail_capacity: the stripes of a class together put at most *)
(* r+1 blocks in their tail rack), asked of every configuration: an upload *)
(* is then never refused by the placement.                                 *)
(***************************************************************************)
SharedTailCapacity ==
    \A pos \in Positions(cfg) :
        pos <= nextId => TailOffset(cfg, pos) + TailLoad(cfg) <= RackCapacity(cfg)
=============================================================================
