----------------------------- MODULE RsStripes -------------------------------
(***************************************************************************)
(* RS stripes: initialize_equiox_stripe_placement, and the client merging  *)
(* pairs of stripes round by round through mergeStripes.  The client sends *)
(* one request at a time (MERGE_CONCURRENCY 1).                            *)
(*                                                                         *)
(* A data block is <<the stripe it was uploaded in, its place there>>; a   *)
(* parity's content is the set of <<block, power>> it combines: block n of *)
(* a stripe has the coefficient (2^(j+1))^n in parity j, so the powers are *)
(* the same for every j.  A parity file is <<stripe id, j, node>>, the     *)
(* key the coordinator builds from the id a stripe has when it is written. *)
(***************************************************************************)
EXTENDS CodeConfig, Sorting

CONSTANT MaxFaults      \* bound: failed relocations and parity merges

(* The bound of the model is a number.                                     *)
ASSUME FaultsAssumption == MaxFaults \in Nat

VARIABLES stripes,      \* m_stripe_table
          dataFiles,    \* the pairs <<block, node>> whose file holds the block
          parityFiles,  \* parity file -> content
          pairs,        \* start_merge: the requests still to be sent
          round,        \* the round its user entered
          faults        \* failures so far, for the bound only

rsVars == <<stripes, dataFiles, parityFiles, pairs, round, faults>>

(***************************************************************************)
(* A map after the entries of another are put into it.                     *)
(***************************************************************************)
Over(new, old) ==
    [x \in DOMAIN new \cup DOMAIN old |-> IF x \in DOMAIN new THEN new[x] ELSE old[x]]

-----------------------------------------------------------------------------
(***************************************************************************)
(* Placement.  The stripes of a batch share an OA_1 row; the position in   *)
(* the batch picks the first column of the data.                           *)
(***************************************************************************)
BatchSize(c)  == 2^RsRounds(c)
Position(c, sid) == (sid % BatchSize(c)) + 1
RackRow(c, sid)  == (sid \div (BatchSize(c) * Len(OA2))) % Len(OA1)
NodeRow(c, sid)  == (sid \div BatchSize(c)) % Len(OA2)
SmallGroups(c)   == c.r - ((c.k + c.r - 1) % c.r) - 1
SharesTwoRacks(c) == RsRounds(c) > 0 /\ NumArry(c, 1) = 2
SplitsParities(c) == SharesTwoRacks(c) /\ c.r > 2

Twos(n) == Max({e \in 0..LevelBound : n % 2^e = 0})

(***************************************************************************)
(* By how many racks the stripes before a position, taken one by one, will *)
(* fall short once they are merged: their columns start that much earlier. *)
(***************************************************************************)
Overlaps(c) ==
    LET sum[m \in 0..(BatchSize(c) - 1)] ==
          IF m = 0 THEN 0 ELSE sum[m - 1] + NumArry(c, Twos(m) + 1)
    IN  sum

FirstColumn_NoParityRack(c, sid) == (Position(c, sid) - 1) * (RsRacks(c, 0) - 1)

FirstColumn_NoSharedRack(c, sid) ==
    (Position(c, sid) - 1) * (RsRacks(c, 0) - 1) + Position(c, sid)

FirstColumn(c, sid) ==
    LET pos == Position(c, sid)
    IN  IF SharesTwoRacks(c) THEN (pos - 1) * (RsRacks(c, 0) - 2) + 2
        ELSE (pos - 1) * (RsRacks(c, 0) - 1) + pos - Overlaps(c)[pos - 1]

(***************************************************************************)
(* Block i among groups of which the first num have one size.              *)
(***************************************************************************)
InGroups(i, num, size, restSize) ==
    IF i < num * size THEN [group |-> i \div size, pos |-> i % size]
    ELSE [group |-> num + (i - num * size) \div restSize,
          pos   |-> (i - num * size) % restSize]

(***************************************************************************)
(* All parities on the row's first rack; r-1 data blocks per rack first on *)
(* the odd positions of the batch and last on the even ones, on the nodes  *)
(* the other leaves free.                                                  *)
(***************************************************************************)
OneRackSlot(c, sid, i) ==
    LET odd   == Position(c, sid) % 2 = 1
        small == SmallGroups(c)
        large == CeilDiv(c.k - small * (c.r - 1), c.r)
        at    == IF odd THEN InGroups(i, small, c.r - 1, c.r)
                 ELSE InGroups(i, large, c.r, c.r - 1)
    IN  IF i >= c.k THEN [col |-> 0, ncol |-> i - c.k]
        ELSE [col  |-> (FirstColumn(c, sid) + at.group) % 17,
              ncol |-> IF odd /\ at.group < small THEN at.pos + 1 ELSE at.pos]

(***************************************************************************)
(* Two parities and r-3 data blocks on the row's first rack, the other     *)
(* parities and one data block on its second, the rest behind them.        *)
(***************************************************************************)
TwoRacksSlot(c, sid, i) ==
    LET odd   == Position(c, sid) % 2 = 1
        small == Max({0, SmallGroups(c) - 2})
        at    == InGroups(i - (c.r - 2), small, c.r - 1, c.r)
    IN  IF i < c.r - 3 THEN [col |-> 0, ncol |-> IF odd THEN 2 + i ELSE 3 + i]
        ELSE IF i = c.r - 3 THEN [col |-> 1, ncol |-> IF odd THEN 0 ELSE 1]
        ELSE IF i < c.k THEN [col  |-> (FirstColumn(c, sid) + at.group) % 17,
                              ncol |-> at.pos]
        ELSE IF i <= c.k + 1 THEN [col |-> 0, ncol |-> i - c.k]
        ELSE [col |-> 1, ncol |-> 2 + ((i - c.k - 2) % (c.r - 2))]

Slot(c, sid, i) ==
    IF SplitsParities(c) THEN TwoRacksSlot(c, sid, i) ELSE OneRackSlot(c, sid, i)

PlaceOf(c, sid, i) ==
    LET slot == Slot(c, sid, i)
    IN  <<OaRack(RackRow(c, sid), slot.col), OaNode(NodeRow(c, sid), slot.ncol)>>

NewStripe(c, sid) ==
    [k       |-> c.k,
     row1    |-> RackRow(c, sid),
     row2    |-> NodeRow(c, sid),
     data    |-> [n \in 1..c.k |-> [id |-> <<sid, n - 1>>, node |-> PlaceOf(c, sid, n - 1)]],
     parity  |-> [j \in 1..c.r |-> PlaceOf(c, sid, c.k + j - 1)],
     damaged |-> FALSE]      \* history: a failed upload or merge step touched it

-----------------------------------------------------------------------------
(***************************************************************************)
(* The migration plan of mergeStripes: on every rack with more than r      *)
(* blocks of the merged stripe (the left parities counted), first the      *)
(* second and later blocks of a node, the last first, then the others.     *)
(***************************************************************************)
Rack(node) == node[1]
Combined(a, b) == a.data \o b.data
DataRacks(a, b) == {Rack(d.node) : d \in ToSet(Combined(a, b))}
ParitiesOn(a, rack) == Cardinality({j \in DOMAIN a.parity : Rack(a.parity[j]) = rack})

Here(a, b, rack) == {n \in DOMAIN Combined(a, b) : Rack(Combined(a, b)[n].node) = rack}
Excess(a, b, rack) == Cardinality(Here(a, b, rack)) + ParitiesOn(a, rack) - cfg.r

(***************************************************************************)
(* How many blocks of the rack of block n move before it would.            *)
(***************************************************************************)
MovesAfter(a, b, n) ==
    LET node(m) == Combined(a, b)[m].node
        IsFirst(m) == \A l \in 1..(m - 1) : node(l) # node(m)
        Before(m) == \/ ~IsFirst(m) /\ IsFirst(n)
                     \/ IsFirst(m) = IsFirst(n) /\ node(m)[2] < node(n)[2]
                     \/ IsFirst(m) = IsFirst(n) /\ node(m) = node(n) /\ m > n
    IN  Cardinality({m \in Here(a, b, Rack(node(n))) : Before(m)})

Surplus(a, b) ==
    {n \in DOMAIN Combined(a, b) :
       MovesAfter(a, b, n) < Excess(a, b, Rack(Combined(a, b)[n].node))}

(***************************************************************************)
(* The rack the OA_1 formula gives when the merged stripe occupies fewer   *)
(* racks than ceil((2k+r)/r).  It only decides which node column a block   *)
(* gets: every surplus block is sent to its own rack (map2cluster).        *)
(***************************************************************************)
NoRack == -1
NewRack(a, b, target, rd) ==
    LET occupied == DataRacks(a, b) \cup {Rack(a.parity[j]) : j \in DOMAIN a.parity}
        left     == RsRounds(cfg) - rd
        col      == (CeilDiv(a.k + cfg.r, cfg.r) - NumArry(cfg, 1)) * 2^(left + 1)
                      + NumArry(cfg, 1) + (target % 2^left)
    IN  IF Cardinality(occupied) < CeilDiv(2 * a.k + cfg.r, cfg.r) /\ col < 17
        THEN OaRack(a.row1, col) ELSE NoRack

MoveColumn_LastParity(a, b, newRack, n) == cfg.r - 1

MoveColumn(a, b, newRack, n) ==
    IF Rack(Combined(a, b)[n].node) = newRack THEN MovesAfter(a, b, n) ELSE cfg.r

Moves(a, b, target, rd) ==
    LET newRack == NewRack(a, b, target, rd)
        NodeAt(col) == IF col < Len(OA2[a.row2 + 1]) THEN OaNode(a.row2, col) ELSE 0
    IN  {LET d == Combined(a, b)[n]
         IN  [id   |-> d.id,
              from |-> d.node,
              to   |-> <<Rack(d.node), NodeAt(MoveColumn(a, b, newRack, n))>>] :
           n \in Surplus(a, b)}

(***************************************************************************)
(* relocateBlock reads the block, writes it and deletes the source without *)
(* comparing the two nodes: a move of a block onto its own node deletes    *)
(* it.  Reading a missing block returns junk, which is then written.       *)
(***************************************************************************)
Relocated(files, moves) ==
    (files \ UNION {{<<mv.id, mv.from>>, <<mv.id, mv.to>>} : mv \in moves})
      \cup {<<mv.id, mv.to>> : mv \in {x \in moves : /\ <<x.id, x.from>> \in files
                                                     /\ x.from # x.to}}

(***************************************************************************)
(* handleStripeMergeParity on the node of left parity j: the right parity  *)
(* is looked for on this node first, then on its own node, and a new file  *)
(* holds left + coeff * right (a sum in GF(2^8): equal terms cancel).      *)
(***************************************************************************)
ExclusiveOr(S, T) == (S \ T) \cup (T \ S)

ParityShift_ConfigK(a) == cfg.k
ParityShift(a) == a.k

ParitySources(sa, sb, j) ==
    LET left   == <<sa, j, stripes[sa].parity[j]>>
        local  == <<sb, j, stripes[sa].parity[j]>>
        remote == <<sb, j, stripes[sb].parity[j]>>
    IN  [found |-> left \in DOMAIN parityFiles
                     /\ {local, remote} \cap DOMAIN parityFiles # {},
         left  |-> left,
         right |-> IF local \in DOMAIN parityFiles THEN local ELSE remote]

CombinedParity(sa, sb, j) ==
    LET src == ParitySources(sa, sb, j)
    IN  ExclusiveOr(parityFiles[src.left],
                    {<<p[1], p[2] + ParityShift(stripes[sa])>> : p \in parityFiles[src.right]})

(***************************************************************************)
(* The record put in the table whatever happened to the files.             *)
(***************************************************************************)
MergedStripe(a, b, moves, hurt) ==
    LET NodeAfter(d) == IF \E mv \in moves : mv.id = d.id
                        THEN (CHOOSE mv \in moves : mv.id = d.id).to ELSE d.node
    IN  [a EXCEPT !.k = 2 * a.k,
                  !.data = [n \in 1..(2 * a.k) |->
                              [id   |-> Combined(a, b)[n].id,
                               node |-> NodeAfter(Combined(a, b)[n])]],
                  !.damaged = a.damaged \/ b.damaged \/ hurt]

-----------------------------------------------------------------------------
RsInit ==
    /\ stripes = <<>> /\ dataFiles = {} /\ parityFiles = <<>>
    /\ pairs = <<>> /\ round = 1 /\ faults = 0

(***************************************************************************)
(* uploadSetValue and the blocks reaching their nodes.                     *)
(***************************************************************************)
RsSetStripe ==
    /\ nextId < MaxIds /\ pairs = <<>>
    /\ LET s == NewStripe(cfg, nextId)
       IN  /\ stripes' = Over([t \in {nextId} |-> s], stripes)
           /\ dataFiles' = dataFiles \cup {<<d.id, d.node>> : d \in ToSet(s.data)}
           /\ parityFiles' = Over([f \in {<<nextId, j, s.parity[j]>> : j \in 1..cfg.r} |->
                                     {<<s.data[n].id, n - 1>> : n \in 1..s.k}],
                                  parityFiles)
    /\ nextId' = nextId + 1
    /\ UNCHANGED <<cfg, losses, pairs, round, faults>>

(***************************************************************************)
(* An upload that a proxy does not take: its id is spent.                  *)
(***************************************************************************)
RsSetUnavailable ==
    /\ nextId < MaxIds /\ pairs = <<>> /\ losses < MaxLosses
    /\ nextId' = nextId + 1
    /\ losses' = losses + 1
    /\ UNCHANGED <<cfg, rsVars>>

(***************************************************************************)
(* delByStripe: the files the table names go, then the record.             *)
(***************************************************************************)
RsDelete(sid) ==
    LET s == stripes[sid]
        gone == {<<sid, j, s.parity[j]>> : j \in 1..cfg.r}
    IN  /\ pairs = <<>> /\ losses < MaxLosses
        /\ stripes' = [t \in DOMAIN stripes \ {sid} |-> stripes[t]]
        /\ dataFiles' = dataFiles \ {<<d.id, d.node>> : d \in ToSet(s.data)}
        /\ parityFiles' = [f \in DOMAIN parityFiles \ gone |-> parityFiles[f]]
        /\ losses' = losses + 1
        /\ UNCHANGED <<cfg, nextId, pairs, round, faults>>

(***************************************************************************)
(* start_merge: the ids are listed and sorted; pair p gets the target p.   *)
(***************************************************************************)
StartMerge(rd) ==
    LET ids == Ascending(DOMAIN stripes)
    IN  /\ pairs = <<>> /\ Len(ids) >= 2
        /\ pairs' = [p \in 1..(Len(ids) \div 2) |->
                       [a |-> ids[2 * p - 1], b |-> ids[2 * p], target |-> p - 1]]
        /\ round' = rd
        /\ UNCHANGED <<cfg, nextId, losses, stripes, dataFiles, parityFiles, faults>>

(***************************************************************************)
(* The checks of mergeStripes.  The round is not compared with the sizes.  *)
(***************************************************************************)
RequestValid(req) ==
    /\ stripes[req.a].k = stripes[req.b].k
    /\ round \in 1..RsRounds(cfg)

(***************************************************************************)
(* mergeStripes.  unmoved are relocations that did not happen: a block the *)
(* proxy could not copy is not reported, a proxy that cannot be reached    *)
(* is.  uncombined are parities whose merge failed, which is reported.     *)
(* The table is updated in every case; the client stops at a failure.      *)
(***************************************************************************)
MergeWith(unmoved, reported, uncombined) ==
    LET req     == Head(pairs)
        a       == stripes[req.a]
        moves   == Moves(a, stripes[req.b], req.target, round)
        written == {j \in 1..cfg.r \ uncombined : ParitySources(req.a, req.b, j).found}
        hurt    == unmoved # {} \/ written # 1..cfg.r
        files   == [f \in {<<req.target, j, a.parity[j]>> : j \in written} |->
                      CombinedParity(req.a, req.b, f[2])]
    IN  /\ RequestValid(req)
        /\ unmoved \subseteq moves
        /\ stripes' = Over([s \in {req.target} |->
                              MergedStripe(a, stripes[req.b], moves, hurt)],
                           [s \in DOMAIN stripes \ {req.a, req.b} |-> stripes[s]])
        /\ dataFiles' = Relocated(dataFiles, moves \ unmoved)
        /\ parityFiles' = Over(files, parityFiles)
        /\ pairs' = IF reported \/ written # 1..cfg.r THEN <<>> ELSE Tail(pairs)
        /\ UNCHANGED <<cfg, nextId, losses, round>>

MergePair == pairs # <<>> /\ MergeWith({}, FALSE, {}) /\ UNCHANGED faults

MergeHurt ==
    /\ pairs # <<>> /\ RequestValid(Head(pairs)) /\ faults < MaxFaults
    /\ LET req   == Head(pairs)
           moves == Moves(stripes[req.a], stripes[req.b], req.target, round)
       IN  \/ \E mv \in moves : MergeWith({mv}, FALSE, {})
           \/ \E rack \in {Rack(mv.from) : mv \in moves} :
                 MergeWith({mv \in moves : Rack(mv.from) = rack}, TRUE, {})
           \/ \E j \in 1..cfg.r : MergeWith({}, FALSE, {j})
    /\ faults' = faults + 1

MergeRefused ==
    /\ pairs # <<>> /\ ~RequestValid(Head(pairs))
    /\ pairs' = <<>>
    /\ UNCHANGED <<cfg, nextId, losses, stripes, dataFiles, parityFiles, round, faults>>

RsNext ==
    \/ RsSetStripe \/ RsSetUnavailable
    \/ \E sid \in DOMAIN stripes : RsDelete(sid)
    \/ \E rd \in 1..(RsRounds(cfg) + 1) : StartMerge(rd)
    \/ MergePair \/ MergeHurt \/ MergeRefused

-----------------------------------------------------------------------------
Batch(id) == id[1] \div BatchSize(cfg)
Aligned(s) == \E l \in 0..RsRounds(cfg) : \E first \in 0..(nextId - 1) :
                 /\ first % 2^l = 0
                 /\ {d.id[1] : d \in ToSet(s.data)} = first..(first + 2^l - 1)
OneBatch(s) == Cardinality({Batch(d.id) : d \in ToSet(s.data)}) = 1
Load(s, rack) == Cardinality({n \in 1..s.k : Rack(s.data[n].node) = rack})
                   + ParitiesOn(s, rack)
AllRacks(s) == {Rack(d.node) : d \in ToSet(s.data)} \cup {Rack(p) : p \in ToSet(s.parity)}

RsTypeOK ==
    /\ DOMAIN stripes \subseteq 0..(nextId - 1)
    /\ round \in 1..(RsRounds(cfg) + 1) /\ faults \in 0..MaxFaults
    /\ \A sid \in DOMAIN stripes :
         LET s == stripes[sid]
         IN  /\ DOMAIN s.data = 1..s.k /\ DOMAIN s.parity = 1..cfg.r
             /\ \A node \in {d.node : d \in ToSet(s.data)} \cup ToSet(s.parity) :
                   node \in (0..(ClusterNum - 1)) \X (0..(DatanodeNumPerCluster - 1))
    /\ \A p \in DOMAIN pairs : {pairs[p].a, pairs[p].b} \subseteq DOMAIN stripes

(***************************************************************************)
(* The deployments the columns are laid out for: the 17 racks of a row of  *)
(* OA_1.txt are apart, those of one stripe are among them, and a rack has  *)
(* a node for each of its blocks.  (validateConfig asks for less: RS(17,1) *)
(* wraps around to the rack of its parity.)                                *)
(***************************************************************************)
FitsRacks(c) ==
    ClusterNum = 17 /\ RsRacks(c, 0) <= 17 /\ c.r <= DatanodeNumPerCluster

(***************************************************************************)
(* A fresh RS stripe survives the loss of any rack: no rack holds more     *)
(* than r of its blocks and no node two of them; where r divides k this    *)
(* still holds of the racks of a stripe merged from one batch, which the   *)
(* merges then never have to rebalance.                                    *)
(***************************************************************************)
RsRackTolerance ==
    FitsRacks(cfg) =>
      \A s \in Range(stripes) :
        /\ s.k = cfg.k =>
             /\ \A rack \in AllRacks(s) : Load(s, rack) <= cfg.r
             /\ Cardinality({d.node : d \in ToSet(s.data)} \cup ToSet(s.parity))
                  = cfg.k + cfg.r
        /\ (cfg.k % cfg.r = 0 /\ OneBatch(s)) =>
             \A rack \in AllRacks(s) : Load(s, rack) <= cfg.r

(***************************************************************************)
(* What the columns are for: a stripe merged from an aligned run of 2^l    *)
(* uploads occupies no more racks than ceil((2^l k + r)/r), the number N   *)
(* was derived from, after any rounds, failures and refusals.              *)
(***************************************************************************)
RsRacksBounded ==
    \A s \in Range(stripes) :
        Aligned(s) => Cardinality(AllRacks(s)) <= CeilDiv(s.k + cfg.r, cfg.r)

(***************************************************************************)
(* A merge without failures keeps every data block readable where the      *)
(* table says, which a relocation of a block onto its own node would not:  *)
(* it deletes the block.  It holds of the first merges of aligned pairs,   *)
(* whose surplus goes to a column no block of the batch is on, and, where  *)
(* r divides k, of every merge within a batch.  Of two stripes of two      *)
(* batches, of two that are not aligned and of a second merge it does not: *)
(* the column r of the left one's row may be the block's own node.         *)
(***************************************************************************)
MergesKeepData ==
    FitsRacks(cfg) =>
      \A s \in Range(stripes) :
        /\ ~s.damaged
        /\ \/ s.k <= 2 * cfg.k /\ Aligned(s) /\ cfg.r < DatanodeNumPerCluster
           \/ cfg.k % cfg.r = 0 /\ OneBatch(s)
        => \A d \in ToSet(s.data) : <<d.id, d.node>> \in dataFiles

(***************************************************************************)
(* The parity files of a stripe merged within one batch encode its data in *)
(* its order, although targets reuse ids and the files of merged stripes   *)
(* are never deleted: the right parity found on the left one's node is     *)
(* never an old file.  (Across batches it can be.)                         *)
(***************************************************************************)
RsParityEncodes ==
    \A sid \in DOMAIN stripes :
        LET s == stripes[sid]
        IN  OneBatch(s) /\ ~s.damaged =>
              \A j \in 1..cfg.r :
                 LET file == <<sid, j, s.parity[j]>>
                 IN  /\ file \in DOMAIN parityFiles
                     /\ parityFiles[file] = {<<s.data[n].id, n - 1>> : n \in 1..s.k}
=============================================================================
