----------------------------- MODULE LrcStripes ------------------------------
(***************************************************************************)
(* Stripes of UniLRC, AzureLRC, OptimalLRC and UniformLRC: their placement *)
(* on racks, the random choice of nodes, and the repair of one block.      *)
(* Blocks are numbered as in the code: data 0..k-1, globals k..k+r-1,      *)
(* local parities k+r..k+r+z-1.                                            *)
(***************************************************************************)
EXTENDS CodeConfig

CONSTANT MaxRepairs     \* bound: repairs of one deployment

VARIABLES placed,       \* m_stripe_table: stripe -> block -> <<rack, node>>
          repaired,     \* the repairs that finished: what each one read
          spinning      \* handlers inside randomly_select_a_node for ever

lrcVars == <<placed, repaired, spinning>>

Data(c)    == 0..(c.k - 1)
Globals(c) == c.k..(c.k + c.r - 1)
Locals(c)  == (c.k + c.r)..(c.k + c.r + c.z - 1)
Blocks(c)  == 0..(c.k + c.r + c.z - 1)

-----------------------------------------------------------------------------
(***************************************************************************)
(* map2group: the blocks of a group share a rack.                          *)
(***************************************************************************)
UniGroup(c, i) ==
    CASE i \in Data(c)    -> i \div (c.k \div c.z)
      [] i \in Globals(c) -> (i - c.k) \div (c.r \div c.z)
      [] i \in Locals(c)  -> i - c.k - c.r

AzureGroup(c, i) ==
    CASE i \in Data(c)    -> i \div (c.k \div c.z)
      [] i \in Globals(c) -> c.z
      [] i \in Locals(c)  -> i - c.k - c.r

OptimalRacks_Floor(c) == (c.k \div c.z) \div (c.r + 1)
OptimalRacks(c) == CeilDiv(c.k \div c.z, c.r + 1)

OptimalGroup(c, i) ==
    LET local == c.k \div c.z
    IN  CASE i \in Data(c) ->
               ((i % local) \div (c.r + 1)) + (i \div local) * OptimalRacks(c)
          [] i \in Globals(c) -> c.z * OptimalRacks(c)
          [] i \in Locals(c)  -> (i - c.k - c.r + 1) * OptimalRacks(c) - 1

(***************************************************************************)
(* UniformLRC: local group row starts at block UniformFirst(c, row) and at *)
(* group UniformFirstRack(c, row); its parity joins its last group.        *)
(***************************************************************************)
UniformFirst(c, row) ==
    LET size == (c.k + c.r) \div c.z
    IN  UniformBefore(c, row, size, size + 1)

UniformRow(c, i) ==
    LET size   == (c.k + c.r) \div c.z
        larger == UniformSmaller(c) * size
    IN  IF i < larger THEN i \div size
        ELSE UniformSmaller(c) + ((i - larger) \div (size + 1))

UniformGroup(c, i) ==
    IF i \in Locals(c)
    THEN UniformFirstRack(c, i - c.k - c.r) + UniformRacks(c, i - c.k - c.r) - 1
    ELSE LET row == UniformRow(c, i)
         IN  UniformFirstRack(c, row) + ((i - UniformFirst(c, row)) \div (c.r + 1))

Group(c, i) ==
    CASE c.code = "UniLRC"     -> UniGroup(c, i)
      [] c.code = "AzureLRC"   -> AzureGroup(c, i)
      [] c.code = "OptimalLRC" -> OptimalGroup(c, i)
      [] c.code = "UniformLRC" -> UniformGroup(c, i)

Groups(c) == {Group(c, i) : i \in Blocks(c)}
InGroup(c, g) == {i \in Blocks(c) : Group(c, i) = g}

RackOf(c, sid, i) == ((sid % ClusterNum) + Group(c, i)) % ClusterNum

(***************************************************************************)
(* randomly_select_a_node draws until it meets a node without the stripe.  *)
(* Which of the free nodes it is makes no difference to anything below, so *)
(* the blocks of a rack take its nodes in order.                           *)
(***************************************************************************)
Earlier(c, sid, i) == {h \in 0..(i - 1) : RackOf(c, sid, h) = RackOf(c, sid, i)}
NodeFound_OneMore(c, sid, i) == Cardinality(Earlier(c, sid, i)) <= DatanodeNumPerCluster
NodeFound(c, sid, i) == Cardinality(Earlier(c, sid, i)) < DatanodeNumPerCluster

Placement(c, sid) ==
    [i \in Blocks(c) |-> <<RackOf(c, sid, i), Cardinality(Earlier(c, sid, i))>>]

-----------------------------------------------------------------------------
(***************************************************************************)
(* The local parities, as the encoder computes them: local parity g is a   *)
(* combination of these blocks, every coefficient different from zero.     *)
(***************************************************************************)
Operands(c, g) ==
    CASE c.code = "UniLRC" ->
            {i \in Data(c) : i \div (c.k \div c.z) = g}
              \cup {i \in Globals(c) : (i - c.k) \div (c.r \div c.z) = g}
      [] c.code = "AzureLRC"   -> {i \in Data(c) : i \div (c.k \div c.z) = g}
      [] c.code = "OptimalLRC" -> {i \in Data(c) : i \div (c.k \div c.z) = g} \cup Globals(c)
      [] c.code = "UniformLRC" ->
            {i \in Data(c) : i \div ((c.k + c.r) \div c.z) = g}
              \cup (IF g = c.z - 1 THEN Globals(c) ELSE {})

LocalParity(c, g) == c.k + c.r + g
Equation(c, g) == Operands(c, g) \cup {LocalParity(c, g)}
EquationsOf(c, b) == {Equation(c, g) : g \in {x \in 0..(c.z - 1) : b \in Equation(c, x)}}

-----------------------------------------------------------------------------
(***************************************************************************)
(* get_recovery_group_ids: the groups a repair of block b reads.           *)
(***************************************************************************)
AzurePlan(c, b) == IF b \in Globals(c) THEN 1..c.z ELSE {AzureGroup(c, b)}

OptimalPlan_NoGlobals(c, b) ==
    LET width == (c.k \div c.z) \div (c.r + 1) + 1
        local == IF b \in Locals(c) THEN b - c.k - c.r ELSE b \div (c.k \div c.z)
    IN  IF b \in Globals(c) THEN {c.z * OptimalRacks(c)} \cup 0..((c.z * OptimalRacks(c) + 1) \div c.z - 1)
        ELSE (local * width)..((local + 1) * width - 1)

OptimalPlan(c, b) ==
    LET width == (c.k \div c.z) \div (c.r + 1) + 1
        local == IF b \in Locals(c) THEN b - c.k - c.r ELSE b \div (c.k \div c.z)
    IN  IF b \in Globals(c) THEN {c.z * OptimalRacks(c)} \cup 0..((c.z * OptimalRacks(c) + 1) \div c.z - 1)
        ELSE (local * width)..((local + 1) * width - 1) \cup {c.z * width}

(***************************************************************************)
(* The plan counts the racks of a local group as if they held r blocks.    *)
(***************************************************************************)
UniformPlanRacks(c, row) == CeilDiv(UniformSize(c, row), c.r)
UniformPlan(c, b) ==
    LET row   == IF b \in Locals(c) THEN b - c.k - c.r ELSE UniformRow(c, b)
        size  == (c.k + c.r) \div c.z
        first == UniformBefore(c, row, CeilDiv(size, c.r), CeilDiv(size + 1, c.r))
    IN  first..(first + UniformPlanRacks(c, row) - 1)

Plan(c, b) ==
    CASE c.code = "UniLRC"     -> {UniGroup(c, b)}
      [] c.code = "AzureLRC"   -> AzurePlan(c, b)
      [] c.code = "OptimalLRC" -> OptimalPlan(c, b)
      [] c.code = "UniformLRC" -> UniformPlan(c, b)

(***************************************************************************)
(* recovery_one_block: the blocks each planned group sends.  With several  *)
(* groups AzureLRC sends no local parity to another rack and at most k/z   *)
(* blocks of a group.                                                      *)
(***************************************************************************)
FirstOf(S, num) == {i \in S : Cardinality({h \in S : h < i}) < num}

Sent(c, b, g) ==
    LET others == InGroup(c, g) \ {b}
    IN  IF c.code # "AzureLRC" \/ Cardinality(Plan(c, b)) = 1 THEN others
        ELSE FirstOf(IF g = Group(c, b) THEN others ELSE others \ Locals(c), c.k \div c.z)

Helpers(c, b) ==
    IF Cardinality(Plan(c, b)) = 1 THEN Plan(c, b) ELSE Plan(c, b) \cup {Group(c, b)}

Reads(c, b) == UNION {Sent(c, b, g) : g \in Helpers(c, b)}

-----------------------------------------------------------------------------
LrcInit == placed = <<>> /\ repaired = {} /\ spinning = {}

LrcSetStripe ==
    /\ nextId < MaxIds
    /\ \A i \in Blocks(cfg) : NodeFound(cfg, nextId, i)
    /\ placed' = [sid \in DOMAIN placed \cup {nextId} |->
                     IF sid = nextId THEN Placement(cfg, nextId) ELSE placed[sid]]
    /\ nextId' = nextId + 1
    /\ UNCHANGED <<cfg, losses, repaired, spinning>>

(***************************************************************************)
(* The handler never leaves randomly_select_a_node; the others go on.      *)
(***************************************************************************)
LrcSetSpins ==
    /\ nextId < MaxIds
    /\ \E i \in Blocks(cfg) : ~NodeFound(cfg, nextId, i)
    /\ spinning' = spinning \cup {[op |-> "set", stripe |-> nextId]}
    /\ nextId' = nextId + 1
    /\ UNCHANGED <<cfg, losses, placed, repaired>>

LrcSetUnavailable ==
    /\ nextId < MaxIds /\ losses < MaxLosses
    /\ \A i \in Blocks(cfg) : NodeFound(cfg, nextId, i)
    /\ nextId' = nextId + 1
    /\ losses' = losses + 1
    /\ UNCHANGED <<cfg, placed, repaired, spinning>>

(***************************************************************************)
(* recovery_one_block, with every planned group existing (the code indexes *)
(* an empty vector otherwise).  The new node must not hold the stripe; the *)
(* stripe's record keeps the old one.                                      *)
(***************************************************************************)
RepairRack(sid, b) ==
    LET source == IF Cardinality(Plan(cfg, b)) = 1
                  THEN CHOOSE i \in InGroup(cfg, Min(Plan(cfg, b))) : TRUE ELSE b
    IN  placed[sid][source][1]

SpareNode(sid, rack) ==
    Cardinality({i \in Blocks(cfg) : placed[sid][i][1] = rack}) < DatanodeNumPerCluster

Repair(sid, b) ==
    /\ Cardinality(repaired) + Cardinality(spinning) < MaxRepairs
    /\ Plan(cfg, b) \subseteq Groups(cfg)
    /\ IF SpareNode(sid, RepairRack(sid, b))
       THEN /\ repaired' = repaired \cup {[stripe |-> sid, block |-> b, reads |-> Reads(cfg, b),
                                           rack |-> RepairRack(sid, b)]}
            /\ UNCHANGED spinning
       ELSE /\ spinning' = spinning \cup {[op |-> "repair", stripe |-> sid]}
            /\ UNCHANGED repaired
    /\ UNCHANGED <<cfg, nextId, losses, placed>>

LrcNext ==
    \/ LrcSetStripe \/ LrcSetSpins \/ LrcSetUnavailable
    \/ \E sid \in DOMAIN placed : \E b \in Blocks(cfg) : Repair(sid, b)

-----------------------------------------------------------------------------
LrcTypeOK ==
    /\ DOMAIN placed \subseteq 0..(nextId - 1)
    /\ \A sid \in DOMAIN placed :
         placed[sid] \in [Blocks(cfg) -> (0..(ClusterNum - 1))
                                            \X (0..(DatanodeNumPerCluster - 1))]
    /\ \A t \in spinning : t.op \in {"set", "repair"} /\ t.stripe \in 0..(nextId - 1)

(***************************************************************************)
(* Losing any rack leaves a stripe decodable: it holds at most r data and  *)
(* global blocks, or r+1 and a local parity that covers a lost one is      *)
(* elsewhere.  AzureLRC promises it for local groups of at most r blocks,  *)
(* OptimalLRC and UniformLRC when no local group fills its racks exactly   *)
(* (its parity then joins r+1 of its blocks), UniformLRC also when at most *)
(* r of its groups are larger: its encoder takes them all for the smaller  *)
(* size, and with more the last data blocks are behind the last local      *)
(* parity, a rack full of them perhaps.                                    *)
(***************************************************************************)
ToleratesRackLoss(c) ==
    CASE c.code = "UniLRC"     -> TRUE
      [] c.code = "AzureLRC"   -> c.k \div c.z <= c.r
      [] c.code = "OptimalLRC" -> (c.k \div c.z) % (c.r + 1) # 0
      [] c.code = "UniformLRC" ->
            /\ (c.k + c.r) % c.z <= c.r
            /\ \A row \in 0..(c.z - 1) : UniformSize(c, row) % (c.r + 1) # 0

LrcRackTolerance ==
    \A sid \in DOMAIN placed : ToleratesRackLoss(cfg) =>
        \A rack \in {placed[sid][i][1] : i \in Blocks(cfg)} :
            LET lost == {i \in Blocks(cfg) : placed[sid][i][1] = rack}
                mds  == lost \ Locals(cfg)
            IN  \/ Cardinality(mds) <= cfg.r
                \/ /\ Cardinality(mds) <= cfg.r + 1
                   /\ \E g \in 0..(cfg.z - 1) : /\ LocalParity(cfg, g) \notin lost
                                                /\ Operands(cfg, g) \cap mds # {}

(***************************************************************************)
(* What a repair sends is what its decoder needs: the rest of an equation  *)
(* of the lost block, or, for a global parity of AzureLRC, the k rows the  *)
(* decoder inverts.  decode_optimal_lrc also needs every rack's list to be *)
(* all data or all parity (it indexes a table of k with the first's rule). *)
(***************************************************************************)
RepairRows(c, b) == FirstOf(((c.k \div c.z)..(c.k + c.r - 1)) \ {b}, c.k)

DecoderFits(c, b, reads) ==
    IF c.code = "AzureLRC" /\ b \in Globals(c)
    THEN reads = RepairRows(c, b) /\ Cardinality(reads) = c.k
    ELSE /\ reads \cup {b} \in EquationsOf(c, b)
         /\ c.code = "OptimalLRC" =>
              \A g \in Groups(c) :
                 LET list == reads \cap InGroup(c, g)
                 IN  list \cap Data(c) = {} \/ list \subseteq Data(c)

(***************************************************************************)
(* Where the three computations agree: everywhere for UniLRC; AzureLRC's   *)
(* globals need r-1 >= k/z, or with one local group r-1 = k, as the repair *)
(* then sends all of them; OptimalLRC repairs local parities; UniformLRC   *)
(* needs the plan's rack count to be the placement's, the globals within   *)
(* the last local group, and at most one larger group.                     *)
(***************************************************************************)
Repairable(c, b) ==
    CASE c.code = "UniLRC"     -> TRUE
      [] c.code = "AzureLRC"   ->
            b \in Globals(c) => /\ c.k \div c.z <= c.r - 1
                                /\ c.z = 1 => c.k = c.r - 1
      [] c.code = "OptimalLRC" -> b \in Locals(c) /\ (c.k \div c.z) % (c.r + 1) # 0
      [] c.code = "UniformLRC" ->
            /\ (c.k + c.r) % c.z <= 1
            /\ c.r <= UniformSize(c, c.z - 1)
            /\ \A row \in 0..(c.z - 1) : UniformPlanRacks(c, row) = UniformRacks(c, row)

RepairExact ==
    \A rep \in repaired :
        Repairable(cfg, rep.block) =>
            /\ DecoderFits(cfg, rep.block, rep.reads)
            /\ rep.rack = placed[rep.stripe][rep.block][1]

(***************************************************************************)
(* The datanode counts validateConfig asks for leave UniLRC and OptimalLRC *)
(* a free node for every block and for every repair, so their handlers do  *)
(* not draw for ever (an OptimalLRC local group that fills its racks       *)
(* exactly leaves none for a repair).  For AzureLRC and UniformLRC they    *)
(* do not: the conditions ignore the globals, or the parity of a full rack.*)
(***************************************************************************)
PlacementEnds ==
    \A t \in spinning :
        \/ cfg.code \in {"AzureLRC", "UniformLRC"}
        \/ /\ t.op = "repair" /\ cfg.code = "OptimalLRC"
           /\ (cfg.k \div cfg.z) % (cfg.r + 1) = 0
=============================================================================
