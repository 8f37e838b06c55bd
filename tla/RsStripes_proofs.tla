--------------------------- MODULE RsStripes_proofs --------------------------
(***************************************************************************)
(* Proofs about the merges of RS stripes, for every configuration and any  *)
(* number of uploads, failures, deletions and rounds.                      *)
(***************************************************************************)
EXTENDS CodeStripes, RsPlacement_proofs

-----------------------------------------------------------------------------
(***************************************************************************)
(* The parity files.  What keeps them right is where they are: a stripe's  *)
(* parities are placed by its batch alone, and a merged stripe keeps the   *)
(* left one's.  So within a batch the right parity is on the left one's    *)
(* node, where it is looked for first, and a merged stripe's target is an  *)
(* id no other stripe of the table has, so it overwrites no file in use.   *)
(***************************************************************************)
First(s) == s.data[1].id[1]
SameBatch(s) == \A n, m \in 1..s.k : Batch(s.data[n].id) = Batch(s.data[m].id)

Shaped(s) ==
    /\ s = [k |-> s.k, row1 |-> s.row1, row2 |-> s.row2, data |-> s.data,
            parity |-> s.parity, damaged |-> s.damaged]
    /\ s.k \in Nat \ {0} /\ s.damaged \in BOOLEAN
    /\ s.data = [n \in 1..s.k |-> s.data[n]]
    /\ \A n \in 1..s.k : s.data[n].id \in Nat \X Nat
    /\ s.parity = [j \in 1..cfg.r |-> PlaceOf(cfg, First(s), cfg.k + j - 1)]

Content(s) == {<<s.data[n].id, n - 1>> : n \in 1..s.k}

Encoded(sid) ==
    \A j \in 1..cfg.r :
        /\ <<sid, j, stripes[sid].parity[j]>> \in DOMAIN parityFiles
        /\ parityFiles[<<sid, j, stripes[sid].parity[j]>>] = Content(stripes[sid])

Ids(req) == {req.a, req.b}

(***************************************************************************)
(* The requests still to be sent share no stripe, and a target is taken in *)
(* the table only by a stripe that is merged no later.                     *)
(***************************************************************************)
Requests ==
    /\ pairs \in Seq([a : Nat, b : Nat, target : Nat])
    /\ \A p \in 1..Len(pairs) :
          /\ Ids(pairs[p]) \subseteq DOMAIN stripes /\ pairs[p].a # pairs[p].b
          /\ pairs[p].target < nextId
          /\ \A s \in DOMAIN stripes :
                s = pairs[p].target => \E q \in 1..p : s \in Ids(pairs[q])
    /\ \A p, q \in 1..Len(pairs) :
          p # q => /\ Ids(pairs[p]) \cap Ids(pairs[q]) = {}
                   /\ pairs[p].target # pairs[q].target

RsInv ==
    /\ cfg \in Configs /\ nextId \in Nat
    /\ cfg.code # "RS" => DOMAIN stripes = {}
    /\ DOMAIN stripes \subseteq 0..(nextId - 1)
    /\ \A sid \in DOMAIN stripes :
          /\ Shaped(stripes[sid])
          /\ SameBatch(stripes[sid]) /\ ~stripes[sid].damaged => Encoded(sid)
    /\ Requests

-----------------------------------------------------------------------------
(***************************************************************************)
(* Steps.                                                                  *)
(***************************************************************************)

(* m has the blocks of a and then those of b. *)
Joins(m, a, b) ==
    /\ a.k = b.k /\ m.k = 2 * a.k
    /\ \A n \in 1..a.k : /\ m.data[n].id = a.data[n].id
                         /\ m.data[n + a.k].id = b.data[n].id

(* Where the blocks of two stripes are in the merged one's sequence. *)
LEMMA Joined ==
    ASSUME NEW k \in Nat, NEW left, NEW right,
           left = [n \in 1..k |-> left[n]], right = [n \in 1..k |-> right[n]]
    PROVE  \A n \in 1..(2 * k) :
              (left \o right)[n] = IF n <= k THEN left[n] ELSE right[n - k]
<1> DEFINE S == {left[n] : n \in 1..k} \cup {right[n] : n \in 1..k}
<1>1. left \in [1..k -> S] /\ right \in [1..k -> S]
  OBVIOUS
<1> HIDE DEF S
<1>2. left \in Seq(S) /\ right \in Seq(S) /\ Len(left) = k /\ Len(right) = k
  BY <1>1
<1> QED BY <1>2

(* A deployment starts with no stripe and no request. *)
LEMMA InitRs == Init => RsInv
BY DEF Init, RsInit, RsInv, Requests

(* A stripe whose record and files stay as they are stays encoded. *)
LEMMA StaysEncoded ==
    ASSUME NEW sid, Encoded(sid), stripes'[sid] = stripes[sid], cfg' = cfg,
           \A j \in 1..cfg.r :
              <<sid, j, stripes[sid].parity[j]>> \in DOMAIN parityFiles =>
                    /\ <<sid, j, stripes[sid].parity[j]>> \in DOMAIN parityFiles'
                    /\ parityFiles'[<<sid, j, stripes[sid].parity[j]>>]
                         = parityFiles[<<sid, j, stripes[sid].parity[j]>>]
    PROVE  Encoded(sid)'
BY DEF Encoded

(* A stripe whose record stays keeps its shape and its batches. *)
LEMMA StaysShaped ==
    ASSUME NEW sid, Shaped(stripes[sid]), stripes'[sid] = stripes[sid], cfg' = cfg
    PROVE  /\ Shaped(stripes[sid])'
           /\ SameBatch(stripes[sid])' => SameBatch(stripes[sid])
<1>1. Shaped(stripes[sid])'
  BY DEF Shaped, First
<1>2. SameBatch(stripes[sid])' => SameBatch(stripes[sid])
  BY DEF SameBatch, Batch
<1> QED BY <1>1, <1>2

(* An upload's parities cover its data, at the places its batch gives. *)
LEMMA SetKeeps ==
    ASSUME RsInv, cfg.code = "RS", RsSetStripe
    PROVE  RsInv'
<1> DEFINE s == NewStripe(cfg, nextId)
           content == Content(s)
           named == {<<nextId, j, s.parity[j]>> : j \in 1..cfg.r}
           files == [f \in named |-> content]
<1>1. /\ stripes' = Over([t \in {nextId} |-> s], stripes)
      /\ parityFiles' = Over(files, parityFiles)
      /\ nextId' = nextId + 1 /\ pairs = <<>> /\ UNCHANGED <<cfg, pairs>>
  BY DEF RsSetStripe, Content
<1>2. cfg \in Configs /\ cfg.k \in Nat \ {0} /\ nextId \in Nat /\ nextId \notin DOMAIN stripes
      /\ DOMAIN stripes \subseteq 0..(nextId - 1)
  BY RsSizes DEF RsInv, IsRs
<1>4. /\ s.k = cfg.k
      /\ s.data = [n \in 1..cfg.k |-> [id |-> <<nextId, n - 1>>,
                                       node |-> PlaceOf(cfg, nextId, n - 1)]]
      /\ s.parity = [j \in 1..cfg.r |-> PlaceOf(cfg, nextId, cfg.k + j - 1)]
      /\ s.damaged = FALSE
      /\ s = [k |-> s.k, row1 |-> s.row1, row2 |-> s.row2, data |-> s.data,
              parity |-> s.parity, damaged |-> s.damaged]
  BY DEF NewStripe
<1> HIDE DEF s
<1>3. /\ DOMAIN stripes' = {nextId} \cup DOMAIN stripes /\ stripes'[nextId] = s
      /\ \A t \in DOMAIN stripes : stripes'[t] = stripes[t]
  BY <1>1, <1>2 DEF Over
<1>5. Shaped(s)
  <2>1. \A n \in 1..cfg.k : s.data[n].id = <<nextId, n - 1>> /\ n - 1 \in Nat
    BY <1>2, <1>4
  <2>2. First(s) = nextId
    BY <1>2, <2>1 DEF First
  <2>3. s.data = [n \in 1..s.k |-> s.data[n]]
    BY <1>4
  <2>4. \A n \in 1..s.k : s.data[n].id \in Nat \X Nat
    BY <1>2, <1>4, <2>1
  <2> QED BY <1>2, <1>4, <2>2, <2>3, <2>4 DEF Shaped
<1>6. /\ DOMAIN parityFiles' = named \cup DOMAIN parityFiles
      /\ \A f \in named : parityFiles'[f] = content
      /\ \A f \in DOMAIN parityFiles : f \notin named => parityFiles'[f] = parityFiles[f]
  <2>1. DOMAIN files = named /\ \A f \in named : files[f] = content
    OBVIOUS
  <2>2. parityFiles' = Over(files, parityFiles)
    BY <1>1
  <2> HIDE DEF named, content, files
  <2> QED BY <2>1, <2>2 DEF Over
<1>7. ASSUME NEW t, t = nextId PROVE Encoded(t)'
  <2> SUFFICES ASSUME NEW j \in 1..cfg.r
               PROVE  /\ <<t, j, s.parity[j]>> \in DOMAIN parityFiles'
                      /\ parityFiles'[<<t, j, s.parity[j]>>] = content
    <3>1. stripes'[t] = s
      BY <1>3, <1>7
    <3>2. Content(stripes[t])' = content
      BY <3>1 DEF Content
    <3> HIDE DEF content, named
    <3> QED BY <1>1, <3>1, <3>2 DEF Encoded
  <2>1. <<t, j, s.parity[j]>> \in named
    BY <1>7
  <2> HIDE DEF named, content
  <2> QED BY <1>6, <2>1
<1>8. ASSUME NEW t \in DOMAIN stripes'
      PROVE  /\ Shaped(stripes[t])'
             /\ SameBatch(stripes[t])' /\ ~stripes'[t].damaged => Encoded(t)'
  <2>1. CASE t = nextId
    <3>1. stripes'[t] = s /\ cfg' = cfg
      BY <1>1, <1>3, <2>1
    <3>2. Shaped(stripes[t])'
      BY <1>5, <3>1 DEF Shaped, First
    <3>3. Encoded(t)'
      BY <1>7, <2>1
    <3> QED BY <3>2, <3>3
  <2>2. CASE t # nextId
    <3>1. t \in DOMAIN stripes /\ stripes'[t] = stripes[t] /\ cfg' = cfg
      BY <1>1, <1>3, <2>2
    <3>2. \A j \in 1..cfg.r : <<t, j, stripes[t].parity[j]>> \notin named
      BY <2>2
    <3> HIDE DEF named, content
    <3>3. Encoded(t) => Encoded(t)'
      BY <1>6, <3>1, <3>2, StaysEncoded
    <3>4. Shaped(stripes[t]) /\ (SameBatch(stripes[t]) /\ ~stripes[t].damaged => Encoded(t))
      BY <3>1 DEF RsInv
    <3> QED BY <3>1, <3>3, <3>4, StaysShaped
  <2> QED BY <2>1, <2>2
<1>9. Requests'
  BY <1>1 DEF Requests, RsInv
<1> QED BY <1>1, <1>2, <1>3, <1>8, <1>9 DEF RsInv

(* A deletion takes the files of its own stripe only. *)
LEMMA DeleteKeeps ==
    ASSUME RsInv, NEW sid \in DOMAIN stripes, RsDelete(sid)
    PROVE  RsInv'
<1> DEFINE gone == {<<sid, j, stripes[sid].parity[j]>> : j \in 1..cfg.r}
<1>1. /\ stripes' = [t \in DOMAIN stripes \ {sid} |-> stripes[t]]
      /\ parityFiles' = [f \in DOMAIN parityFiles \ gone |-> parityFiles[f]]
      /\ pairs = <<>> /\ UNCHANGED <<cfg, nextId, pairs>>
  BY DEF RsDelete
<1>2. ASSUME NEW t \in DOMAIN stripes'
      PROVE  /\ Shaped(stripes[t])'
             /\ SameBatch(stripes[t])' /\ ~stripes'[t].damaged => Encoded(t)'
  <2>1. t \in DOMAIN stripes /\ t # sid /\ stripes'[t] = stripes[t] /\ cfg' = cfg
    BY <1>1
  <2>2. \A j \in 1..cfg.r : <<t, j, stripes[t].parity[j]>> \notin gone
    BY <2>1
  <2> HIDE DEF gone
  <2>3. Encoded(t) => Encoded(t)'
    BY <1>1, <2>1, <2>2, StaysEncoded
  <2>4. Shaped(stripes[t]) /\ (SameBatch(stripes[t]) /\ ~stripes[t].damaged => Encoded(t))
    BY <2>1 DEF RsInv
  <2> QED BY <2>1, <2>3, <2>4, StaysShaped
<1>3. Requests'
  BY <1>1 DEF Requests, RsInv
<1> QED BY <1>1, <1>2, <1>3 DEF RsInv

(* The rest of a step that changes neither the table nor the files. *)
LEMMA TableStays ==
    ASSUME RsInv, UNCHANGED <<cfg, stripes, parityFiles>>, nextId' \in Nat,
           nextId' >= nextId, Requests'
    PROVE  RsInv'
<1>1. ASSUME NEW t \in DOMAIN stripes'
      PROVE  /\ Shaped(stripes[t])'
             /\ SameBatch(stripes[t])' /\ ~stripes'[t].damaged => Encoded(t)'
  <2>1. Encoded(t) => Encoded(t)'
    BY StaysEncoded
  <2>2. Shaped(stripes[t]) /\ (SameBatch(stripes[t]) /\ ~stripes[t].damaged => Encoded(t))
    BY DEF RsInv
  <2> QED BY <2>1, <2>2, StaysShaped
<1> QED BY <1>1 DEF RsInv

(* The p-th pair of a round takes two ids that no other pair has, and its  *)
(* target, p - 1, is at most the p-th id: of the ids of the table it can   *)
(* only be that of a pair not after it.                                    *)
LEMMA StartKeeps ==
    ASSUME RsInv, NEW rd, StartMerge(rd)
    PROVE  RsInv'
<1> DEFINE D == DOMAIN stripes
           ids == Ascending(D)
           size == Len(ids) \div 2
<1>1. /\ pairs' = [p \in 1..size |-> [a |-> ids[2 * p - 1], b |-> ids[2 * p], target |-> p - 1]]
      /\ UNCHANGED <<cfg, nextId, stripes, parityFiles>>
  BY DEF StartMerge
<1>2. D \in SUBSET Nat /\ IsFiniteSet(D) /\ nextId \in Nat /\ D \subseteq 0..(nextId - 1)
  <2>1. D \subseteq 0..(nextId - 1) /\ nextId \in Nat
    BY DEF RsInv
  <2> HIDE DEF D
  <2>2. D \in SUBSET Nat
    BY <2>1
  <2>3. IsFiniteSet(0..(nextId - 1))
    BY <2>1, FS_Interval
  <2> QED BY <2>1, <2>2, <2>3, FS_Subset
<1> HIDE DEF D
<1>3. /\ ids \in Seq(D) /\ Len(ids) = Cardinality(D)
      /\ \A i \in 1..Len(ids) : ids[i] \in D /\ ids[i] >= i - 1
      /\ \A i, j \in 1..Len(ids) : i < j => ids[i] < ids[j]
      /\ \A n \in D : \E i \in 1..Len(ids) : ids[i] = n
  BY <1>2, SetInOrder
<1>10. Len(ids) \in Nat /\ \A i \in 1..Len(ids) : ids[i] \in Nat
  <2>1. \A n \in D : n \in Nat
    BY <1>2
  <2>2. Len(ids) \in Nat
    BY <1>3
  <2> HIDE DEF ids
  <2> QED BY <1>3, <2>1, <2>2
<1> HIDE DEF ids
<1>4. /\ size \in Nat
      /\ \A p \in 1..size : p \in Nat /\ 2 * p - 1 \in 1..Len(ids) /\ 2 * p \in 1..Len(ids)
  BY <1>10
<1> HIDE DEF size
<1>5. /\ Len(pairs') = size
      /\ \A p \in 1..size : /\ pairs'[p].a = ids[2 * p - 1] /\ pairs'[p].b = ids[2 * p]
                            /\ pairs'[p].target = p - 1
      /\ pairs' \in Seq([a : Nat, b : Nat, target : Nat])
  <2>1. \A p \in 1..size : ids[2 * p - 1] \in Nat /\ ids[2 * p] \in Nat /\ p - 1 \in Nat
    BY <1>10, <1>4
  <2>2. pairs' \in [1..size -> [a : Nat, b : Nat, target : Nat]]
    BY <1>1, <2>1
  <2>3. pairs' \in Seq([a : Nat, b : Nat, target : Nat]) /\ Len(pairs') = size
    <3>1. size \in Nat
      BY <1>4
    <3> DEFINE R == [a : Nat, b : Nat, target : Nat]
               list == pairs'
    <3>2. list \in [1..size -> R]
      BY <2>2
    <3>3. list \in Seq(R) /\ Len(list) = size
      <4> HIDE DEF R, list
      <4> QED BY <3>1, <3>2
    <3> QED BY <3>3
  <2> QED BY <1>1, <2>3
<1>6. \A i, j \in 1..Len(ids) : i # j => ids[i] # ids[j]
  BY <1>3, <1>10
<1>7. ASSUME NEW p \in 1..size
      PROVE  /\ Ids(pairs'[p]) \subseteq D /\ pairs'[p].a # pairs'[p].b
             /\ pairs'[p].target < nextId
             /\ \A s \in D :
                  s = pairs'[p].target => \E q \in 1..p : s \in Ids(pairs'[q])
  <2>1. 2 * p - 1 \in 1..Len(ids) /\ 2 * p \in 1..Len(ids) /\ p \in Nat \ {0} /\ 2 * p - 1 # 2 * p
    BY <1>4
  <2>2. Ids(pairs'[p]) \subseteq D
    <3>1. ids[2 * p - 1] \in D /\ ids[2 * p] \in D
      BY <1>3, <2>1
    <3>2. pairs'[p].a = ids[2 * p - 1] /\ pairs'[p].b = ids[2 * p]
      BY <1>5
    <3> QED BY <3>1, <3>2, Zenon DEF Ids
  <2>3. pairs'[p].a # pairs'[p].b
    BY <1>5, <1>6, <2>1
  <2>4. p - 1 < nextId
    <3>1. ids[2 * p] \in 0..(nextId - 1) /\ ids[2 * p] >= 2 * p - 1
      BY <1>2, <1>3, <2>1
    <3> QED BY <1>2, <2>1, <3>1
  <2>5. ASSUME NEW s \in D, s = p - 1
        PROVE  \E q \in 1..p : s \in Ids(pairs'[q])
    <3>1. PICK i \in 1..Len(ids) : ids[i] = s
      BY <1>3
    <3>2. i \in Nat /\ i <= p
      <4>1. i \in Nat /\ ids[i] >= i - 1
        BY <1>3
      <4> QED BY <2>1, <2>5, <3>1, <4>1
    <3>3. PICK q \in 1..p : i = 2 * q - 1 \/ i = 2 * q
      <4>1. (i + 1) \div 2 \in 1..p /\ (i = 2 * ((i + 1) \div 2) - 1 \/ i = 2 * ((i + 1) \div 2))
        BY <2>1, <3>1, <3>2
      <4> QED BY <4>1
    <3>4. q \in 1..size
      BY <1>4
    <3> QED BY <1>5, <3>1, <3>3, <3>4 DEF Ids
  <2> QED BY <1>5, <2>2, <2>3, <2>4, <2>5
<1>8. ASSUME NEW p \in 1..size, NEW q \in 1..size, p # q
      PROVE  /\ Ids(pairs'[p]) \cap Ids(pairs'[q]) = {}
             /\ pairs'[p].target # pairs'[q].target
  <2>1. /\ p \in Nat /\ 2 * p - 1 \in 1..Len(ids) /\ 2 * p \in 1..Len(ids)
        /\ q \in Nat /\ 2 * q - 1 \in 1..Len(ids) /\ 2 * q \in 1..Len(ids)
    BY <1>4
  <2>2. /\ p - 1 # q - 1 /\ 2 * p - 1 # 2 * q - 1 /\ 2 * p - 1 # 2 * q
        /\ 2 * p # 2 * q - 1 /\ 2 * p # 2 * q
    BY <2>1, <1>8
  <2>3. /\ ids[2 * p - 1] # ids[2 * q - 1] /\ ids[2 * p - 1] # ids[2 * q]
        /\ ids[2 * p] # ids[2 * q - 1] /\ ids[2 * p] # ids[2 * q]
    BY <1>6, <2>1, <2>2
  <2> QED BY <1>5, <2>2, <2>3 DEF Ids
<1>9. Requests'
  <2>1. DOMAIN stripes' = D /\ nextId' = nextId
    BY <1>1 DEF D
  <2> QED BY <2>1, <1>5, <1>7, <1>8 DEF Requests, Ids
<1> QED BY <1>1, <1>2, <1>9, TableStays

(* What a merge makes of two stripes of one size: their blocks in order,   *)
(* at the left one's parity places.                                        *)
LEMMA MergedShape ==
    ASSUME NEW a, NEW b, NEW moves, NEW hurt \in BOOLEAN, NEW m,
           cfg \in Configs, Shaped(a), Shaped(b), a.k = b.k,
           m = MergedStripe(a, b, moves, hurt)
    PROVE  /\ Shaped(m) /\ First(m) = First(a) /\ Joins(m, a, b)
           /\ m.parity = a.parity /\ m.damaged = (a.damaged \/ b.damaged \/ hurt)
<1> DEFINE NodeAfter(d) == IF \E mv \in moves : mv.id = d.id
                           THEN (CHOOSE mv \in moves : mv.id = d.id).to ELSE d.node
           joined == Combined(a, b)
           blocks == [n \in 1..(2 * a.k) |->
                        [id |-> joined[n].id, node |-> NodeAfter(joined[n])]]
           size == 2 * a.k
           broken == a.damaged \/ b.damaged \/ hurt
<1>1. m = [a EXCEPT !.k = size, !.data = blocks, !.damaged = broken]
  BY DEF MergedStripe
<1>2. a = [k |-> a.k, row1 |-> a.row1, row2 |-> a.row2, data |-> a.data,
           parity |-> a.parity, damaged |-> a.damaged]
  BY DEF Shaped
<1>3. /\ a.k \in Nat \ {0} /\ a.damaged \in BOOLEAN /\ b.damaged \in BOOLEAN
      /\ a.data = [n \in 1..a.k |-> a.data[n]] /\ b.data = [n \in 1..a.k |-> b.data[n]]
      /\ \A n \in 1..a.k : a.data[n].id \in Nat \X Nat /\ b.data[n].id \in Nat \X Nat
  BY DEF Shaped
<1>4. \A n \in 1..size : joined[n] = IF n <= a.k THEN a.data[n] ELSE b.data[n - a.k]
  BY <1>3, Joined DEF Combined
<1>5. \A n \in 1..size : blocks[n].id = joined[n].id
  OBVIOUS
<1>6. blocks = [n \in 1..size |-> blocks[n]]
  OBVIOUS
<1> HIDE DEF blocks, joined, broken
<1>7. m = [k |-> size, row1 |-> a.row1, row2 |-> a.row2, data |-> blocks,
           parity |-> a.parity, damaged |-> broken]
  BY <1>1, <1>2
<1>8. /\ m.k = size /\ m.data = blocks /\ m.parity = a.parity /\ m.damaged = broken
      /\ m = [k |-> m.k, row1 |-> m.row1, row2 |-> m.row2, data |-> m.data,
              parity |-> m.parity, damaged |-> m.damaged]
  BY <1>7
<1>9. \A n \in 1..a.k : /\ blocks[n].id = a.data[n].id
                        /\ blocks[n + a.k].id = b.data[n].id
  <2> SUFFICES ASSUME NEW n \in 1..a.k
               PROVE  blocks[n].id = a.data[n].id /\ blocks[n + a.k].id = b.data[n].id
    OBVIOUS
  <2>1. /\ n \in 1..size /\ n <= a.k
        /\ n + a.k \in 1..size /\ ~(n + a.k <= a.k) /\ (n + a.k) - a.k = n
    BY <1>3
  <2>2. joined[n] = a.data[n] /\ joined[n + a.k] = b.data[n]
    BY <1>4, <2>1
  <2> QED BY <1>5, <2>1, <2>2
<1>10. First(m) = First(a)
  <2>1. 1 \in 1..a.k
    BY <1>3
  <2> QED BY <1>8, <1>9, <2>1 DEF First
<1>11. Shaped(m)
  <2>1. size \in Nat \ {0} /\ broken \in BOOLEAN
    BY <1>3 DEF broken
  <2>2. \A n \in 1..size : blocks[n].id \in Nat \X Nat
    <3> SUFFICES ASSUME NEW n \in 1..size PROVE blocks[n].id \in Nat \X Nat
      OBVIOUS
    <3>1. CASE n \in 1..a.k
      BY <1>3, <1>9, <3>1
    <3>2. CASE n \notin 1..a.k
      <4>1. n - a.k \in 1..a.k /\ (n - a.k) + a.k = n
        BY <1>3, <3>2
      <4> QED BY <1>3, <1>9, <4>1
    <3> QED BY <3>1, <3>2
  <2>3. a.parity = [j \in 1..cfg.r |-> PlaceOf(cfg, First(a), cfg.k + j - 1)]
    BY DEF Shaped
  <2> QED BY <1>6, <1>8, <1>10, <2>1, <2>2, <2>3 DEF Shaped
<1> QED BY <1>8, <1>9, <1>10, <1>11 DEF broken, Joins

(* Two stripes that are one batch together have their parities in the same *)
(* places.                                                                 *)
LEMMA OneBatchTogether ==
    ASSUME NEW a, NEW b, NEW m, cfg \in Configs, cfg.code = "RS",
           Shaped(a), Shaped(b), Joins(m, a, b), SameBatch(m)
    PROVE  SameBatch(a) /\ SameBatch(b) /\ a.parity = b.parity
<1>1. a.k \in Nat \ {0} /\ 1 \in 1..a.k
  BY DEF Shaped
<1>2. /\ \A n \in 1..a.k : /\ n \in 1..m.k /\ m.data[n].id = a.data[n].id
                           /\ n + a.k \in 1..m.k /\ m.data[n + a.k].id = b.data[n].id
      /\ a.k = b.k
  BY <1>1 DEF Joins
<1>3. \A n, p \in 1..m.k : Batch(m.data[n].id) = Batch(m.data[p].id)
  BY DEF SameBatch
<1>4. SameBatch(a) /\ SameBatch(b)
  <2>1. \A n, p \in 1..a.k : Batch(a.data[n].id) = Batch(a.data[p].id)
    BY <1>2, <1>3
  <2>2. \A n, p \in 1..a.k : Batch(b.data[n].id) = Batch(b.data[p].id)
    BY <1>2, <1>3
  <2> QED BY <1>2, <2>1, <2>2 DEF SameBatch
<1>5. Batch(a.data[1].id) = Batch(b.data[1].id)
  BY <1>1, <1>2, <1>3
<1>6. /\ First(a) \in Nat /\ First(b) \in Nat
      /\ First(a) \div BatchSize(cfg) = First(b) \div BatchSize(cfg)
  <2>1. a.data[1].id \in Nat \X Nat /\ b.data[1].id \in Nat \X Nat
    BY <1>1 DEF Shaped
  <2> QED BY <1>5, <2>1 DEF First, Batch
<1>7. \A j \in 1..cfg.r : PlaceOf(cfg, First(a), cfg.k + j - 1)
                            = PlaceOf(cfg, First(b), cfg.k + j - 1)
  <2> TAKE j \in 1..cfg.r
  <2>1. cfg.k + j - 1 \in Nat /\ cfg.k + j - 1 >= cfg.k
    BY RsSizes DEF IsRs
  <2> QED BY <1>6, <2>1, ParitiesOfBatch DEF IsRs
<1> QED BY <1>4, <1>7 DEF Shaped

(* Two encoded stripes of one batch: parity j is found, and combined it is *)
(* the content of the merged stripe: the right one's powers are shifted by *)
(* the left one's size, so that no equal terms cancel.                     *)
LEMMA CombinedRight ==
    ASSUME NEW sa, NEW sb, NEW m, NEW j \in 1..cfg.r, Encoded(sa), Encoded(sb),
           stripes[sa].k \in Nat, stripes[sa].parity = stripes[sb].parity,
           Joins(m, stripes[sa], stripes[sb])
    PROVE  /\ ParitySources(sa, sb, j).found
           /\ CombinedParity(sa, sb, j) = Content(m)
<1> DEFINE k == stripes[sa].k
           left == <<sa, j, stripes[sa].parity[j]>>
           right == <<sb, j, stripes[sb].parity[j]>>
<1>1. right = <<sb, j, stripes[sa].parity[j]>>
  OBVIOUS
<1>2. /\ left \in DOMAIN parityFiles /\ right \in DOMAIN parityFiles
      /\ parityFiles[left] = {<<stripes[sa].data[n].id, n - 1>> : n \in 1..k}
      /\ parityFiles[right] = {<<stripes[sb].data[n].id, n - 1>> : n \in 1..k}
  BY DEF Encoded, Joins, Content
<1>3. /\ ParitySources(sa, sb, j).found = (left \in DOMAIN parityFiles
                                            /\ {right, right} \cap DOMAIN parityFiles # {})
      /\ ParitySources(sa, sb, j).left = left
      /\ ParitySources(sa, sb, j).right = right
  BY <1>1 DEF ParitySources
<1>4. CombinedParity(sa, sb, j)
        = ExclusiveOr(parityFiles[left], {<<p[1], p[2] + k>> : p \in parityFiles[right]})
  BY <1>3 DEF CombinedParity, ParityShift
<1>5. CombinedParity(sa, sb, j)
        = ExclusiveOr({<<stripes[sa].data[n].id, n - 1>> : n \in 1..k},
                      {<<p[1], p[2] + k>> :
                         p \in {<<stripes[sb].data[n].id, n - 1>> : n \in 1..k}})
  BY <1>2, <1>4
<1> DEFINE lids == [n \in 1..k |-> stripes[sa].data[n].id]
           rids == [n \in 1..k |-> stripes[sb].data[n].id]
           ids == [n \in 1..(2 * k) |-> m.data[n].id]
<1>6. \A n \in 1..k : ids[n] = lids[n] /\ ids[n + k] = rids[n]
  <2>1. \A n \in 1..k : n \in 1..(2 * k) /\ n + k \in 1..(2 * k)
    OBVIOUS
  <2> QED BY <2>1 DEF Joins
<1>7. /\ {<<stripes[sa].data[n].id, n - 1>> : n \in 1..k} = {<<lids[n], n - 1>> : n \in 1..k}
      /\ {<<stripes[sb].data[n].id, n - 1>> : n \in 1..k} = {<<rids[n], n - 1>> : n \in 1..k}
      /\ {<<m.data[n].id, n - 1>> : n \in 1..m.k} = {<<ids[n], n - 1>> : n \in 1..(2 * k)}
  BY DEF Joins
<1> HIDE DEF lids, rids, ids, left, right, k
<1>8. k \in Nat
  BY DEF k
<1> DEFINE Sum(P, Q) == ExclusiveOr(P, {<<p[1], p[2] + k>> : p \in Q})
           P == {<<lids[n], n - 1>> : n \in 1..k}
           Q == {<<rids[n], n - 1>> : n \in 1..k}
           A == {<<ids[n], n - 1>> : n \in 1..(2 * k)}
<1>9. CombinedParity(sa, sb, j) = Sum(P, Q)
  <2> DEFINE P1 == {<<stripes[sa].data[n].id, n - 1>> : n \in 1..k}
             Q1 == {<<stripes[sb].data[n].id, n - 1>> : n \in 1..k}
  <2>1. CombinedParity(sa, sb, j) = Sum(P1, Q1)
    BY <1>5
  <2>2. P1 = P /\ Q1 = Q
    BY <1>7
  <2> HIDE DEF Sum, P1, P, Q1, Q
  <2> QED BY <2>1, <2>2
<1>10. Sum(P, Q) = A
  <2> DEFINE U == {<<p[1], p[2] + k>> : p \in Q}
  <2>1. U = {<<rids[n], n - 1 + k>> : n \in 1..k}
    <3>1. \A n \in 1..k : <<rids[n], n - 1>>[1] = rids[n] /\ <<rids[n], n - 1>>[2] = n - 1
      OBVIOUS
    <3>2. \A u : (\E p \in Q : u = <<p[1], p[2] + k>>)
                   <=> \E n \in 1..k : u = <<rids[n], n - 1 + k>>
      <4> SUFFICES ASSUME NEW u
                   PROVE  (\E p \in Q : u = <<p[1], p[2] + k>>)
                            <=> \E n \in 1..k : u = <<rids[n], n - 1 + k>>
        OBVIOUS
      <4>1. ASSUME NEW p \in Q, u = <<p[1], p[2] + k>>
            PROVE  \E n \in 1..k : u = <<rids[n], n - 1 + k>>
        <5>1. PICK n \in 1..k : p = <<rids[n], n - 1>>
          OBVIOUS
        <5> QED BY <3>1, <4>1, <5>1
      <4>2. ASSUME NEW n \in 1..k, u = <<rids[n], n - 1 + k>>
            PROVE  \E p \in Q : u = <<p[1], p[2] + k>>
        <5>1. <<rids[n], n - 1>> \in Q
          OBVIOUS
        <5> QED BY <3>1, <4>2, <5>1
      <4> QED BY <4>1, <4>2
    <3>3. \A u : u \in U <=> \E p \in Q : u = <<p[1], p[2] + k>>
      BY Zenon
    <3>4. \A u : u \in {<<rids[n], n - 1 + k>> : n \in 1..k}
                   <=> \E n \in 1..k : u = <<rids[n], n - 1 + k>>
      BY Zenon
    <3> HIDE DEF U
    <3> QED BY <3>2, <3>3, <3>4, Zenon
  <2>2. P \cap U = {}
    <3>1. \A n, q \in 1..k : n - 1 # q - 1 + k
      BY <1>8
    <3> QED BY <2>1, <3>1
  <2>3. P \subseteq A /\ U \subseteq A
    <3>1. \A n \in 1..k : n \in 1..(2 * k) /\ n + k \in 1..(2 * k) /\ n + k - 1 = n - 1 + k
      BY <1>8
    <3>2. \A n \in 1..k : <<lids[n], n - 1>> = <<ids[n], n - 1>>
      BY <1>6
    <3>3. \A n \in 1..k : <<rids[n], n - 1 + k>> = <<ids[n + k], (n + k) - 1>>
      <4> SUFFICES ASSUME NEW n \in 1..k
                   PROVE  <<rids[n], n - 1 + k>> = <<ids[n + k], (n + k) - 1>>
        OBVIOUS
      <4>1. ids[n + k] = rids[n]
        BY <1>6
      <4>2. (n + k) - 1 = n - 1 + k
        BY <1>8
      <4> QED BY <4>1, <4>2
    <3> QED BY <2>1, <3>1, <3>2, <3>3
  <2>4. A \subseteq P \cup U
    <3> SUFFICES ASSUME NEW n \in 1..(2 * k) PROVE <<ids[n], n - 1>> \in P \cup U
      OBVIOUS
    <3>1. CASE n \in 1..k
      BY <1>6, <3>1
    <3>2. CASE n \notin 1..k
      <4>1. n - k \in 1..k /\ (n - k) + k = n /\ (n - k) - 1 + k = n - 1
        BY <1>8, <3>2
      <4>2. ids[n] = rids[n - k]
        BY <1>6, <4>1
      <4>3. <<ids[n], n - 1>> = <<rids[n - k], (n - k) - 1 + k>>
        BY <4>1, <4>2
      <4> QED BY <2>1, <4>1, <4>3
    <3> QED BY <3>1, <3>2
  <2> HIDE DEF U
  <2>5. ExclusiveOr(P, U) = A
    BY <2>2, <2>3, <2>4 DEF ExclusiveOr
  <2> QED BY <2>5 DEF U
<1> HIDE DEF Sum, P, Q
<1> QED BY <1>2, <1>3, <1>7, <1>9, <1>10 DEF Content

(* The requests that are left, after the first is answered. *)
LEMMA RestOfRequests ==
    ASSUME Requests, pairs # <<>>, pairs' = <<>> \/ pairs' = Tail(pairs), nextId' = nextId,
           DOMAIN stripes' = {pairs[1].target} \cup (DOMAIN stripes \ Ids(pairs[1]))
    PROVE  Requests'
<1>1. CASE pairs' = <<>>
  BY <1>1 DEF Requests
<1>2. CASE pairs' = Tail(pairs)
  <2> DEFINE R == [a : Nat, b : Nat, target : Nat]
             size == Len(pairs)
  <2>1. pairs \in Seq(R) /\ size \in Nat \ {0}
    <3>1. pairs \in Seq(R)
      BY DEF Requests
    <3> HIDE DEF R
    <3> QED BY <3>1
  <2>2. /\ Tail(pairs) \in Seq(R) /\ Len(Tail(pairs)) = size - 1
        /\ \A p \in 1..(size - 1) : p + 1 \in 1..size /\ Tail(pairs)[p] = pairs[p + 1]
    <3> HIDE DEF R
    <3> QED BY <2>1
  <2>3. \A p \in 1..(size - 1) : /\ Ids(pairs[p + 1]) \cap Ids(pairs[1]) = {}
                                 /\ pairs[p + 1].target # pairs[1].target
    <3> TAKE p \in 1..(size - 1)
    <3>1. p + 1 \in 1..size /\ 1 \in 1..size /\ p + 1 # 1
      BY <2>1
    <3> QED BY <3>1 DEF Requests
  <2>4. ASSUME NEW p \in 1..(size - 1)
        PROVE  /\ Ids(pairs[p + 1]) \subseteq DOMAIN stripes'
               /\ pairs[p + 1].a # pairs[p + 1].b /\ pairs[p + 1].target < nextId
               /\ \A s \in DOMAIN stripes' :
                    s = pairs[p + 1].target => \E q \in 1..p : s \in Ids(pairs[q + 1])
    <3>1. p + 1 \in 1..size /\ p \in Nat
      BY <2>1
    <3>2. /\ Ids(pairs[p + 1]) \subseteq DOMAIN stripes /\ pairs[p + 1].a # pairs[p + 1].b
          /\ pairs[p + 1].target < nextId
          /\ \A s \in DOMAIN stripes :
                s = pairs[p + 1].target => \E q \in 1..(p + 1) : s \in Ids(pairs[q])
      BY <3>1 DEF Requests
    <3>3. ASSUME NEW s \in DOMAIN stripes', s = pairs[p + 1].target
          PROVE  \E q \in 1..p : s \in Ids(pairs[q + 1])
      <4>1. s \in DOMAIN stripes /\ s \notin Ids(pairs[1])
        BY <2>3, <3>3
      <4>2. PICK q \in 1..(p + 1) : s \in Ids(pairs[q])
        BY <3>2, <3>3, <4>1
      <4>3. q - 1 \in 1..p /\ (q - 1) + 1 = q
        <5>1. q # 1
          BY <4>1, <4>2
        <5> QED BY <3>1, <5>1
      <4> QED BY <4>2, <4>3
    <3> QED BY <2>3, <3>2, <3>3
  <2>5. ASSUME NEW p \in 1..(size - 1), NEW q \in 1..(size - 1), p # q
        PROVE  /\ Ids(pairs[p + 1]) \cap Ids(pairs[q + 1]) = {}
               /\ pairs[p + 1].target # pairs[q + 1].target
    <3>1. p + 1 \in 1..size /\ q + 1 \in 1..size /\ p + 1 # q + 1
      BY <2>1, <2>5
    <3> QED BY <3>1 DEF Requests
  <2>6. /\ Len(pairs') = size - 1 /\ pairs' \in Seq(R)
        /\ \A p \in 1..(size - 1) : pairs'[p] = pairs[p + 1]
    BY <1>2, <2>2
  <2>7. \A p \in 1..(size - 1) :
           /\ Ids(pairs'[p]) \subseteq DOMAIN stripes' /\ pairs'[p].a # pairs'[p].b
           /\ pairs'[p].target < nextId'
           /\ \A s \in DOMAIN stripes' :
                s = pairs'[p].target => \E q \in 1..p : s \in Ids(pairs'[q])
    <3> TAKE p \in 1..(size - 1)
    <3>1. \A q \in 1..p : q \in 1..(size - 1)
      BY <2>1
    <3> QED BY <2>4, <2>6, <3>1
  <2>8. \A p, q \in 1..(size - 1) :
           p # q => /\ Ids(pairs'[p]) \cap Ids(pairs'[q]) = {}
                    /\ pairs'[p].target # pairs'[q].target
    <3> TAKE p, q \in 1..(size - 1)
    <3> HAVE p # q
    <3>1. pairs'[p] = pairs[p + 1] /\ pairs'[q] = pairs[q + 1]
      BY <2>6, Zenon
    <3> QED BY <2>5, <3>1, Zenon
  <2> HIDE DEF size
  <2> QED BY <2>6, <2>7, <2>8 DEF Requests, Ids
<1> QED BY <1>1, <1>2

(* The request that is answered next. *)
LEMMA FirstRequest ==
    ASSUME RsInv, pairs # <<>>
    PROVE  LET req == Head(pairs)
           IN  /\ req = pairs[1] /\ 1 \in 1..Len(pairs)
               /\ req.target \in Nat /\ req.target < nextId
               /\ req.a \in DOMAIN stripes /\ req.b \in DOMAIN stripes /\ req.a # req.b
               /\ Ids(pairs[1]) = {req.a, req.b}
               /\ \A s \in DOMAIN stripes : s = req.target => s \in {req.a, req.b}
<1> DEFINE req == Head(pairs)
           T == req.target
<1>2. /\ pairs \in Seq([a : Nat, b : Nat, target : Nat]) /\ 1 \in 1..Len(pairs)
      /\ req = pairs[1] /\ T \in Nat
  <2> DEFINE R == [a : Nat, b : Nat, target : Nat]
  <2>1. pairs \in Seq(R)
    BY DEF RsInv, Requests
  <2>2. pairs[1] \in R /\ 1 \in 1..Len(pairs) /\ Head(pairs) = pairs[1]
    <3> HIDE DEF R
    <3> QED BY <2>1
  <2> QED BY <2>1, <2>2
<1>3. /\ req.a \in DOMAIN stripes /\ req.b \in DOMAIN stripes /\ req.a # req.b
      /\ Ids(pairs[1]) = {req.a, req.b}
      /\ \A s \in DOMAIN stripes : s = T => s \in {req.a, req.b}
      /\ T < nextId
  <2>1. /\ Ids(pairs[1]) \subseteq DOMAIN stripes /\ pairs[1].a # pairs[1].b
        /\ pairs[1].target < nextId
        /\ \A s \in DOMAIN stripes :
              s = pairs[1].target => \E q \in 1..1 : s \in Ids(pairs[q])
    BY <1>2 DEF RsInv, Requests
  <2>2. \A q \in 1..1 : q = 1
    OBVIOUS
  <2> QED BY <1>2, <2>1, <2>2 DEF Ids
<1> QED BY <1>2, <1>3

(* A merge, whatever of it fails. *)
LEMMA MergeKeeps ==
    ASSUME RsInv, cfg.code = "RS", pairs # <<>>, NEW unmoved, NEW reported, NEW uncombined,
           MergeWith(unmoved, reported, uncombined)
    PROVE  RsInv'
<1> DEFINE req == Head(pairs)
           a == stripes[req.a]
           b == stripes[req.b]
           T == req.target
           moves == Moves(a, b, T, round)
           written == {j \in 1..cfg.r \ uncombined : ParitySources(req.a, req.b, j).found}
           hurt == unmoved # {} \/ written # 1..cfg.r
           m == MergedStripe(a, b, moves, hurt)
           named == {<<T, j, a.parity[j]>> : j \in written}
           files == [f \in named |-> CombinedParity(req.a, req.b, f[2])]
           others == [s \in DOMAIN stripes \ {req.a, req.b} |-> stripes[s]]
<1>1. /\ a.k = b.k
      /\ stripes' = Over([s \in {T} |-> m], others)
      /\ parityFiles' = Over(files, parityFiles)
      /\ pairs' = <<>> \/ pairs' = Tail(pairs)
      /\ UNCHANGED <<cfg, nextId>>
  BY DEF MergeWith, RequestValid
<1>2. /\ req = pairs[1] /\ 1 \in 1..Len(pairs) /\ T \in Nat /\ T < nextId
      /\ pairs \in Seq([a : Nat, b : Nat, target : Nat])
  BY FirstRequest DEF RsInv, Requests
<1>3. /\ req.a \in DOMAIN stripes /\ req.b \in DOMAIN stripes /\ req.a # req.b
      /\ Ids(pairs[1]) = {req.a, req.b}
      /\ \A s \in DOMAIN stripes : s = T => s \in {req.a, req.b}
      /\ T < nextId
  BY FirstRequest
<1>4. /\ cfg \in Configs /\ Shaped(a) /\ Shaped(b) /\ hurt \in BOOLEAN
      /\ SameBatch(a) /\ ~a.damaged => Encoded(req.a)
      /\ SameBatch(b) /\ ~b.damaged => Encoded(req.b)
  BY <1>3 DEF RsInv
<1>5. /\ DOMAIN others = DOMAIN stripes \ {req.a, req.b}
      /\ \A s \in DOMAIN others : others[s] = stripes[s]
  OBVIOUS
<1>6. DOMAIN files = named /\ \A f \in named : files[f] = CombinedParity(req.a, req.b, f[2])
  OBVIOUS
<1>7. written # 1..cfg.r => hurt
  OBVIOUS
<1>8. \A j \in written : <<T, j, a.parity[j]>> \in named
  OBVIOUS
<1>9. \A f \in named : \E j : f = <<T, j, a.parity[j]>>
  OBVIOUS
<1>10. /\ Shaped(m) /\ First(m) = First(a) /\ Joins(m, a, b)
       /\ m.parity = a.parity /\ m.damaged = (a.damaged \/ b.damaged \/ hurt)
  <2> HIDE DEF hurt, moves, a, b
  <2> QED BY <1>1, <1>4, MergedShape
<1> HIDE DEF m, files, others, named, hurt, written, moves
<1>11. /\ DOMAIN stripes' = {T} \cup (DOMAIN stripes \ {req.a, req.b})
       /\ stripes'[T] = m
       /\ \A s \in DOMAIN stripes' : s # T => s \in DOMAIN stripes /\ stripes'[s] = stripes[s]
  BY <1>1, <1>5 DEF Over
<1>12. /\ DOMAIN parityFiles' = named \cup DOMAIN parityFiles
       /\ \A f \in named : parityFiles'[f] = CombinedParity(req.a, req.b, f[2])
       /\ \A f \in DOMAIN parityFiles : f \notin named => parityFiles'[f] = parityFiles[f]
  BY <1>1, <1>6 DEF Over
<1>13. ASSUME SameBatch(m), ~m.damaged, NEW t, t = T PROVE Encoded(t)'
  <2>1. ~a.damaged /\ ~b.damaged /\ ~hurt
    BY <1>10, <1>13
  <2>2. SameBatch(a) /\ SameBatch(b) /\ a.parity = b.parity
    BY <1>1, <1>4, <1>10, <1>13, OneBatchTogether
  <2>3. Encoded(req.a) /\ Encoded(req.b) /\ written = 1..cfg.r
    BY <1>4, <1>7, <2>1, <2>2
  <2>4. a.k \in Nat
    BY <1>4 DEF Shaped
  <2>5. \A j \in 1..cfg.r :
           CombinedParity(req.a, req.b, j) = Content(m)
    <3> HIDE DEF req
    <3>1. Encoded(req.a) /\ Encoded(req.b)
      BY <2>3
    <3>2. stripes[req.a].k \in Nat /\ stripes[req.a].parity = stripes[req.b].parity
      BY <2>2, <2>4
    <3>3. Joins(m, stripes[req.a], stripes[req.b])
      BY <1>10
    <3> QED BY <3>1, <3>2, <3>3, CombinedRight
  <2> SUFFICES ASSUME NEW j \in 1..cfg.r
               PROVE  /\ <<t, j, m.parity[j]>> \in DOMAIN parityFiles'
                      /\ parityFiles'[<<t, j, m.parity[j]>>] = Content(m)
    <3>1. stripes'[t] = m
      BY <1>11, <1>13
    <3>2. Content(stripes[t])' = Content(m)
      BY <3>1 DEF Content
    <3> QED BY <1>1, <3>1, <3>2 DEF Encoded
  <2>6. <<t, j, m.parity[j]>> \in named
    BY <1>8, <1>10, <1>13, <2>3
  <2>7. parityFiles'[<<t, j, m.parity[j]>>] = CombinedParity(req.a, req.b, j)
    BY <1>12, <2>6
  <2> QED BY <1>12, <2>5, <2>6, <2>7
<1>14. ASSUME NEW t \in DOMAIN stripes'
       PROVE  /\ Shaped(stripes[t])'
              /\ SameBatch(stripes[t])' /\ ~stripes'[t].damaged => Encoded(t)'
  <2>1. CASE t = T
    <3>1. stripes'[t] = m /\ cfg' = cfg
      BY <1>1, <1>11, <2>1
    <3>2. Shaped(stripes[t])'
      BY <1>10, <3>1 DEF Shaped, First
    <3>3. SameBatch(stripes[t])' => SameBatch(m)
      BY <3>1 DEF SameBatch, Batch
    <3> QED BY <1>13, <2>1, <3>1, <3>2, <3>3
  <2>2. CASE t # T
    <3>1. t \in DOMAIN stripes /\ stripes'[t] = stripes[t] /\ cfg' = cfg
      BY <1>1, <1>11, <2>2
    <3>2. \A j : <<t, j, stripes[t].parity[j]>> \notin named
      BY <1>9, <2>2
    <3>3. Encoded(t) => Encoded(t)'
      BY <1>12, <3>1, <3>2, StaysEncoded
    <3>4. Shaped(stripes[t]) /\ (SameBatch(stripes[t]) /\ ~stripes[t].damaged => Encoded(t))
      BY <3>1 DEF RsInv
    <3> QED BY <3>1, <3>3, <3>4, StaysShaped
  <2> QED BY <2>1, <2>2
<1>15. Requests'
  <2>1. DOMAIN stripes' = {pairs[1].target} \cup (DOMAIN stripes \ Ids(pairs[1]))
    BY <1>2, <1>3, <1>11
  <2> QED BY <1>1, <2>1, RestOfRequests DEF RsInv
<1>16. DOMAIN stripes' \subseteq 0..(nextId' - 1)
  BY <1>1, <1>2, <1>3, <1>11 DEF RsInv
<1> QED BY <1>1, <1>14, <1>15, <1>16 DEF RsInv

(* Every step keeps RsInv, those of the LRCs because they touch no stripe. *)
LEMMA NextKeeps ==
    ASSUME RsInv, Next
    PROVE  RsInv'
<1>1. ASSUME cfg.code = "RS", RsNext PROVE RsInv'
  <2>1. CASE RsSetStripe
    BY <1>1, <2>1, SetKeeps
  <2>2. CASE RsSetUnavailable
    <3>1. UNCHANGED <<cfg, stripes, parityFiles, pairs>> /\ nextId' = nextId + 1 /\ pairs = <<>>
      BY <2>2 DEF RsSetUnavailable, rsVars
    <3>2. nextId \in Nat /\ Requests
      BY DEF RsInv
    <3>3. Requests'
      BY <3>1 DEF Requests
    <3> QED BY <3>1, <3>2, <3>3, TableStays
  <2>3. ASSUME NEW sid \in DOMAIN stripes, RsDelete(sid) PROVE RsInv'
    BY <2>3, DeleteKeeps
  <2>4. ASSUME NEW rd, StartMerge(rd) PROVE RsInv'
    BY <2>4, StartKeeps
  <2>5. CASE MergePair
    BY <1>1, <2>5, MergeKeeps DEF MergePair
  <2>6. CASE MergeHurt
    <3>1. pairs # <<>> /\ \E unmoved, reported, uncombined :
                             MergeWith(unmoved, reported, uncombined)
      BY <2>6 DEF MergeHurt
    <3> QED BY <1>1, <3>1, MergeKeeps
  <2>7. CASE MergeRefused
    <3>1. pairs' = <<>> /\ UNCHANGED <<cfg, nextId, stripes, parityFiles>>
      BY <2>7 DEF MergeRefused
    <3>2. Requests' /\ nextId \in Nat
      BY <3>1 DEF Requests, RsInv
    <3> QED BY <3>1, <3>2, TableStays
  <2> QED BY <1>1, <2>1, <2>2, <2>3, <2>4, <2>5, <2>6, <2>7 DEF RsNext
<1>2. ASSUME cfg.code # "RS", LrcNext, UNCHANGED rsVars PROVE RsInv'
  <2>1. UNCHANGED <<cfg, stripes, parityFiles, pairs>> /\ nextId' \in {nextId, nextId + 1}
    BY <1>2 DEF LrcNext, LrcSetStripe, LrcSetSpins, LrcSetUnavailable, Repair, rsVars
  <2>2. nextId \in Nat /\ Requests
    BY DEF RsInv
  <2>3. pairs = <<>>
    <3>1. DOMAIN stripes = {} /\ Len(pairs) \in Nat
          /\ \A p \in 1..Len(pairs) : Ids(pairs[p]) \subseteq DOMAIN stripes
      BY <1>2 DEF RsInv, Requests
    <3>2. 1 \notin 1..Len(pairs)
      BY <3>1 DEF Ids
    <3> QED BY <2>2, <3>1, <3>2 DEF Requests
  <2>4. Requests'
    BY <2>1, <2>3 DEF Requests
  <2> QED BY <2>1, <2>2, <2>4, TableStays
<1> QED BY <1>1, <1>2 DEF Next

(* So does a step that changes nothing. *)
LEMMA Stutters ==
    ASSUME RsInv, UNCHANGED vars
    PROVE  RsInv'
<1>1. UNCHANGED <<cfg, nextId, stripes, parityFiles, pairs>>
  BY DEF vars, rsVars
<1>2. Requests' /\ nextId \in Nat
  <2>1. Requests /\ nextId \in Nat
    BY DEF RsInv
  <2>2. stripes' = stripes /\ pairs' = pairs /\ nextId' = nextId
    BY <1>1
  <2>3. Requests' <=> Requests
    BY <2>2 DEF Requests
  <2> QED BY <2>1, <2>3
<1> QED BY <1>1, <1>2, TableStays

-----------------------------------------------------------------------------
(* A stripe of one batch by the number of its batches is one by any two.   *)
LEMMA OneMeansSame ==
    ASSUME NEW s, Shaped(s), OneBatch(s)
    PROVE  SameBatch(s)
<1> DEFINE batches == {Batch(d.id) : d \in ToSet(s.data)}
<1>1. s.k \in Nat \ {0} /\ DOMAIN s.data = 1..s.k
  BY DEF Shaped
<1>2. \A n \in 1..s.k : Batch(s.data[n].id) \in batches
  BY <1>1 DEF ToSet
<1>3. IsFiniteSet(batches)
  <2>1. IsFiniteSet(1..s.k)
    BY <1>1, FS_Interval
  <2> DEFINE f == [n \in 1..s.k |-> Batch(s.data[n].id)]
  <2>2. f \in Surjection(1..s.k, batches)
    BY <1>1, <1>2 DEF Surjection, ToSet
  <2> HIDE DEF f, batches
  <2> QED BY <2>1, <2>2, FS_Surjection
<1>4. Cardinality(batches) = 1
  BY DEF OneBatch
<1> HIDE DEF batches
<1>5. PICK x : batches = {x}
  BY <1>3, <1>4, FS_Singleton
<1> QED BY <1>2, <1>5 DEF SameBatch

(***************************************************************************)
(* After any uploads, failed uploads, deletions, rounds, failures in them  *)
(* and refusals, the parity files of an undamaged stripe of one batch hold *)
(* the encoding of its data in its order.                                  *)
(***************************************************************************)
THEOREM RsParityAlwaysEncodes == Spec => []RsParityEncodes
<1>1. Init => RsInv
  BY InitRs
<1>2. RsInv /\ [Next]_vars => RsInv'
  BY NextKeeps, Stutters
<1>3. RsInv => RsParityEncodes
  <2> SUFFICES ASSUME RsInv, NEW sid \in DOMAIN stripes, OneBatch(stripes[sid]),
                      ~stripes[sid].damaged
               PROVE  Encoded(sid)
    BY DEF RsParityEncodes, Encoded, Content
  <2>1. Shaped(stripes[sid])
    BY DEF RsInv
  <2> QED BY <2>1, OneMeansSame DEF RsInv
<1> QED BY <1>1, <1>2, <1>3, PTL DEF Spec

-----------------------------------------------------------------------------
(***************************************************************************)
(* The loads.  Blocks where their uploads put them, of one batch and on    *)
(* racks apart, have columns and node columns apart, and so have the       *)
(* parities: on no rack are there more than r node columns.                *)
(***************************************************************************)

(* m blocks of uploads of t's batch, each where it was uploaded, those of  *)
(* different uploads on different racks.                                   *)
AsUploaded(d, m, t) ==
    /\ \A n \in 1..m :
          /\ d[n].id \in Nat \X (0..(cfg.k - 1))
          /\ d[n].id[1] \div BatchSize(cfg) = t \div BatchSize(cfg)
          /\ d[n].node = PlaceOf(cfg, d[n].id[1], d[n].id[2])
    /\ \A n, l \in 1..m : d[n].id = d[l].id => n = l
    /\ \A n, l \in 1..m :
          Slot(cfg, d[n].id[1], d[n].id[2]).col = Slot(cfg, d[l].id[1], d[l].id[2]).col
            => d[n].id[1] = d[l].id[1]

DataOn(d, m, rack) == {n \in 1..m : Rack(d[n].node) = rack}
ParityOn(t, rack) == {j \in 1..cfg.r : Rack(PlaceOf(cfg, t, cfg.k + j - 1)) = rack}

(* Then no rack has more than r of them and of the parities together.      *)
LEMMA LoadInPlace ==
    ASSUME IsRs(cfg), FitsRacks(cfg), NEW t \in Nat, NEW m \in Nat, NEW d, AsUploaded(d, m, t),
           NEW rack
    PROVE  Cardinality(DataOn(d, m, rack)) + Cardinality(ParityOn(t, rack)) <= cfg.r
<1> DEFINE S == DataOn(d, m, rack)
           T == ParityOn(t, rack)
           f == [n \in S |-> Slot(cfg, d[n].id[1], d[n].id[2]).ncol]
           g == [j \in T |-> Slot(cfg, t, cfg.k + j - 1).ncol]
           r == cfg.r
           k == cfg.k
<1>1. r \in Nat \ {0} /\ k \in Nat \ {0}
  BY RsSizes
<1>2. IsFiniteSet(S) /\ IsFiniteSet(T)
  <2>1. IsFiniteSet(1..m) /\ IsFiniteSet(1..cfg.r)
    <3>1. 1 \in Int /\ m \in Int /\ cfg.r \in Int
      BY <1>1
    <3> QED BY <3>1, FS_Interval
  <2>2. S \subseteq 1..m /\ T \subseteq 1..cfg.r
    BY DEF DataOn, ParityOn
  <2> QED BY <2>1, <2>2, FS_Subset
<1>3. ASSUME NEW n \in S
      PROVE  /\ n \in 1..m /\ d[n].id = <<d[n].id[1], d[n].id[2]>> /\ d[n].id[1] \in Nat
             /\ d[n].id[2] \in 0..(k + r - 1) /\ d[n].id[2] < k
             /\ d[n].id[1] \div BatchSize(cfg) = t \div BatchSize(cfg)
             /\ Rack(PlaceOf(cfg, d[n].id[1], d[n].id[2])) = rack
  <2>1. n \in 1..m /\ Rack(d[n].node) = rack
    BY DEF DataOn
  <2>2. /\ d[n].id \in Nat \X (0..(k - 1))
        /\ d[n].id[1] \div BatchSize(cfg) = t \div BatchSize(cfg)
        /\ d[n].node = PlaceOf(cfg, d[n].id[1], d[n].id[2])
    BY <2>1 DEF AsUploaded
  <2>3. d[n].id = <<d[n].id[1], d[n].id[2]>> /\ d[n].id[1] \in Nat /\ d[n].id[2] \in 0..(k - 1)
    BY <2>2
  <2> DEFINE x == d[n].id[2]
  <2>4. x \in 0..(k + r - 1) /\ x < k
    <3>1. x \in 0..(k - 1)
      BY <2>3
    <3> HIDE DEF x, k, r
    <3> QED BY <1>1, <3>1
  <2> QED BY <2>1, <2>2, <2>3, <2>4
<1>4. ASSUME NEW j \in T
      PROVE  /\ j \in 1..r /\ k + j - 1 \in 0..(k + r - 1) /\ k + j - 1 >= k
             /\ Rack(PlaceOf(cfg, t, k + j - 1)) = rack
  <2>1. j \in 1..r /\ Rack(PlaceOf(cfg, t, k + j - 1)) = rack
    BY DEF ParityOn
  <2>2. k + j - 1 \in 0..(k + r - 1) /\ k + j - 1 >= k
    <3> HIDE DEF k, r
    <3> QED BY <1>1, <2>1
  <2> QED BY <2>1, <2>2
<1> HIDE DEF S, T
<1>5. \A n \in S : f[n] \in 0..(r - 1)
  BY <1>3, SlotRange
<1>6. \A j \in T : g[j] \in 0..(r - 1)
  BY <1>4, SlotRange
<1>7. ASSUME NEW n \in S, NEW l \in S, f[n] = f[l]
      PROVE  n = l
  <2> DEFINE x == d[n].id[1]
             y == d[l].id[1]
  <2>1. Slot(cfg, x, d[n].id[2]).col = Slot(cfg, y, d[l].id[2]).col
    BY <1>3, SameRack
  <2>2. x = y
    BY <1>3, <2>1 DEF AsUploaded
  <2>3. Slot(cfg, x, d[n].id[2]).ncol = Slot(cfg, y, d[l].id[2]).ncol
    BY <1>7
  <2>4. d[n].id[2] = d[l].id[2]
    BY <1>3, <2>1, <2>2, <2>3, SlotsApart
  <2>5. d[n].id = d[l].id
    BY <1>3, <2>2, <2>4
  <2> QED BY <1>3, <2>5 DEF AsUploaded
<1>8. ASSUME NEW j \in T, NEW l \in T, g[j] = g[l]
      PROVE  j = l
  <2>1. Slot(cfg, t, k + j - 1).col = Slot(cfg, t, k + l - 1).col
    BY <1>4, SameRack
  <2>2. k + j - 1 = k + l - 1
    BY <1>4, <1>8, <2>1, SlotsApart
  <2>3. j \in 1..r /\ l \in 1..r
    BY <1>4
  <2> HIDE DEF k, r
  <2> QED BY <1>1, <2>2, <2>3
<1>9. ASSUME NEW n \in S, NEW j \in T
      PROVE  f[n] # g[j]
  <2> SUFFICES ASSUME f[n] = g[j] PROVE FALSE
    OBVIOUS
  <2> DEFINE x == d[n].id[1]
             i == k + j - 1
  <2>1. Slot(cfg, x, i) = Slot(cfg, t, i)
    BY <1>3, <1>4, ParitySlot
  <2>2. Slot(cfg, x, d[n].id[2]).col = Slot(cfg, x, i).col
    BY <1>3, <1>4, <2>1, SameRack
  <2>3. Slot(cfg, x, d[n].id[2]).ncol = Slot(cfg, x, i).ncol
    BY <2>1
  <2>4. d[n].id[2] = i
    BY <1>3, <1>4, <2>2, <2>3, SlotsApart
  <2> HIDE DEF i, k
  <2>5. d[n].id[2] < k /\ i >= k
    BY <1>3, <1>4 DEF i
  <2>6. k \in Int /\ i \in Int
    BY <1>1, <1>4 DEF i
  <2> QED BY <2>4, <2>5, <2>6
<1> HIDE DEF f, g, r, k
<1>10. Cardinality(S) + Cardinality(T) <= r
  BY <1>1, <1>2, <1>5, <1>6, <1>7, <1>8, <1>9, TwoCounts
<1> QED BY <1>10 DEF S, T, r

-----------------------------------------------------------------------------
(***************************************************************************)
(* The records.  A merge leaves every block on its rack; the tags of a     *)
(* stripe are the uploads its blocks come from.                            *)
(***************************************************************************)

Tags(s) == {s.data[n].id[1] : n \in 1..s.k}
HomeOf(d) == PlaceOf(cfg, d.id[1], d.id[2])
AtHome(s) == \A n \in 1..s.k : s.data[n].node = HomeOf(s.data[n])
Fresh(s) == AtHome(s) /\ \A n \in 1..s.k : s.data[n].id = <<First(s), n - 1>>

(* What the record of a stripe says, whatever its merges did.              *)
Placed(s) ==
    /\ (s.k = cfg.k /\ Fresh(s)) \/ s.k >= 2 * cfg.k
    /\ \A n \in 1..s.k :
          /\ s.data[n].id \in (0..(nextId - 1)) \X (0..(cfg.k - 1))
          /\ s.data[n].node \in (0..(ClusterNum - 1)) \X (0..(DatanodeNumPerCluster - 1))
          /\ Rack(s.data[n].node) = Rack(HomeOf(s.data[n]))
    /\ \A n, m \in 1..s.k : s.data[n].id = s.data[m].id => n = m
    /\ s.row1 = RackRow(cfg, First(s)) /\ s.row2 = NodeRow(cfg, First(s))
    /\ cfg.k * Cardinality(Tags(s)) <= s.k
    /\ FitsRacks(cfg) /\ cfg.k % cfg.r = 0 /\ SameBatch(s) => AtHome(s)

(* The blocks of a record as a set. *)
LEMMA DataSet ==
    ASSUME NEW s, Shaped(s)
    PROVE  /\ ToSet(s.data) = {s.data[n] : n \in 1..s.k}
           /\ DOMAIN s.data = 1..s.k /\ s.k \in Nat \ {0}
           /\ First(s) \in Nat /\ First(s) = s.data[1].id[1]
<1>1. s.k \in Nat \ {0} /\ DOMAIN s.data = 1..s.k /\ 1 \in 1..s.k
  BY DEF Shaped
<1>2. s.data[1].id \in Nat \X Nat
  BY <1>1 DEF Shaped
<1> QED BY <1>1, <1>2 DEF ToSet, First

(* An upload as it was placed, or one batch where r divides k.             *)
LEMMA StripeInPlace ==
    ASSUME IsRs(cfg), FitsRacks(cfg), NEW s, Shaped(s), Placed(s),
           s.k = cfg.k \/ (cfg.k % cfg.r = 0 /\ SameBatch(s))
    PROVE  AsUploaded(s.data, s.k, First(s)) /\ AtHome(s) /\ SameBatch(s)
<1> DEFINE d == s.data
           m == s.k
           t == First(s)
<1>1. m \in Nat \ {0} /\ t \in Nat /\ cfg.k \in Nat \ {0} /\ 1 \in 1..m
  BY DataSet, RsSizes
<1>2. AtHome(s) /\ SameBatch(s)
  <2>1. CASE s.k = cfg.k
    <3>1. Fresh(s)
      BY <1>1, <2>1 DEF Placed
    <3>2. \A n \in 1..m : d[n].id[1] = t
      BY <3>1 DEF Fresh
    <3> QED BY <3>1, <3>2 DEF Fresh, SameBatch, Batch
  <2>2. CASE cfg.k % cfg.r = 0 /\ SameBatch(s)
    BY <2>2 DEF Placed
  <2> QED BY <2>1, <2>2
<1>3. \A n \in 1..m : d[n].id \in Nat \X (0..(cfg.k - 1))
  <2> TAKE n \in 1..m
  <2>1. d[n].id \in (0..(nextId - 1)) \X (0..(cfg.k - 1)) /\ d[n].id \in Nat \X Nat
    BY DEF Placed, Shaped
  <2> QED BY <2>1
<1>4. \A n \in 1..m : d[n].id[1] \div BatchSize(cfg) = t \div BatchSize(cfg)
  BY <1>1, <1>2 DEF SameBatch, Batch, First
<1>5. \A n \in 1..m : d[n].node = PlaceOf(cfg, d[n].id[1], d[n].id[2])
  BY <1>2 DEF AtHome, HomeOf
<1>6. \A n, l \in 1..m : d[n].id = d[l].id => n = l
  BY DEF Placed
<1>7. ASSUME NEW n \in 1..m, NEW l \in 1..m,
             Slot(cfg, d[n].id[1], d[n].id[2]).col = Slot(cfg, d[l].id[1], d[l].id[2]).col
      PROVE  d[n].id[1] = d[l].id[1]
  <2>1. CASE s.k = cfg.k
    <3>1. Fresh(s)
      BY <1>1, <2>1 DEF Placed
    <3> QED BY <3>1 DEF Fresh
  <2>2. CASE cfg.k % cfg.r = 0 /\ SameBatch(s)
    <3>1. /\ d[n].id[1] \in Nat /\ d[l].id[1] \in Nat
          /\ d[n].id[2] \in 0..(cfg.k - 1) /\ d[l].id[2] \in 0..(cfg.k - 1)
          /\ d[n].id[1] \div BatchSize(cfg) = d[l].id[1] \div BatchSize(cfg)
      BY <1>3, <1>4
    <3> QED BY <1>7, <2>2, <3>1, ColumnsOfBatch
  <2> QED BY <2>1, <2>2
<1> QED BY <1>2, <1>3, <1>4, <1>5, <1>6, <1>7 DEF AsUploaded

(* So no rack holds more than r blocks of a stripe whose blocks are there. *)
LEMMA LoadOfStripe ==
    ASSUME IsRs(cfg), FitsRacks(cfg), NEW s, Shaped(s), Placed(s),
           s.k = cfg.k \/ (cfg.k % cfg.r = 0 /\ SameBatch(s)), NEW rack
    PROVE  Load(s, rack) <= cfg.r
<1>1. AsUploaded(s.data, s.k, First(s))
  BY StripeInPlace
<1>2. s.k \in Nat /\ First(s) \in Nat
  BY DataSet
<1>3. Cardinality(DataOn(s.data, s.k, rack)) + Cardinality(ParityOn(First(s), rack)) <= cfg.r
  BY <1>1, <1>2, LoadInPlace
<1>4. {j \in DOMAIN s.parity : Rack(s.parity[j]) = rack} = ParityOn(First(s), rack)
  <2>1. s.parity = [j \in 1..cfg.r |-> PlaceOf(cfg, First(s), cfg.k + j - 1)]
    BY DEF Shaped
  <2> QED BY <2>1 DEF ParityOn
<1> QED BY <1>3, <1>4 DEF Load, ParitiesOn, DataOn

(* The blocks of an upload are on k+r nodes.                               *)
LEMMA NodesOfUpload ==
    ASSUME IsRs(cfg), FitsRacks(cfg), NEW s, Shaped(s), Placed(s), s.k = cfg.k
    PROVE  Cardinality({d.node : d \in ToSet(s.data)} \cup ToSet(s.parity)) = cfg.k + cfg.r
<1> DEFINE k == cfg.k
           r == cfg.r
           t == First(s)
           I == 0..(k + r - 1)
           p == [i \in I |-> PlaceOf(cfg, t, i)]
           all == {p[i] : i \in I}
<1>1. k \in Nat \ {0} /\ r \in Nat \ {0} /\ t \in Nat
  BY RsSizes, DataSet
<1>2. /\ \A n \in 1..k : s.data[n].node = PlaceOf(cfg, t, n - 1)
      /\ ToSet(s.data) = {s.data[n] : n \in 1..k}
  <2>1. Fresh(s)
    BY <1>1 DEF Placed
  <2>2. \A n \in 1..k : s.data[n].node = PlaceOf(cfg, t, n - 1)
    BY <2>1 DEF Fresh, AtHome, HomeOf
  <2> QED BY <2>2, DataSet
<1>3. ToSet(s.parity) = {PlaceOf(cfg, t, k + j - 1) : j \in 1..r}
  <2>1. s.parity = [j \in 1..r |-> PlaceOf(cfg, t, k + j - 1)]
    BY DEF Shaped
  <2> QED BY <2>1 DEF ToSet
<1>4. {d.node : d \in ToSet(s.data)} \cup ToSet(s.parity) = all
  <2>1. \A n \in 1..k : n - 1 \in I
    BY <1>1
  <2>2. \A j \in 1..r : k + j - 1 \in I
    BY <1>1
  <2>3. \A i \in I : \/ i + 1 \in 1..k /\ (i + 1) - 1 = i
                     \/ i - k + 1 \in 1..r /\ k + (i - k + 1) - 1 = i
    BY <1>1
  <2> HIDE DEF I, k, r, t
  <2>4. {d.node : d \in ToSet(s.data)} = {PlaceOf(cfg, t, n - 1) : n \in 1..k}
    BY <1>2
  <2>5. ASSUME NEW x \in all
        PROVE  \/ x \in {PlaceOf(cfg, t, n - 1) : n \in 1..k}
               \/ x \in {PlaceOf(cfg, t, k + j - 1) : j \in 1..r}
    <3>1. PICK i \in I : x = PlaceOf(cfg, t, i)
      OBVIOUS
    <3>2. CASE i + 1 \in 1..k /\ (i + 1) - 1 = i
      BY <3>1, <3>2
    <3>3. CASE i - k + 1 \in 1..r /\ k + (i - k + 1) - 1 = i
      BY <3>1, <3>3
    <3> QED BY <2>3, <3>2, <3>3
  <2>6. \A n \in 1..k : PlaceOf(cfg, t, n - 1) \in all
    BY <2>1
  <2>7. \A j \in 1..r : PlaceOf(cfg, t, k + j - 1) \in all
    BY <2>2
  <2> HIDE DEF all
  <2> QED BY <1>3, <2>4, <2>5, <2>6, <2>7
<1>5. \A i, j \in I : p[i] = p[j] => i = j
  BY <1>1, PlacesApart
<1>6. IsFiniteSet(I) /\ Cardinality(I) = k + r
  <2> DEFINE h == k + r - 1
  <2>1. h \in Int /\ 0 \in Int /\ 0 <= h /\ h - 0 + 1 = k + r
    BY <1>1
  <2> HIDE DEF h
  <2>2. IsFiniteSet(0..h) /\ Cardinality(0..h) = h - 0 + 1
    BY <2>1, FS_Interval
  <2> QED BY <2>1, <2>2 DEF h
<1>7. Cardinality(all) = Cardinality(I)
  <2>1. p \in [I -> {p[i] : i \in I}]
    OBVIOUS
  <2> HIDE DEF p, I
  <2> QED BY <1>5, <1>6, <2>1, ValuesCounted
<1> QED BY <1>4, <1>6, <1>7

(* The racks of a stripe merged from an aligned run of 2^l uploads.        *)
LEMMA RunRacks ==
    ASSUME IsRs(cfg), NEW s, Shaped(s), Placed(s), NEW l \in 0..RsRounds(cfg),
           NEW first \in Nat, first % 2^l = 0, Tags(s) = first..(first + 2^l - 1)
    PROVE  Cardinality(AllRacks(s)) <= CeilDiv(s.k + cfg.r, cfg.r)
<1> DEFINE B == BatchSize(cfg)
           p == 2^l
           f == first % B
           k == cfg.k
           r == cfg.r
           lo == Start(cfg, f + 1)
           top == Start(cfg, f + p)
           G == GroupCount(cfg)
           hi == top + G - 1
           row == RackRow(cfg, first)
           h == [x \in lo..hi |-> OaRack(row, x % 17)]
           o == [x \in Outer(cfg) |-> OaRack(row, x)]
           H == {h[x] : x \in lo..hi}
           O == {o[x] : x \in Outer(cfg)}
           w == Width(cfg, 0)
           v == Width(cfg, l)
<1>1. /\ k \in Nat \ {0} /\ r \in Nat \ {0} /\ l \in 0..LevelBound /\ p \in Nat \ {0}
      /\ B \in Nat \ {0} /\ s.k \in Nat \ {0}
  <2>1. l \in 0..LevelBound
    BY Rounds, RsSizes
  <2>2. p \in Nat \ {0}
    BY <2>1, PowersAssumption
  <2> QED BY <2>1, <2>2, Rounds, RsSizes, DataSet
<1>2. AllRacks(s) \subseteq H \cup O
  <2>1. ASSUME NEW t \in first..(first + p - 1), NEW i \in 0..(k + r - 1)
        PROVE  Rack(PlaceOf(cfg, t, i)) \in H \cup O
    <3>1. \/ \E x \in lo..hi : Rack(PlaceOf(cfg, t, i)) = OaRack(row, x % 17)
          \/ \E x \in Outer(cfg) : Rack(PlaceOf(cfg, t, i)) = OaRack(row, x)
      BY RunOfRacks DEF RunColumns
    <3> HIDE DEF lo, hi, row
    <3> QED BY <3>1
  <2>2. ASSUME NEW n \in 1..s.k
        PROVE  Rack(s.data[n].node) \in H \cup O
    <3>1. s.data[n].id \in (0..(nextId - 1)) \X (0..(k - 1))
          /\ Rack(s.data[n].node) = Rack(PlaceOf(cfg, s.data[n].id[1], s.data[n].id[2]))
      BY DEF Placed, HomeOf
    <3>2. s.data[n].id[1] \in first..(first + p - 1)
      BY DEF Tags
    <3>3. s.data[n].id[2] \in 0..(k + r - 1)
      <4> DEFINE z == s.data[n].id[2]
      <4>1. z \in 0..(k - 1)
        BY <3>1
      <4> HIDE DEF z, k, r
      <4>2. z \in 0..(k + r - 1)
        BY <1>1, <4>1
      <4> QED BY <4>2 DEF z
    <3> HIDE DEF H, O
    <3> QED BY <2>1, <3>1, <3>2, <3>3
  <2>3. ASSUME NEW j \in 1..r
        PROVE  Rack(s.parity[j]) \in H \cup O
    <3>1. s.parity[j] = PlaceOf(cfg, First(s), k + j - 1)
      BY DEF Shaped
    <3>2. First(s) \in first..(first + p - 1)
      <4>1. First(s) = s.data[1].id[1] /\ 1 \in 1..s.k
        BY DataSet
      <4>2. First(s) \in Tags(s)
        BY <4>1 DEF Tags
      <4> QED BY <4>2
    <3>3. k + j - 1 \in 0..(k + r - 1)
      BY <1>1
    <3> HIDE DEF H, O
    <3> QED BY <2>1, <3>1, <3>2, <3>3
  <2>4. ToSet(s.data) = {s.data[n] : n \in 1..s.k}
    BY DataSet
  <2>5. ToSet(s.parity) = {s.parity[j] : j \in 1..r}
    BY DEF Shaped, ToSet
  <2> HIDE DEF H, O, r
  <2> QED BY <2>2, <2>3, <2>4, <2>5 DEF AllRacks
<1>3. /\ lo \in Int /\ top \in Int /\ lo <= top /\ top - lo + w <= v
      /\ w \in Nat \ {0} /\ v \in Nat \ {0} /\ RsRacks(cfg, l) = v + 1
  <2>1. f \in Nat /\ f % p = 0 /\ f + p <= B
    BY RunPositions
  <2>2. f + 1 \in 1..B /\ f + p \in 1..B /\ f + 1 <= f + p
    <3> HIDE DEF f, p, B
    <3> QED BY <1>1, <2>1
  <2>3. top - lo + w <= v
    <3> HIDE DEF f
    <3> QED BY <2>1, Span
  <2>4. lo \in Int /\ top \in Int /\ lo <= top
    <3> HIDE DEF f, p
    <3> QED BY <2>2, StartIsInt, StartsInOrder
  <2> QED BY <1>1, <2>3, <2>4, Widths, RsSizes
<1>4. /\ IsFiniteSet(lo..hi) /\ IsFiniteSet(Outer(cfg))
      /\ Cardinality(lo..hi) + Cardinality(Outer(cfg)) <= v + 1
      /\ Cardinality(lo..hi) \in Nat /\ Cardinality(Outer(cfg)) \in Nat
  <2> HIDE DEF lo, top, w, v
  <2>1. CASE SplitsParities(cfg)
    <3>1. G = w - 1 /\ w >= 2
      BY <2>1, RsShape DEF GroupCount, w
    <3> HIDE DEF G
    <3>2. hi \in Int /\ lo <= hi /\ hi - lo + 1 <= v - 1
      BY <1>3, <3>1
    <3> HIDE DEF hi
    <3>0. ~(lo > hi)
      BY <1>3, <3>2
    <3>3. IsFiniteSet(lo..hi) /\ Cardinality(lo..hi) = hi - lo + 1
      BY <1>3, <3>2, <3>0, FS_Interval
    <3>4. IsFiniteSet(0..1) /\ Cardinality(0..1) = 2
      <4> DEFINE a == 0
                 b == 1
      <4>1. a \in Int /\ b \in Int /\ ~(a > b) /\ b - a + 1 = 2
        OBVIOUS
      <4> HIDE DEF a, b
      <4>2. IsFiniteSet(a..b) /\ Cardinality(a..b) = b - a + 1
        BY <4>1, FS_Interval
      <4> QED BY <4>1, <4>2 DEF a, b
    <3> QED BY <1>3, <2>1, <3>2, <3>3, <3>4 DEF Outer
  <2>2. CASE ~SplitsParities(cfg)
    <3>1. G = w
      BY <2>2 DEF GroupCount, w
    <3> HIDE DEF G
    <3>2. hi \in Int /\ lo <= hi /\ hi - lo + 1 <= v
      BY <1>3, <3>1
    <3> HIDE DEF hi
    <3>0. ~(lo > hi)
      BY <1>3, <3>2
    <3>3. IsFiniteSet(lo..hi) /\ Cardinality(lo..hi) = hi - lo + 1
      BY <1>3, <3>2, <3>0, FS_Interval
    <3>4. IsFiniteSet({0}) /\ Cardinality({0}) = 1
      BY FS_Singleton
    <3> QED BY <1>3, <2>2, <3>2, <3>3, <3>4 DEF Outer
  <2> QED BY <2>1, <2>2
<1>5. Cardinality(AllRacks(s)) <= v + 1
  <2> HIDE DEF h, o, v
  <2>1. /\ IsFiniteSet(H) /\ Cardinality(H) \in Nat /\ Cardinality(H) <= Cardinality(lo..hi)
        /\ IsFiniteSet(O) /\ Cardinality(O) \in Nat
        /\ Cardinality(O) <= Cardinality(Outer(cfg))
    <3> HIDE DEF lo, hi
    <3> QED BY <1>4, ImageBound
  <2> HIDE DEF H, O, lo, hi
  <2>2. /\ Cardinality(AllRacks(s)) <= Cardinality(H) + Cardinality(O)
        /\ Cardinality(AllRacks(s)) \in Nat
    BY <1>2, <2>1, CoverBound
  <2> QED BY <1>3, <1>4, <2>1, <2>2
<1>6. v + 1 <= CeilDiv(s.k + r, r)
  <2>1. v + 1 = (p * k + r + r - 1) \div r
    BY <1>3 DEF RsRacks, CeilDiv
  <2>2. k * p <= s.k
    <3>1. k * Cardinality(Tags(s)) <= s.k
      BY DEF Placed
    <3>2. Cardinality(Tags(s)) = p
      <4> DEFINE e == first + p - 1
      <4>1. first \in Int /\ e \in Int /\ ~(first > e) /\ e - first + 1 = p
        BY <1>1
      <4> HIDE DEF e
      <4>2. Cardinality(first..e) = e - first + 1
        BY <4>1, FS_Interval
      <4> QED BY <4>1, <4>2 DEF e
    <3> QED BY <3>1, <3>2
  <2> HIDE DEF p, k, r, v
  <2>3. p * k = k * p /\ k * p \in Nat
    BY <1>1, SMT
  <2> DEFINE x == p * k
  <2>4. x \in Nat /\ x <= s.k
    BY <2>2, <2>3
  <2> HIDE DEF x
  <2> DEFINE a == x + r + r - 1
             b == s.k + r + r - 1
  <2>5. a \in Nat /\ b \in Nat /\ a <= b
    BY <1>1, <2>4
  <2>6. v + 1 = a \div r /\ CeilDiv(s.k + r, r) = b \div r
    BY <2>1 DEF x, CeilDiv
  <2> HIDE DEF a, b
  <2> QED BY <1>1, <2>5, <2>6, DivMonotone
<1>7. CeilDiv(s.k + r, r) \in Int /\ v \in Int /\ Cardinality(AllRacks(s)) \in Int
  <2>1. CeilDiv(s.k + r, r) \in Int
    <3> DEFINE b == s.k + r + r - 1
    <3>1. b \in Nat
      BY <1>1
    <3> HIDE DEF b, r
    <3>2. b \div r \in Int
      BY <1>1, <3>1, DivMod
    <3> QED BY <3>2 DEF CeilDiv, b, r
  <2>2. IsFiniteSet(AllRacks(s))
    <3>1. IsFiniteSet(H) /\ IsFiniteSet(O)
      <4> HIDE DEF h, o, lo, hi
      <4> QED BY <1>4, ImageBound
    <3> HIDE DEF H, O
    <3> QED BY <1>2, <3>1, CoverBound
  <2> QED BY <1>3, <2>1, <2>2, FS_CardinalityType
<1> HIDE DEF v, r
<1> QED BY <1>5, <1>6, <1>7 DEF r

-----------------------------------------------------------------------------
(***************************************************************************)
(* The plan of a merge.  Of stripes of one batch whose racks r fills there *)
(* is nothing to move; of the two uploads of an aligned pair what moves    *)
(* goes to node column r, which no block of the batch is on.               *)
(***************************************************************************)

Apart(s) == \A n, m \in 1..s.k : s.data[n].id = s.data[m].id => n = m
NoneShared(s, t) == \A n \in 1..s.k, m \in 1..t.k : s.data[n].id # t.data[m].id

(* The blocks of two stripes in the order of a merge. *)
LEMMA CombinedBlocks ==
    ASSUME NEW a, NEW b, Shaped(a), Shaped(b), a.k = b.k
    PROVE  /\ DOMAIN Combined(a, b) = 1..(2 * a.k)
           /\ \A n \in 1..a.k : /\ n \in 1..(2 * a.k) /\ Combined(a, b)[n] = a.data[n]
                                /\ n + a.k \in 1..(2 * a.k)
                                /\ Combined(a, b)[n + a.k] = b.data[n]
           /\ \A n \in 1..(2 * a.k) : n \in 1..a.k \/ (n - a.k \in 1..a.k /\ (n - a.k) + a.k = n)
           /\ Apart(a) /\ Apart(b) /\ NoneShared(a, b) =>
                \A n, l \in 1..(2 * a.k) :
                   Combined(a, b)[n].id = Combined(a, b)[l].id => n = l
<1> DEFINE k == a.k
           left == a.data
           right == b.data
           c == left \o right
<1>1. /\ k \in Nat \ {0} /\ left = [n \in 1..k |-> left[n]] /\ right = [n \in 1..k |-> right[n]]
  BY DEF Shaped
<1> DEFINE S == {left[n] : n \in 1..k} \cup {right[n] : n \in 1..k}
<1>2. left \in [1..k -> S] /\ right \in [1..k -> S]
  BY <1>1
<1>3. Combined(a, b) = c
  BY DEF Combined
<1> HIDE DEF S
<1>4. left \in Seq(S) /\ right \in Seq(S) /\ Len(left) = k /\ Len(right) = k
  BY <1>1, <1>2
<1>5. DOMAIN c = 1..(2 * k)
  <2>1. DOMAIN c = 1..Len(c) /\ Len(c) = k + k
    BY <1>1, <1>4
  <2>2. k + k = 2 * k
    BY <1>1
  <2> QED BY <2>1, <2>2
<1>6. \A n \in 1..(2 * k) : c[n] = IF n <= k THEN left[n] ELSE right[n - k]
  BY <1>1, Joined
<1> HIDE DEF c, k, left, right
<1>7. \A n \in 1..k : /\ n \in 1..(2 * k) /\ c[n] = left[n]
                      /\ n + k \in 1..(2 * k) /\ c[n + k] = right[n]
  <2> TAKE n \in 1..k
  <2>1. n \in 1..(2 * k) /\ n <= k /\ n + k \in 1..(2 * k) /\ ~(n + k <= k) /\ (n + k) - k = n
    BY <1>1
  <2> QED BY <1>6, <2>1
<1>8. \A n \in 1..(2 * k) : n \in 1..k \/ (n - k \in 1..k /\ (n - k) + k = n)
  BY <1>1
<1>9. ASSUME Apart(a), Apart(b), NoneShared(a, b), NEW n \in 1..(2 * k), NEW l \in 1..(2 * k),
             c[n].id = c[l].id
      PROVE  n = l
  <2>1. /\ \A i, j \in 1..k : left[i].id = left[j].id => i = j
        /\ \A i, j \in 1..k : right[i].id = right[j].id => i = j
        /\ \A i, j \in 1..k : left[i].id # right[j].id
    BY <1>9 DEF Apart, NoneShared, left, right, k
  <2>2. CASE n \in 1..k /\ l \in 1..k
    BY <1>7, <1>9, <2>1, <2>2
  <2>3. CASE n \in 1..k /\ l - k \in 1..k /\ (l - k) + k = l
    <3>1. c[n] = left[n] /\ c[l] = right[l - k]
      BY <1>7, <2>3
    <3> QED BY <1>9, <2>1, <2>3, <3>1
  <2>4. CASE l \in 1..k /\ n - k \in 1..k /\ (n - k) + k = n
    <3>1. c[l] = left[l] /\ c[n] = right[n - k]
      BY <1>7, <2>4
    <3> QED BY <1>9, <2>1, <2>4, <3>1
  <2>5. CASE n - k \in 1..k /\ (n - k) + k = n /\ l - k \in 1..k /\ (l - k) + k = l
    <3>1. c[n] = right[n - k] /\ c[l] = right[l - k]
      BY <1>7, <2>5
    <3>2. n - k = l - k
      BY <1>9, <2>1, <2>5, <3>1
    <3> QED BY <2>5, <3>2
  <2> QED BY <1>8, <2>2, <2>3, <2>4, <2>5
<1>10. \A n \in 1..k : c[n] = a.data[n] /\ c[n + k] = b.data[n]
  BY <1>7 DEF left, right
<1> QED BY <1>3, <1>5, <1>7, <1>8, <1>9, <1>10 DEF k

(* Where a block goes when it is surplus. *)
MovedTo(a, b, target, rd, n) ==
    LET col == MoveColumn(a, b, NewRack(a, b, target, rd), n)
    IN  <<Rack(Combined(a, b)[n].node),
          IF col < Len(OA2[a.row2 + 1]) THEN OaNode(a.row2, col) ELSE 0>>

(* The record of a merged stripe: its blocks and where the plan puts them. *)
LEMMA MergedNodes ==
    ASSUME NEW a, NEW b, NEW target, NEW rd, NEW hurt, NEW m, Shaped(a), Shaped(b), a.k = b.k,
           m = MergedStripe(a, b, Moves(a, b, target, rd), hurt),
           Apart(a), Apart(b), NoneShared(a, b)
    PROVE  /\ m.k = 2 * a.k /\ m.row1 = a.row1 /\ m.row2 = a.row2
           /\ \A n \in 1..(2 * a.k) :
                /\ m.data[n].id = Combined(a, b)[n].id
                /\ n \in Surplus(a, b) => m.data[n].node = MovedTo(a, b, target, rd, n)
                /\ n \notin Surplus(a, b) => m.data[n].node = Combined(a, b)[n].node
<1> DEFINE c == Combined(a, b)
           moves == Moves(a, b, target, rd)
           NodeAfter(d) == IF \E mv \in moves : mv.id = d.id
                           THEN (CHOOSE mv \in moves : mv.id = d.id).to ELSE d.node
           size == 2 * a.k
           blocks == [n \in 1..size |-> [id |-> c[n].id, node |-> NodeAfter(c[n])]]
           Move(n) == [id |-> c[n].id, from |-> c[n].node, to |-> MovedTo(a, b, target, rd, n)]
<1>1. m = [a EXCEPT !.k = size, !.data = blocks, !.damaged = a.damaged \/ b.damaged \/ hurt]
  BY DEF MergedStripe
<1>2. a = [k |-> a.k, row1 |-> a.row1, row2 |-> a.row2, data |-> a.data,
           parity |-> a.parity, damaged |-> a.damaged]
  BY DEF Shaped
<1>3. m.k = size /\ m.row1 = a.row1 /\ m.row2 = a.row2 /\ m.data = blocks
  <2> HIDE DEF blocks, size
  <2> QED BY <1>1, <1>2
<1>4. moves = {Move(n) : n \in Surplus(a, b)}
  BY DEF Moves, MovedTo
<1>5. Surplus(a, b) \subseteq 1..size /\ \A n, l \in 1..size : c[n].id = c[l].id => n = l
  BY CombinedBlocks DEF Surplus
<1> HIDE DEF c, moves
<1>6. ASSUME NEW n \in 1..size
      PROVE  /\ blocks[n].id = c[n].id
             /\ n \in Surplus(a, b) => blocks[n].node = MovedTo(a, b, target, rd, n)
             /\ n \notin Surplus(a, b) => blocks[n].node = c[n].node
  <2>1. \A mv \in moves : mv.id = c[n].id => n \in Surplus(a, b) /\ mv = Move(n)
    <3> SUFFICES ASSUME NEW mv \in moves, mv.id = c[n].id
                 PROVE  n \in Surplus(a, b) /\ mv = Move(n)
      OBVIOUS
    <3>1. PICK l \in Surplus(a, b) : mv = Move(l)
      BY <1>4
    <3>2. l = n
      BY <1>5, <3>1
    <3> QED BY <3>1, <3>2
  <2>2. CASE n \in Surplus(a, b)
    <3>1. Move(n) \in moves /\ Move(n).id = c[n].id /\ Move(n).to = MovedTo(a, b, target, rd, n)
      BY <1>4, <2>2
    <3>2. (CHOOSE mv \in moves : mv.id = c[n].id) = Move(n)
      BY <2>1, <3>1
    <3> QED BY <2>2, <3>1, <3>2
  <2>3. CASE n \notin Surplus(a, b)
    BY <2>1, <2>3
  <2> QED BY <2>2, <2>3
<1> HIDE DEF blocks
<1> QED BY <1>3, <1>6 DEF c

(* A surplus block keeps its rack. *)
KeepsRack(a, b, target, rd, n) ==
    \E y \in 0..(DatanodeNumPerCluster - 1) :
       MovedTo(a, b, target, rd, n) = <<Rack(Combined(a, b)[n].node), y>>

(* A surplus block stays on its rack, on a node that exists. *)
LEMMA MoveRange ==
    ASSUME cfg \in Configs, cfg.code = "RS", NEW a, NEW b, Shaped(a), Shaped(b), a.k = b.k,
           a.row2 \in 0..(Len(OA2) - 1), NEW target, NEW rd, NEW n \in 1..(2 * a.k)
    PROVE  /\ MovesAfter(a, b, n) \in Nat
           /\ KeepsRack(a, b, target, rd, n)
<1> DEFINE newRack == NewRack(a, b, target, rd)
           col == MoveColumn(a, b, newRack, n)
<1>1. MovesAfter(a, b, n) \in Nat
  <2>1. IsFiniteSet(1..(2 * a.k))
    <3> DEFINE h == 2 * a.k
    <3>1. h \in Int
      BY DEF Shaped
    <3> HIDE DEF h
    <3> QED BY <3>1, FS_Interval DEF h
  <2>2. DOMAIN Combined(a, b) = 1..(2 * a.k)
    BY CombinedBlocks
  <2>3. \A rack : Here(a, b, rack) \subseteq 1..(2 * a.k)
    BY <2>2 DEF Here
  <2>4. \E S : S \subseteq 1..(2 * a.k) /\ MovesAfter(a, b, n) = Cardinality(S)
    BY <2>3 DEF MovesAfter
  <2> QED BY <2>1, <2>4, FS_Subset, FS_CardinalityType
<1>2. col \in Nat
  <2>1. cfg.r \in Nat
    BY RsSizes DEF IsRs
  <2> QED BY <1>1, <2>1 DEF MoveColumn
<1>3. OaNode(a.row2, col) \in 0..(DatanodeNumPerCluster - 1)
  <2> HIDE DEF col
  <2> QED BY <1>2, NodeRange
<1>4. 0 \in 0..(DatanodeNumPerCluster - 1)
  BY CodeAssumption
<1> HIDE DEF col
<1> QED BY <1>1, <1>3, <1>4 DEF KeepsRack, MovedTo, col, newRack

(* Of stripes of one batch nothing is surplus where r divides k. *)
LEMMA NoSurplus ==
    ASSUME IsRs(cfg), FitsRacks(cfg), cfg.k % cfg.r = 0, NEW a, NEW b, Shaped(a), Shaped(b),
           a.k = b.k, Placed(a), Placed(b), NoneShared(a, b),
           NEW m, Joins(m, a, b), SameBatch(m)
    PROVE  Surplus(a, b) = {} /\ AtHome(a) /\ AtHome(b)
<1> DEFINE c == Combined(a, b)
           size == 2 * a.k
           t == First(a)
           k == cfg.k
<1>1. SameBatch(a) /\ SameBatch(b)
  BY OneBatchTogether DEF IsRs
<1>2. AtHome(a) /\ AtHome(b)
  BY <1>1 DEF Placed
<1>3. Apart(a) /\ Apart(b) /\ a.k \in Nat \ {0} /\ t \in Nat /\ 1 \in 1..a.k /\ size \in Nat
  <2>1. Apart(a) /\ Apart(b)
    BY DEF Placed, Apart
  <2> QED BY <2>1, DataSet
<1>4. \A n \in 1..size : n \in 1..a.k \/ (n - a.k \in 1..a.k /\ (n - a.k) + a.k = n)
  BY CombinedBlocks
<1>5. \A n \in 1..a.k : c[n] = a.data[n] /\ c[n + a.k] = b.data[n]
  BY CombinedBlocks
<1>6. \A n, l \in 1..size : c[n].id = c[l].id => n = l
  BY <1>3, CombinedBlocks
<1>7. ASSUME NEW s, s = a \/ s = b, NEW n \in 1..a.k
      PROVE  /\ s.data[n].id \in Nat \X (0..(k - 1))
             /\ s.data[n].id[1] \div BatchSize(cfg) = t \div BatchSize(cfg)
             /\ s.data[n].node = PlaceOf(cfg, s.data[n].id[1], s.data[n].id[2])
  <2>1. Placed(s) /\ Shaped(s) /\ AtHome(s) /\ s.k = a.k
    BY <1>2, <1>7
  <2>2. s.data[n].id \in Nat \X (0..(k - 1))
    <3>1. s.data[n].id \in (0..(nextId - 1)) \X (0..(cfg.k - 1)) /\ s.data[n].id \in Nat \X Nat
      BY <2>1 DEF Placed, Shaped
    <3> QED BY <3>1
  <2>3. \E i \in 1..m.k : s.data[n].id = m.data[i].id
    <3>1. /\ n \in 1..size /\ n + a.k \in 1..size
      BY CombinedBlocks
    <3> QED BY <1>7, <3>1 DEF Joins
  <2>4. a.data[1].id = m.data[1].id /\ 1 \in 1..m.k
    <3>1. 1 \in 1..size
      BY <1>3
    <3> QED BY <1>3, <3>1 DEF Joins
  <2>5. Batch(s.data[n].id) = Batch(a.data[1].id)
    BY <2>3, <2>4 DEF SameBatch
  <2> QED BY <2>1, <2>2, <2>5 DEF Batch, First, AtHome, HomeOf
<1>8. ASSUME NEW n \in 1..size
      PROVE  /\ c[n].id \in Nat \X (0..(k - 1))
             /\ c[n].id[1] \div BatchSize(cfg) = t \div BatchSize(cfg)
             /\ c[n].node = PlaceOf(cfg, c[n].id[1], c[n].id[2])
  <2>1. \E s : (s = a \/ s = b) /\ \E l \in 1..a.k : c[n] = s.data[l]
    <3>1. CASE n \in 1..a.k
      BY <1>5, <3>1
    <3>2. CASE n - a.k \in 1..a.k /\ (n - a.k) + a.k = n
      <4>1. c[n] = b.data[n - a.k]
        BY <1>5, <3>2
      <4> QED BY <3>2, <4>1
    <3> QED BY <1>4, <3>1, <3>2
  <2> HIDE DEF c
  <2> QED BY <1>7, <2>1
<1> HIDE DEF c, t
<1>9. ASSUME NEW n \in 1..size, NEW l \in 1..size,
             Slot(cfg, c[n].id[1], c[n].id[2]).col = Slot(cfg, c[l].id[1], c[l].id[2]).col
      PROVE  c[n].id[1] = c[l].id[1]
  <2>1. /\ c[n].id[1] \in Nat /\ c[l].id[1] \in Nat
        /\ c[n].id[2] \in 0..(cfg.k - 1) /\ c[l].id[2] \in 0..(cfg.k - 1)
        /\ c[n].id[1] \div BatchSize(cfg) = c[l].id[1] \div BatchSize(cfg)
    BY <1>8
  <2> QED BY <1>9, <2>1, ColumnsOfBatch
<1>10. AsUploaded(c, size, t)
  BY <1>6, <1>8, <1>9 DEF AsUploaded
<1>11. ASSUME NEW rack PROVE Excess(a, b, rack) <= 0 /\ Excess(a, b, rack) \in Int
  <2>1. Cardinality(DataOn(c, size, rack)) + Cardinality(ParityOn(t, rack)) <= cfg.r
    BY <1>3, <1>10, LoadInPlace
  <2>2. Here(a, b, rack) = DataOn(c, size, rack)
    <3>1. DOMAIN c = 1..size
      BY CombinedBlocks DEF c
    <3> QED BY <3>1 DEF Here, DataOn, c
  <2>3. ParitiesOn(a, rack) = Cardinality(ParityOn(t, rack))
    <3>1. a.parity = [j \in 1..cfg.r |-> PlaceOf(cfg, t, cfg.k + j - 1)]
      BY DEF Shaped, t
    <3>2. {j \in DOMAIN a.parity : Rack(a.parity[j]) = rack} = ParityOn(t, rack)
      BY <3>1 DEF ParityOn
    <3> QED BY <3>2 DEF ParitiesOn
  <2>4. Cardinality(DataOn(c, size, rack)) \in Nat /\ Cardinality(ParityOn(t, rack)) \in Nat
    <3> DEFINE r == cfg.r
    <3>1. size \in Int /\ r \in Int
      BY <1>3, RsSizes
    <3> HIDE DEF size, r
    <3>2. IsFiniteSet(1..size) /\ IsFiniteSet(1..r)
      BY <3>1, FS_Interval
    <3>3. DataOn(c, size, rack) \subseteq 1..size /\ ParityOn(t, rack) \subseteq 1..r
      BY DEF DataOn, ParityOn, r
    <3> QED BY <3>2, <3>3, FS_Subset, FS_CardinalityType
  <2> DEFINE x == Cardinality(DataOn(c, size, rack))
             y == Cardinality(ParityOn(t, rack))
  <2>5. Excess(a, b, rack) = x + y - cfg.r
    BY <2>2, <2>3 DEF Excess
  <2>6. x \in Nat /\ y \in Nat /\ x + y <= cfg.r /\ cfg.r \in Nat
    BY <2>1, <2>4, RsSizes
  <2> HIDE DEF x, y
  <2> QED BY <2>5, <2>6
<1>12. Surplus(a, b) = {}
  <2> SUFFICES ASSUME NEW n \in Surplus(a, b) PROVE FALSE
    OBVIOUS
  <2>1. n \in 1..size /\ MovesAfter(a, b, n) < Excess(a, b, Rack(Combined(a, b)[n].node))
    <3>1. DOMAIN Combined(a, b) = 1..size
      BY CombinedBlocks
    <3> QED BY <3>1 DEF Surplus
  <2>2. MovesAfter(a, b, n) \in Nat
    <3>1. a.row2 \in 0..(Len(OA2) - 1)
      BY <1>3, RowRange DEF Placed, t
    <3> QED BY <2>1, <3>1, MoveRange DEF IsRs
  <2> QED BY <1>11, <2>1, <2>2
<1> QED BY <1>2, <1>12

(* A stripe has finitely many tags. *)
LEMMA TagsFinite ==
    ASSUME NEW s, Shaped(s)
    PROVE  IsFiniteSet(Tags(s)) /\ Cardinality(Tags(s)) \in Nat
<1> DEFINE f == [n \in 1..s.k |-> s.data[n].id[1]]
           T == {f[n] : n \in 1..s.k}
<1>1. Tags(s) = T
  BY DEF Tags
<1>2. IsFiniteSet(1..s.k)
  <2>1. s.k \in Int /\ 1 \in Int
    BY DEF Shaped
  <2> QED BY <2>1, FS_Interval
<1> HIDE DEF f
<1>3. IsFiniteSet(T) /\ Cardinality(T) \in Nat
  BY <1>2, ImageBound
<1> QED BY <1>1, <1>3

(* A merge of placed stripes that share no block is placed. *)
LEMMA MergedPlaced ==
    ASSUME cfg \in Configs, cfg.code = "RS", NEW a, NEW b, Shaped(a), Shaped(b), a.k = b.k,
           Placed(a), Placed(b), NoneShared(a, b), NEW target, NEW rd, NEW hurt \in BOOLEAN,
           NEW m, m = MergedStripe(a, b, Moves(a, b, target, rd), hurt)
    PROVE  /\ Placed(m)
           /\ \A n \in 1..m.k : \E l \in 1..a.k :
                 m.data[n].id = a.data[l].id \/ m.data[n].id = b.data[l].id
<1> DEFINE c == Combined(a, b)
           size == 2 * a.k
           k == cfg.k
<1>1. /\ Shaped(m) /\ First(m) = First(a) /\ Joins(m, a, b)
  BY MergedShape
<1>2. Apart(a) /\ Apart(b)
  BY DEF Placed, Apart
<1>3. /\ m.k = size /\ m.row1 = a.row1 /\ m.row2 = a.row2
      /\ \A n \in 1..size : /\ m.data[n].id = c[n].id
                            /\ n \in Surplus(a, b) => m.data[n].node = MovedTo(a, b, target, rd, n)
                            /\ n \notin Surplus(a, b) => m.data[n].node = c[n].node
  BY <1>2, MergedNodes
<1>4. /\ \A n \in 1..size : n \in 1..a.k \/ (n - a.k \in 1..a.k /\ (n - a.k) + a.k = n)
      /\ \A n \in 1..a.k : c[n] = a.data[n] /\ c[n + a.k] = b.data[n]
      /\ \A n, l \in 1..size : c[n].id = c[l].id => n = l
  BY <1>2, CombinedBlocks
<1>5. ASSUME NEW n \in 1..size
      PROVE  \E l \in 1..a.k : c[n] = a.data[l] \/ c[n] = b.data[l]
  <2>1. CASE n \in 1..a.k
    BY <1>4, <2>1
  <2>2. CASE n - a.k \in 1..a.k /\ (n - a.k) + a.k = n
    <3>1. c[n] = b.data[n - a.k]
      BY <1>4, <2>2
    <3> QED BY <2>2, <3>1
  <2> QED BY <1>4, <2>1, <2>2
<1> HIDE DEF c
<1>6. a.k \in Nat \ {0} /\ k \in Nat \ {0} /\ First(a) \in Nat
  BY DataSet, RsSizes DEF IsRs
<1>7. m.k >= 2 * k
  <2>1. a.k = k \/ a.k >= 2 * k
    BY DEF Placed
  <2> QED BY <1>3, <1>6, <2>1
<1>8. ASSUME NEW n \in 1..m.k
      PROVE  /\ m.data[n].id \in (0..(nextId - 1)) \X (0..(k - 1))
             /\ m.data[n].node \in (0..(ClusterNum - 1)) \X (0..(DatanodeNumPerCluster - 1))
             /\ Rack(m.data[n].node) = Rack(HomeOf(m.data[n]))
  <2>0. n \in 1..size
    BY <1>3
  <2>1. /\ c[n].id \in (0..(nextId - 1)) \X (0..(k - 1))
        /\ c[n].node \in (0..(ClusterNum - 1)) \X (0..(DatanodeNumPerCluster - 1))
        /\ Rack(c[n].node) = Rack(HomeOf(c[n]))
    <3>1. PICK l \in 1..a.k : c[n] = a.data[l] \/ c[n] = b.data[l]
      BY <1>5, <2>0
    <3>2. CASE c[n] = a.data[l]
      BY <3>1, <3>2 DEF Placed
    <3>3. CASE c[n] = b.data[l]
      BY <3>1, <3>3 DEF Placed
    <3> QED BY <3>1, <3>2, <3>3
  <2>2. m.data[n].id = c[n].id
    BY <1>3, <2>0
  <2>3. HomeOf(m.data[n]) = HomeOf(c[n])
    BY <2>2 DEF HomeOf
  <2>4. CASE n \in Surplus(a, b)
    <3>1. a.row2 \in 0..(Len(OA2) - 1)
      BY <1>6, RowRange DEF Placed
    <3>4. KeepsRack(a, b, target, rd, n)
      BY <2>0, <3>1, MoveRange
    <3>2. PICK y \in 0..(DatanodeNumPerCluster - 1) :
             MovedTo(a, b, target, rd, n) = <<Rack(c[n].node), y>>
      BY <3>4 DEF c, KeepsRack
    <3>3. m.data[n].node = <<Rack(c[n].node), y>>
      BY <1>3, <2>0, <2>4, <3>2
    <3> QED BY <2>1, <2>2, <2>3, <3>3 DEF Rack
  <2>5. CASE n \notin Surplus(a, b)
    <3>1. m.data[n].node = c[n].node
      BY <1>3, <2>0, <2>5
    <3> QED BY <2>1, <2>2, <2>3, <3>1
  <2> QED BY <2>4, <2>5
<1>9. \A n, l \in 1..m.k : m.data[n].id = m.data[l].id => n = l
  BY <1>3, <1>4
<1>10. m.row1 = RackRow(cfg, First(m)) /\ m.row2 = NodeRow(cfg, First(m))
  BY <1>1, <1>3 DEF Placed
<1>11. \A n \in 1..m.k : \E l \in 1..a.k :
          m.data[n].id = a.data[l].id \/ m.data[n].id = b.data[l].id
  BY <1>3, <1>5
<1>12. k * Cardinality(Tags(m)) <= m.k
  <2> DEFINE x == Cardinality(Tags(a))
             y == Cardinality(Tags(b))
             z == Cardinality(Tags(m))
  <2>1. Tags(m) \subseteq Tags(a) \cup Tags(b)
    <3> SUFFICES ASSUME NEW t \in Tags(m) PROVE t \in Tags(a) \/ t \in Tags(b)
      OBVIOUS
    <3>1. PICK n \in 1..m.k : t = m.data[n].id[1]
      BY DEF Tags
    <3>2. PICK l \in 1..a.k : m.data[n].id = a.data[l].id \/ m.data[n].id = b.data[l].id
      BY <1>11
    <3>3. CASE m.data[n].id = a.data[l].id
      BY <3>1, <3>2, <3>3 DEF Tags
    <3>4. CASE m.data[n].id = b.data[l].id
      BY <3>1, <3>2, <3>4 DEF Tags
    <3> QED BY <3>2, <3>3, <3>4
  <2>2. IsFiniteSet(Tags(a)) /\ IsFiniteSet(Tags(b)) /\ x \in Nat /\ y \in Nat
    BY TagsFinite
  <2>3. z <= x + y /\ z \in Nat
    BY <2>1, <2>2, CoverBound
  <2>4. k * x <= a.k /\ k * y <= a.k
    BY DEF Placed
  <2> HIDE DEF x, y, z, k
  <2>5. k * z <= k * x + k * y
    <3> DEFINE w == x + y
    <3>1. w \in Nat /\ k * w = k * x + k * y /\ k * z \in Nat /\ k * x \in Nat /\ k * y \in Nat
      BY <1>6, <2>2, <2>3, SMT
    <3> HIDE DEF w
    <3>2. CASE z = w
      BY <3>1, <3>2
    <3>3. CASE z # w
      <4>1. z < w
        BY <2>2, <2>3, <3>1, <3>3 DEF w
      <4>2. k * z + k <= k * w
        BY <1>6, <2>3, <3>1, <4>1, LessMul
      <4> DEFINE p == k * z
                 q == k * w
      <4>3. p + k <= q /\ q \in Int /\ p \in Int
        BY <3>1, <4>2
      <4> HIDE DEF p, q
      <4>4. p <= q
        BY <1>6, <4>3
      <4> QED BY <3>1, <4>4 DEF p, q
    <3> QED BY <3>2, <3>3
  <2> DEFINE p == k * x
             q == k * y
             u == k * z
  <2>6. p \in Int /\ q \in Int /\ u \in Int
    BY <1>6, <2>2, <2>3, SMT
  <2>7. p <= a.k /\ q <= a.k /\ u <= p + q
    BY <2>4, <2>5
  <2> HIDE DEF p, q, u
  <2>8. u <= 2 * a.k
    BY <1>6, <2>6, <2>7
  <2> QED BY <1>3, <2>8 DEF u, z, k
<1>13. ASSUME FitsRacks(cfg), k % cfg.r = 0, SameBatch(m) PROVE AtHome(m)
  <2>1. Surplus(a, b) = {} /\ AtHome(a) /\ AtHome(b)
    BY <1>1, <1>13, NoSurplus DEF IsRs
  <2> SUFFICES ASSUME NEW n \in 1..size PROVE m.data[n].node = HomeOf(m.data[n])
    BY <1>3 DEF AtHome
  <2>2. m.data[n].node = c[n].node /\ m.data[n].id = c[n].id
    BY <1>3, <2>1
  <2>3. c[n].node = HomeOf(c[n])
    <3>1. PICK l \in 1..a.k : c[n] = a.data[l] \/ c[n] = b.data[l]
      BY <1>5
    <3> QED BY <2>1, <3>1 DEF AtHome
  <2> QED BY <2>2, <2>3 DEF HomeOf
<1> QED BY <1>7, <1>8, <1>9, <1>10, <1>11, <1>12, <1>13 DEF Placed

(* An upload is placed. *)
LEMMA UploadPlaced ==
    ASSUME IsRs(cfg), nextId \in Nat, nextId' = nextId + 1, cfg' = cfg, NEW sid, sid = nextId,
           stripes'[sid] = NewStripe(cfg, sid)
    PROVE  /\ Placed(stripes[sid])'
           /\ \A n \in 1..stripes'[sid].k : stripes'[sid].data[n].id[1] = sid
<1> DEFINE s == stripes'[sid]
           k == cfg.k
<1>1. /\ s.k = k /\ s.row1 = RackRow(cfg, sid) /\ s.row2 = NodeRow(cfg, sid)
      /\ \A n \in 1..k : /\ s.data[n].id = <<sid, n - 1>>
                         /\ s.data[n].node = PlaceOf(cfg, sid, n - 1)
  BY DEF NewStripe
<1>2. k \in Nat \ {0} /\ 1 \in 1..k /\ \A n \in 1..k : n - 1 \in 0..(k - 1)
                                                     /\ n - 1 \in 0..(k + cfg.r - 1)
  BY RsSizes
<1> HIDE DEF s, k
<1>3. s.data[1].id[1] = sid /\ Tags(s) = {sid}
  BY <1>1, <1>2 DEF Tags
<1>4. First(s) = sid
  BY <1>3 DEF First
<1>5. \A n \in 1..k : /\ s.data[n].id \in (0..nextId) \X (0..(k - 1))
                      /\ s.data[n].node \in (0..(ClusterNum - 1)) \X (0..(DatanodeNumPerCluster - 1))
                      /\ s.data[n].node = HomeOf(s.data[n])
  <2> TAKE n \in 1..k
  <2>1. sid \in 0..nextId /\ n - 1 \in 0..(k - 1) /\ n - 1 \in 0..(k + cfg.r - 1)
    BY <1>2
  <2>2. PlaceOf(cfg, sid, n - 1) \in (0..(ClusterNum - 1)) \X (0..(DatanodeNumPerCluster - 1))
    BY <2>1, PlaceRange DEF k
  <2> QED BY <1>1, <2>1, <2>2 DEF HomeOf
<1>6. \A n, l \in 1..k : s.data[n].id = s.data[l].id => n = l
  <2> SUFFICES ASSUME NEW n \in 1..k, NEW l \in 1..k, s.data[n].id = s.data[l].id
               PROVE  n = l
    OBVIOUS
  <2>1. n - 1 = l - 1
    BY <1>1
  <2> QED BY <2>1
<1>7. k * Cardinality(Tags(s)) <= s.k
  <2>1. Cardinality(Tags(s)) = 1
    BY <1>3, FS_Singleton
  <2> QED BY <1>1, <1>2, <2>1
<1>8. Fresh(s) /\ AtHome(s)
  BY <1>1, <1>4, <1>5 DEF Fresh, AtHome
<1>9. /\ Fresh(stripes[sid])' /\ AtHome(stripes[sid])' /\ First(stripes[sid])' = sid
      /\ Tags(stripes[sid])' = Tags(s)
      /\ \A n \in 1..k : HomeOf(s.data[n]) = HomeOf(stripes[sid].data[n])'
  <2>1. First(stripes[sid])' = sid
    BY <1>4 DEF First, s
  <2>2. \A n \in 1..k : HomeOf(s.data[n]) = HomeOf(stripes[sid].data[n])'
    BY DEF HomeOf, s
  <2>3. AtHome(stripes[sid])'
    BY <1>8 DEF AtHome, HomeOf, s
  <2>4. Fresh(stripes[sid])'
    BY <1>8, <2>3 DEF Fresh, First, s
  <2> QED BY <2>1, <2>2, <2>3, <2>4 DEF Tags, s
<1>10. nextId' - 1 = nextId
  OBVIOUS
<1> QED BY <1>1, <1>3, <1>4, <1>5, <1>6, <1>7, <1>9, <1>10 DEF Placed, s, k

(* Two uploads of an aligned pair. *)
PairOf(a, b) ==
    /\ RsRounds(cfg) > 0 /\ a.k = cfg.k /\ b.k = cfg.k
    /\ \E f \in Nat : f % 2 = 0 /\ {First(a), First(b)} = {f, f + 1}

(* The rack of a group of an upload. *)
LEMMA GroupPlaced ==
    ASSUME IsRs(cfg), FitsRacks(cfg), NEW s, Shaped(s), Placed(s), s.k = cfg.k,
           NEW g \in 0..(GroupCount(cfg) - 1)
    PROVE  /\ FirstColumn(cfg, First(s)) + g \in (IF SplitsParities(cfg) THEN 2 ELSE 1)..16
           /\ \E n \in 1..s.k : Rack(s.data[n].node)
                = OaRack(RackRow(cfg, First(s)), FirstColumn(cfg, First(s)) + g)
<1> DEFINE t == First(s)
<1>1. Fresh(s) /\ t \in Nat
  <2>1. ~(s.k >= 2 * cfg.k)
    BY RsSizes
  <2> QED BY <2>1, DataSet DEF Placed
<1>2. PICK i \in Nat : Grouped(cfg, i) /\ At(cfg, t, i).group = g
  BY <1>1, GroupsReached
<1>3. /\ Slot(cfg, t, i).col = FirstColumn(cfg, t) + g
      /\ Slot(cfg, t, i).col \in (IF SplitsParities(cfg) THEN 2 ELSE 1)..16
  BY <1>1, <1>2, ColumnOfGroup
<1>4. i + 1 \in 1..s.k /\ (i + 1) - 1 = i
  BY <1>2, RsSizes DEF Grouped
<1>5. s.data[i + 1].node = PlaceOf(cfg, t, i)
  <2>1. s.data[i + 1].id = <<t, (i + 1) - 1>> /\ s.data[i + 1].node = HomeOf(s.data[i + 1])
    BY <1>1, <1>4 DEF Fresh, AtHome
  <2> QED BY <1>4, <2>1 DEF HomeOf
<1>6. Rack(s.data[i + 1].node) = OaRack(RackRow(cfg, t), FirstColumn(cfg, t) + g)
  BY <1>3, <1>5 DEF PlaceOf, Rack
<1>7. FirstColumn(cfg, t) + g \in (IF SplitsParities(cfg) THEN 2 ELSE 1)..16
  BY <1>3
<1> QED BY <1>4, <1>6, <1>7

(* The racks of the parities. *)
LEMMA ParityPlaced ==
    ASSUME IsRs(cfg), NEW s, Shaped(s), NEW x \in Outer(cfg)
    PROVE  \E j \in 1..cfg.r : Rack(s.parity[j]) = OaRack(RackRow(cfg, First(s)), x)
<1> DEFINE k == cfg.k
           r == cfg.r
           t == First(s)
<1>1. k \in Nat \ {0} /\ r \in Nat \ {0} /\ k >= r
  BY RsSizes
<1>2. \A j \in 1..r : s.parity[j] = PlaceOf(cfg, t, k + j - 1)
  BY DEF Shaped
<1>3. CASE ~SplitsParities(cfg)
  <2>1. x = 0
    BY <1>3 DEF Outer
  <2>2. 1 \in 1..r /\ k + 1 - 1 = k /\ k >= k
    BY <1>1
  <2>3. Slot(cfg, t, k).col = 0
    BY <1>3, <2>2 DEF Slot, OneRackSlot
  <2>4. Rack(s.parity[1]) = OaRack(RackRow(cfg, t), 0)
    <3>1. s.parity[1] = PlaceOf(cfg, t, k)
      BY <1>2, <2>2
    <3> QED BY <2>3, <3>1 DEF PlaceOf, Rack
  <2> QED BY <2>1, <2>2, <2>4
<1>4. CASE SplitsParities(cfg)
  <2>1. x \in 0..1 /\ r > 2
    BY <1>4 DEF Outer, SplitsParities
  <2>2. /\ 1 \in 1..r /\ k + 1 - 1 = k /\ ~(k < r - 3) /\ k # r - 3 /\ ~(k < k) /\ k <= k + 1
        /\ 3 \in 1..r /\ k + 3 - 1 = k + 2 /\ ~(k + 2 < r - 3) /\ k + 2 # r - 3 /\ ~(k + 2 < k)
        /\ ~(k + 2 <= k + 1)
    BY <1>1, <2>1
  <2>3. Slot(cfg, t, k).col = 0
    BY <1>4, <2>2 DEF Slot, TwoRacksSlot
  <2>4. Slot(cfg, t, k + 2).col = 1
    BY <1>4, <2>2 DEF Slot, TwoRacksSlot
  <2>5. Rack(s.parity[1]) = OaRack(RackRow(cfg, t), 0)
    <3>1. s.parity[1] = PlaceOf(cfg, t, k)
      BY <1>2, <2>2
    <3> QED BY <2>3, <3>1 DEF PlaceOf, Rack
  <2>6. Rack(s.parity[3]) = OaRack(RackRow(cfg, t), 1)
    <3>1. s.parity[3] = PlaceOf(cfg, t, k + 2)
      BY <1>2, <2>2
    <3> QED BY <2>4, <3>1 DEF PlaceOf, Rack
  <2>7. x = 0 \/ x = 1
    BY <2>1
  <2> QED BY <2>2, <2>5, <2>6, <2>7
<1> QED BY <1>3, <1>4

(* An aligned pair of uploads is on all the racks that the merged stripe   *)
(* may take: there is no other for its surplus.                            *)
LEMMA PairOccupies ==
    ASSUME IsRs(cfg), FitsRacks(cfg), NEW a, NEW b, Shaped(a), Shaped(b), Placed(a), Placed(b),
           PairOf(a, b), NEW target, NEW rd
    PROVE  /\ NewRack(a, b, target, rd) = NoRack
           /\ First(a) \div BatchSize(cfg) = First(b) \div BatchSize(cfg)
<1>1. PICK f \in Nat : f % 2 = 0 /\ {First(a), First(b)} = {f, f + 1}
  BY DEF PairOf
<1> DEFINE c == cfg
           B == BatchSize(c)
           p == (f % B) + 1
           x == Start(c, p)
           y == Start(c, p + 1)
           G == GroupCount(c)
           h == y + G - 1
           row == RackRow(c, f)
           few == IF SplitsParities(c) THEN 2 ELSE 1
           occupied == DataRacks(a, b) \cup {Rack(a.parity[j]) : j \in DOMAIN a.parity}
           X == (x..h) \cup Outer(c)
           rack == [z \in X |-> OaRack(row, z)]
           R == {rack[z] : z \in X}
<1>2. /\ f \div B = (f + 1) \div B /\ Position(c, f) = p /\ Position(c, f + 1) = p + 1
      /\ x \in Int /\ y \in Int /\ G \in Int /\ x <= h /\ few <= x
      /\ h - x + 1 + few = RsRacks(c, 1)
      /\ \A z \in x..h : \E g \in 0..(G - 1) : z = x + g \/ z = y + g
  <2>1. RsRounds(c) > 0
    BY DEF PairOf
  <2> QED BY <1>1, <2>1, PairColumns
<1>3. First(a) \div B = f \div B /\ First(b) \div B = f \div B
  <2>1. First(a) \in {f, f + 1} /\ First(b) \in {f, f + 1}
    BY <1>1
  <2> QED BY <1>2, <2>1
<1>4. \A s : s = a \/ s = b => RackRow(c, First(s)) = row
  <2>1. First(a) \in Nat /\ First(b) \in Nat
    BY DataSet
  <2> QED BY <1>3, <2>1, RowsOfBatch
<1>5. FirstColumn(c, f) = x /\ FirstColumn(c, f + 1) = y
  BY <1>2, StartOfStripe
<1>6. row \in 0..(Len(OA1) - 1) /\ ClusterNum = 17
  BY RowRange DEF FitsRacks
<1>7. ASSUME NEW z \in x..h
      PROVE  z \in few..16 /\ OaRack(row, z) \in DataRacks(a, b)
  <2>1. PICK g \in 0..(G - 1) : z = x + g \/ z = y + g
    BY <1>2
  <2>2. \E t \in {f, f + 1} : z = FirstColumn(c, t) + g
    BY <1>5, <2>1
  <2>3. PICK s : (s = a \/ s = b) /\ z = FirstColumn(c, First(s)) + g
    BY <1>1, <2>2
  <2>4. Shaped(s) /\ Placed(s) /\ s.k = c.k
    BY <2>3 DEF PairOf
  <2>5. /\ z \in few..16
        /\ \E n \in 1..s.k : Rack(s.data[n].node) = OaRack(row, z)
    BY <1>4, <2>3, <2>4, GroupPlaced
  <2>6. PICK n \in 1..s.k : Rack(s.data[n].node) = OaRack(row, z)
    BY <2>5
  <2>7. \E i \in DOMAIN Combined(a, b) : Combined(a, b)[i] = s.data[n]
    <3>1. a.k = b.k
      BY DEF PairOf
    <3>2. /\ DOMAIN Combined(a, b) = 1..(2 * a.k)
          /\ \A i \in 1..a.k : /\ i \in 1..(2 * a.k) /\ Combined(a, b)[i] = a.data[i]
                               /\ i + a.k \in 1..(2 * a.k)
                               /\ Combined(a, b)[i + a.k] = b.data[i]
      BY <3>1, CombinedBlocks
    <3>3. n \in 1..a.k
      BY <2>3, <3>1
    <3> QED BY <2>3, <3>2, <3>3
  <2> QED BY <2>5, <2>6, <2>7 DEF DataRacks, ToSet
<1>8. ASSUME NEW z \in Outer(c)
      PROVE  z \in 0..(few - 1) /\ OaRack(row, z) \in occupied
  <2>1. PICK j \in 1..cfg.r : Rack(a.parity[j]) = OaRack(row, z)
    BY <1>4, ParityPlaced
  <2>2. DOMAIN a.parity = 1..cfg.r
    <3>1. a.parity = [i \in 1..cfg.r |-> PlaceOf(cfg, First(a), cfg.k + i - 1)]
      BY DEF Shaped
    <3> QED BY <3>1
  <2> QED BY <2>1, <2>2 DEF Outer
<1>9. few \in Int /\ few >= 1 /\ few <= 2
  OBVIOUS
<1>10. \A z \in X : z \in 0..16 /\ OaRack(row, z) \in occupied
  <2> TAKE z \in X
  <2>1. CASE z \in x..h
    <3>1. z \in few..16
      BY <1>7, <2>1
    <3>2. z \in 0..16
      <4> HIDE DEF few
      <4> QED BY <1>9, <3>1
    <3> QED BY <1>7, <2>1, <3>2
  <2>2. CASE z \in Outer(c)
    <3>1. z \in 0..(few - 1)
      BY <1>8, <2>2
    <3>2. z \in 0..16
      <4> HIDE DEF few
      <4> QED BY <1>9, <3>1
    <3> QED BY <1>8, <2>2, <3>2
  <2> QED BY <2>1, <2>2
<1>11. Cardinality(X) = RsRacks(c, 1) /\ IsFiniteSet(X)
  <2> HIDE DEF x, h
  <2>1. h \in Int /\ ~(x > h)
    BY <1>2 DEF h
  <2>2. IsFiniteSet(x..h) /\ Cardinality(x..h) = h - x + 1
    BY <1>2, <2>1, FS_Interval
  <2>3. IsFiniteSet(Outer(c)) /\ Cardinality(Outer(c)) = few
    <3>1. CASE SplitsParities(c)
      <4> DEFINE l == 0
                 u == 1
      <4>1. l \in Int /\ u \in Int /\ ~(l > u) /\ u - l + 1 = 2
        OBVIOUS
      <4> HIDE DEF l, u
      <4>2. IsFiniteSet(l..u) /\ Cardinality(l..u) = u - l + 1
        BY <4>1, FS_Interval
      <4>3. IsFiniteSet(0..1) /\ Cardinality(0..1) = 2
        BY <4>1, <4>2 DEF l, u
      <4> QED BY <3>1, <4>3 DEF Outer
    <3>2. CASE ~SplitsParities(c)
      <4>1. IsFiniteSet({0}) /\ Cardinality({0}) = 1
        BY FS_Singleton
      <4> QED BY <3>2, <4>1 DEF Outer
    <3> QED BY <3>1, <3>2
  <2>4. (x..h) \cap Outer(c) = {}
    <3> SUFFICES ASSUME NEW z \in x..h, z \in Outer(c) PROVE FALSE
      OBVIOUS
    <3>1. z \in few..16 /\ z \in 0..(few - 1)
      BY <1>7, <1>8
    <3> HIDE DEF few
    <3> QED BY <1>9, <3>1
  <2>5. IsFiniteSet(X) /\ Cardinality(X) = Cardinality(x..h) + Cardinality(Outer(c)) - 0
    <3>1. Cardinality((x..h) \cap Outer(c)) = 0
      BY <2>4, FS_EmptySet
    <3> QED BY <2>2, <2>3, <3>1, FS_Union
  <2> HIDE DEF X, few
  <2> QED BY <1>2, <1>9, <2>1, <2>2, <2>3, <2>5
<1>12. Cardinality(R) = RsRacks(c, 1)
  <2>1. \A z, u \in X : rack[z] = rack[u] => z = u
    <3> SUFFICES ASSUME NEW z \in X, NEW u \in X, OaRack(row, z) = OaRack(row, u) PROVE z = u
      OBVIOUS
    <3>1. z \in 0..16 /\ u \in 0..16
      BY <1>10
    <3> HIDE DEF row
    <3> QED BY <1>6, <3>1, RackRange
  <2>2. rack \in [X -> R]
    OBVIOUS
  <2> HIDE DEF rack, X
  <2> QED BY <1>11, <2>1, <2>2, ValuesCounted
<1>13. R \subseteq occupied
  BY <1>10
<1>14. IsFiniteSet(occupied)
  <2>1. occupied \subseteq 0..(ClusterNum - 1)
    <3>1. \A s, n : (s = a \/ s = b) /\ n \in 1..s.k => Rack(s.data[n].node) \in 0..(ClusterNum - 1)
      <4> SUFFICES ASSUME NEW s, NEW n \in 1..s.k, s = a \/ s = b
                   PROVE  Rack(s.data[n].node) \in 0..(ClusterNum - 1)
        OBVIOUS
      <4>1. s.data[n].node \in (0..(ClusterNum - 1)) \X (0..(DatanodeNumPerCluster - 1))
        BY DEF Placed
      <4> QED BY <4>1 DEF Rack
    <3>2. \A d \in ToSet(Combined(a, b)) : \E s, n : /\ s = a \/ s = b
                                                     /\ n \in 1..s.k /\ d = s.data[n]
      <4>1. a.k = b.k
        BY DEF PairOf
      <4>2. /\ DOMAIN Combined(a, b) = 1..(2 * a.k)
            /\ \A i \in 1..a.k : /\ Combined(a, b)[i] = a.data[i]
                                 /\ Combined(a, b)[i + a.k] = b.data[i]
            /\ \A n \in 1..(2 * a.k) :
                  n \in 1..a.k \/ (n - a.k \in 1..a.k /\ (n - a.k) + a.k = n)
        BY <4>1, CombinedBlocks
      <4> SUFFICES ASSUME NEW i \in 1..(2 * a.k)
                   PROVE  \E s, n : (s = a \/ s = b) /\ n \in 1..s.k
                                       /\ Combined(a, b)[i] = s.data[n]
        BY <4>2 DEF ToSet
      <4>3. CASE i \in 1..a.k
        BY <4>2, <4>3
      <4>4. CASE i - a.k \in 1..a.k /\ (i - a.k) + a.k = i
        <5>1. Combined(a, b)[i] = b.data[i - a.k]
          BY <4>2, <4>4
        <5> QED BY <4>1, <4>4, <5>1
      <4> QED BY <4>2, <4>3, <4>4
    <3>3. DataRacks(a, b) \subseteq 0..(ClusterNum - 1)
      BY <3>1, <3>2 DEF DataRacks
    <3>4. \A j \in DOMAIN a.parity : Rack(a.parity[j]) \in 0..(ClusterNum - 1)
      <4> SUFFICES ASSUME NEW j \in 1..cfg.r
                   PROVE  Rack(PlaceOf(cfg, First(a), cfg.k + j - 1)) \in 0..(ClusterNum - 1)
        BY DEF Shaped
      <4>1. cfg.k + j - 1 \in 0..(cfg.k + cfg.r - 1) /\ First(a) \in Nat
        BY RsSizes, DataSet
      <4>2. PlaceOf(cfg, First(a), cfg.k + j - 1)
              \in (0..(ClusterNum - 1)) \X (0..(DatanodeNumPerCluster - 1))
        BY <4>1, PlaceRange
      <4> QED BY <4>2 DEF Rack
    <3> QED BY <3>3, <3>4
  <2>2. IsFiniteSet(0..(ClusterNum - 1))
    <3> DEFINE u == ClusterNum - 1
    <3>1. u \in Int
      BY <1>6
    <3> HIDE DEF u
    <3> QED BY <3>1, FS_Interval DEF u
  <2> QED BY <2>1, <2>2, FS_Subset
<1>15. Cardinality(R) <= Cardinality(occupied) /\ Cardinality(occupied) \in Nat
  <2> HIDE DEF R, occupied
  <2> QED BY <1>13, <1>14, FS_Subset, FS_CardinalityType
<1>16. CeilDiv(2 * a.k + c.r, c.r) = RsRacks(c, 1)
  <2>1. 2^1 = 2
    <3>1. 0 \in 0..LevelBound /\ 0 + 1 = 1
      BY RsSizes
    <3>2. 2^(0 + 1) = 2 * 2^0 /\ 2^0 = 1
      BY <3>1, PowersAssumption
    <3> QED BY <3>2
  <2>2. a.k = c.k
    BY DEF PairOf
  <2> QED BY <2>1, <2>2 DEF RsRacks
<1>17. ~(Cardinality(occupied) < CeilDiv(2 * a.k + cfg.r, cfg.r))
  <2> HIDE DEF R, occupied
  <2>1. RsRacks(c, 1) \in Int
    <3> HIDE DEF few, x, h
    <3>1. h \in Int
      BY <1>2 DEF h
    <3> QED BY <1>2, <1>9, <3>1
  <2> QED BY <1>12, <1>15, <1>16, <2>1
<1>18. NewRack(a, b, target, rd) = NoRack
  BY <1>17 DEF NewRack
<1> QED BY <1>3, <1>18

(* So a surplus block of it moves to a node it is not on. *)
LEMMA PairMoves ==
    ASSUME IsRs(cfg), FitsRacks(cfg), cfg.r < DatanodeNumPerCluster, NEW a, NEW b,
           Shaped(a), Shaped(b), Placed(a), Placed(b), PairOf(a, b), NEW target, NEW rd,
           NEW n \in 1..(2 * a.k)
    PROVE  MovedTo(a, b, target, rd, n) # Combined(a, b)[n].node
<1> DEFINE c == Combined(a, b)
           D == DatanodeNumPerCluster
           r == cfg.r
<1>1. NewRack(a, b, target, rd) = -1 /\ First(a) \div BatchSize(cfg) = First(b) \div BatchSize(cfg)
  <2>1. NewRack(a, b, target, rd) = NoRack
        /\ First(a) \div BatchSize(cfg) = First(b) \div BatchSize(cfg)
    BY PairOccupies
  <2> QED BY <2>1 DEF NoRack
<1>2. r \in Nat \ {0} /\ D \in Nat /\ a.k = cfg.k /\ b.k = cfg.k /\ cfg.k \in Nat \ {0}
      /\ First(a) \in Nat /\ First(b) \in Nat
  BY RsSizes, DataSet, CodeAssumption DEF PairOf
<1>3. PICK s, l : (s = a \/ s = b) /\ l \in 1..cfg.k /\ c[n] = s.data[l]
  <2>1. /\ \A i \in 1..a.k : c[i] = a.data[i] /\ c[i + a.k] = b.data[i]
        /\ \A i \in 1..(2 * a.k) : i \in 1..a.k \/ (i - a.k \in 1..a.k /\ (i - a.k) + a.k = i)
    <3>1. Shaped(a) /\ Shaped(b) /\ a.k = b.k
      BY <1>2
    <3> DEFINE m == 2 * a.k
    <3>2. /\ \A i \in 1..a.k : /\ i \in 1..m /\ c[i] = a.data[i]
                              /\ i + a.k \in 1..m /\ c[i + a.k] = b.data[i]
          /\ \A i \in 1..m : i \in 1..a.k \/ (i - a.k \in 1..a.k /\ (i - a.k) + a.k = i)
      BY <3>1, CombinedBlocks, SMTT(60)
    <3> HIDE DEF m
    <3>3. \A i \in 1..a.k : c[i] = a.data[i] /\ c[i + a.k] = b.data[i]
      BY <3>2, Zenon
    <3> QED BY <3>2, <3>3, Zenon DEF m
  <2>2. CASE n \in 1..a.k
    BY <1>2, <2>1, <2>2
  <2>3. CASE n - a.k \in 1..a.k /\ (n - a.k) + a.k = n
    <3>1. c[n] = b.data[n - a.k]
      BY <2>1, <2>3
    <3> QED BY <1>2, <2>3, <3>1
  <2> QED BY <2>1, <2>2, <2>3
<1> DEFINE t == First(s)
           slot == Slot(cfg, t, l - 1)
<1>4. Shaped(s) /\ Placed(s) /\ s.k = cfg.k /\ t \in Nat /\ NodeRow(cfg, t) = a.row2
      /\ a.row2 \in 0..(Len(OA2) - 1)
  <2>1. Shaped(s) /\ Placed(s) /\ s.k = cfg.k /\ t \in Nat
        /\ t \div BatchSize(cfg) = First(a) \div BatchSize(cfg)
    BY <1>1, <1>2, <1>3
  <2>2. a.row2 = NodeRow(cfg, First(a))
    BY DEF Placed
  <2> QED BY <1>2, <2>1, <2>2, RowsOfBatch, RowRange
<1>5. c[n].node = <<OaRack(RackRow(cfg, t), slot.col), OaNode(a.row2, slot.ncol)>>
  <2>1. Fresh(s)
    <3>1. ~(s.k >= 2 * cfg.k)
      BY <1>2, <1>4
    <3> QED BY <1>4, <3>1 DEF Placed
  <2>2. s.data[l].node = PlaceOf(cfg, t, l - 1)
    BY <1>3, <1>4, <2>1 DEF Fresh, AtHome, HomeOf
  <2> QED BY <1>3, <1>4, <2>2 DEF PlaceOf
<1>6. slot.ncol \in 0..(r - 1)
  <2>1. l - 1 \in 0..(cfg.k + cfg.r - 1)
    BY <1>2, <1>3
  <2> QED BY <1>4, <2>1, SlotRange
<1>7. Rack(c[n].node) # -1
  <2>1. Rack(c[n].node) \in 0..(ClusterNum - 1)
    <3>1. s.data[l].node \in (0..(ClusterNum - 1)) \X (0..(D - 1))
      BY <1>3, <1>4 DEF Placed
    <3> QED BY <1>3, <3>1 DEF Rack
  <2> QED BY <2>1
<1>8. MovedTo(a, b, target, rd, n) = <<Rack(c[n].node), OaNode(a.row2, r)>>
  <2>1. MoveColumn(a, b, NewRack(a, b, target, rd), n) = r
    BY <1>1, <1>7 DEF MoveColumn
  <2>2. Len(OA2[a.row2 + 1]) = D
    BY <1>2, <1>4, NodeRange
  <2> QED BY <1>2, <2>1, <2>2 DEF MovedTo
<1>9. OaNode(a.row2, r) # OaNode(a.row2, slot.ncol)
  <2> DEFINE q == slot.ncol
  <2> HIDE DEF q
  <2>1. q \in Nat /\ q < D /\ q # r /\ r < D /\ r \in Nat
    BY <1>2, <1>6 DEF q
  <2>2. OaNode(a.row2, r) # OaNode(a.row2, q)
    BY <1>4, <2>1, NodeRange
  <2> QED BY <2>2 DEF q
<1> HIDE DEF slot
<1>10. Combined(a, b)[n].node[2] = OaNode(a.row2, slot.ncol)
  BY <1>5
<1>11. MovedTo(a, b, target, rd, n)[2] = OaNode(a.row2, r)
  BY <1>8
<1> QED BY <1>9, <1>10, <1>11

-----------------------------------------------------------------------------
(***************************************************************************)
(* The files.  Kept says that a stripe's blocks are where its record says, *)
(* Readable of which stripes this is promised.                             *)
(***************************************************************************)

Kept(s) == \A n \in 1..s.k : <<s.data[n].id, s.data[n].node>> \in dataFiles
AlignedPair(s) ==
    /\ s.k = 2 * cfg.k /\ RsRounds(cfg) > 0
    /\ \E f \in Nat : f % 2 = 0 /\ Tags(s) = {f, f + 1}
Readable(s) ==
    \/ s.k = cfg.k
    \/ AlignedPair(s) /\ cfg.r < DatanodeNumPerCluster
    \/ cfg.k % cfg.r = 0 /\ SameBatch(s)

(* The plan in terms of MovedTo. *)
LEMMA MovesAre ==
    ASSUME NEW a, NEW b, NEW target, NEW rd
    PROVE  Moves(a, b, target, rd)
             = {[id |-> Combined(a, b)[n].id, from |-> Combined(a, b)[n].node,
                 to |-> MovedTo(a, b, target, rd, n)] : n \in Surplus(a, b)}
BY DEF Moves, MovedTo

(* Relocations keep the files of other blocks, and one of a block to       *)
(* another node puts its file there.                                       *)
LEMMA Relocations ==
    ASSUME NEW files, NEW moves, NEW id, NEW node, <<id, node>> \in files
    PROVE  /\ (\A mv \in moves : mv.id # id) => <<id, node>> \in Relocated(files, moves)
           /\ \A mv \in moves : mv.id = id /\ mv.from = node /\ mv.to # node
                                  => <<id, mv.to>> \in Relocated(files, moves)
<1>1. ASSUME \A mv \in moves : mv.id # id PROVE <<id, node>> \in Relocated(files, moves)
  BY <1>1 DEF Relocated
<1>2. ASSUME NEW mv \in moves, mv.id = id, mv.from = node, mv.to # node
      PROVE  <<id, mv.to>> \in Relocated(files, moves)
  <2>1. mv \in {x \in moves : <<x.id, x.from>> \in files /\ x.from # x.to}
    BY <1>2
  <2>2. <<mv.id, mv.to>> \in Relocated(files, moves)
    BY <2>1 DEF Relocated
  <2> QED BY <1>2, <2>2
<1> QED BY <1>1, <1>2

(* A merge to an aligned pair is of its two uploads. *)
LEMMA PairMerged ==
    ASSUME IsRs(cfg), NEW a, NEW b, NEW m, Shaped(a), Shaped(b), Placed(a), Placed(b),
           Joins(m, a, b), AlignedPair(m)
    PROVE  PairOf(a, b)
<1>1. a.k = cfg.k /\ b.k = cfg.k /\ cfg.k \in Nat \ {0} /\ RsRounds(cfg) > 0 /\ m.k = 2 * cfg.k
  <2>1. a.k \in Nat /\ cfg.k \in Nat \ {0} /\ m.k = 2 * a.k /\ a.k = b.k /\ m.k = 2 * cfg.k
    BY DataSet, RsSizes DEF Joins, AlignedPair
  <2>2. a.k = cfg.k
    BY <2>1
  <2> QED BY <2>1, <2>2 DEF AlignedPair
<1>2. PICK f \in Nat : f % 2 = 0 /\ Tags(m) = {f, f + 1}
  BY DEF AlignedPair
<1>3. \A n \in 1..cfg.k : a.data[n].id[1] = First(a) /\ b.data[n].id[1] = First(b)
  <2>1. ~(a.k >= 2 * cfg.k) /\ ~(b.k >= 2 * cfg.k)
    BY <1>1
  <2>2. Fresh(a) /\ Fresh(b)
    BY <2>1 DEF Placed
  <2> QED BY <1>1, <2>2 DEF Fresh
<1>4. \A n \in 1..cfg.k : /\ n \in 1..m.k /\ m.data[n].id[1] = First(a)
                          /\ n + cfg.k \in 1..m.k /\ m.data[n + cfg.k].id[1] = First(b)
  <2> TAKE n \in 1..cfg.k
  <2>1. n \in 1..m.k /\ n + cfg.k \in 1..m.k
    BY <1>1
  <2> QED BY <1>1, <1>3, <2>1 DEF Joins
<1>5. \A n \in 1..m.k : n \in 1..cfg.k \/ (n - cfg.k \in 1..cfg.k /\ (n - cfg.k) + cfg.k = n)
  BY <1>1
<1>6. Tags(m) = {First(a), First(b)}
  <2>1. 1 \in 1..cfg.k
    BY <1>1
  <2>2. First(a) \in Tags(m) /\ First(b) \in Tags(m)
    <3>1. /\ 1 \in 1..m.k /\ m.data[1].id[1] = First(a)
          /\ 1 + cfg.k \in 1..m.k /\ m.data[1 + cfg.k].id[1] = First(b)
      BY <1>4, <2>1
    <3> QED BY <3>1 DEF Tags
  <2>3. ASSUME NEW n \in 1..m.k PROVE m.data[n].id[1] \in {First(a), First(b)}
    <3>1. CASE n \in 1..cfg.k
      BY <1>4, <3>1
    <3>2. CASE n - cfg.k \in 1..cfg.k /\ (n - cfg.k) + cfg.k = n
      <4>1. m.data[(n - cfg.k) + cfg.k].id[1] = First(b)
        BY <1>4, <3>2
      <4> QED BY <3>2, <4>1
    <3> QED BY <1>5, <3>1, <3>2
  <2> QED BY <2>2, <2>3 DEF Tags
<1> QED BY <1>1, <1>2, <1>6 DEF PairOf

(* A merge that fails nowhere keeps the blocks of a stripe that stays      *)
(* readable where the new record says.                                     *)
LEMMA MergedKept ==
    ASSUME IsRs(cfg), FitsRacks(cfg), NEW a, NEW b, Shaped(a), Shaped(b), a.k = b.k,
           Placed(a), Placed(b), NoneShared(a, b), NEW target, NEW rd, NEW hurt \in BOOLEAN,
           NEW m, m = MergedStripe(a, b, Moves(a, b, target, rd), hurt), Readable(m),
           Readable(a) => Kept(a), Readable(b) => Kept(b)
    PROVE  \A n \in 1..m.k : <<m.data[n].id, m.data[n].node>>
                               \in Relocated(dataFiles, Moves(a, b, target, rd))
<1> DEFINE c == Combined(a, b)
           size == 2 * a.k
           moves == Moves(a, b, target, rd)
<1>1. Joins(m, a, b) /\ Shaped(m)
  BY MergedShape DEF IsRs
<1>2. Apart(a) /\ Apart(b)
  BY DEF Placed, Apart
<1>3. /\ m.k = size
      /\ \A n \in 1..size : /\ m.data[n].id = c[n].id
                            /\ n \in Surplus(a, b) => m.data[n].node = MovedTo(a, b, target, rd, n)
                            /\ n \notin Surplus(a, b) => m.data[n].node = c[n].node
  BY <1>2, MergedNodes
<1>4. /\ \A n \in 1..size : n \in 1..a.k \/ (n - a.k \in 1..a.k /\ (n - a.k) + a.k = n)
      /\ \A n \in 1..a.k : c[n] = a.data[n] /\ c[n + a.k] = b.data[n]
      /\ \A n, l \in 1..size : c[n].id = c[l].id => n = l
      /\ Surplus(a, b) \subseteq 1..size
  <2>1. Surplus(a, b) \subseteq DOMAIN c
    BY DEF Surplus
  <2>2. DOMAIN c = 1..size
    BY CombinedBlocks
  <2>3. /\ \A n \in 1..size : n \in 1..a.k \/ (n - a.k \in 1..a.k /\ (n - a.k) + a.k = n)
        /\ \A n \in 1..a.k : c[n] = a.data[n] /\ c[n + a.k] = b.data[n]
        /\ \A n, l \in 1..size : c[n].id = c[l].id => n = l
    BY <1>2, CombinedBlocks
  <2> QED BY <2>1, <2>2, <2>3
<1>5. \/ PairOf(a, b) /\ cfg.r < DatanodeNumPerCluster /\ a.k = cfg.k
      \/ Surplus(a, b) = {} /\ SameBatch(a) /\ SameBatch(b) /\ cfg.k % cfg.r = 0
  <2>1. m.k # cfg.k
    <3>1. a.k = cfg.k \/ a.k >= 2 * cfg.k
      BY DEF Placed
    <3>2. a.k \in Nat /\ cfg.k \in Nat \ {0}
      BY DataSet, RsSizes
    <3> QED BY <1>3, <3>1, <3>2
  <2>2. CASE AlignedPair(m) /\ cfg.r < DatanodeNumPerCluster
    <3>1. PairOf(a, b)
      BY <1>1, <2>2, PairMerged
    <3> QED BY <2>2, <3>1 DEF PairOf
  <2>3. CASE cfg.k % cfg.r = 0 /\ SameBatch(m)
    <3>1. Surplus(a, b) = {}
      BY <1>1, <2>3, NoSurplus
    <3>2. SameBatch(a) /\ SameBatch(b)
      BY <1>1, <2>3, OneBatchTogether DEF IsRs
    <3> QED BY <2>3, <3>1, <3>2
  <2> QED BY <2>1, <2>2, <2>3 DEF Readable
<1>6. Kept(a) /\ Kept(b)
  BY <1>5 DEF Readable
<1>7. ASSUME NEW n \in 1..size PROVE <<c[n].id, c[n].node>> \in dataFiles
  <2>1. CASE n \in 1..a.k
    BY <1>4, <1>6, <2>1 DEF Kept
  <2>2. CASE n - a.k \in 1..a.k /\ (n - a.k) + a.k = n
    <3>1. c[n] = b.data[n - a.k]
      BY <1>4, <2>2
    <3> QED BY <1>6, <2>2, <3>1 DEF Kept
  <2> QED BY <1>4, <2>1, <2>2
<1> DEFINE Move(n) == [id |-> c[n].id, from |-> c[n].node, to |-> MovedTo(a, b, target, rd, n)]
<1>8. moves = {Move(n) : n \in Surplus(a, b)}
  BY MovesAre
<1> HIDE DEF moves
<1>9. ASSUME NEW n \in 1..size
      PROVE  <<m.data[n].id, m.data[n].node>> \in Relocated(dataFiles, moves)
  <2>1. CASE n \notin Surplus(a, b)
    <3>1. \A mv \in moves : mv.id # c[n].id
      <4> SUFFICES ASSUME NEW l \in Surplus(a, b) PROVE c[l].id # c[n].id
        BY <1>8
      <4> QED BY <1>4, <2>1
    <3> HIDE DEF c
    <3>2. <<c[n].id, c[n].node>> \in Relocated(dataFiles, moves)
      BY <1>7, <3>1, Relocations
    <3> QED BY <1>3, <2>1, <3>2
  <2>2. CASE n \in Surplus(a, b)
    <3>1. MovedTo(a, b, target, rd, n) # c[n].node
      BY <1>5, <2>2, PairMoves
    <3>2. Move(n) \in moves /\ Move(n).id = c[n].id /\ Move(n).from = c[n].node
          /\ Move(n).to = MovedTo(a, b, target, rd, n)
      BY <1>8, <2>2
    <3> HIDE DEF c, Move
    <3>3. <<c[n].id, Move(n).to>> \in Relocated(dataFiles, moves)
      BY <1>7, <3>1, <3>2, Relocations
    <3> QED BY <1>3, <2>2, <3>2, <3>3
  <2> QED BY <2>1, <2>2
<1> QED BY <1>3, <1>9 DEF moves

-----------------------------------------------------------------------------
(***************************************************************************)
(* Every step keeps this.                                                  *)
(***************************************************************************)

(***************************************************************************)
(* The invariant: records are Placed, no two stripes share a block, and    *)
(* undamaged stripes that are Readable have their blocks in files.         *)
(***************************************************************************)
Fine(sid) ==
    /\ Placed(stripes[sid])
    /\ FitsRacks(cfg) /\ ~stripes[sid].damaged /\ Readable(stripes[sid]) => Kept(stripes[sid])

PlacedInv ==
    cfg.code = "RS" =>
      /\ \A sid \in DOMAIN stripes : Fine(sid)
      /\ \A s, t \in DOMAIN stripes : s # t => NoneShared(stripes[s], stripes[t])

(* A record and the files it names stay right when they stay.              *)
LEMMA StaysFine ==
    ASSUME NEW sid, Fine(sid), stripes'[sid] = stripes[sid], cfg' = cfg,
           nextId \in Nat, nextId' \in Nat, nextId <= nextId',
           \A n \in 1..stripes[sid].k :
              LET d == stripes[sid].data[n]
              IN  <<d.id, d.node>> \in dataFiles => <<d.id, d.node>> \in dataFiles'
    PROVE  Fine(sid)'
<1> DEFINE s == stripes[sid]
<1>1. Placed(s)
  BY DEF Fine
<1>2. 0..(nextId - 1) \subseteq 0..(nextId' - 1)
  <2>1. \A a, b \in Nat : a <= b => \A x \in 0..(a - 1) : x \in 0..(b - 1)
    OBVIOUS
  <2> QED BY <2>1
<1>3. /\ First(s)' = First(s) /\ Tags(s)' = Tags(s) /\ AtHome(s)' = AtHome(s)
      /\ SameBatch(s)' = SameBatch(s)
      /\ \A n : HomeOf(s.data[n])' = HomeOf(s.data[n])
  BY DEF First, Tags, AtHome, SameBatch, Batch, HomeOf
<1>4. Fresh(s)' = Fresh(s)
  BY <1>3 DEF Fresh, First
<1>5. \A n \in 1..s.k : s.data[n].id \in (0..(nextId - 1)) \X (0..(cfg.k - 1))
                          => s.data[n].id \in (0..(nextId' - 1)) \X (0..(cfg.k - 1))
  BY <1>2
<1>6. Placed(s)'
  BY <1>1, <1>3, <1>4, <1>5 DEF Placed
<1>7. Readable(s)' = Readable(s)
  BY <1>3 DEF Readable, AlignedPair
<1>8. Kept(s) => Kept(s)'
  BY DEF Kept
<1> QED BY <1>6, <1>7, <1>8 DEF Fine

(* An upload is fresh and its blocks are nobody else's. *)
LEMMA SetFine ==
    ASSUME RsInv, PlacedInv, cfg.code = "RS", RsSetStripe
    PROVE  PlacedInv'
<1> DEFINE s == NewStripe(cfg, nextId)
           new == {<<d.id, d.node>> : d \in ToSet(s.data)}
<1>1. /\ stripes' = Over([t \in {nextId} |-> s], stripes)
      /\ dataFiles' = dataFiles \cup new
      /\ nextId' = nextId + 1 /\ cfg' = cfg
  BY DEF RsSetStripe
<1>2. /\ IsRs(cfg) /\ nextId \in Nat /\ nextId \notin DOMAIN stripes
      /\ DOMAIN stripes \subseteq 0..(nextId - 1)
  BY DEF RsInv, IsRs
<1>3. s.k = cfg.k /\ DOMAIN s.data = 1..s.k
  BY DEF NewStripe
<1> HIDE DEF s
<1>4. /\ DOMAIN stripes' = {nextId} \cup DOMAIN stripes /\ stripes'[nextId] = s
      /\ \A t \in DOMAIN stripes : stripes'[t] = stripes[t]
  BY <1>1, <1>2 DEF Over
<1>5. ASSUME NEW t, t = nextId
      PROVE  Fine(t)' /\ \A n \in 1..stripes'[t].k : stripes'[t].data[n].id[1] = nextId
  <2>1. stripes'[t] = s
    BY <1>4, <1>5
  <2>2. /\ Placed(stripes[t])'
        /\ \A n \in 1..stripes'[t].k : stripes'[t].data[n].id[1] = t
    BY <1>1, <1>2, <1>5, <2>1, UploadPlaced DEF s
  <2>3. Kept(stripes[t])'
    <3>1. \A n \in 1..s.k : s.data[n] \in ToSet(s.data)
      BY <1>3 DEF ToSet
    <3>2. \A n \in 1..s.k : <<s.data[n].id, s.data[n].node>> \in dataFiles'
      BY <1>1, <3>1
    <3> QED BY <2>1, <3>2 DEF Kept
  <2> QED BY <1>5, <2>2, <2>3 DEF Fine
<1>6. \A t \in DOMAIN stripes : t # nextId /\ Fine(t) /\ Fine(t)'
  <2> SUFFICES ASSUME NEW t \in DOMAIN stripes PROVE t # nextId /\ Fine(t) /\ Fine(t)'
    OBVIOUS
  <2>1. t # nextId /\ Fine(t) /\ stripes'[t] = stripes[t] /\ cfg' = cfg
        /\ nextId \in Nat /\ nextId' \in Nat /\ nextId <= nextId'
    BY <1>1, <1>2, <1>4 DEF PlacedInv
  <2>2. \A n \in 1..stripes[t].k :
           LET d == stripes[t].data[n]
           IN  <<d.id, d.node>> \in dataFiles => <<d.id, d.node>> \in dataFiles'
    BY <1>1
  <2> QED BY <2>1, <2>2, StaysFine
<1>7. ASSUME NEW t \in DOMAIN stripes, NEW n \in 1..stripes[t].k
      PROVE  stripes[t].data[n].id[1] # nextId
  <2>1. stripes[t].data[n].id \in (0..(nextId - 1)) \X (0..(cfg.k - 1))
    BY <1>6 DEF Fine, Placed
  <2>2. stripes[t].data[n].id[1] \in 0..(nextId - 1)
    BY <2>1
  <2> QED BY <1>2, <2>2
<1>8. ASSUME NEW t \in DOMAIN stripes', NEW u \in DOMAIN stripes', t # u
      PROVE  NoneShared(stripes[t], stripes[u])'
  <2>1. CASE t = nextId
    <3>1. u \in DOMAIN stripes /\ stripes'[u] = stripes[u]
      BY <1>4, <1>8, <2>1
    <3> QED BY <1>5, <1>7, <2>1, <3>1 DEF NoneShared
  <2>2. CASE u = nextId
    <3>1. t \in DOMAIN stripes /\ stripes'[t] = stripes[t]
      BY <1>4, <1>8, <2>2
    <3> QED BY <1>5, <1>7, <2>2, <3>1 DEF NoneShared
  <2>3. CASE t # nextId /\ u # nextId
    <3>1. /\ t \in DOMAIN stripes /\ u \in DOMAIN stripes
          /\ stripes'[t] = stripes[t] /\ stripes'[u] = stripes[u]
      BY <1>4, <2>3
    <3>2. NoneShared(stripes[t], stripes[u])
      BY <1>8, <3>1 DEF PlacedInv
    <3> QED BY <3>1, <3>2 DEF NoneShared
  <2> QED BY <2>1, <2>2, <2>3
<1>9. \A t \in DOMAIN stripes' : Fine(t)'
  <2> TAKE t \in DOMAIN stripes'
  <2>1. CASE t = nextId
    BY <1>5, <2>1
  <2>2. CASE t # nextId
    BY <1>4, <1>6, <2>2
  <2> QED BY <2>1, <2>2
<1> QED BY <1>8, <1>9 DEF PlacedInv

(* A deletion removes no other stripe's blocks. *)
LEMMA DeleteFine ==
    ASSUME RsInv, PlacedInv, cfg.code = "RS", NEW sid \in DOMAIN stripes, RsDelete(sid)
    PROVE  PlacedInv'
<1> DEFINE gone == {<<d.id, d.node>> : d \in ToSet(stripes[sid].data)}
<1>1. /\ stripes' = [t \in DOMAIN stripes \ {sid} |-> stripes[t]]
      /\ dataFiles' = dataFiles \ gone
      /\ cfg' = cfg /\ nextId' = nextId
  BY DEF RsDelete
<1>2. /\ \A t \in DOMAIN stripes' : /\ t \in DOMAIN stripes /\ t # sid
                                    /\ stripes'[t] = stripes[t]
      /\ nextId \in Nat /\ Shaped(stripes[sid])
  BY <1>1 DEF RsInv
<1>3. ASSUME NEW t \in DOMAIN stripes' PROVE Fine(t)'
  <2>1. t \in DOMAIN stripes /\ Fine(t) /\ stripes'[t] = stripes[t] /\ nextId <= nextId'
        /\ nextId' \in Nat /\ NoneShared(stripes[t], stripes[sid])
    BY <1>1, <1>2 DEF PlacedInv
  <2>2. ASSUME NEW n \in 1..stripes[t].k
        PROVE  LET d == stripes[t].data[n] IN <<d.id, d.node>> \notin gone
    <3>1. ToSet(stripes[sid].data) = {stripes[sid].data[l] : l \in 1..stripes[sid].k}
      BY <1>2, DataSet
    <3>2. \A d \in ToSet(stripes[sid].data) : d.id # stripes[t].data[n].id
      BY <2>1, <3>1 DEF NoneShared
    <3> QED BY <3>2
  <2>3. \A n \in 1..stripes[t].k :
           LET d == stripes[t].data[n]
           IN  <<d.id, d.node>> \in dataFiles => <<d.id, d.node>> \in dataFiles'
    BY <1>1, <2>2
  <2> QED BY <1>1, <1>2, <2>1, <2>3, StaysFine
<1>4. ASSUME NEW t \in DOMAIN stripes', NEW u \in DOMAIN stripes', t # u
      PROVE  NoneShared(stripes[t], stripes[u])'
  <2>1. NoneShared(stripes[t], stripes[u])
    BY <1>2, <1>4 DEF PlacedInv
  <2> QED BY <1>2, <2>1 DEF NoneShared
<1> QED BY <1>3, <1>4 DEF PlacedInv

(* A step that changes neither the table nor the data. *)
LEMMA AllStayFine ==
    ASSUME RsInv, PlacedInv, UNCHANGED <<cfg, stripes, dataFiles>>, nextId' \in {nextId, nextId + 1}
    PROVE  PlacedInv'
<1>1. nextId \in Nat /\ nextId' \in Nat /\ nextId <= nextId'
  BY DEF RsInv
<1>2. ASSUME cfg.code = "RS", NEW t \in DOMAIN stripes' PROVE Fine(t)'
  <2>1. Fine(t)
    BY <1>2 DEF PlacedInv
  <2> QED BY <1>1, <2>1, StaysFine
<1>3. ASSUME cfg.code = "RS", NEW t \in DOMAIN stripes', NEW u \in DOMAIN stripes', t # u
      PROVE  NoneShared(stripes[t], stripes[u])'
  <2>1. NoneShared(stripes[t], stripes[u])
    BY <1>3 DEF PlacedInv
  <2> QED BY <2>1 DEF NoneShared
<1> QED BY <1>2, <1>3 DEF PlacedInv

(* A merge, whatever of it fails. *)
LEMMA MergeFine ==
    ASSUME RsInv, PlacedInv, cfg.code = "RS", pairs # <<>>, NEW unmoved, NEW reported,
           NEW uncombined, MergeWith(unmoved, reported, uncombined)
    PROVE  PlacedInv'
<1> DEFINE req == Head(pairs)
           a == stripes[req.a]
           b == stripes[req.b]
           T == req.target
           moves == Moves(a, b, T, round)
           written == {j \in 1..cfg.r \ uncombined : ParitySources(req.a, req.b, j).found}
           hurt == unmoved # {} \/ written # 1..cfg.r
           m == MergedStripe(a, b, moves, hurt)
           others == [s \in DOMAIN stripes \ {req.a, req.b} |-> stripes[s]]
<1>1. /\ a.k = b.k
      /\ stripes' = Over([s \in {T} |-> m], others)
      /\ dataFiles' = Relocated(dataFiles, moves \ unmoved)
      /\ cfg' = cfg /\ nextId' = nextId
  BY DEF MergeWith, RequestValid
<1>2. /\ T \in Nat /\ req.a \in DOMAIN stripes /\ req.b \in DOMAIN stripes /\ req.a # req.b
      /\ \A s \in DOMAIN stripes : s = T => s \in {req.a, req.b}
  BY FirstRequest
<1>3. /\ cfg \in Configs /\ IsRs(cfg) /\ Shaped(a) /\ Shaped(b) /\ hurt \in BOOLEAN
      /\ nextId \in Nat
  BY <1>2 DEF RsInv, IsRs
<1>4. Fine(req.a) /\ Fine(req.b) /\ NoneShared(a, b)
  BY <1>2 DEF PlacedInv
<1>5. DOMAIN others = DOMAIN stripes \ {req.a, req.b}
      /\ \A s \in DOMAIN others : others[s] = stripes[s]
  OBVIOUS
<1>6. unmoved # {} => hurt
  OBVIOUS
<1>7. /\ Shaped(m) /\ First(m) = First(a) /\ Joins(m, a, b)
      /\ m.damaged = (a.damaged \/ b.damaged \/ hurt)
  <2> HIDE DEF hurt, moves, a, b
  <2> QED BY <1>1, <1>3, MergedShape
<1>8. /\ Placed(m)
      /\ \A n \in 1..m.k : \E l \in 1..a.k :
            m.data[n].id = a.data[l].id \/ m.data[n].id = b.data[l].id
  <2>1. Placed(a) /\ Placed(b)
    BY <1>4 DEF Fine
  <2> HIDE DEF hurt, a, b
  <2> QED BY <1>1, <1>3, <1>4, <2>1, MergedPlaced
<1>9. ASSUME FitsRacks(cfg), ~m.damaged, Readable(m)
      PROVE  \A n \in 1..m.k : <<m.data[n].id, m.data[n].node>> \in dataFiles'
  <2>1. ~a.damaged /\ ~b.damaged /\ ~hurt
    BY <1>7, <1>9
  <2>2. (Readable(a) => Kept(a)) /\ (Readable(b) => Kept(b)) /\ Placed(a) /\ Placed(b)
    BY <1>4, <1>9, <2>1 DEF Fine
  <2>3. dataFiles' = Relocated(dataFiles, moves)
    <3>1. unmoved = {}
      BY <1>6, <2>1
    <3>2. moves \ unmoved = moves
      BY <3>1
    <3> QED BY <1>1, <3>2
  <2>4. \A n \in 1..m.k : <<m.data[n].id, m.data[n].node>> \in Relocated(dataFiles, moves)
    <3> HIDE DEF hurt, a, b
    <3> QED BY <1>1, <1>3, <1>4, <1>9, <2>2, MergedKept
  <2> QED BY <2>3, <2>4
<1>10. \A mv \in moves : \E l \in 1..a.k : mv.id = a.data[l].id \/ mv.id = b.data[l].id
  <2>1. \A n \in Surplus(a, b) : n \in 1..(2 * a.k)
    <3>1. DOMAIN Combined(a, b) = 1..(2 * a.k)
      <4> HIDE DEF a, b
      <4> QED BY <1>1, <1>3, CombinedBlocks
    <3> QED BY <3>1 DEF Surplus
  <2>2. \A n \in 1..(2 * a.k) : \E l \in 1..a.k :
           Combined(a, b)[n].id = a.data[l].id \/ Combined(a, b)[n].id = b.data[l].id
    <3>1. /\ a.k \in Nat \ {0}
          /\ \A i \in 1..a.k : Combined(a, b)[i] = a.data[i] /\ Combined(a, b)[i + a.k] = b.data[i]
      <4> HIDE DEF a, b
      <4>1. \A n \in 1..a.k : /\ n \in 1..(2 * a.k) /\ Combined(a, b)[n] = a.data[n]
                             /\ n + a.k \in 1..(2 * a.k)
                             /\ Combined(a, b)[n + a.k] = b.data[n]
        BY <1>1, <1>3, CombinedBlocks
      <4>2. a.k \in Nat \ {0}
        BY <1>3 DEF Shaped
      <4> HIDE DEF Combined
      <4> QED BY <4>1, <4>2
    <3>2. \A x \in Nat : \A i \in 1..(2 * x) : i \in 1..x \/ (i - x \in 1..x /\ (i - x) + x = i)
      OBVIOUS
    <3>3. ASSUME NEW n \in 1..(2 * a.k)
          PROVE  \E l \in 1..a.k :
                    Combined(a, b)[n].id = a.data[l].id \/ Combined(a, b)[n].id = b.data[l].id
      <4> HIDE DEF a, b
      <4>1. CASE n \in 1..a.k
        BY <3>1, <4>1
      <4>2. CASE n - a.k \in 1..a.k /\ (n - a.k) + a.k = n
        <5>1. Combined(a, b)[n] = b.data[n - a.k]
          BY <3>1, <4>2
        <5> QED BY <4>2, <5>1
      <4> QED BY <3>1, <3>2, <4>1, <4>2
    <3> QED BY <3>3
  <2>3. \A mv \in moves : \E n \in Surplus(a, b) : mv.id = Combined(a, b)[n].id
    <3> HIDE DEF a, b
    <3> QED BY MovesAre
  <2> HIDE DEF moves, a, b
  <2> QED BY <2>1, <2>2, <2>3
<1> HIDE DEF m, others, hurt, written, moves
<1>11. /\ DOMAIN stripes' = {T} \cup (DOMAIN stripes \ {req.a, req.b})
       /\ stripes'[T] = m
       /\ \A s \in DOMAIN stripes' : s # T => /\ s \in DOMAIN stripes
                                              /\ s # req.a /\ s # req.b
                                              /\ stripes'[s] = stripes[s]
  BY <1>1, <1>5 DEF Over
<1>12. ASSUME NEW t \in DOMAIN stripes', t # T
       PROVE  /\ Fine(t)' /\ NoneShared(stripes[t], m) /\ NoneShared(m, stripes[t])
  <2>1. /\ t \in DOMAIN stripes /\ Fine(t) /\ stripes'[t] = stripes[t]
        /\ NoneShared(stripes[t], a) /\ NoneShared(stripes[t], b)
    BY <1>2, <1>11, <1>12 DEF PlacedInv
  <2>2. a.k = b.k
    BY <1>1
  <2>3. ASSUME NEW n \in 1..stripes[t].k
        PROVE  LET d == stripes[t].data[n]
               IN  <<d.id, d.node>> \in dataFiles => <<d.id, d.node>> \in dataFiles'
    <3> DEFINE d == stripes[t].data[n]
    <3>1. \A mv \in moves : mv.id # d.id
      <4> SUFFICES ASSUME NEW mv \in moves PROVE mv.id # d.id
        OBVIOUS
      <4>1. PICK l \in 1..a.k : mv.id = a.data[l].id \/ mv.id = b.data[l].id
        BY <1>10
      <4> QED BY <2>1, <2>2, <4>1 DEF NoneShared
    <3>2. \A mv \in moves \ unmoved : mv.id # d.id
      BY <3>1
    <3> HIDE DEF d
    <3>3. <<d.id, d.node>> \in dataFiles
            => <<d.id, d.node>> \in Relocated(dataFiles, moves \ unmoved)
      BY <3>2, Relocations
    <3> QED BY <1>1, <3>3 DEF d
  <2>4. Fine(t)'
    <3>1. /\ Fine(t) /\ stripes'[t] = stripes[t] /\ cfg' = cfg
          /\ nextId \in Nat /\ nextId' \in Nat /\ nextId <= nextId'
      BY <1>1, <1>3, <2>1
    <3>2. \A n \in 1..stripes[t].k :
             LET d == stripes[t].data[n]
             IN  <<d.id, d.node>> \in dataFiles => <<d.id, d.node>> \in dataFiles'
      BY <2>3
    <3> QED BY <3>1, <3>2, StaysFine
  <2>5. ASSUME NEW n \in 1..stripes[t].k, NEW l \in 1..m.k
        PROVE  stripes[t].data[n].id # m.data[l].id
    <3>1. PICK i \in 1..a.k : m.data[l].id = a.data[i].id \/ m.data[l].id = b.data[i].id
      BY <1>8
    <3> QED BY <2>1, <2>2, <3>1 DEF NoneShared
  <2> QED BY <2>4, <2>5 DEF NoneShared
<1>13. ASSUME NEW t, t = T PROVE Fine(t)'
  <2>1. stripes'[t] = m /\ cfg' = cfg /\ nextId' = nextId
    BY <1>1, <1>11, <1>13
  <2>2. Placed(stripes[t])'
    <3>1. /\ First(stripes[t])' = First(m) /\ Tags(stripes[t])' = Tags(m)
          /\ (SameBatch(stripes[t])' <=> SameBatch(m)) /\ (FitsRacks(cfg)' <=> FitsRacks(cfg))
      BY <2>1 DEF First, Tags, SameBatch, Batch, FitsRacks
    <3>2. AtHome(stripes[t])' <=> AtHome(m)
      BY <2>1 DEF AtHome, HomeOf
    <3>3. Fresh(stripes[t])' <=> Fresh(m)
      BY <2>1, <3>1, <3>2 DEF Fresh
    <3>4. \A d : HomeOf(d)' = HomeOf(d)
      BY <2>1 DEF HomeOf
    <3> HIDE DEF m
    <3> QED BY <1>8, <2>1, <3>1, <3>2, <3>3, <3>4 DEF Placed
  <2>3. Readable(stripes[t])' = Readable(m)
    <3>1. Tags(stripes[t])' = Tags(m) /\ SameBatch(stripes[t])' = SameBatch(m)
      BY <2>1 DEF Tags, SameBatch, Batch
    <3> QED BY <2>1, <3>1 DEF Readable, AlignedPair
  <2>4. FitsRacks(cfg) /\ ~m.damaged /\ Readable(m) => Kept(stripes[t])'
    BY <1>9, <2>1 DEF Kept
  <2> QED BY <2>1, <2>2, <2>3, <2>4 DEF Fine
<1>14. \A t \in DOMAIN stripes' : Fine(t)'
  <2> TAKE t \in DOMAIN stripes'
  <2>1. CASE t = T
    BY <1>13, <2>1
  <2>2. CASE t # T
    BY <1>12, <2>2
  <2> QED BY <2>1, <2>2
<1>15. ASSUME NEW t \in DOMAIN stripes', NEW u \in DOMAIN stripes', t # u
       PROVE  NoneShared(stripes[t], stripes[u])'
  <2>1. CASE t = T
    <3>1. stripes'[t] = m /\ stripes'[u] = stripes[u] /\ NoneShared(m, stripes[u])
      BY <1>11, <1>12, <1>15, <2>1
    <3> QED BY <3>1 DEF NoneShared
  <2>2. CASE u = T
    <3>1. stripes'[u] = m /\ stripes'[t] = stripes[t] /\ NoneShared(stripes[t], m)
      BY <1>11, <1>12, <1>15, <2>2
    <3> QED BY <3>1 DEF NoneShared
  <2>3. CASE t # T /\ u # T
    <3>1. /\ t \in DOMAIN stripes /\ u \in DOMAIN stripes
          /\ stripes'[t] = stripes[t] /\ stripes'[u] = stripes[u]
      BY <1>11, <2>3
    <3>2. NoneShared(stripes[t], stripes[u])
      BY <1>15, <3>1 DEF PlacedInv
    <3> QED BY <3>1, <3>2 DEF NoneShared
  <2> QED BY <2>1, <2>2, <2>3
<1> QED BY <1>14, <1>15 DEF PlacedInv

(* Every step keeps it. *)
LEMMA NextFine ==
    ASSUME RsInv, PlacedInv, [Next]_vars
    PROVE  PlacedInv'
<1>1. CASE UNCHANGED vars
  <2>1. UNCHANGED <<cfg, nextId, stripes, dataFiles>>
    BY <1>1 DEF vars, rsVars
  <2> QED BY <2>1, AllStayFine
<1>2. ASSUME cfg.code = "RS", RsNext PROVE PlacedInv'
  <2>1. CASE RsSetStripe
    BY <1>2, <2>1, SetFine
  <2>2. CASE RsSetUnavailable \/ MergeRefused \/ \E rd : StartMerge(rd)
    <3>1. UNCHANGED <<cfg, stripes, dataFiles>> /\ nextId' \in {nextId, nextId + 1}
      BY <2>2 DEF RsSetUnavailable, MergeRefused, StartMerge, rsVars
    <3> QED BY <3>1, AllStayFine
  <2>3. ASSUME NEW sid \in DOMAIN stripes, RsDelete(sid) PROVE PlacedInv'
    BY <1>2, <2>3, DeleteFine
  <2>4. CASE MergePair
    BY <1>2, <2>4, MergeFine DEF MergePair
  <2>5. CASE MergeHurt
    <3>1. pairs # <<>> /\ \E unmoved, reported, uncombined :
                             MergeWith(unmoved, reported, uncombined)
      BY <2>5 DEF MergeHurt
    <3> QED BY <1>2, <3>1, MergeFine
  <2> QED BY <1>2, <2>1, <2>2, <2>3, <2>4, <2>5 DEF RsNext
<1>3. ASSUME LrcNext, UNCHANGED rsVars PROVE PlacedInv'
  <2>1. UNCHANGED <<cfg, stripes, dataFiles>> /\ nextId' \in {nextId, nextId + 1}
    BY <1>3 DEF LrcNext, LrcSetStripe, LrcSetSpins, LrcSetUnavailable, Repair, rsVars
  <2> QED BY <2>1, AllStayFine
<1> QED BY <1>1, <1>2, <1>3 DEF Next

(* It holds of a deployment that has just started. *)
LEMMA InitFine == Init => PlacedInv
BY DEF Init, RsInit, PlacedInv

(* Both are invariants of every deployment. *)
LEMMA AlwaysFine == Spec => [](RsInv /\ PlacedInv)
<1>1. Init => RsInv /\ PlacedInv
  BY InitRs, InitFine
<1>2. RsInv /\ PlacedInv /\ [Next]_vars => (RsInv /\ PlacedInv)'
  BY NextKeeps, Stutters, NextFine
<1> QED BY <1>1, <1>2, PTL DEF Spec

(* What the two invariants say of a stripe of the table. *)
LEMMA StripeFine ==
    ASSUME RsInv, PlacedInv, NEW s \in Range(stripes)
    PROVE  /\ IsRs(cfg) /\ nextId \in Nat /\ Shaped(s) /\ Placed(s)
           /\ FitsRacks(cfg) /\ ~s.damaged /\ Readable(s) => Kept(s)
<1>1. PICK sid \in DOMAIN stripes : s = stripes[sid]
  BY DEF Range
<1>2. cfg.code = "RS"
  BY <1>1 DEF RsInv
<1> QED BY <1>1, <1>2 DEF RsInv, PlacedInv, Fine, IsRs

(* A fresh stripe survives the loss of any rack: no rack has more than r   *)
(* of its blocks and no node two; where r divides k no rack has more than  *)
(* r blocks of a stripe of one batch either, whatever was merged into it.  *)
THEOREM StripesSurviveRacks == Spec => []RsRackTolerance
<1>1. RsInv /\ PlacedInv => RsRackTolerance
  <2> SUFFICES ASSUME RsInv, PlacedInv, FitsRacks(cfg), NEW s \in Range(stripes)
               PROVE  /\ s.k = cfg.k =>
                            /\ \A rack \in AllRacks(s) : Load(s, rack) <= cfg.r
                            /\ Cardinality({d.node : d \in ToSet(s.data)} \cup ToSet(s.parity))
                                 = cfg.k + cfg.r
                      /\ (cfg.k % cfg.r = 0 /\ OneBatch(s)) =>
                            \A rack \in AllRacks(s) : Load(s, rack) <= cfg.r
    BY DEF RsRackTolerance
  <2>1. IsRs(cfg) /\ Shaped(s) /\ Placed(s)
    BY StripeFine
  <2>2. OneBatch(s) => SameBatch(s)
    BY <2>1, OneMeansSame
  <2>3. ASSUME s.k = cfg.k \/ (cfg.k % cfg.r = 0 /\ SameBatch(s)), NEW rack
        PROVE  Load(s, rack) <= cfg.r
    BY <2>1, <2>3, LoadOfStripe
  <2>4. ASSUME s.k = cfg.k
        PROVE  Cardinality({d.node : d \in ToSet(s.data)} \cup ToSet(s.parity)) = cfg.k + cfg.r
    BY <2>1, <2>4, NodesOfUpload
  <2> QED BY <2>2, <2>3, <2>4
<1> QED BY <1>1, AlwaysFine, PTL

(* An aligned run of uploads by its first and its last. *)
LEMMA RunOf ==
    ASSUME NEW s, Shaped(s), nextId \in Nat, Aligned(s)
    PROVE  \E l \in 0..RsRounds(cfg), first \in Nat :
              first % 2^l = 0 /\ Tags(s) = first..(first + 2^l - 1)
<1>1. PICK l \in 0..RsRounds(cfg), first \in 0..(nextId - 1) :
         first % 2^l = 0 /\ {d.id[1] : d \in ToSet(s.data)} = first..(first + 2^l - 1)
  BY DEF Aligned
<1>2. {d.id[1] : d \in ToSet(s.data)} = Tags(s)
  BY DataSet DEF Tags
<1>3. first \in Nat
  OBVIOUS
<1> QED BY <1>1, <1>2, <1>3

(* A stripe merged from an aligned run of 2^l uploads is on no more racks  *)
(* than ceil((2^l k + r)/r), after any rounds, failures and refusals: the  *)
(* column formulas and the overlaps they deduct do what get_N counts on.   *)
THEOREM RacksAlwaysBounded == Spec => []RsRacksBounded
<1>1. RsInv /\ PlacedInv => RsRacksBounded
  <2> SUFFICES ASSUME RsInv, PlacedInv, NEW s \in Range(stripes), Aligned(s)
               PROVE  Cardinality(AllRacks(s)) <= CeilDiv(s.k + cfg.r, cfg.r)
    BY DEF RsRacksBounded
  <2>1. IsRs(cfg) /\ nextId \in Nat /\ Shaped(s) /\ Placed(s)
    BY StripeFine
  <2>2. PICK l \in 0..RsRounds(cfg), first \in Nat :
           first % 2^l = 0 /\ Tags(s) = first..(first + 2^l - 1)
    BY <2>1, RunOf
  <2> QED BY <2>1, <2>2, RunRacks
<1> QED BY <1>1, AlwaysFine, PTL

(* An aligned run of no more than 2k blocks is an upload or a pair. *)
LEMMA ShortRuns ==
    ASSUME IsRs(cfg), nextId \in Nat, NEW s, Shaped(s), Placed(s), s.k <= 2 * cfg.k, Aligned(s)
    PROVE  s.k = cfg.k \/ AlignedPair(s)
<1> DEFINE k == cfg.k
           tags == Cardinality(Tags(s))
<1>1. PICK l \in 0..RsRounds(cfg), first \in Nat :
         first % 2^l = 0 /\ Tags(s) = first..(first + 2^l - 1)
  BY RunOf
<1>2. /\ k \in Nat \ {0} /\ s.k \in Nat /\ k * tags <= s.k /\ s.k <= 2 * k
      /\ s.k = k \/ s.k = 2 * k
  <2>1. k \in Nat \ {0} /\ s.k \in Nat
    BY RsSizes, DataSet
  <2>2. (s.k = k \/ s.k >= 2 * k) /\ k * tags <= s.k
    BY DEF Placed
  <2> HIDE DEF tags
  <2> QED BY <2>1, <2>2
<1>3. l \in 0..LevelBound /\ 2^l \in Nat \ {0} /\ tags = 2^l
  <2>1. l \in 0..LevelBound
    BY Rounds, RsSizes
  <2>2. 2^l \in Nat \ {0}
    BY <2>1, PowersAssumption
  <2> DEFINE p == 2^l
             e == first + p - 1
  <2>3. first \in Int /\ e \in Int /\ ~(first > e) /\ e - first + 1 = p
    BY <2>2
  <2> HIDE DEF e
  <2>4. Cardinality(first..e) = e - first + 1
    BY <2>3, FS_Interval
  <2> QED BY <1>1, <2>1, <2>2, <2>3, <2>4 DEF e
<1>4. ASSUME s.k = 2 * k PROVE l = 1
  <2>1. tags <= 2
    <3>1. \A K, n \in Nat : K # 0 /\ K * n <= 2 * K => n <= 2
      OBVIOUS
    <3> QED BY <1>2, <1>3, <3>1
  <2>2. l < 2
    <3> SUFFICES ASSUME l >= 2 PROVE FALSE
      BY <1>3
    <3>1. l - 1 \in 0..LevelBound /\ l - 2 \in 0..LevelBound
          /\ (l - 1) + 1 = l /\ (l - 2) + 1 = l - 1
      <4>1. LevelBound \in Nat
        BY RsSizes
      <4> QED BY <1>3, <4>1
    <3>2. 2^l = 2 * 2^(l - 1) /\ 2^(l - 1) = 2 * 2^(l - 2) /\ 2^(l - 2) \in Nat \ {0}
      BY <3>1, PowersAssumption
    <3> QED BY <1>3, <2>1, <3>2
  <2>3. l # 0
    <3> SUFFICES ASSUME l = 0 PROVE FALSE
      OBVIOUS
    <3>1. Tags(s) = first..first
      BY <1>1, PowersAssumption
    <3>2. \A n \in 1..s.k : /\ s.data[n].id = <<first, s.data[n].id[2]>>
                            /\ s.data[n].id[2] \in 0..(k - 1)
      <4> TAKE n \in 1..s.k
      <4>1. s.data[n].id \in (0..(nextId - 1)) \X (0..(k - 1)) /\ s.data[n].id[1] \in Tags(s)
        BY DEF Placed, Tags
      <4>2. s.data[n].id[1] = first
        BY <3>1, <4>1
      <4> QED BY <4>1, <4>2
    <3> DEFINE f == [n \in 1..s.k |-> s.data[n].id[2]]
    <3>3. f \in Injection(1..s.k, 0..(k - 1))
      <4>1. f \in [1..s.k -> 0..(k - 1)]
        BY <3>2
      <4>2. ASSUME NEW n \in 1..s.k, NEW m \in 1..s.k, f[n] = f[m] PROVE n = m
        <5>1. s.data[n].id = s.data[m].id
          BY <3>2, <4>2
        <5> QED BY <5>1 DEF Placed
      <4> QED BY <4>1, <4>2 DEF Injection, IsInjective
    <3> HIDE DEF f
    <3>4. Cardinality(1..s.k) = s.k /\ Cardinality(0..(k - 1)) = k /\ IsFiniteSet(0..(k - 1))
      <4> DEFINE z == 0
                 o == 1
                 e == k - 1
                 w == s.k
      <4>1. /\ z \in Int /\ o \in Int /\ e \in Int /\ w \in Int /\ ~(z > e) /\ ~(o > w)
            /\ e - z + 1 = k /\ w - o + 1 = s.k
        BY <1>2
      <4> HIDE DEF z, o, e, w
      <4>2. /\ IsFiniteSet(z..e) /\ Cardinality(z..e) = e - z + 1
            /\ Cardinality(o..w) = w - o + 1
        BY <4>1, FS_Interval
      <4> QED BY <4>1, <4>2 DEF z, o, e, w
    <3>5. Cardinality(1..s.k) <= Cardinality(0..(k - 1))
      BY <3>3, <3>4, FS_Injection
    <3> QED BY <1>2, <1>4, <3>4, <3>5
  <2> QED BY <1>3, <2>2, <2>3 DEF IsRs
<1>5. ASSUME l = 1 PROVE RsRounds(cfg) > 0 /\ first % 2 = 0 /\ Tags(s) = {first, first + 1}
  <2>1. 2^1 = 2
    <3>1. 0 \in 0..LevelBound
      BY RsSizes
    <3>2. 2^(0 + 1) = 2 * 2^0 /\ 2^0 = 1
      BY <3>1, PowersAssumption
    <3> QED BY <3>2
  <2>2. first..(first + 2 - 1) = {first, first + 1}
    OBVIOUS
  <2>3. RsRounds(cfg) > 0
    BY <1>5, Rounds, RsSizes
  <2> QED BY <1>1, <1>5, <2>1, <2>2, <2>3
<1> QED BY <1>2, <1>4, <1>5 DEF AlignedPair

(* A merge that fails nowhere never deletes a block by moving it onto its  *)
(* own node, of the stripes the property promises it of: every block is in *)
(* a file on the node that the record names.                               *)
THEOREM MergesAlwaysKeepData == Spec => []MergesKeepData
<1>1. RsInv /\ PlacedInv => MergesKeepData
  <2> SUFFICES ASSUME RsInv, PlacedInv, FitsRacks(cfg), NEW s \in Range(stripes), ~s.damaged,
                      \/ s.k <= 2 * cfg.k /\ Aligned(s) /\ cfg.r < DatanodeNumPerCluster
                      \/ cfg.k % cfg.r = 0 /\ OneBatch(s),
                      NEW d \in ToSet(s.data)
               PROVE  <<d.id, d.node>> \in dataFiles
    BY DEF MergesKeepData
  <2>1. /\ IsRs(cfg) /\ nextId \in Nat /\ Shaped(s) /\ Placed(s)
        /\ Readable(s) => Kept(s)
    BY StripeFine
  <2>2. Readable(s)
    <3>1. CASE s.k <= 2 * cfg.k /\ Aligned(s) /\ cfg.r < DatanodeNumPerCluster
      BY <2>1, <3>1, ShortRuns DEF Readable
    <3>2. CASE cfg.k % cfg.r = 0 /\ OneBatch(s)
      BY <2>1, <3>2, OneMeansSame DEF Readable
    <3> QED BY <3>1, <3>2
  <2>3. ToSet(s.data) = {s.data[n] : n \in 1..s.k}
    BY <2>1, DataSet
  <2> QED BY <2>1, <2>2, <2>3 DEF Kept
<1> QED BY <1>1, AlwaysFine, PTL
=============================================================================
