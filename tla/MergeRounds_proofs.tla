-------------------------- MODULE MergeRounds_proofs --------------------------
(***************************************************************************)
(* Proofs about MergeRounds for DdlRT_LRC: for every number of uploads,    *)
(* rounds, threads, retries, faults and deletions, the stripes of the      *)
(* table stay disjoint runs of consecutive uploads, and nothing drops out  *)
(* of it but what deletions take.                                          *)
(*                                                                         *)
(* The reason is a chain: the mutex lets one merge work at a time, so what *)
(* its checks saw still holds when it commits; the checks make the pair    *)
(* two adjacent runs; so the merged stripe is a run that covers the same   *)
(* uploads and overlaps no other.                                          *)
(***************************************************************************)
EXTENDS MergeRounds, SequenceTheorems, PlacementLemmas

Run(s, k)   == [i \in 1..k |-> s + i - 1]
Span(sid)   == sid..(sid + table[sid].k - 1)
Held(u)     == \E sid \in DOMAIN table : u \in Span(sid)

Shape ==
    /\ mode.code = "DdlRT_LRC" /\ nextId \in Nat
    /\ table = [s \in DOMAIN table |-> table[s]]
    /\ DOMAIN table \subseteq Nat
    /\ \A sid \in DOMAIN table :
          /\ table[sid].k \in Nat /\ table[sid].k > 0
          /\ table[sid].batch \in Nat /\ table[sid].pos \in Nat

Runs ==
    \A sid \in DOMAIN table :
        /\ table[sid].parts = Run(sid, table[sid].k)
        /\ sid = table[sid].batch * BatchSize + table[sid].pos
        /\ table[sid].pos + table[sid].k <= BatchSize
        /\ sid + table[sid].k <= nextId

Apart == \A s, t \in DOMAIN table : s < t => s + table[s].k <= t

(***************************************************************************)
(* A call that works was checked against the table as it still is.         *)
(***************************************************************************)
Checked ==
    /\ \A c \in calls :
          /\ c = [try |-> c.try, a |-> c.a, b |-> c.b, to |-> c.to,
                  round |-> c.round, at |-> c.at, k |-> c.k]
          /\ c.to = c.a
          /\ c.at = "working" =>
               /\ c.a \in DOMAIN table /\ c.b \in DOMAIN table
               /\ table[c.a].k = c.k /\ table[c.b].k = c.k
               /\ table[c.a].batch = table[c.b].batch
               /\ table[c.a].pos + c.k = table[c.b].pos
    /\ \A c, e \in calls : c.at = "working" /\ e.at = "working" => c = e

Excused ==
    /\ \A u \in 0..(nextId - 1) : Held(u) \/ u \in excused \cup overtaken
    /\ \A d \in deletes : d.sid \in DOMAIN table => Span(d.sid) \subseteq excused \cup overtaken

Deletions ==
    /\ \A d \in deletes :
          /\ d = [sid |-> d.sid, at |-> d.at, blocks |-> d.blocks]
          /\ d.sid \in 0..(nextId - 1)
          /\ d.at = "asked" => d.blocks = {}
          /\ d.blocks \subseteq 0..(nextId - 1)
          /\ \A u \in d.blocks : \/ u \in overtaken
                                 \/ ~Held(u)
                                 \/ d.sid \in DOMAIN table /\ u \in Span(d.sid)
    /\ \A d, e \in deletes : d.sid = e.sid => d = e

Gone ==
    /\ gone \subseteq 0..(nextId - 1)
    /\ \A u \in gone : \/ ~Held(u)
                       \/ u \in overtaken
                       \/ \E d \in deletes : d.at = "deleted" /\ u \in d.blocks

IInv == Shape /\ Runs /\ Apart /\ Checked /\ Excused /\ Deletions /\ Gone

-----------------------------------------------------------------------------
LEMMA RunFacts ==
    ASSUME NEW s \in Nat, NEW k \in Nat
    PROVE  /\ Run(s, k) \in Seq(Nat) /\ Len(Run(s, k)) = k
           /\ ToSet(Run(s, k)) = s..(s + k - 1)
<1>1. /\ DOMAIN Run(s, k) = 1..k
      /\ \A i \in 1..k : Run(s, k)[i] = s + i - 1 /\ Run(s, k)[i] \in Nat
  BY DEF Run
<1>2. Run(s, k) \in [1..k -> Nat]
  BY DEF Run
<1>3. Run(s, k) \in Seq(Nat) /\ Len(Run(s, k)) = k
  BY <1>1, <1>2
<1>4. ASSUME NEW x \in s..(s + k - 1)
      PROVE  \E i \in 1..k : Run(s, k)[i] = x
  <2>1. x - s + 1 \in 1..k /\ s + (x - s + 1) - 1 = x
    OBVIOUS
  <2> QED  BY <2>1, <1>1
<1>5. ToSet(Run(s, k)) = {Run(s, k)[i] : i \in 1..k}
  BY <1>1 DEF ToSet
<1>6. ASSUME NEW i \in 1..k
      PROVE  Run(s, k)[i] \in s..(s + k - 1)
  BY <1>1
<1> QED  BY <1>3, <1>4, <1>5, <1>6

(***************************************************************************)
(* Two adjacent runs make a run.                                           *)
(***************************************************************************)
LEMMA RunsJoin ==
    ASSUME NEW s \in Nat, NEW k \in Nat
    PROVE  SubSeq(Run(s, k), 1, k) \o SubSeq(Run(s + k, k), 1, k) = Run(s, 2 * k)
<1>1. /\ Run(s, k) \in Seq(Nat) /\ Len(Run(s, k)) = k
      /\ Run(s + k, k) \in Seq(Nat) /\ Len(Run(s + k, k)) = k
  BY RunFacts
<1>2. SubSeq(Run(s, k), 1, k) = Run(s, k) /\ SubSeq(Run(s + k, k), 1, k) = Run(s + k, k)
  BY <1>1, SubSeqFull
<1> DEFINE left  == Run(s, k)
           right == Run(s + k, k)
           both  == left \o right
<1> HIDE DEF left, right
<1>3. /\ left \in Seq(Nat) /\ Len(left) = k
      /\ right \in Seq(Nat) /\ Len(right) = k
  BY <1>1 DEF left, right
<1>4. /\ both \in Seq(Nat) /\ Len(both) = Len(left) + Len(right)
      /\ \A i \in 1..(Len(left) + Len(right)) :
            both[i] = IF i <= Len(left) THEN left[i] ELSE right[i - Len(left)]
  BY <1>3, ConcatProperties, Zenon
<1> HIDE DEF both
<1>5. /\ \A i \in 1..k : left[i] = s + i - 1
      /\ \A i \in 1..k : right[i] = s + k + i - 1
  BY DEF left, right, Run
<1>6. ASSUME NEW i \in 1..(2 * k)
      PROVE  both[i] = s + i - 1
  <2>1. both[i] = IF i <= k THEN left[i] ELSE right[i - k]
    <3>1. i \in 1..(k + k)
      OBVIOUS
    <3> QED  BY <3>1, <1>3, <1>4, Zenon
  <2>2. CASE i <= k
    <3>1. i \in 1..k
      BY <2>2
    <3> QED  BY <2>1, <2>2, <3>1, <1>5
  <2>3. CASE ~(i <= k)
    <3>1. i - k \in 1..k
      BY <2>3
    <3>2. right[i - k] = s + k + (i - k) - 1
      BY <3>1, <1>5
    <3>3. s + k + (i - k) - 1 = s + i - 1
      OBVIOUS
    <3> QED  BY <2>1, <2>3, <3>2, <3>3
  <2> QED  BY <2>2, <2>3
<1>7. both = [i \in 1..(2 * k) |-> both[i]]
  BY <1>3, <1>4
<1>8. both = Run(s, 2 * k)
  BY <1>6, <1>7 DEF Run
<1> QED  BY <1>2, <1>8 DEF both, left, right

-----------------------------------------------------------------------------
(***************************************************************************)
(* The steps of the client and of a call that leave the table and the      *)
(* deletions alone.                                                        *)
(***************************************************************************)
LEMMA Frame ==
    ASSUME IInv, Checked',
           UNCHANGED <<mode, table, nextId, deletes, gone, excused, overtaken>>
    PROVE  IInv'
<1>1. Shape'
  BY DEF IInv, Shape
<1>2. Runs'
  BY DEF IInv, Runs
<1>3. Apart'
  BY DEF IInv, Apart
<1>4. Excused'
  BY DEF IInv, Excused, Held, Span
<1>5. Deletions'
  BY DEF IInv, Deletions, Held, Span
<1>6. Gone'
  BY DEF IInv, Gone, Held, Span
<1> QED  BY <1>1, <1>2, <1>3, <1>4, <1>5, <1>6 DEF IInv

LEMMA InitInv ==
    ASSUME \A m \in Modes : m.code = "DdlRT_LRC", Init
    PROVE  IInv
<1>1. DOMAIN table = {} /\ nextId = 0 /\ calls = {} /\ deletes = {} /\ gone = {}
  BY DEF Init
<1>2. table = [s \in DOMAIN table |-> table[s]]
  BY DEF Init
<1> QED  BY <1>1, <1>2 DEF Init, IInv, Shape, Runs, Apart, Checked, Excused, Deletions, Gone, Held

(***************************************************************************)
(* A call that is dropped or only queued keeps Checked.                    *)
(***************************************************************************)
LEMMA CallsShrink ==
    ASSUME IInv, NEW c \in calls, calls' = calls \ {c}, UNCHANGED table
    PROVE  Checked'
BY DEF IInv, Checked

LEMMA StartBatchInv ==
    ASSUME IInv, StartBatch
    PROVE  IInv'
<1>1. ASSUME NEW c \in calls', c \notin calls
      PROVE  /\ c = [try |-> c.try, a |-> c.a, b |-> c.b, to |-> c.to,
                     round |-> c.round, at |-> c.at, k |-> c.k]
             /\ c.to = c.a /\ c.at = "asked"
  <2>1. PICK n : c = Request(n)
    BY <1>1 DEF StartBatch
  <2>2. Target(n) = ids[2 * n + 1]
    BY DEF Target, DdlRT, IInv, Shape
  <2> QED  BY <2>1, <2>2 DEF Request
<1>2. table' = table
  BY DEF StartBatch
<1>3. Checked'
  BY <1>1, <1>2 DEF IInv, Checked
<1> QED  BY <1>3, Frame DEF StartBatch, deleteVars, lossVars

LEMMA WorkingRecord ==
    ASSUME NEW c, NEW d, NEW q,
           c = [try |-> c.try, a |-> c.a, b |-> c.b, to |-> c.to,
                round |-> c.round, at |-> c.at, k |-> c.k],
           d = [c EXCEPT !.at = "working", !.k = q]
    PROVE  /\ d = [try |-> d.try, a |-> d.a, b |-> d.b, to |-> d.to,
                   round |-> d.round, at |-> d.at, k |-> d.k]
           /\ d.try = c.try /\ d.a = c.a /\ d.b = c.b /\ d.to = c.to /\ d.k = q
OBVIOUS

LEMMA BeginInv ==
    ASSUME IInv, NEW c \in calls, Begin(c)
    PROVE  IInv'
<1> DEFINE d == [c EXCEPT !.at = "working", !.k = table[c.a].k]
<1>1. /\ calls' = (calls \ {c}) \cup {d} /\ table' = table
      /\ \A e \in calls : e.at # "working"
  BY DEF Begin, MutexFree, DdlRT, IInv, Shape
<1>2. c = [try |-> c.try, a |-> c.a, b |-> c.b, to |-> c.to,
           round |-> c.round, at |-> c.at, k |-> c.k] /\ c.to = c.a
  BY DEF IInv, Checked
<1> HIDE DEF d
<1>3. d = [c EXCEPT !.at = "working", !.k = table[c.a].k]
  BY DEF d
<1>4. /\ c.a \in DOMAIN table /\ c.b \in DOMAIN table
      /\ table[c.b].k = table[c.a].k /\ table[c.a].batch = table[c.b].batch
      /\ table[c.a].pos + table[c.a].k = table[c.b].pos
  BY DEF Begin, Accepted, DdlRT, IInv, Shape
<1>5. /\ d = [try |-> d.try, a |-> d.a, b |-> d.b, to |-> d.to,
              round |-> d.round, at |-> d.at, k |-> d.k]
      /\ d.a = c.a /\ d.b = c.b /\ d.to = d.a /\ d.k = table[c.a].k
  BY <1>2, <1>3, WorkingRecord
<1>6. Checked'
  BY <1>1, <1>4, <1>5 DEF IInv, Checked
<1> QED  BY <1>6, Frame DEF Begin, deleteVars, lossVars

-----------------------------------------------------------------------------
(***************************************************************************)
(* A commit replaces two adjacent runs by one that covers both.            *)
(***************************************************************************)
LEMMA CommitRuns ==
    ASSUME IInv, NEW c \in calls, c.at = "working", Commit(c)
    PROVE  /\ c.a \in DOMAIN table /\ c.b \in DOMAIN table /\ c.b = c.a + c.k
           /\ c.k \in Nat /\ c.k > 0 /\ table[c.a].k = c.k /\ table[c.b].k = c.k
           /\ DOMAIN table' = DOMAIN table \ {c.b}
           /\ table' = [s \in DOMAIN table' |-> table'[s]]
           /\ table'[c.a] = [parts |-> Run(c.a, 2 * c.k), k |-> 2 * c.k,
                             batch |-> table[c.a].batch, pos |-> table[c.a].pos]
           /\ \A s \in DOMAIN table' : s # c.a => table'[s] = table[s]
<1>1. /\ c.to = c.a /\ c.a \in DOMAIN table /\ c.b \in DOMAIN table
      /\ table[c.a].k = c.k /\ table[c.b].k = c.k
      /\ table[c.a].batch = table[c.b].batch
      /\ table[c.a].pos + c.k = table[c.b].pos
  BY DEF IInv, Checked
<1>2. /\ c.a \in Nat /\ c.b \in Nat /\ c.k \in Nat /\ c.k > 0
      /\ table[c.a].pos \in Nat /\ table[c.b].pos \in Nat
      /\ table[c.a].batch \in Nat /\ BatchSize \in Nat
  BY <1>1, ConstantsAssumption DEF IInv, Shape
<1>3. c.b = c.a + c.k
  <2> DEFINE base == table[c.a].batch * BatchSize
  <2>1. base \in Nat
    BY <1>2
  <2>2. c.a = base + table[c.a].pos /\ c.b = base + table[c.b].pos
    BY <1>1 DEF IInv, Runs
  <2> HIDE DEF base
  <2> QED  BY <2>1, <2>2, <1>1, <1>2
<1>4. table[c.a].parts = Run(c.a, c.k) /\ table[c.b].parts = Run(c.a + c.k, c.k)
  BY <1>1, <1>3 DEF IInv, Runs
<1>5. MergedStripe(c) = [parts |-> Run(c.a, 2 * c.k), k |-> 2 * c.k,
                         batch |-> table[c.a].batch, pos |-> table[c.a].pos]
  BY <1>2, <1>4, RunsJoin DEF MergedStripe
<1>6. table' = [s \in (DOMAIN table \ {c.a, c.b}) \cup {c.a} |->
                  IF s = c.a THEN MergedStripe(c) ELSE table[s]]
  BY <1>1 DEF Commit
<1>7. (DOMAIN table \ {c.a, c.b}) \cup {c.a} = DOMAIN table \ {c.b}
  BY <1>1, <1>2, <1>3
<1> QED  BY <1>1, <1>2, <1>3, <1>5, <1>6, <1>7

LEMMA CommitInv ==
    ASSUME IInv, NEW c \in calls, c.at = "working", Commit(c), calls' = calls \ {c},
           UNCHANGED <<mode, nextId, deletes, gone, excused>>
    PROVE  IInv'
<1> DEFINE a == c.a
           b == c.b
           k == c.k
<1>1. /\ a \in DOMAIN table /\ b \in DOMAIN table /\ b = a + k
      /\ k \in Nat /\ k > 0 /\ table[a].k = k /\ table[b].k = k
      /\ DOMAIN table' = DOMAIN table \ {b}
      /\ table' = [s \in DOMAIN table' |-> table'[s]]
      /\ table'[a] = [parts |-> Run(a, 2 * k), k |-> 2 * k,
                      batch |-> table[a].batch, pos |-> table[a].pos]
      /\ \A s \in DOMAIN table' : s # a => table'[s] = table[s]
  BY CommitRuns
<1>2. /\ table'[a].k = 2 * k /\ table'[a].parts = Run(a, 2 * k)
      /\ table'[a].batch = table[a].batch /\ table'[a].pos = table[a].pos
  BY <1>1
<1>3. a \in Nat /\ b \in Nat /\ a # b /\ a \in DOMAIN table'
  BY <1>1 DEF IInv, Shape
<1>4. /\ table[a].batch = table[b].batch /\ table[a].pos + k = table[b].pos
      /\ \A e \in calls : e.at = "working" => e = c
  BY DEF IInv, Checked
<1>15. \A d \in deletes : d.sid \in {a, b} =>
         MergedStripe(c).parts = Run(a, 2 * k) /\ a..(b + k - 1) \subseteq overtaken'
  <2> SUFFICES ASSUME NEW d \in deletes, d.sid \in {a, b}
               PROVE  MergedStripe(c).parts = Run(a, 2 * k) /\ a..(b + k - 1) \subseteq overtaken'
    OBVIOUS
  <2>1. MergedStripe(c).parts = Run(a, 2 * k)
    <3>1. table'[c.to] = MergedStripe(c) /\ c.to = a
      BY DEF Commit, IInv, Checked
    <3> QED  BY <3>1, <1>2
  <2>2. ToSet(MergedStripe(c).parts) = a..(a + 2 * k - 1)
    <3>1. 2 * k \in Nat /\ a \in Nat
      BY <1>1, <1>3
    <3>2. ToSet(Run(a, 2 * k)) = a..(a + 2 * k - 1)
      BY <3>1, RunFacts
    <3> QED  BY <2>1, <3>2
  <2>3. ToSet(MergedStripe(c).parts) \subseteq overtaken'
    BY DEF Commit
  <2>4. a + 2 * k - 1 = b + k - 1
    BY <1>1, <1>3
  <2> QED  BY <2>1, <2>2, <2>3, <2>4
<1>16. overtaken \subseteq overtaken'
  BY DEF Commit
<1>5. Span(a)' = Span(a) \cup Span(b) /\ \A s \in DOMAIN table' : s # a => Span(s)' = Span(s)
  BY <1>1, <1>2, <1>3 DEF Span
<1>6. \A u : Held(u)' <=> Held(u)
  <2>1. \A u : Held(u)' <=> \E s \in DOMAIN table' : u \in Span(s)'
    BY DEF Held
  <2> QED  BY <2>1, <1>1, <1>3, <1>5 DEF Held
<1> HIDE DEF a, b, k
<1>7. Shape'
  BY <1>1, <1>2, <1>3 DEF IInv, Shape
<1>8. Runs'
  <2>1. table[b].pos + k <= BatchSize /\ b + k <= nextId
    BY <1>1 DEF IInv, Runs
  <2>2. table[a].pos \in Nat /\ BatchSize \in Nat /\ nextId \in Nat
    BY <1>1, ConstantsAssumption DEF IInv, Shape
  <2>3. table[a].pos + 2 * k <= BatchSize /\ a + 2 * k <= nextId
    BY <2>1, <2>2, <1>1, <1>3, <1>4
  <2>4. ASSUME NEW s \in DOMAIN table'
        PROVE  /\ table'[s].parts = Run(s, table'[s].k)
               /\ s = table'[s].batch * BatchSize + table'[s].pos
               /\ table'[s].pos + table'[s].k <= BatchSize
               /\ s + table'[s].k <= nextId'
    <3>1. CASE s = a
      BY <3>1, <2>3, <1>1, <1>2 DEF IInv, Runs
    <3>2. CASE s # a
      BY <3>2, <1>1 DEF IInv, Runs
    <3> QED  BY <3>1, <3>2
  <2> QED  BY <2>4 DEF Runs
<1>9. Apart'
  <2> SUFFICES ASSUME NEW s \in DOMAIN table', NEW t \in DOMAIN table', s < t
               PROVE  s + table'[s].k <= t
    BY DEF Apart
  <2>1. s \in DOMAIN table /\ t \in DOMAIN table /\ s \in Nat /\ t \in Nat /\ t # b
    BY <1>1 DEF IInv, Shape
  <2>2. CASE s = a
    <3>1. a + k <= t
      BY <2>1, <2>2, <1>1 DEF IInv, Apart
    <3>2. b < t
      BY <3>1, <2>1, <1>1, <1>3
    <3>3. b + k <= t
      BY <3>2, <2>1, <1>1 DEF IInv, Apart
    <3> QED  BY <3>3, <2>1, <2>2, <1>1, <1>2, <1>3
  <2>3. CASE s # a
    BY <2>1, <2>3, <1>1 DEF IInv, Apart
  <2> QED  BY <2>2, <2>3
<1>10. Checked'
  BY <1>4 DEF IInv, Checked
<1>11. Excused'
  <2>1. ASSUME NEW u \in 0..(nextId' - 1)
        PROVE  Held(u)' \/ u \in excused' \cup overtaken'
    BY <1>6, <1>16 DEF IInv, Excused
  <2>2. ASSUME NEW d \in deletes', d.sid \in DOMAIN table'
        PROVE  Span(d.sid)' \subseteq excused' \cup overtaken'
    <3>1. CASE d.sid = a
      <4>1. Span(a)' \subseteq a..(b + k - 1)
        BY <1>1, <1>2, <1>3 DEF Span
      <4> QED  BY <3>1, <4>1, <1>15
    <3>2. CASE d.sid # a
      BY <2>2, <3>2, <1>1, <1>5, <1>16 DEF IInv, Excused
    <3> QED  BY <3>1, <3>2
  <2> QED  BY <2>1, <2>2 DEF Excused
<1>12. Deletions'
  <2>1. ASSUME NEW d \in deletes, NEW u \in d.blocks
        PROVE  \/ u \in overtaken'
               \/ ~Held(u)'
               \/ d.sid \in DOMAIN table' /\ u \in Span(d.sid)'
    <3>1. \/ u \in overtaken \/ ~Held(u)
          \/ d.sid \in DOMAIN table /\ u \in Span(d.sid)
      BY DEF IInv, Deletions
    <3>2. CASE d.sid \in {a, b} /\ u \in Span(d.sid)
      <4>1. u \in a..(b + k - 1)
        BY <3>2, <1>1, <1>3 DEF Span
      <4> QED  BY <4>1, <3>2, <1>15
    <3>3. CASE d.sid \notin {a, b} /\ d.sid \in DOMAIN table /\ u \in Span(d.sid)
      BY <3>3, <1>1, <1>5
    <3> QED  BY <3>1, <3>2, <3>3, <1>6, <1>16
  <2> QED  BY <2>1 DEF IInv, Deletions
<1>13. Gone'
  BY <1>6, <1>16 DEF IInv, Gone
<1> QED  BY <1>7, <1>8, <1>9, <1>10, <1>11, <1>12, <1>13 DEF IInv

-----------------------------------------------------------------------------
(***************************************************************************)
(* A new stripe starts after every run of the table.                       *)
(***************************************************************************)
LEMMA SetStripeInv ==
    ASSUME IInv, SetStripe
    PROVE  IInv'
<1>0. PICK n : n = nextId
  OBVIOUS
<1>1. /\ nextId = n /\ nextId' = n + 1 /\ DOMAIN table' = DOMAIN table \cup {n}
      /\ table' = [s \in DOMAIN table' |-> table'[s]]
      /\ table'[n] = NewStripe(n)
      /\ \A s \in DOMAIN table : s # n => table'[s] = table[s]
  BY <1>0 DEF SetStripe
<1>2. UNCHANGED <<mode, calls, deletes, gone, excused, overtaken>>
  BY DEF SetStripe, deleteVars, lossVars
<1>3. /\ n \in Nat /\ n \notin DOMAIN table
      /\ \A s \in DOMAIN table : s \in Nat /\ s < n /\ s + table[s].k <= n
  BY <1>0 DEF IInv, Shape, Runs
<1>4. /\ table'[n].k = 1 /\ table'[n].parts = <<n>>
      /\ table'[n].batch = n \div BatchSize
      /\ table'[n].pos = (n % BatchSize)
  BY <1>1 DEF NewStripe
<1>5. /\ n \div BatchSize \in Nat /\ (n % BatchSize) \in Nat
      /\ n = (n \div BatchSize) * BatchSize + (n % BatchSize)
      /\ (n % BatchSize) + 1 <= BatchSize
  BY <1>3, ConstantsAssumption
<1>6. <<n>> = Run(n, 1)
  BY <1>3 DEF Run
<1>7. /\ \A s \in DOMAIN table : Span(s)' = Span(s)
      /\ Span(n)' = {n}
  <2>1. Span(n)' = n..(n + 1 - 1)
    BY <1>4 DEF Span
  <2>2. n..(n + 1 - 1) = {n}
    BY <1>3
  <2> QED  BY <2>1, <2>2, <1>1, <1>3 DEF Span
<1>8. \A u : Held(u)' <=> Held(u) \/ u = n
  <2>1. \A u : Held(u)' <=> \E s \in DOMAIN table' : u \in Span(s)'
    BY DEF Held
  <2> QED  BY <2>1, <1>1, <1>7 DEF Held
<1>9. Shape'
  BY <1>1, <1>2, <1>3, <1>4, <1>5 DEF IInv, Shape
<1>10. Runs'
  <2>1. ASSUME NEW s \in DOMAIN table'
        PROVE  /\ table'[s].parts = Run(s, table'[s].k)
               /\ s = table'[s].batch * BatchSize + table'[s].pos
               /\ table'[s].pos + table'[s].k <= BatchSize
               /\ s + table'[s].k <= nextId'
    <3>1. CASE s = n
      BY <3>1, <1>1, <1>3, <1>4, <1>5, <1>6
    <3>2. CASE s # n
      <4>1. s \in DOMAIN table /\ table'[s] = table[s] /\ s \in Nat /\ table[s].k \in Nat
        BY <3>2, <1>1 DEF IInv, Shape
      <4> QED  BY <4>1, <1>1, <1>3 DEF IInv, Runs
    <3> QED  BY <3>1, <3>2
  <2> QED  BY <2>1 DEF Runs
<1>11. Apart'
  <2> SUFFICES ASSUME NEW s \in DOMAIN table', NEW t \in DOMAIN table', s < t
               PROVE  s + table'[s].k <= t
    BY DEF Apart
  <2>1. s # n
    BY <1>1, <1>3
  <2> QED  BY <2>1, <1>1, <1>3 DEF IInv, Apart
<1>12. Checked'
  BY <1>1, <1>2, <1>3 DEF IInv, Checked
<1>13. Excused'
  <2>1. ASSUME NEW u \in 0..(nextId' - 1)
        PROVE  Held(u)' \/ u \in excused' \cup overtaken'
    <3>1. u = n \/ u \in 0..(n - 1)
      BY <1>1, <1>3
    <3> QED  BY <3>1, <1>1, <1>2, <1>8 DEF IInv, Excused
  <2>2. ASSUME NEW d \in deletes', d.sid \in DOMAIN table'
        PROVE  Span(d.sid)' \subseteq excused' \cup overtaken'
    <3>1. d \in deletes /\ d.sid \in 0..(n - 1)
      BY <1>0, <1>2 DEF IInv, Deletions
    <3>2. d.sid \in DOMAIN table
      BY <2>2, <3>1, <1>1, <1>3
    <3> QED  BY <3>1, <3>2, <1>2, <1>7 DEF IInv, Excused
  <2> QED  BY <2>1, <2>2 DEF Excused
<1>14. Deletions'
  <2>1. 0..(n - 1) \subseteq 0..(nextId' - 1) /\ n \notin 0..(n - 1)
    BY <1>1, <1>3
  <2> QED  BY <2>1, <1>0, <1>1, <1>2, <1>7, <1>8 DEF IInv, Deletions
<1>15. Gone'
  BY <1>1, <1>2, <1>3, <1>8 DEF IInv, Gone
<1> QED  BY <1>9, <1>10, <1>11, <1>12, <1>13, <1>14, <1>15 DEF IInv

LEMMA SetFailsInv ==
    ASSUME IInv, SetFails
    PROVE  IInv'
<1>1. /\ nextId' = nextId + 1 /\ excused' = excused \cup {nextId} /\ nextId \in Nat
      /\ UNCHANGED <<mode, table, calls, deletes, gone, overtaken>>
  BY DEF SetFails, deleteVars, IInv, Shape
<1>2. \A s : Span(s)' = Span(s)
  BY <1>1 DEF Span
<1>3. \A u : Held(u)' <=> Held(u)
  BY <1>1, <1>2 DEF Held
<1>4. Shape'
  BY <1>1 DEF IInv, Shape
<1>5. Runs'
  <2>1. \A s \in DOMAIN table : s \in Nat /\ table[s].k \in Nat /\ s + table[s].k <= nextId + 1
    BY <1>1 DEF IInv, Shape, Runs
  <2> QED  BY <2>1, <1>1 DEF IInv, Runs
<1>6. Apart' /\ Checked'
  BY <1>1 DEF IInv, Apart, Checked
<1>7. Excused'
  BY <1>1, <1>2, <1>3 DEF IInv, Excused
<1>8. Deletions'
  <2>1. 0..(nextId - 1) \subseteq 0..(nextId' - 1)
    BY <1>1
  <2> QED  BY <2>1, <1>1, <1>2, <1>3 DEF IInv, Deletions
<1>9. Gone'
  BY <1>1, <1>3 DEF IInv, Gone
<1> QED  BY <1>4, <1>5, <1>6, <1>7, <1>8, <1>9 DEF IInv

-----------------------------------------------------------------------------
LEMMA AskDeleteInv ==
    ASSUME IInv, NEW sid \in DOMAIN table, AskDelete(sid)
    PROVE  IInv'
<1> DEFINE d == [sid |-> sid, at |-> "asked", blocks |-> {}]
<1>1. /\ deletes' = deletes \cup {d} /\ \A e \in deletes : e.sid # sid
      /\ excused' = excused \cup ToSet(table[sid].parts)
      /\ UNCHANGED <<mode, table, nextId, calls, gone, overtaken>>
  BY DEF AskDelete, clientVars
<1>2. ToSet(table[sid].parts) = Span(sid)
  <2>1. sid \in Nat /\ table[sid].k \in Nat /\ table[sid].parts = Run(sid, table[sid].k)
    BY DEF IInv, Shape, Runs
  <2> QED  BY <2>1, RunFacts DEF Span
<1>3. \A s : Span(s)' = Span(s)
  BY <1>1 DEF Span
<1>4. \A u : Held(u)' <=> Held(u)
  BY <1>1, <1>3 DEF Held
<1>5. Shape' /\ Runs' /\ Apart' /\ Checked'
  BY <1>1 DEF IInv, Shape, Runs, Apart, Checked
<1>6. Excused'
  BY <1>1, <1>2, <1>3, <1>4 DEF IInv, Excused
<1>7. Deletions'
  <2>1. sid \in 0..(nextId - 1)
    BY DEF IInv, Shape, Runs
  <2>2. /\ d = [sid |-> d.sid, at |-> d.at, blocks |-> d.blocks]
        /\ d.sid = sid /\ d.at = "asked" /\ d.blocks = {}
    OBVIOUS
  <2> HIDE DEF d
  <2>3. \A e, f \in deletes' : e.sid = f.sid => e = f
    BY <1>1, <2>2 DEF IInv, Deletions
  <2> QED  BY <2>1, <2>2, <2>3, <1>1, <1>3, <1>4 DEF IInv, Deletions
<1>8. Gone'
  BY <1>1, <1>4 DEF IInv, Gone
<1> QED  BY <1>5, <1>6, <1>7, <1>8 DEF IInv

LEMMA ReadBlocksInv ==
    ASSUME IInv, NEW d \in deletes, ReadBlocks(d)
    PROVE  IInv'
<1> DEFINE e == [d EXCEPT !.at = "read", !.blocks = ToSet(table[d.sid].parts)]
<1>1. /\ deletes' = (deletes \ {d}) \cup {e} /\ d.at = "asked" /\ d.sid \in DOMAIN table
      /\ UNCHANGED <<mode, table, nextId, calls, gone, excused, overtaken>>
  BY DEF ReadBlocks, clientVars, lossVars
<1>2. ToSet(table[d.sid].parts) = Span(d.sid) /\ Span(d.sid) \subseteq 0..(nextId - 1)
  <2>1. /\ d.sid \in Nat /\ table[d.sid].k \in Nat /\ nextId \in Nat
        /\ table[d.sid].parts = Run(d.sid, table[d.sid].k)
        /\ d.sid + table[d.sid].k <= nextId
    BY <1>1 DEF IInv, Shape, Runs
  <2>2. ToSet(table[d.sid].parts) = Span(d.sid)
    BY <2>1, RunFacts DEF Span
  <2> QED  BY <2>1, <2>2 DEF Span
<1>3. d = [sid |-> d.sid, at |-> d.at, blocks |-> d.blocks]
  BY DEF IInv, Deletions
<1>4. /\ e = [sid |-> e.sid, at |-> e.at, blocks |-> e.blocks]
      /\ e.sid = d.sid /\ e.at = "read" /\ e.blocks = Span(d.sid)
  <2> HIDE DEF e
  <2>1. e = [d EXCEPT !.at = "read", !.blocks = Span(d.sid)]
    BY <1>2 DEF e
  <2> QED  BY <2>1, <1>3
<1> HIDE DEF e
<1>5. \A s : Span(s)' = Span(s)
  BY <1>1 DEF Span
<1>6. \A u : Held(u)' <=> Held(u)
  BY <1>1, <1>5 DEF Held
<1>7. Shape' /\ Runs' /\ Apart' /\ Checked'
  BY <1>1 DEF IInv, Shape, Runs, Apart, Checked
<1>8. Excused'
  BY <1>1, <1>4, <1>5, <1>6 DEF IInv, Excused
<1>9. Deletions'
  BY <1>1, <1>2, <1>4, <1>5, <1>6 DEF IInv, Deletions
<1>10. Gone'
  BY <1>1, <1>6 DEF IInv, Gone
<1> QED  BY <1>7, <1>8, <1>9, <1>10 DEF IInv

LEMMA DeleteFilesInv ==
    ASSUME IInv, NEW d \in deletes, DeleteFiles(d)
    PROVE  IInv'
<1> DEFINE e == [d EXCEPT !.at = "deleted"]
<1>1. /\ deletes' = (deletes \ {d}) \cup {e} /\ d.at = "read" /\ gone' = gone \cup d.blocks
      /\ UNCHANGED <<mode, table, nextId, calls, excused, overtaken>>
  BY DEF DeleteFiles, clientVars, lossVars
<1>2. d = [sid |-> d.sid, at |-> d.at, blocks |-> d.blocks]
  BY DEF IInv, Deletions
<1>3. /\ e = [sid |-> e.sid, at |-> e.at, blocks |-> e.blocks]
      /\ e.sid = d.sid /\ e.at = "deleted" /\ e.blocks = d.blocks
  BY <1>2
<1> HIDE DEF e
<1>4. \A s : Span(s)' = Span(s)
  BY <1>1 DEF Span
<1>5. \A u : Held(u)' <=> Held(u)
  BY <1>1, <1>4 DEF Held
<1>6. Shape' /\ Runs' /\ Apart' /\ Checked'
  BY <1>1 DEF IInv, Shape, Runs, Apart, Checked
<1>7. Excused'
  BY <1>1, <1>3, <1>4, <1>5 DEF IInv, Excused
<1>8. Deletions'
  BY <1>1, <1>3, <1>4, <1>5 DEF IInv, Deletions
<1>9. Gone'
  BY <1>1, <1>3, <1>5 DEF IInv, Gone, Deletions
<1> QED  BY <1>6, <1>7, <1>8, <1>9 DEF IInv

(***************************************************************************)
(* A report takes the entry of its id as it is by then; the deleted blocks *)
(* were in it, or have been merged since.                                  *)
(***************************************************************************)
LEMMA ReportDeleteInv ==
    ASSUME IInv, NEW d \in deletes, ReportDelete(d)
    PROVE  IInv'
<1>1. /\ deletes' = deletes \ {d} /\ DOMAIN table' = DOMAIN table \ {d.sid}
      /\ table' = [s \in DOMAIN table' |-> table'[s]]
      /\ \A s \in DOMAIN table' : table'[s] = table[s]
      /\ UNCHANGED <<mode, nextId, calls, gone, excused, overtaken>>
      /\ \A c \in calls : c.at # "working"
  BY DEF ReportDelete, clientVars, lossVars, MutexFree, DdlRT, IInv, Shape
<1>2. \A s \in DOMAIN table' : Span(s)' = Span(s)
  BY <1>1 DEF Span
<1>3. \A u : Held(u)' <=> \E s \in DOMAIN table' : u \in Span(s)
  <2>1. \A u : Held(u)' <=> \E s \in DOMAIN table' : u \in Span(s)'
    BY DEF Held
  <2> QED  BY <2>1, <1>2
<1>4. \A u : Held(u)' => Held(u) /\ ~(d.sid \in DOMAIN table /\ u \in Span(d.sid))
  <2> SUFFICES ASSUME NEW s \in DOMAIN table', NEW u \in Span(s)
               PROVE  Held(u) /\ ~(d.sid \in DOMAIN table /\ u \in Span(d.sid))
    BY <1>3
  <2>1. Held(u)
    BY <1>1 DEF Held
  <2>2. ASSUME d.sid \in DOMAIN table, u \in Span(d.sid)
        PROVE  FALSE
    <3>1. /\ s \in Nat /\ d.sid \in Nat /\ s # d.sid /\ s \in DOMAIN table
          /\ table[s].k \in Nat /\ table[d.sid].k \in Nat
      BY <1>1, <2>2 DEF IInv, Shape
    <3>2. u \in Nat /\ s <= u /\ u < s + table[s].k /\ d.sid <= u /\ u < d.sid + table[d.sid].k
      BY <2>2, <3>1 DEF Span
    <3>3. (s < d.sid => s + table[s].k <= d.sid) /\ (d.sid < s => d.sid + table[d.sid].k <= s)
      BY <2>2, <3>1 DEF IInv, Apart
    <3> QED  BY <3>1, <3>2, <3>3
  <2> QED  BY <2>1, <2>2
<1>5. \A u : Held(u) => Held(u)' \/ (d.sid \in DOMAIN table /\ u \in Span(d.sid))
  BY <1>1, <1>3 DEF Held
<1>6. Shape'
  BY <1>1 DEF IInv, Shape
<1>7. Runs' /\ Apart' /\ Checked'
  BY <1>1 DEF IInv, Runs, Apart, Checked
<1>8. Excused'
  BY <1>1, <1>2, <1>5 DEF IInv, Excused
<1>9. Deletions'
  <2>1. ASSUME NEW e \in deletes', NEW u \in e.blocks
        PROVE  u \in overtaken' \/ ~Held(u)' \/ (e.sid \in DOMAIN table' /\ u \in Span(e.sid)')
    <3>1. e \in deletes /\ e.sid # d.sid
      BY <1>1 DEF IInv, Deletions
    <3>2. u \in overtaken \/ ~Held(u) \/ (e.sid \in DOMAIN table /\ u \in Span(e.sid))
      BY <3>1 DEF IInv, Deletions
    <3> QED  BY <3>1, <3>2, <1>1, <1>2, <1>4
  <2> QED  BY <2>1, <1>1 DEF IInv, Deletions
<1>10. Gone'
  <2>1. ASSUME NEW u \in gone', Held(u)', u \notin overtaken'
        PROVE  \E e \in deletes' : e.at = "deleted" /\ u \in e.blocks
    <3>1. Held(u) /\ u \in gone /\ u \notin overtaken
      BY <2>1, <1>1, <1>4
    <3>2. PICK e \in deletes : e.at = "deleted" /\ u \in e.blocks
      BY <3>1 DEF IInv, Gone
    <3>3. e # d
      BY <2>1, <3>1, <3>2, <1>4 DEF IInv, Deletions
    <3> QED  BY <3>2, <3>3, <1>1
  <2> QED  BY <2>1, <1>1 DEF IInv, Gone
<1> QED  BY <1>6, <1>7, <1>8, <1>9, <1>10 DEF IInv

-----------------------------------------------------------------------------
LEMMA NextInv ==
    ASSUME IInv, [Next]_vars
    PROVE  IInv'
<1> USE DEF deleteVars, lossVars
<1>1. CASE SetStripe
  BY <1>1, SetStripeInv
<1>2. CASE SetFails
  BY <1>2, SetFailsInv
<1>3. CASE StartRound
  <2>1. calls' = calls /\ table' = table
    BY <1>3 DEF StartRound, StartMerge
  <2>2. Checked'
    BY <2>1 DEF IInv, Checked
  <2> QED  BY <1>3, <2>1, <2>2, Frame DEF StartRound, StartMerge
<1>4. CASE StartBatch
  BY <1>4, StartBatchInv
<1>5. CASE EndRound
  <2>1. calls' = calls /\ table' = table
    BY <1>5 DEF EndRound
  <2>2. Checked'
    BY <2>1 DEF IInv, Checked
  <2> QED  BY <1>5, <2>1, <2>2, Frame DEF EndRound
<1>6. ASSUME NEW c \in calls, Refuse(c)
      PROVE  IInv'
  <2>1. Checked'
    BY <1>6, CallsShrink DEF Refuse
  <2> QED  BY <1>6, <2>1, Frame DEF Refuse
<1>7. ASSUME NEW c \in calls, Begin(c)
      PROVE  IInv'
  BY <1>7, BeginInv
<1>8. ASSUME NEW c \in calls, MergeSucceeds(c)
      PROVE  IInv'
  BY <1>8, CommitInv DEF MergeSucceeds
<1>9. ASSUME NEW c \in calls, CallBreaks(c)
      PROVE  IInv'
  <2>1. calls' = calls /\ table' = table
    BY <1>9 DEF CallBreaks
  <2>2. Checked'
    BY <2>1 DEF IInv, Checked
  <2> QED  BY <1>9, <2>1, <2>2, Frame DEF CallBreaks
<1>10. ASSUME NEW c \in calls, CallLost(c)
       PROVE  IInv'
  <2>1. Checked'
    BY <1>10, CallsShrink DEF CallLost
  <2> QED  BY <1>10, <2>1, Frame DEF CallLost
<1>11. ASSUME NEW c \in calls, MergeFails(c)
       PROVE  IInv'
  <2>1. UNCHANGED <<table, overtaken>>
    BY <1>11 DEF MergeFails, DdlRT, IInv, Shape
  <2>2. Checked'
    BY <1>11, <2>1, CallsShrink DEF MergeFails
  <2> QED  BY <1>11, <2>1, <2>2, Frame DEF MergeFails
<1>12. ASSUME NEW sid \in DOMAIN table, AskDelete(sid)
       PROVE  IInv'
  BY <1>12, AskDeleteInv
<1>13. ASSUME NEW d \in deletes, ReadBlocks(d)
       PROVE  IInv'
  BY <1>13, ReadBlocksInv
<1>14. ASSUME NEW d \in deletes, DeleteFiles(d)
       PROVE  IInv'
  BY <1>14, DeleteFilesInv
<1>15. ASSUME NEW d \in deletes, ReportDelete(d)
       PROVE  IInv'
  BY <1>15, ReportDeleteInv
<1>16. CASE UNCHANGED vars
  <2>1. Checked'
    BY <1>16 DEF vars, IInv, Checked
  <2> QED  BY <1>16, <2>1, Frame DEF vars
<1> QED
  BY <1>1, <1>2, <1>3, <1>4, <1>5, <1>6, <1>7, <1>8, <1>9, <1>10, <1>11, <1>12, <1>13,
     <1>14, <1>15, <1>16 DEF Next, Handle, CallFault

(***************************************************************************)
(* The inductive invariant, for any number of threads and any sharing.     *)
(***************************************************************************)
THEOREM DdlrtInv ==
    ASSUME \A m \in Modes : m.code = "DdlRT_LRC"
    PROVE  Spec => []IInv
<1>1. Init => IInv
  BY InitInv
<1>2. IInv /\ [Next]_vars => IInv'
  BY NextInv
<1> QED  BY <1>1, <1>2, PTL DEF Spec

-----------------------------------------------------------------------------
(***************************************************************************)
(* What the invariant says of the contents of the table.                   *)
(***************************************************************************)
LEMMA PartsAreSpans ==
    ASSUME IInv
    PROVE  /\ \A s \in DOMAIN table :
                /\ ToSet(table[s].parts) = Span(s)
                /\ Len(table[s].parts) = table[s].k /\ s \in Nat /\ table[s].k \in Nat
                /\ \A i \in 1..table[s].k : table[s].parts[i] = s + i - 1
           /\ Stored = UNION {Span(s) : s \in DOMAIN table}
<1>1. ASSUME NEW s \in DOMAIN table
      PROVE  /\ ToSet(table[s].parts) = Span(s)
             /\ Len(table[s].parts) = table[s].k /\ s \in Nat /\ table[s].k \in Nat
             /\ \A i \in 1..table[s].k : table[s].parts[i] = s + i - 1
  <2>1. s \in Nat /\ table[s].k \in Nat /\ table[s].parts = Run(s, table[s].k)
    BY DEF IInv, Shape, Runs
  <2>2. Len(table[s].parts) = table[s].k /\ ToSet(table[s].parts) = Span(s)
    BY <2>1, RunFacts DEF Span
  <2>3. \A i \in 1..table[s].k : table[s].parts[i] = s + i - 1
    BY <2>1 DEF Run
  <2> QED  BY <2>1, <2>2, <2>3
<1> QED  BY <1>1 DEF Stored

(***************************************************************************)
(* However rounds fail, overlap and are asked for again, the stripes of    *)
(* the table share no block, and none drops out but by a deletion.         *)
(***************************************************************************)
THEOREM StripesAlwaysConserved ==
    ASSUME \A m \in Modes : m.code = "DdlRT_LRC"
    PROVE  Spec => []StripesConserved
<1>1. IInv => StripesConserved
  <2> SUFFICES ASSUME IInv PROVE StripesConserved
    OBVIOUS
  <2>1. ASSUME NEW s \in DOMAIN table, NEW t \in DOMAIN table,
               NEW i \in 1..Len(table[s].parts), NEW j \in 1..Len(table[t].parts),
               table[s].parts[i] = table[t].parts[j]
        PROVE  s = t /\ i = j
    <3>1. /\ s \in Nat /\ t \in Nat /\ table[s].k \in Nat /\ table[t].k \in Nat
          /\ i \in 1..table[s].k /\ j \in 1..table[t].k
          /\ s + i - 1 = t + j - 1
      BY <2>1, PartsAreSpans
    <3>2. (s < t => s + table[s].k <= t) /\ (t < s => t + table[t].k <= s)
      BY DEF IInv, Apart
    <3> QED  BY <3>1, <3>2
  <2>2. (0..(nextId - 1)) \ Stored \subseteq excused \cup overtaken
    BY PartsAreSpans DEF IInv, Excused, Held
  <2> QED  BY <2>1, <2>2 DEF StripesConserved
<1> QED  BY <1>1, DdlrtInv, PTL

(***************************************************************************)
(* A deletion never leaves a stripe of the table without its files, but    *)
(* for the moment before its report and for merges that overtook it.       *)
(***************************************************************************)
THEOREM TableAlwaysHasBlocks ==
    ASSUME \A m \in Modes : m.code = "DdlRT_LRC"
    PROVE  Spec => []TableHasBlocks
<1>1. IInv => TableHasBlocks
  <2> SUFFICES ASSUME IInv, NEW u \in Stored \cap gone, u \notin overtaken
               PROVE  \E d \in deletes : d.at = "deleted" /\ u \in d.blocks
    BY DEF TableHasBlocks
  <2>1. Held(u)
    BY PartsAreSpans DEF Held
  <2> QED  BY <2>1 DEF IInv, Gone
<1> QED  BY <1>1, DdlrtInv, PTL

(***************************************************************************)
(* Every DdlRT_LRC stripe is a run of one batch, whatever holes failed     *)
(* uploads and deletions left: what DdlrtMerge's layout rests on.          *)
(***************************************************************************)
THEOREM AlwaysRunsOfBatch ==
    ASSUME \A m \in Modes : m.code = "DdlRT_LRC"
    PROVE  Spec => []RunsOfBatch
<1>1. IInv => RunsOfBatch
  BY DEF IInv, Runs, Run, RunsOfBatch
<1> QED  BY <1>1, DdlrtInv, PTL

-----------------------------------------------------------------------------
(***************************************************************************)
(* The client of MergeRounds, start_merge, alone: while it works           *)
(* alone and nothing fails, it knows where every pair of its round is, so  *)
(* a round that ends without a failure has merged all of them; and, for    *)
(* DdlRT_LRC, every variable stays in its range.                           *)
(*                                                                         *)
(* The client alone counts on three things: the ids it lists are distinct  *)
(* and ascending, so no two requests share a stripe; it waits for every    *)
(* call of a batch before the next, so the requests it has not heard of    *)
(* are those of the last batch; and a merged stripe's id is one of the two *)
(* that left the table, or, for RS, one that no later pair uses.  The last *)
(* needs the threads to be one for RS: with more, the target of a pair may *)
(* be a stripe another thread has still to merge.                          *)
(***************************************************************************)
Unmerged(p) == p >= next \/ \E c \in calls : c.a = ids[2 * p + 1]
Done        == {p \in 0..(Pairs - 1) : ~Unmerged(p)}

(***************************************************************************)
(* The pairs of an RS client of one thread are merged in order.            *)
(***************************************************************************)
Merged == IF calls = {} THEN next ELSE next - 1

IdsAscend ==
    /\ ids \in Seq(Nat) /\ next \in Nat
    /\ \A i, j \in 1..Len(ids) : i < j => ids[i] < ids[j]
    /\ \A i \in 1..Len(ids) : ids[i] >= i - 1

CallsOfRound ==
    /\ \A c \in calls : \E p \in 0..(Pairs - 1) :
          /\ p < next /\ c.a = ids[2 * p + 1] /\ c.b = ids[2 * p + 2] /\ c.to = Target(p)
          /\ <<c.try, c.a>> \in await
    /\ \A c, e \in calls : c.a = e.a => c = e

PairsLeft ==
    /\ \A p \in (0..(Pairs - 1)) \ Done : {ids[2 * p + 1], ids[2 * p + 2]} \subseteq DOMAIN table
    /\ Cardinality(DOMAIN table) + Cardinality(Done) = Len(ids)

TargetsFree ==
    mode.code = "RS" =>
        /\ \A c \in calls : c.to = next - 1
        /\ \A s \in DOMAIN table :
              s < Merged \/ \E j \in (2 * Merged + 1)..Len(ids) : s = ids[j]

Going == IdsAscend /\ CallsOfRound /\ PairsLeft /\ TargetsFree

(***************************************************************************)
(* The inductive invariant of a client alone.                              *)
(***************************************************************************)
Alone ==
    /\ deletes = {} /\ round \in Nat /\ nextId \in Nat
    /\ DOMAIN table \subseteq Nat /\ IsFiniteSet(DOMAIN table)
    /\ round = 0 => await = {}
    /\ \A c \in calls :
          /\ c = [try |-> c.try, a |-> c.a, b |-> c.b, to |-> c.to,
                  round |-> c.round, at |-> c.at, k |-> c.k]
          /\ c.to \in Nat
    /\ round > 0 /\ ~stopped => Going

ClientInv == mode \in Modes /\ (~mode.shared => Alone)

OneThreadForRs == \A m \in Modes : m.code = "RS" => m.threads = 1

-----------------------------------------------------------------------------
(* The listing has every id once, in order. *)
LEMMA Listed ==
    ASSUME DOMAIN table \subseteq Nat, IsFiniteSet(DOMAIN table)
    PROVE  /\ Listing \in Seq(DOMAIN table) /\ Len(Listing) = Cardinality(DOMAIN table)
           /\ \A i, j \in 1..Len(Listing) : i < j => Listing[i] < Listing[j]
           /\ \A i \in 1..Len(Listing) : Listing[i] >= i - 1
           /\ \A sid \in DOMAIN table : \E i \in 1..Len(Listing) : sid = Listing[i]
BY SetInOrder DEF Listing

-----------------------------------------------------------------------------
(***************************************************************************)
(* The steps of the client.                                                *)
(***************************************************************************)

(* Alone, nothing goes on when the client starts. *)
LEMMA InitClient == Init => ClientInv
<1> SUFFICES ASSUME Init PROVE ClientInv
  OBVIOUS
<1>1. DOMAIN table = {} /\ IsFiniteSet({})
  BY FS_EmptySet DEF Init
<1> QED BY <1>1 DEF Init, ClientInv, Alone

(* The pairs of a round, and the numbers of their ids. *)
LEMMA PairFacts ==
    ASSUME IdsAscend
    PROVE  /\ Len(ids) \in Nat /\ Pairs \in Nat
           /\ \A p \in 0..(Pairs - 1) :
                 2 * p + 1 \in 1..Len(ids) /\ 2 * p + 2 \in 1..Len(ids)
           /\ \A i, j \in 1..Len(ids) : ids[i] = ids[j] => i = j
           /\ \A i \in 1..Len(ids) : ids[i] \in Nat
<1>1. Len(ids) \in Nat
  BY DEF IdsAscend
<1>2. Pairs \in Nat /\ 2 * Pairs <= Len(ids)
  BY <1>1 DEF Pairs
<1>3. \A i \in 1..Len(ids) : ids[i] \in Nat
  BY DEF IdsAscend
<1>4. ASSUME NEW i \in 1..Len(ids), NEW j \in 1..Len(ids), ids[i] = ids[j] PROVE i = j
  <2>1. (i < j => ids[i] < ids[j]) /\ (j < i => ids[j] < ids[i])
    BY DEF IdsAscend
  <2> QED BY <1>1, <1>3, <1>4, <2>1
<1>5. \A p \in 0..(Pairs - 1) :
         2 * p + 1 \in 1..Len(ids) /\ 2 * p + 2 \in 1..Len(ids)
  BY <1>1, <1>2
<1> QED BY <1>1, <1>2, <1>3, <1>4, <1>5

(* What a commit leaves in the table. *)
LEMMA CommitDomain ==
    ASSUME NEW c, Commit(c)
    PROVE  /\ c.a \in DOMAIN table /\ c.b \in DOMAIN table
           /\ DOMAIN table' = (DOMAIN table \ {c.a, c.b}) \cup {c.to}
BY DEF Commit

LEMMA CommitFinite ==
    ASSUME Alone, NEW c \in calls, Commit(c)
    PROVE  DOMAIN table' \subseteq Nat /\ IsFiniteSet(DOMAIN table')
<1>1. DOMAIN table \subseteq Nat /\ IsFiniteSet(DOMAIN table) /\ c.to \in Nat
  BY DEF Alone
<1> DEFINE R == DOMAIN table \ {c.a, c.b}
<1>2. R \subseteq DOMAIN table /\ DOMAIN table' = R \cup {c.to}
  BY CommitDomain
<1> HIDE DEF R
<1>3. IsFiniteSet(R)
  BY <1>1, <1>2, FS_Subset
<1>4. IsFiniteSet(R \cup {c.to})
  BY <1>3, FS_AddElement
<1> QED BY <1>1, <1>2, <1>4

(* A call that fails stops the round that waits for it. *)
LEMMA FailureStops ==
    ASSUME Alone, NEW c \in calls, Tell(c, FALSE)
    PROVE  ~(round' > 0 /\ ~stopped')
<1> SUFFICES ASSUME round > 0, ~stopped PROVE stopped'
  BY DEF Tell
<1>1. <<c.try, c.a>> \in await
  BY DEF Alone, Going, CallsOfRound
<1> QED BY <1>1 DEF Tell

LEMMA RoundStarts ==
    ASSUME Alone, ~mode.shared, StartRound
    PROVE  Alone'
<1>1. PICK rd \in 1..Rounds : StartMerge(rd)
  BY DEF StartRound
<1>2. /\ round' = rd /\ ids' = Listing /\ next' = 0 /\ calls = {} /\ await = {}
      /\ UNCHANGED <<mode, table, nextId, await, calls, deletes>>
  BY <1>1 DEF StartMerge, deleteVars, Alone
<1>3. /\ Listing \in Seq(DOMAIN table) /\ Len(Listing) = Cardinality(DOMAIN table)
      /\ \A i, j \in 1..Len(Listing) : i < j => Listing[i] < Listing[j]
      /\ \A i \in 1..Len(Listing) : Listing[i] >= i - 1
      /\ \A sid \in DOMAIN table : \E i \in 1..Len(Listing) : sid = Listing[i]
  BY Listed DEF Alone
<1>4. IdsAscend'
  <2>1. Listing \in Seq(Nat)
    BY <1>3 DEF Alone
  <2> QED BY <1>2, <1>3, <2>1 DEF IdsAscend
<1>5. Done' = {} /\ Cardinality({}) = 0
  <2>1. \A p \in 0..(Pairs' - 1) : p >= next'
    BY <1>2
  <2> QED BY <2>1, FS_EmptySet DEF Done, Unmerged
<1>6. CallsOfRound'
  BY <1>2 DEF CallsOfRound
<1>7. PairsLeft'
  <2>1. ASSUME NEW p \in 0..(Pairs' - 1)
        PROVE  {ids'[2 * p + 1], ids'[2 * p + 2]} \subseteq DOMAIN table'
    <3>1. Len(Listing) \in Nat /\ Pairs' = Len(Listing) \div 2
      BY <1>2, <1>3 DEF Pairs
    <3>2. 2 * p + 1 \in 1..Len(Listing) /\ 2 * p + 2 \in 1..Len(Listing)
      BY <3>1
    <3> QED BY <1>2, <1>3, <3>2
  <2>2. Cardinality(DOMAIN table') + 0 = Len(ids')
    <3>1. Len(Listing) \in Nat
      BY <1>3
    <3> QED BY <1>2, <1>3, <3>1
  <2> QED BY <1>5, <2>1, <2>2 DEF PairsLeft
<1>8. TargetsFree'
  <2>1. Merged' = 0
    BY <1>2 DEF Merged
  <2>2. 2 * 0 + 1 = 1
    OBVIOUS
  <2> QED BY <1>2, <1>3, <2>1, <2>2 DEF TargetsFree
<1>9. Going'
  BY <1>4, <1>6, <1>7, <1>8 DEF Going
<1>10. round' \in Nat
  BY <1>2, ConstantsAssumption
<1> QED BY <1>2, <1>9, <1>10 DEF Alone

(* The batch has what is left of the pairs, in order. *)
LEMMA BatchStarts ==
    ASSUME Alone, ~mode.shared, StartBatch,
           mode.threads \in Nat \ {0}, mode.code = "RS" => mode.threads = 1,
           mode.code \in {"DdlRT_LRC", "RS"}
    PROVE  Alone'
<1> DEFINE t == mode.threads
           batch == {p \in next..(next + t - 1) : p < Pairs}
<1>1. /\ round > 0 /\ await = {} /\ ~stopped /\ next < Pairs
      /\ calls' = calls \cup {Request(p) : p \in batch}
      /\ await' = {<<tries, Request(p).a>> : p \in batch}
      /\ next' = next + t
      /\ UNCHANGED <<mode, table, nextId, round, ids, stopped, deletes>>
  BY DEF StartBatch, deleteVars
<1>2. Going
  BY <1>1 DEF Alone
<1>3. calls = {}
  BY <1>1, <1>2 DEF Going, CallsOfRound
<1>4. /\ next \in Nat /\ t \in Nat \ {0} /\ IdsAscend /\ Pairs \in Nat /\ Len(ids) \in Nat
      /\ \A p \in 0..(Pairs - 1) :
            2 * p + 1 \in 1..Len(ids) /\ 2 * p + 2 \in 1..Len(ids)
      /\ \A i, j \in 1..Len(ids) : ids[i] = ids[j] => i = j
      /\ \A i \in 1..Len(ids) : ids[i] \in Nat
  BY <1>2, PairFacts DEF Going, IdsAscend
<1>5. \A p \in batch : p \in 0..(Pairs - 1) /\ p < next' /\ p >= next
  <2>1. next \in Nat /\ t \in Nat \ {0} /\ Pairs \in Nat /\ next' = next + t
    BY <1>1, <1>4
  <2>2. \A p \in batch : p \in next..(next + t - 1) /\ p < Pairs
    OBVIOUS
  <2> HIDE DEF batch, t
  <2> QED BY <2>1, <2>2
<1>6. \A p : /\ Request(p) = [try |-> tries, a |-> ids[2 * p + 1], b |-> ids[2 * p + 2],
                              to |-> Target(p), round |-> round, at |-> "asked", k |-> 0]
             /\ Request(p).try = tries /\ Request(p).a = ids[2 * p + 1]
             /\ Request(p).b = ids[2 * p + 2] /\ Request(p).to = Target(p)
             /\ Request(p) = [try |-> Request(p).try, a |-> Request(p).a,
                              b |-> Request(p).b, to |-> Request(p).to,
                              round |-> Request(p).round, at |-> Request(p).at,
                              k |-> Request(p).k]
  BY DEF Request
<1>7. Pairs' = Pairs /\ \A p : Target(p)' = Target(p)
  BY <1>1 DEF Pairs, Target, DdlRT
<1>8. \A c \in calls' : \E p \in batch : c = Request(p)
  BY <1>1, <1>3
<1> HIDE DEF batch, t
<1>9. IdsAscend'
  BY <1>1, <1>4 DEF IdsAscend
<1>10. CallsOfRound'
  <2>1. ASSUME NEW c \in calls'
        PROVE  \E p \in 0..(Pairs' - 1) :
                 /\ p < next' /\ c.a = ids'[2 * p + 1] /\ c.b = ids'[2 * p + 2]
                 /\ c.to = Target(p)' /\ <<c.try, c.a>> \in await'
    <3>1. PICK p \in batch : c = Request(p)
      BY <1>8
    <3>2. c.try = tries /\ c.a = ids[2 * p + 1] /\ c.b = ids[2 * p + 2] /\ c.to = Target(p)
      BY <1>6, <3>1
    <3>3. <<c.try, c.a>> \in await'
      BY <1>1, <1>6, <3>1
    <3> QED BY <1>1, <1>5, <1>7, <3>2, <3>3
  <2>2. ASSUME NEW c \in calls', NEW e \in calls', c.a = e.a PROVE c = e
    <3>1. PICK p \in batch : c = Request(p)
      BY <1>8
    <3>2. PICK q \in batch : e = Request(q)
      BY <1>8
    <3>3. ids[2 * p + 1] = ids[2 * q + 1]
      BY <1>6, <2>2, <3>1, <3>2
    <3>4. 2 * p + 1 = 2 * q + 1
      BY <1>4, <1>5, <3>3
    <3>5. p = q
      BY <1>5, <3>4
    <3> QED BY <3>1, <3>2, <3>5
  <2> QED BY <2>1, <2>2 DEF CallsOfRound
<1>11. Done' = Done
  <2> SUFFICES ASSUME NEW p \in 0..(Pairs - 1) PROVE Unmerged(p)' <=> Unmerged(p)
    BY <1>7 DEF Done
  <2>1. Unmerged(p) <=> p >= next
    BY <1>3 DEF Unmerged
  <2>2. Unmerged(p)' <=> p >= next' \/ \E c \in calls' : c.a = ids[2 * p + 1]
    BY <1>1 DEF Unmerged
  <2>3. CASE p >= next
    <3>1. CASE p < next + t
      <4>1. p \in batch
        BY <1>4, <2>3, <3>1 DEF batch, t
      <4>2. Request(p) \in calls' /\ Request(p).a = ids[2 * p + 1]
        BY <1>1, <1>6, <4>1
      <4> QED BY <2>1, <2>2, <2>3, <4>2
    <3>2. CASE ~(p < next + t)
      BY <1>1, <1>4, <2>1, <2>2, <2>3, <3>2
    <3> QED BY <3>1, <3>2
  <2>4. CASE ~(p >= next)
    <3>1. ASSUME NEW c \in calls', c.a = ids[2 * p + 1] PROVE FALSE
      <4>1. PICK q \in batch : c = Request(q)
        BY <1>8
      <4>2. ids[2 * q + 1] = ids[2 * p + 1]
        BY <1>6, <3>1, <4>1
      <4>3. 2 * q + 1 = 2 * p + 1
        BY <1>4, <1>5, <4>2
      <4> QED BY <1>4, <1>5, <2>4, <4>3
    <3>2. ~(p >= next')
      BY <1>1, <1>4, <2>4
    <3> QED BY <2>1, <2>2, <2>4, <3>1, <3>2
  <2> QED BY <2>3, <2>4
<1>12. PairsLeft'
  BY <1>1, <1>2, <1>7, <1>11 DEF Going, PairsLeft
<1>13. TargetsFree'
  <2> SUFFICES ASSUME mode.code = "RS" PROVE TargetsFree'
    BY <1>1 DEF TargetsFree
  <2>1. next' = next + 1 /\ batch = {next}
    BY <1>1, <1>4 DEF batch, t
  <2>2. calls' = {Request(next)} /\ Request(next).to = next
    BY <1>1, <1>3, <1>6, <2>1 DEF Target, DdlRT
  <2>3. Merged' = next /\ Merged = next /\ next' - 1 = next
    BY <1>3, <1>4, <2>1, <2>2 DEF Merged
  <2> QED BY <1>1, <1>2, <2>2, <2>3 DEF Going, TargetsFree
<1>14. Going'
  BY <1>9, <1>10, <1>12, <1>13 DEF Going
<1>15. ASSUME NEW c \in calls'
       PROVE  /\ c = [try |-> c.try, a |-> c.a, b |-> c.b, to |-> c.to,
                      round |-> c.round, at |-> c.at, k |-> c.k]
              /\ c.to \in Nat
  <2>1. PICK p \in batch : c = Request(p)
    BY <1>8
  <2>2. p \in 0..(Pairs - 1) /\ p \in Nat
    BY <1>5
  <2>3. Target(p) \in Nat
    BY <1>4, <2>2 DEF Target
  <2> QED BY <1>6, <2>1, <2>3
<1>16. round # 0
  BY <1>1 DEF Alone
<1> QED BY <1>1, <1>14, <1>15, <1>16 DEF Alone

(* A call that begins is still the same pair's. *)
LEMMA CallBegins ==
    ASSUME Alone, NEW c \in calls, Begin(c)
    PROVE  Alone'
<1> DEFINE d == [c EXCEPT !.at = "working", !.k = table[c.a].k]
<1>1. /\ calls' = (calls \ {c}) \cup {d}
      /\ UNCHANGED <<mode, table, nextId, round, ids, next, stopped, tries, await, deletes>>
  BY DEF Begin, clientVars, deleteVars
<1>2. c = [try |-> c.try, a |-> c.a, b |-> c.b, to |-> c.to,
           round |-> c.round, at |-> c.at, k |-> c.k] /\ c.to \in Nat
  BY DEF Alone
<1>3. /\ d = [try |-> d.try, a |-> d.a, b |-> d.b, to |-> d.to,
              round |-> d.round, at |-> d.at, k |-> d.k]
      /\ d.try = c.try /\ d.a = c.a /\ d.b = c.b /\ d.to = c.to
  <2> DEFINE q == table[c.a].k
  <2> HIDE DEF d, q
  <2>1. d = [c EXCEPT !.at = "working", !.k = q]
    BY DEF d, q
  <2> QED BY <1>2, <2>1, WorkingRecord
<1> HIDE DEF d
<1>4. ASSUME Going PROVE Going'
  <2>1. IdsAscend'
    BY <1>1, <1>4 DEF Going, IdsAscend
  <2>2. Pairs' = Pairs /\ \A p : Target(p)' = Target(p)
    BY <1>1 DEF Pairs, Target, DdlRT
  <2>3. CallsOfRound'
    BY <1>1, <1>3, <1>4, <2>2 DEF Going, CallsOfRound
  <2>4. \A p : Unmerged(p)' <=> Unmerged(p)
    BY <1>1, <1>3 DEF Unmerged
  <2>5. Done' = Done
    BY <2>2, <2>4 DEF Done
  <2>6. PairsLeft'
    BY <1>1, <1>4, <2>2, <2>5 DEF Going, PairsLeft
  <2>7. calls # {} /\ calls' # {} /\ Merged' = Merged
    BY <1>1 DEF Merged
  <2>8. TargetsFree'
    BY <1>1, <1>3, <1>4, <2>7 DEF Going, TargetsFree
  <2> QED BY <2>1, <2>3, <2>6, <2>8 DEF Going
<1> QED BY <1>1, <1>2, <1>3, <1>4 DEF Alone

(* A merge takes two ids from the table and puts one in, that no other     *)
(* stripe has.                                                             *)
LEMMA PairMerges ==
    ASSUME Alone, Going, mode.code \in {"DdlRT_LRC", "RS"},
           NEW c \in calls, Commit(c), calls' = calls \ {c}, Tell(c, TRUE),
           UNCHANGED mode
    PROVE  Going'
<1>1. /\ await' = await \ {<<c.try, c.a>>}
      /\ UNCHANGED <<round, ids, next, tries>>
  BY DEF Tell
<1>2. PICK p \in 0..(Pairs - 1) :
          /\ p < next /\ c.a = ids[2 * p + 1] /\ c.b = ids[2 * p + 2] /\ c.to = Target(p)
          /\ <<c.try, c.a>> \in await
  BY DEF Going, CallsOfRound
<1>3. /\ next \in Nat /\ IdsAscend /\ Pairs \in Nat /\ Len(ids) \in Nat
      /\ \A q \in 0..(Pairs - 1) :
            2 * q + 1 \in 1..Len(ids) /\ 2 * q + 2 \in 1..Len(ids)
      /\ \A i, j \in 1..Len(ids) : ids[i] = ids[j] => i = j
      /\ \A i \in 1..Len(ids) : ids[i] \in Nat
  BY PairFacts DEF Going, IdsAscend
<1>4. Pairs' = Pairs /\ \A q : Target(q)' = Target(q)
  BY <1>1 DEF Pairs, Target, DdlRT
<1>5. IdsAscend'
  BY <1>1, <1>3 DEF IdsAscend
<1>6. CallsOfRound'
  <2>1. ASSUME NEW e \in calls'
        PROVE  \E q \in 0..(Pairs' - 1) :
                 /\ q < next' /\ e.a = ids'[2 * q + 1] /\ e.b = ids'[2 * q + 2]
                 /\ e.to = Target(q)' /\ <<e.try, e.a>> \in await'
    <3>1. PICK q \in 0..(Pairs - 1) :
            /\ q < next /\ e.a = ids[2 * q + 1] /\ e.b = ids[2 * q + 2] /\ e.to = Target(q)
            /\ <<e.try, e.a>> \in await
      BY DEF Going, CallsOfRound
    <3>2. e.a # c.a
      BY DEF Going, CallsOfRound
    <3>3. <<e.try, e.a>> \in await'
      BY <1>1, <3>1, <3>2
    <3> QED BY <1>1, <1>4, <3>1, <3>3
  <2>2. \A e, f \in calls' : e.a = f.a => e = f
    BY DEF Going, CallsOfRound
  <2> QED BY <2>1, <2>2 DEF CallsOfRound
<1>7. p \notin Done /\ Done' = Done \cup {p}
  <2>1. p \notin Done
    BY <1>2 DEF Done, Unmerged
  <2>2. ASSUME NEW q \in 0..(Pairs - 1) PROVE Unmerged(q)' <=> Unmerged(q) /\ q # p
    <3>1. Unmerged(q)' <=> q >= next \/ \E e \in calls \ {c} : e.a = ids[2 * q + 1]
      BY <1>1 DEF Unmerged
    <3>2. ASSUME q = p PROVE ~Unmerged(q)'
      <4>1. \A e \in calls \ {c} : e.a # ids[2 * q + 1]
        BY <1>2, <3>2 DEF Going, CallsOfRound
      <4> QED BY <1>2, <1>3, <3>1, <3>2, <4>1
    <3>3. ASSUME q # p PROVE c.a # ids[2 * q + 1]
      BY <1>2, <1>3, <3>3
    <3> QED BY <3>1, <3>2, <3>3 DEF Unmerged
  <2> QED BY <1>2, <1>4, <2>1, <2>2 DEF Done
<1>8. c.a \in DOMAIN table /\ c.b \in DOMAIN table /\ c.a # c.b
      /\ DOMAIN table' = (DOMAIN table \ {c.a, c.b}) \cup {c.to}
  <2>1. 2 * p + 1 # 2 * p + 2
    BY <1>3
  <2> QED BY <1>2, <1>3, <2>1, CommitDomain
<1>9. /\ mode.code = "RS" => c.to = p /\ p + 1 = next /\ calls = {c}
      /\ mode.code # "RS" => c.to = c.a
  <2>1. ASSUME mode.code = "RS" PROVE c.to = p /\ p + 1 = next
    BY <1>2, <1>3, <2>1 DEF Going, TargetsFree, Target, DdlRT
  <2>2. ASSUME mode.code = "RS", NEW e \in calls PROVE e = c
    <3>1. PICK q \in 0..(Pairs - 1) :
            e.a = ids[2 * q + 1] /\ e.to = Target(q)
      BY DEF Going, CallsOfRound
    <3>2. q = p
      BY <1>2, <2>2, <3>1 DEF Going, TargetsFree, Target, DdlRT
    <3> QED BY <1>2, <3>1, <3>2 DEF Going, CallsOfRound
  <2>3. ASSUME mode.code # "RS" PROVE c.to = c.a
    BY <1>2, <2>3 DEF Target, DdlRT
  <2> QED BY <2>1, <2>2, <2>3
<1>10. ASSUME mode.code = "RS"
       PROVE  \A s \in DOMAIN table \ {c.a, c.b} :
                 s < p \/ \E j \in (2 * p + 3)..Len(ids) : s = ids[j]
  <2> TAKE s \in DOMAIN table \ {c.a, c.b}
  <2>1. Merged = p
    BY <1>3, <1>9, <1>10 DEF Merged
  <2>2. s < p \/ \E j \in (2 * p + 1)..Len(ids) : s = ids[j]
    BY <1>10, <2>1 DEF Going, TargetsFree
  <2>3. ASSUME NEW j \in (2 * p + 1)..Len(ids), s = ids[j]
        PROVE  j \in (2 * p + 3)..Len(ids)
    <3>1. j # 2 * p + 1 /\ j # 2 * p + 2
      BY <1>2, <2>3
    <3> QED BY <1>3, <3>1
  <2> QED BY <2>2, <2>3
<1>11. c.to \notin DOMAIN table \ {c.a, c.b}
  <2>1. CASE mode.code # "RS"
    BY <1>9, <2>1
  <2>2. CASE mode.code = "RS"
    <3> SUFFICES ASSUME p \in DOMAIN table \ {c.a, c.b} PROVE FALSE
      BY <1>9, <2>2
    <3>1. PICK j \in (2 * p + 3)..Len(ids) : p = ids[j]
      BY <1>3, <1>10, <2>2
    <3>2. j \in 1..Len(ids) /\ ids[j] >= j - 1 /\ ids[j] \in Nat
      BY <1>3, <3>1 DEF IdsAscend
    <3> QED BY <1>3, <3>1, <3>2
  <2> QED BY <2>1, <2>2
<1>12. PairsLeft'
  <2>1. ASSUME NEW q \in (0..(Pairs - 1)) \ Done'
        PROVE  {ids[2 * q + 1], ids[2 * q + 2]} \subseteq DOMAIN table'
    <3>1. q \in (0..(Pairs - 1)) \ Done /\ q # p
      BY <1>7
    <3>2. {ids[2 * q + 1], ids[2 * q + 2]} \subseteq DOMAIN table
      BY <3>1 DEF Going, PairsLeft
    <3>3. 2 * q + 1 # 2 * p + 1 /\ 2 * q + 1 # 2 * p + 2
          /\ 2 * q + 2 # 2 * p + 1 /\ 2 * q + 2 # 2 * p + 2
      BY <1>3, <3>1
    <3>4. {ids[2 * q + 1], ids[2 * q + 2]} \cap {c.a, c.b} = {}
      <4>1. /\ ids[2 * q + 1] # ids[2 * p + 1] /\ ids[2 * q + 1] # ids[2 * p + 2]
            /\ ids[2 * q + 2] # ids[2 * p + 1] /\ ids[2 * q + 2] # ids[2 * p + 2]
        BY <1>3, <3>1, <3>3
      <4> QED BY <1>2, <4>1
    <3> QED BY <1>8, <3>2, <3>4
  <2>2. Cardinality(DOMAIN table') + Cardinality(Done') = Len(ids')
    <3> DEFINE D == DOMAIN table
               one == D \ {c.a}
               none == D \ {c.a, c.b}
    <3>1. IsFiniteSet(D) /\ Cardinality(D) \in Nat
      BY FS_CardinalityType DEF Alone
    <3>2. IsFiniteSet(one) /\ Cardinality(one) = Cardinality(D) - 1
      <4>1. c.a \in D
        BY <1>8
      <4> HIDE DEF D
      <4> QED BY <3>1, <4>1, FS_RemoveElement
    <3>3. none = one \ {c.b} /\ c.b \in one
      BY <1>8
    <3>4. IsFiniteSet(none) /\ Cardinality(none) = Cardinality(one) - 1
      <4> HIDE DEF one, none
      <4> QED BY <3>2, <3>3, FS_RemoveElement
    <3>5. DOMAIN table' = none \cup {c.to} /\ c.to \notin none
      BY <1>8, <1>11
    <3>6. Cardinality(DOMAIN table') = Cardinality(none) + 1
      <4> HIDE DEF none
      <4> QED BY <3>4, <3>5, FS_AddElement
    <3>7. IsFiniteSet(Done)
      <4>1. Done \subseteq 0..(Pairs - 1) /\ IsFiniteSet(0..(Pairs - 1))
        BY <1>3, FS_Interval DEF Done
      <4> QED BY <4>1, FS_Subset
    <3>8. Cardinality(Done') = Cardinality(Done) + 1 /\ Cardinality(Done) \in Nat
      BY <1>7, <3>7, FS_AddElement, FS_CardinalityType
    <3>9. Cardinality(D) + Cardinality(Done) = Len(ids)
      BY DEF Going, PairsLeft
    <3> HIDE DEF D, one, none
    <3> QED BY <1>1, <3>1, <3>2, <3>4, <3>6, <3>8, <3>9
  <2> QED BY <1>1, <1>4, <2>1, <2>2 DEF PairsLeft
<1>13. TargetsFree'
  <2> SUFFICES ASSUME mode.code = "RS" PROVE TargetsFree'
    BY DEF TargetsFree
  <2>1. calls' = {} /\ Merged' = p + 1
    BY <1>1, <1>9 DEF Merged
  <2>2. ASSUME NEW s \in DOMAIN table'
        PROVE  s < p + 1 \/ \E j \in (2 * (p + 1) + 1)..Len(ids) : s = ids[j]
    <3>1. s = p \/ s \in DOMAIN table \ {c.a, c.b}
      BY <1>8, <1>9, <2>2
    <3>2. 2 * (p + 1) + 1 = 2 * p + 3 /\ p < p + 1
      BY <1>3
    <3>3. ASSUME s < p, s \in DOMAIN table PROVE s < p + 1
      BY <1>3, <3>3 DEF Alone
    <3> QED BY <1>10, <3>1, <3>2, <3>3
  <2> QED BY <1>1, <2>1, <2>2 DEF TargetsFree
<1> QED BY <1>5, <1>6, <1>12, <1>13 DEF Going

-----------------------------------------------------------------------------
(***************************************************************************)
(* Every step.                                                             *)
(***************************************************************************)
LEMMA ModeFacts ==
    ASSUME OneThreadForRs, mode \in Modes
    PROVE  /\ mode.threads \in Nat \ {0} /\ mode.code \in {"DdlRT_LRC", "RS"}
           /\ mode.code = "RS" => mode.threads = 1
BY ConstantsAssumption DEF OneThreadForRs

(* A call that ends without a merge, or after one that failed. *)
LEMMA CallFails ==
    ASSUME Alone, NEW c \in calls, calls' \subseteq calls, Tell(c, FALSE),
           DOMAIN table' \subseteq Nat, IsFiniteSet(DOMAIN table'),
           UNCHANGED <<nextId, deletes>>
    PROVE  Alone'
<1>1. ~(round' > 0 /\ ~stopped')
  BY FailureStops
<1>2. round' = round /\ await' \subseteq await
  BY DEF Tell
<1> QED BY <1>1, <1>2 DEF Alone

LEMMA NextClient ==
    ASSUME OneThreadForRs, ClientInv, [Next]_vars
    PROVE  ClientInv'
<1> USE DEF deleteVars, lossVars, clientVars
<1>1. mode' = mode
  BY DEF Next, vars, SetStripe, SetFails, StartRound, StartMerge, StartBatch, EndRound,
         Handle, Refuse, Begin, MergeSucceeds, CallFault, CallBreaks, CallLost, MergeFails,
         AskDelete, ReadBlocks, DeleteFiles, ReportDelete
<1> SUFFICES ASSUME ~mode.shared PROVE Alone'
  BY <1>1 DEF ClientInv
<1>2. /\ Alone /\ mode \in Modes /\ mode.threads \in Nat \ {0}
      /\ mode.code \in {"DdlRT_LRC", "RS"} /\ (mode.code = "RS" => mode.threads = 1)
  BY ModeFacts DEF ClientInv
<1>3. CASE SetStripe
  <2>1. /\ DOMAIN table' = DOMAIN table \cup {nextId} /\ nextId' = nextId + 1
        /\ round = 0 /\ UNCHANGED <<round, await, calls, deletes>>
    BY <1>3 DEF SetStripe, MayUpload
  <2>2. IsFiniteSet(DOMAIN table \cup {nextId})
    BY <1>2, FS_AddElement DEF Alone
  <2> QED BY <1>2, <2>1, <2>2 DEF Alone
<1>4. CASE SetFails
  <2>1. /\ nextId' = nextId + 1
        /\ round = 0 /\ UNCHANGED <<table, round, await, calls, deletes>>
    BY <1>4 DEF SetFails, MayUpload
  <2> QED BY <1>2, <2>1 DEF Alone
<1>5. CASE StartRound
  BY <1>2, <1>5, RoundStarts
<1>6. CASE StartBatch
  BY <1>2, <1>6, BatchStarts
<1>7. CASE EndRound
  <2>1. round' = 0 /\ await = {} /\ UNCHANGED <<table, nextId, await, calls, deletes>>
    BY <1>7 DEF EndRound
  <2> QED BY <1>2, <2>1 DEF Alone
<1>8. ASSUME NEW c \in calls, Refuse(c) PROVE Alone'
  <2>1. calls' \subseteq calls /\ Tell(c, FALSE) /\ UNCHANGED <<table, nextId, deletes>>
    BY <1>8 DEF Refuse
  <2>2. DOMAIN table' \subseteq Nat /\ IsFiniteSet(DOMAIN table')
    BY <1>2, <2>1 DEF Alone
  <2> QED BY <1>2, <1>8, <2>1, <2>2, CallFails
<1>9. ASSUME NEW c \in calls, Begin(c) PROVE Alone'
  BY <1>2, <1>9, CallBegins
<1>10. ASSUME NEW c \in calls, MergeSucceeds(c) PROVE Alone'
  <2>1. /\ Commit(c) /\ calls' = calls \ {c} /\ Tell(c, TRUE)
        /\ UNCHANGED <<mode, nextId, deletes>>
    BY <1>10 DEF MergeSucceeds
  <2>2. DOMAIN table' \subseteq Nat /\ IsFiniteSet(DOMAIN table')
    BY <1>2, <1>10, <2>1, CommitFinite
  <2>3. /\ round' = round /\ await' \subseteq await
        /\ stopped \in BOOLEAN => stopped' = stopped
        /\ ~stopped' => ~stopped
    BY <2>1 DEF Tell
  <2>4. round > 0 /\ ~stopped => Going'
    <3> SUFFICES ASSUME round > 0, ~stopped PROVE Going'
      OBVIOUS
    <3>1. Going
      BY <1>2 DEF Alone
    <3> QED BY <1>2, <1>10, <2>1, <3>1, PairMerges
  <2> QED BY <1>2, <2>1, <2>2, <2>3, <2>4 DEF Alone
<1>11. ASSUME NEW c \in calls, CallBreaks(c) PROVE Alone'
  <2>1. calls' = calls /\ Tell(c, FALSE) /\ UNCHANGED <<table, nextId, deletes>>
    BY <1>11 DEF CallBreaks
  <2>2. DOMAIN table' \subseteq Nat /\ IsFiniteSet(DOMAIN table') /\ calls' \subseteq calls
    BY <1>2, <2>1 DEF Alone
  <2> QED BY <1>2, <1>11, <2>1, <2>2, CallFails
<1>12. ASSUME NEW c \in calls, CallLost(c) PROVE Alone'
  <2>1. calls' \subseteq calls /\ Tell(c, FALSE) /\ UNCHANGED <<table, nextId, deletes>>
    BY <1>12 DEF CallLost
  <2>2. DOMAIN table' \subseteq Nat /\ IsFiniteSet(DOMAIN table')
    BY <1>2, <2>1 DEF Alone
  <2> QED BY <1>2, <1>12, <2>1, <2>2, CallFails
<1>13. ASSUME NEW c \in calls, MergeFails(c) PROVE Alone'
  <2>1. calls' \subseteq calls /\ Tell(c, FALSE) /\ UNCHANGED <<nextId, deletes>>
    BY <1>13 DEF MergeFails
  <2>2. DOMAIN table' \subseteq Nat /\ IsFiniteSet(DOMAIN table')
    <3>1. CASE table' = table
      BY <1>2, <3>1 DEF Alone
    <3>2. CASE Commit(c)
      BY <1>2, <1>13, <3>2, CommitFinite
    <3> QED BY <1>13, <3>1, <3>2 DEF MergeFails
  <2> QED BY <1>2, <1>13, <2>1, <2>2, CallFails
<1>14. \A sid : ~AskDelete(sid)
  BY DEF AskDelete
<1>15. deletes = {}
  BY <1>2 DEF Alone
<1>16. CASE UNCHANGED vars
  <2>1. UNCHANGED <<mode, table, nextId, round, ids, next, stopped, tries, await, calls, deletes>>
    BY <1>16 DEF vars
  <2>2. Going' <=> Going
    BY <2>1 DEF Going, IdsAscend, CallsOfRound, PairsLeft, TargetsFree, Done, Unmerged,
                Pairs, Merged, Target, DdlRT
  <2> QED BY <1>2, <2>1, <2>2 DEF Alone
<1> QED
  BY <1>3, <1>4, <1>5, <1>6, <1>7, <1>8, <1>9, <1>10, <1>11, <1>12, <1>13, <1>14, <1>15,
     <1>16 DEF Next, Handle, CallFault

(***************************************************************************)
(* What a client alone knows of its round, for any number of threads for   *)
(* DdlRT_LRC and one for RS.                                               *)
(***************************************************************************)
THEOREM ClientKnows == OneThreadForRs => (Spec => []ClientInv)
<1>1. Init => ClientInv
  BY InitClient
<1>2. OneThreadForRs /\ ClientInv /\ [Next]_vars => ClientInv'
  BY NextClient
<1> QED
  <2> SUFFICES ASSUME OneThreadForRs PROVE Spec => []ClientInv
    OBVIOUS
  <2>1. ClientInv /\ [Next]_vars => ClientInv'
    BY <1>2
  <2> QED BY <1>1, <2>1, PTL DEF Spec

(***************************************************************************)
(* A round that a client alone ends without having heard of a failure has  *)
(* merged every pair it listed, whatever rounds before it left behind.     *)
(***************************************************************************)
LEMMA EndIsFull ==
    ASSUME OneThreadForRs, ClientInv, [Next]_vars,
           round > 0, round' = 0, ~stopped, ~mode.shared
    PROVE  Cardinality(DOMAIN table) = Len(ids) - Pairs
<1> USE DEF deleteVars, lossVars, clientVars
<1>1. Alone /\ Going /\ round # 0
  BY DEF ClientInv, Alone
<1>2. EndRound
  <2>1. ~SetStripe /\ ~SetFails
    BY DEF SetStripe, SetFails, MayUpload, Alone
  <2>2. ~StartRound /\ ~StartBatch
    BY <1>1 DEF StartRound, StartMerge, StartBatch
  <2>3. ~\E c \in calls : Handle(c) \/ CallFault(c)
    BY <1>1 DEF Handle, CallFault, Refuse, Begin, MergeSucceeds, CallBreaks, CallLost,
                MergeFails, Tell
  <2>4. ~(\E sid \in DOMAIN table : AskDelete(sid))
        /\ ~(\E d \in deletes : ReadBlocks(d) \/ DeleteFiles(d) \/ ReportDelete(d))
    BY <1>1 DEF AskDelete, Alone
  <2>5. ~UNCHANGED vars
    BY <1>1 DEF vars
  <2> QED BY <2>1, <2>2, <2>3, <2>4, <2>5 DEF Next
<1>3. await = {} /\ next >= Pairs
  BY <1>2 DEF EndRound
<1>4. calls = {}
  BY <1>1, <1>3 DEF Going, CallsOfRound
<1>5. Pairs \in Nat /\ Len(ids) \in Nat /\ next \in Nat
  BY <1>1, PairFacts DEF Going, IdsAscend
<1>6. Done = 0..(Pairs - 1)
  BY <1>3, <1>4, <1>5 DEF Done, Unmerged
<1>7. Cardinality(0..(Pairs - 1)) = Pairs
  <2>1. Cardinality(0..(Pairs - 1)) = IF 0 > Pairs - 1 THEN 0 ELSE (Pairs - 1) - 0 + 1
    BY <1>5, FS_Interval
  <2> QED BY <1>5, <2>1
<1>8. Cardinality(DOMAIN table) \in Nat
  BY <1>1, FS_CardinalityType DEF Alone
<1>9. Cardinality(DOMAIN table) + Cardinality(Done) = Len(ids)
  BY <1>1 DEF Going, PairsLeft
<1> QED BY <1>5, <1>6, <1>7, <1>8, <1>9

THEOREM RoundsAreFull == OneThreadForRs => (Spec => FullRound)
<1> SUFFICES ASSUME OneThreadForRs PROVE Spec => FullRound
  OBVIOUS
<1>1. Spec => []ClientInv
  BY ClientKnows
<1>2. ClientInv /\ [Next]_vars
        => [round > 0 /\ round' = 0 /\ ~stopped /\ ~mode.shared
              => Cardinality(DOMAIN table) = Len(ids) - Pairs]_vars
  BY EndIsFull
<1> QED BY <1>1, <1>2, PTL DEF Spec, FullRound

-----------------------------------------------------------------------------
(***************************************************************************)
(* Ranges, for DdlRT_LRC.  The table, what deletions hold and what is gone *)
(* have theirs by the inductive invariant; the rest needs the client.      *)
(***************************************************************************)
Ranges ==
    /\ mode \in Modes /\ nextId \in 0..StripeNum
    /\ round \in 0..Rounds /\ ids \in Seq(Uploads) /\ next \in Nat
    /\ stopped \in BOOLEAN /\ tries \in 0..MaxCalls
    /\ round > 0 => tries > 0
    /\ round = 0 => await = {}
    /\ await \subseteq {tries} \X ToSet(ids)
    /\ IsFiniteSet(await) /\ Cardinality(await) <= mode.threads
    /\ calls \subseteq CallType
    /\ \A d \in deletes : d.at \in {"asked", "read", "deleted"}
    /\ excused \subseteq Uploads /\ overtaken \subseteq Uploads
    /\ asked \in 0..MaxDeletes /\ faults \in 0..MaxFaults

(* What the table holds are uploads. *)
LEMMA TableRanges ==
    ASSUME IInv, nextId \in 0..StripeNum
    PROVE  /\ DOMAIN table \subseteq 0..(nextId - 1) /\ DOMAIN table \subseteq Uploads
           /\ \A sid \in DOMAIN table :
                 /\ table[sid].parts \in Seq(Uploads)
                 /\ ToSet(table[sid].parts) \subseteq Uploads
                 /\ table[sid].k = Len(table[sid].parts)
                 /\ table[sid].k \in 1..StripeNum
<1>1. StripeNum \in Nat /\ nextId \in Nat /\ nextId <= StripeNum
  BY ConstantsAssumption
<1>2. ASSUME NEW sid \in DOMAIN table
      PROVE  /\ sid \in 0..(nextId - 1) /\ sid \in Uploads
             /\ table[sid].parts \in Seq(Uploads)
             /\ ToSet(table[sid].parts) \subseteq Uploads
             /\ table[sid].k = Len(table[sid].parts)
             /\ table[sid].k \in 1..StripeNum
  <2> DEFINE k == table[sid].k
  <2>1. /\ sid \in Nat /\ k \in Nat /\ k > 0 /\ table[sid].parts = Run(sid, k)
        /\ sid + k <= nextId
    BY DEF IInv, Shape, Runs
  <2>2. Len(table[sid].parts) = k
    BY PartsAreSpans
  <2> HIDE DEF k
  <2>3. sid \in 0..(nextId - 1) /\ sid \in Uploads /\ k \in 1..StripeNum
    BY <1>1, <2>1 DEF Uploads
  <2>4. Run(sid, k) \in [1..k -> Uploads]
    <3>1. \A i \in 1..k : sid + i - 1 \in Uploads
      BY <1>1, <2>1 DEF Uploads
    <3> QED BY <3>1 DEF Run
  <2>5. Run(sid, k) \in Seq(Uploads)
    BY <2>1, <2>4
  <2>6. ToSet(Run(sid, k)) \subseteq Uploads
    <3>1. ToSet(Run(sid, k)) = sid..(sid + k - 1)
      BY <2>1, RunFacts
    <3> QED BY <1>1, <2>1, <3>1 DEF Uploads
  <2> QED BY <2>1, <2>2, <2>3, <2>5, <2>6 DEF k
<1> QED BY <1>2

LEMMA RangesAreTypes ==
    ASSUME IInv, Ranges
    PROVE  TypeOK
<1>1. StripeNum \in Nat /\ nextId \in Nat /\ nextId <= StripeNum
  BY ConstantsAssumption DEF Ranges
<1>2. 0..(nextId - 1) \subseteq Uploads
  BY <1>1 DEF Uploads
<1>3. deletes \subseteq [sid : Uploads, at : {"asked", "read", "deleted"},
                         blocks : SUBSET Uploads]
  <2> SUFFICES ASSUME NEW d \in deletes
               PROVE  d \in [sid : Uploads, at : {"asked", "read", "deleted"},
                             blocks : SUBSET Uploads]
    OBVIOUS
  <2>1. /\ d = [sid |-> d.sid, at |-> d.at, blocks |-> d.blocks]
        /\ d.sid \in 0..(nextId - 1) /\ d.blocks \subseteq 0..(nextId - 1)
    BY DEF IInv, Deletions
  <2>2. d.at \in {"asked", "read", "deleted"}
    BY DEF Ranges
  <2>3. d.sid \in Uploads /\ d.blocks \in SUBSET Uploads
    BY <1>2, <2>1
  <2> QED BY <2>1, <2>2, <2>3
<1>4. gone \subseteq Uploads
  BY <1>2 DEF IInv, Gone
<1>5. /\ DOMAIN table \subseteq 0..(nextId - 1)
      /\ \A sid \in DOMAIN table :
            /\ table[sid].parts \in Seq(Uploads) /\ table[sid].k = Len(table[sid].parts)
            /\ table[sid].k >= 1
  BY <1>1, TableRanges DEF Ranges
<1> QED BY <1>3, <1>4, <1>5 DEF TypeOK, Ranges

(* A batch has no more calls than threads. *)
LEMMA BatchSmall ==
    ASSUME NEW n \in Nat, NEW t \in Nat \ {0}, NEW P, NEW f,
           P \subseteq n..(n + t - 1)
    PROVE  IsFiniteSet({f[p] : p \in P}) /\ Cardinality({f[p] : p \in P}) <= t
<1> DEFINE g == [p \in P |-> f[p]]
           R == {f[p] : p \in P}
<1>1. n \in Int /\ n + t - 1 \in Int
  OBVIOUS
<1>2. IsFiniteSet(n..(n + t - 1)) /\ Cardinality(n..(n + t - 1)) = t
  <2>1. Cardinality(n..(n + t - 1)) = IF n > n + t - 1 THEN 0 ELSE (n + t - 1) - n + 1
    BY <1>1, FS_Interval
  <2> QED BY <1>1, <2>1, FS_Interval
<1>3. IsFiniteSet(P) /\ Cardinality(P) <= t
  <2>1. IsFiniteSet(P) /\ Cardinality(P) <= Cardinality(n..(n + t - 1))
    BY <1>2, FS_Subset
  <2> QED BY <1>2, <2>1
<1>4. g \in Surjection(P, R)
  BY DEF Surjection
<1> HIDE DEF g, R
<1>5. IsFiniteSet(R) /\ Cardinality(R) <= Cardinality(P)
  BY <1>3, <1>4, FS_Surjection
<1> QED BY <1>3, <1>5, FS_CardinalityType DEF R

(* What a thread does with its answer keeps the client in its ranges. *)
LEMMA TellRanges ==
    ASSUME Ranges, NEW c, NEW success \in BOOLEAN, Tell(c, success),
           calls' \subseteq CallType, UNCHANGED <<mode, nextId>>,
           \A d \in deletes' : d.at \in {"asked", "read", "deleted"},
           excused' \subseteq Uploads, overtaken' \subseteq Uploads,
           asked' \in 0..MaxDeletes, faults' \in 0..MaxFaults
    PROVE  Ranges'
<1>1. /\ await' = await \ {<<c.try, c.a>>} /\ UNCHANGED <<round, ids, next, tries>>
      /\ stopped' \in BOOLEAN
  BY DEF Tell, Ranges
<1>2. mode.threads \in Nat
  BY ConstantsAssumption DEF Ranges
<1>3. await' \subseteq await /\ IsFiniteSet(await) /\ Cardinality(await) <= mode.threads
  BY <1>1 DEF Ranges
<1>4. IsFiniteSet(await') /\ Cardinality(await') <= mode.threads
  <2>1. IsFiniteSet(await') /\ Cardinality(await') <= Cardinality(await)
    BY <1>3, FS_Subset
  <2>2. Cardinality(await') \in Nat /\ Cardinality(await) \in Nat
    BY <1>3, <2>1, FS_CardinalityType
  <2> QED BY <1>2, <1>3, <2>1, <2>2
<1>5. await' \subseteq {tries'} \X ToSet(ids')
  BY <1>1 DEF Ranges
<1>6. (round' > 0 => tries' > 0) /\ (round' = 0 => await' = {})
  BY <1>1 DEF Ranges
<1> QED BY <1>1, <1>4, <1>5, <1>6 DEF Ranges

LEMMA StartRanges ==
    ASSUME IInv, Ranges, StartRound
    PROVE  Ranges'
<1>1. PICK rd \in 1..Rounds : StartMerge(rd)
  BY DEF StartRound
<1>2. /\ round = 0 /\ tries < MaxCalls /\ round' = rd /\ ids' = Listing /\ next' = 0
      /\ stopped' = FALSE /\ tries' = tries + 1
      /\ UNCHANGED <<mode, nextId, await, calls, deletes, excused, overtaken, asked, faults>>
  BY <1>1 DEF StartMerge, deleteVars, lossVars
<1>3. DOMAIN table \subseteq 0..(nextId - 1) /\ DOMAIN table \subseteq Uploads
  BY TableRanges DEF Ranges
<1>4. DOMAIN table \subseteq Nat /\ IsFiniteSet(DOMAIN table)
  <2>1. IsFiniteSet(0..(nextId - 1))
    <3>1. 0 \in Int /\ nextId - 1 \in Int /\ nextId \in Nat
      BY DEF IInv, Shape
    <3> QED BY <3>1, FS_Interval
  <2>2. 0..(nextId - 1) \subseteq Nat
    BY DEF IInv, Shape
  <2>3. IsFiniteSet(DOMAIN table)
    BY <1>3, <2>1, FS_Subset
  <2> QED BY <1>3, <2>2, <2>3
<1>5. Listing \in Seq(Uploads)
  BY <1>3, <1>4, Listed
<1>6. rd \in 0..Rounds /\ tries + 1 \in 0..MaxCalls /\ tries + 1 > 0
  BY <1>2, ConstantsAssumption DEF Ranges
<1>7. await = {}
  BY <1>2 DEF Ranges
<1> QED BY <1>2, <1>5, <1>6, <1>7 DEF Ranges

LEMMA BatchRanges ==
    ASSUME IInv, Ranges, StartBatch
    PROVE  Ranges'
<1> DEFINE t == mode.threads
           batch == {p \in next..(next + t - 1) : p < Pairs}
           f == [p \in batch |-> <<tries, Request(p).a>>]
<1>1. /\ round > 0
      /\ calls' = calls \cup {Request(p) : p \in batch}
      /\ await' = {<<tries, Request(p).a>> : p \in batch}
      /\ next' = next + t
      /\ UNCHANGED <<mode, nextId, round, ids, stopped, tries, deletes, excused, overtaken,
                     asked, faults>>
  BY DEF StartBatch, deleteVars, lossVars
<1>2. /\ next \in Nat /\ t \in Nat \ {0} /\ Len(ids) \in Nat /\ ids \in Seq(Uploads)
      /\ StripeNum \in Nat /\ tries \in 0..MaxCalls /\ tries > 0 /\ round \in 1..Rounds
      /\ MaxCalls \in Nat /\ Rounds \in Nat
  BY <1>1, ConstantsAssumption DEF Ranges
<1>3. \A p \in batch : 2 * p + 1 \in 1..Len(ids) /\ 2 * p + 2 \in 1..Len(ids)
  BY <1>2 DEF Pairs
<1>4. ASSUME NEW p \in batch
      PROVE  /\ Request(p) \in CallType
             /\ Request(p).a \in ToSet(ids)
  <2>1. ids[2 * p + 1] \in Uploads /\ ids[2 * p + 2] \in Uploads
        /\ ids[2 * p + 1] \in ToSet(ids)
    BY <1>2, <1>3 DEF ToSet
  <2>2. Request(p) = [try |-> tries, a |-> ids[2 * p + 1], b |-> ids[2 * p + 2],
                      to |-> ids[2 * p + 1], round |-> round, at |-> "asked", k |-> 0]
    BY DEF Request, Target, DdlRT, IInv, Shape
  <2>3. tries \in 1..MaxCalls /\ 0 \in 0..StripeNum
    BY <1>2
  <2> QED BY <1>2, <2>1, <2>2, <2>3 DEF CallType
<1>5. calls' \subseteq CallType
  BY <1>1, <1>4 DEF Ranges
<1>6. await' \subseteq {tries'} \X ToSet(ids')
  BY <1>1, <1>4
<1>7. IsFiniteSet(await') /\ Cardinality(await') <= t
  <2>1. batch \subseteq next..(next + t - 1)
    OBVIOUS
  <2>2. await' = {f[p] : p \in batch}
    BY <1>1
  <2> HIDE DEF batch, f, t
  <2>3. IsFiniteSet({f[p] : p \in batch}) /\ Cardinality({f[p] : p \in batch}) <= t
    <3>1. next \in Nat /\ t \in Nat \ {0}
      BY <1>2
    <3> QED BY <2>1, <3>1, BatchSmall
  <2> QED BY <2>2, <2>3, Zenon
<1>8. round' # 0 /\ next' \in Nat
  BY <1>1, <1>2
<1> QED BY <1>1, <1>2, <1>5, <1>6, <1>7, <1>8 DEF Ranges

LEMMA NextRanges ==
    ASSUME IInv, IInv', Ranges, [Next]_vars
    PROVE  Ranges'
<1> USE DEF deleteVars, lossVars, clientVars
<1>0. /\ StripeNum \in Nat /\ MaxFaults \in Nat /\ MaxDeletes \in Nat
      /\ nextId \in 0..StripeNum /\ faults \in 0..MaxFaults /\ asked \in 0..MaxDeletes
      /\ mode.code = "DdlRT_LRC"
  BY ConstantsAssumption DEF Ranges, IInv, Shape
<1>1. CASE SetStripe
  <2>1. nextId' \in 0..StripeNum
    BY <1>0, <1>1 DEF SetStripe, MayUpload
  <2> QED BY <1>1, <2>1 DEF SetStripe, Ranges
<1>2. CASE SetFails
  <2>1. nextId' \in 0..StripeNum /\ nextId \in Uploads /\ faults' \in 0..MaxFaults
    BY <1>0, <1>2 DEF SetFails, MayUpload, Uploads
  <2> QED BY <1>2, <2>1 DEF SetFails, Ranges
<1>3. CASE StartRound
  BY <1>3, StartRanges
<1>4. CASE StartBatch
  BY <1>4, BatchRanges
<1>5. CASE EndRound
  <2>1. /\ round' = 0 /\ await = {}
        /\ UNCHANGED <<mode, nextId, ids, next, stopped, tries, await, calls, deletes,
                       excused, overtaken, asked, faults>>
    BY <1>5 DEF EndRound
  <2>2. 0 \in 0..Rounds
    BY ConstantsAssumption
  <2> QED BY <2>1, <2>2 DEF Ranges
<1>6. ASSUME NEW c \in calls, Refuse(c) PROVE Ranges'
  BY <1>6, TellRanges DEF Refuse, Ranges
<1>7. ASSUME NEW c \in calls, Begin(c) PROVE Ranges'
  <2> DEFINE d == [c EXCEPT !.at = "working", !.k = table[c.a].k]
  <2>1. c \in CallType /\ c.a \in DOMAIN table
    BY <1>7 DEF Ranges, Begin, Accepted
  <2>2. table[c.a].k \in 0..StripeNum
    BY <1>0, <2>1, TableRanges
  <2>3. d \in CallType
    BY <2>1, <2>2 DEF CallType
  <2> HIDE DEF d
  <2>4. calls' \subseteq CallType
    <3>1. calls' = (calls \ {c}) \cup {d}
      BY <1>7 DEF Begin, d
    <3> QED BY <2>3, <3>1 DEF Ranges
  <2> QED BY <1>7, <2>4 DEF Begin, Ranges
<1>8. ASSUME NEW c \in calls, MergeSucceeds(c) PROVE Ranges'
  <2>1. /\ c.at = "working" /\ Commit(c) /\ calls' = calls \ {c} /\ Tell(c, TRUE)
        /\ UNCHANGED <<mode, nextId, deletes, excused, asked, faults>>
    BY <1>8 DEF MergeSucceeds
  <2>2. /\ c.a \in DOMAIN table' /\ c.k \in Nat
        /\ table'[c.a].parts = Run(c.a, 2 * c.k) /\ table'[c.a].k = 2 * c.k
        /\ c.a # c.b
    <3>1. /\ c.a \in DOMAIN table /\ c.b = c.a + c.k /\ c.k \in Nat /\ c.k > 0
          /\ DOMAIN table' = DOMAIN table \ {c.b}
          /\ table'[c.a] = [parts |-> Run(c.a, 2 * c.k), k |-> 2 * c.k,
                            batch |-> table[c.a].batch, pos |-> table[c.a].pos]
      BY <1>8, <2>1, CommitRuns
    <3>2. c.a \in Nat
      BY <3>1 DEF IInv, Shape
    <3> QED BY <3>1, <3>2
  <2>3. /\ table'[c.a] = MergedStripe(c) /\ c.a \in Nat
        /\ c.a + 2 * c.k <= nextId'
    BY <1>8, <2>1, <2>2 DEF Commit, IInv, Checked, Shape, Runs
  <2>4. ToSet(MergedStripe(c).parts) \subseteq Uploads
    <3>1. 2 * c.k \in Nat
      BY <2>2
    <3>2. ToSet(Run(c.a, 2 * c.k)) = c.a..(c.a + 2 * c.k - 1)
      BY <2>3, <3>1, RunFacts
    <3>3. c.a..(c.a + 2 * c.k - 1) \subseteq Uploads
      BY <1>0, <2>1, <2>2, <2>3 DEF Uploads
    <3> QED BY <2>2, <2>3, <3>2, <3>3
  <2>5. overtaken' \subseteq Uploads
    BY <2>1, <2>4 DEF Commit, Ranges
  <2> QED BY <1>0, <2>1, <2>5, TellRanges DEF Ranges
<1>9. ASSUME NEW c \in calls, CallBreaks(c) PROVE Ranges'
  <2>1. faults' \in 0..MaxFaults
    BY <1>0, <1>9 DEF CallBreaks
  <2> QED BY <1>9, <2>1, TellRanges DEF CallBreaks, Ranges
<1>10. ASSUME NEW c \in calls, CallLost(c) PROVE Ranges'
  <2>1. faults' \in 0..MaxFaults
    BY <1>0, <1>10 DEF CallLost
  <2> QED BY <1>10, <2>1, TellRanges DEF CallLost, Ranges
<1>11. ASSUME NEW c \in calls, MergeFails(c) PROVE Ranges'
  <2>1. faults' \in 0..MaxFaults /\ UNCHANGED overtaken
    BY <1>0, <1>11 DEF MergeFails, DdlRT
  <2> QED BY <1>11, <2>1, TellRanges DEF MergeFails, Ranges
<1>12. ASSUME NEW sid \in DOMAIN table, AskDelete(sid) PROVE Ranges'
  <2>1. asked' \in 0..MaxDeletes
    BY <1>0, <1>12 DEF AskDelete
  <2>2. ToSet(table[sid].parts) \subseteq Uploads
    BY <1>0, TableRanges
  <2>3. \A d \in deletes' : d.at \in {"asked", "read", "deleted"}
    BY <1>12 DEF AskDelete, Ranges
  <2> QED BY <1>12, <2>1, <2>2, <2>3 DEF AskDelete, Ranges
<1>13. ASSUME NEW d \in deletes, ReadBlocks(d) PROVE Ranges'
  <2> DEFINE e == [d EXCEPT !.at = "read", !.blocks = ToSet(table[d.sid].parts)]
  <2>1. e.at = "read"
    <3>1. d = [sid |-> d.sid, at |-> d.at, blocks |-> d.blocks]
      BY DEF IInv, Deletions
    <3> QED BY <3>1
  <2>2. deletes' = (deletes \ {d}) \cup {e}
    BY <1>13 DEF ReadBlocks
  <2> HIDE DEF e
  <2>3. \A g \in deletes' : g.at \in {"asked", "read", "deleted"}
    BY <2>1, <2>2 DEF Ranges
  <2> QED BY <1>13, <2>3 DEF ReadBlocks, Ranges
<1>14. ASSUME NEW d \in deletes, DeleteFiles(d) PROVE Ranges'
  <2> DEFINE e == [d EXCEPT !.at = "deleted"]
  <2>1. e.at = "deleted"
    <3>1. d = [sid |-> d.sid, at |-> d.at, blocks |-> d.blocks]
      BY DEF IInv, Deletions
    <3> QED BY <3>1
  <2>2. deletes' = (deletes \ {d}) \cup {e}
    BY <1>14 DEF DeleteFiles
  <2> HIDE DEF e
  <2>3. \A g \in deletes' : g.at \in {"asked", "read", "deleted"}
    BY <2>1, <2>2 DEF Ranges
  <2> QED BY <1>14, <2>3 DEF DeleteFiles, Ranges
<1>15. ASSUME NEW d \in deletes, ReportDelete(d) PROVE Ranges'
  BY <1>15 DEF ReportDelete, Ranges
<1>16. CASE UNCHANGED vars
  BY <1>16 DEF vars, Ranges
<1> QED
  BY <1>1, <1>2, <1>3, <1>4, <1>5, <1>6, <1>7, <1>8, <1>9, <1>10, <1>11, <1>12, <1>13,
     <1>14, <1>15, <1>16 DEF Next, Handle, CallFault

(***************************************************************************)
(* For DdlRT_LRC every variable stays in its range: the ids in the table   *)
(* are ids spent, merged stripes hold uploads, and the client waits for no *)
(* more calls than it has threads.                                         *)
(***************************************************************************)
THEOREM TypeCorrect == (\A m \in Modes : m.code = "DdlRT_LRC") => (Spec => []TypeOK)
<1> SUFFICES ASSUME \A m \in Modes : m.code = "DdlRT_LRC" PROVE Spec => []TypeOK
  OBVIOUS
<1>1. Spec => []IInv
  BY DdlrtInv
<1>2. Init => Ranges
  <2> SUFFICES ASSUME Init PROVE Ranges
    OBVIOUS
  <2>1. IsFiniteSet({}) /\ Cardinality({}) = 0 /\ <<>> \in Seq(Uploads)
    BY FS_EmptySet
  <2>2. /\ 0 \in 0..StripeNum /\ 0 \in 0..Rounds /\ 0 \in 0..MaxCalls
        /\ 0 \in 0..MaxDeletes /\ 0 \in 0..MaxFaults /\ 0 <= mode.threads
    BY ConstantsAssumption DEF Init
  <2> QED BY <2>1, <2>2 DEF Init, Ranges
<1>3. IInv /\ IInv' /\ Ranges /\ [Next]_vars => Ranges'
  BY NextRanges
<1>4. IInv /\ Ranges => TypeOK
  BY RangesAreTypes
<1> QED BY <1>1, <1>2, <1>3, <1>4, PTL DEF Spec
=============================================================================
