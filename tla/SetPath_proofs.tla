---------------------------- MODULE SetPath_proofs ----------------------------
(***************************************************************************)
(* Proofs about SetPath, for every number of groups, uploads and faults.   *)
(***************************************************************************)
EXTENDS SetPath, FiniteSetTheorems, TLAPS

(***************************************************************************)
(* Plans are pairs of an upload and a group.                               *)
(***************************************************************************)
LEMMA ThreadPairs ==
    \A t \in Threads : /\ t[1] \in Uploads /\ t[2] \in Groups
                       /\ t = <<t[1], t[2]>>
  BY DEF Threads

(***************************************************************************)
(* A function into subsets keeps its range when one value is replaced.     *)
(***************************************************************************)
LEMMA SubsetUpdated ==
    ASSUME NEW S, NEW T, NEW f \in [S -> SUBSET T], NEW s \in S,
           NEW X \in SUBSET T
    PROVE  [f EXCEPT ![s] = X] \in [S -> SUBSET T]
  OBVIOUS

-----------------------------------------------------------------------------
(***************************************************************************)
(* Types.  That ids stay in range, with any number of clients, rests on    *)
(* the number of uploads that have taken one.                              *)
(***************************************************************************)
InTurn == \A u, v \in Uploads : v < u /\ stage[u] # "new" => stage[v] # "new"

IdsBounded ==
    \A u \in Uploads : IF stage[u] = "new" THEN nextId < u ELSE sid[u] < u

(***************************************************************************)
(* A proxy's thread has a slice from its accept on, except one that ended  *)
(* without.                                                                *)
(***************************************************************************)
SliceHeld ==
    \A u \in Uploads : \A g \in Groups :
        /\ thread[<<u, g>>] \in {"none", "started", "accepting"} => slice[<<u, g>>] = 0
        /\ thread[<<u, g>>] \in {"received", "called", "linked"} => slice[<<u, g>>] # 0

Typed == TypeOK /\ InTurn /\ IdsBounded /\ SliceHeld

(***************************************************************************)
(* The initial values are in range.                                        *)
(***************************************************************************)
LEMMA TypedInit == Init => Typed
  <1> SUFFICES ASSUME Init PROVE Typed
    OBVIOUS
  <1>1. /\ stage \in [Uploads -> Stages] /\ sid \in [Uploads -> Ids]
        /\ note \in [Threads -> {"none", "asked", "ok", "failed"}]
        /\ conn \in [Threads -> {"none", "connected", "committed"}]
        /\ thread \in [Threads -> ThreadStates]
    BY SetAssumption DEF Init, Stages, Ids, ThreadStates
  <1>2. /\ slice \in [Threads -> Uploads \cup {0}]
        /\ hold \in [Threads -> Uploads \cup {0}]
        /\ disk \in [Keys -> Uploads \cup {0}]
    BY DEF Init
  <1>3. /\ backlog \in [Groups -> SUBSET Uploads] /\ alive \in [Groups -> BOOLEAN]
        /\ calls \in [Groups -> SUBSET Uploads] /\ links \in [Groups -> Seq(Uploads)]
    BY DEF Init
  <1>4. nextId \in Ids /\ faults \in 0..MaxFaults
    BY SetAssumption DEF Init, Ids
  <1>5. TypeOK
    BY <1>1, <1>2, <1>3, <1>4 DEF Init, TypeOK
  <1>6. InTurn /\ IdsBounded
    BY SetAssumption DEF Init, InTurn, IdsBounded, Uploads
  <1>7. SliceHeld
    BY DEF Init, SliceHeld, Threads
  <1> QED
    BY <1>5, <1>6, <1>7 DEF Typed

(***************************************************************************)
(* The steps of the coordinator that move an upload on.                    *)
(***************************************************************************)
LEMMA TypedCoord ==
    ASSUME Typed, NEW u \in Uploads,
           StartSet(u) \/ CoordStep(u) \/ Acknowledge(u) \/ LostBit(u)
    PROVE  Typed'
  <1> USE DEF Typed, TypeOK
  <1> USE DEF clientVars, coordVars, proxyVars, nodeVars
  <1>0. SliceHeld'
    BY DEF SliceHeld, StartSet, CoordStep, Plan, Accepted, Refused, Acknowledge, LostBit
  <1>1. CASE StartSet(u)
    <2>1. TypeOK'
      BY <1>1 DEF StartSet, Stages
    <2>2. InTurn' /\ IdsBounded'
      BY <1>1 DEF StartSet, InTurn, IdsBounded, Uploads
    <2> QED
      BY <1>0, <2>1, <2>2
  <1>2. CASE Plan(u)
    <2>1. sid[u] \in Nat /\ sid[u] < u /\ nextId' = sid[u] + 1
      BY <1>2 DEF Plan, IdsBounded, Ids
    <2>2. nextId' \in Ids
      BY <2>1, SetAssumption DEF Uploads, Ids
    <2>3. TypeOK'
      BY <1>2, <2>2 DEF Plan, Stages
    <2>4. \A v \in Uploads : stage[v] = "new" => u < v
      BY <1>2 DEF Plan, InTurn, Uploads
    <2>5. InTurn' /\ IdsBounded'
      BY <1>2, <2>1, <2>4, SetAssumption DEF Plan, InTurn, IdsBounded, Uploads
    <2> QED
      BY <1>0, <2>3, <2>5
  <1>3. CASE Accepted(u)
    <2>1. TypeOK'
      BY <1>3 DEF Accepted, Stages
    <2>2. InTurn' /\ IdsBounded'
      BY <1>3 DEF Accepted, InTurn, IdsBounded
    <2> QED
      BY <1>0, <2>1, <2>2
  <1>4. CASE Refused(u) \/ Acknowledge(u) \/ LostBit(u)
    <2>1. faults' \in 0..MaxFaults
      BY <1>4, SetAssumption DEF Refused, Acknowledge, LostBit, Fault
    <2>2. stage' \in [Uploads -> Stages]
      BY <1>4 DEF Refused, Acknowledge, LostBit, Stages
    <2>3. TypeOK'
      BY <1>4, <2>1, <2>2 DEF Refused, Acknowledge, LostBit
    <2>4. InTurn' /\ IdsBounded'
      BY <1>4 DEF Refused, Acknowledge, LostBit, InTurn, IdsBounded
    <2> QED
      BY <1>0, <2>3, <2>4
  <1> QED
    BY <1>1, <1>2, <1>3, <1>4 DEF CoordStep

(***************************************************************************)
(* Nothing else changes the stages, the ids or the counter.                *)
(***************************************************************************)
LEMMA TypedRest ==
    ASSUME Typed, TypeOK', SliceHeld', UNCHANGED <<stage, sid, nextId>>
    PROVE  Typed'
  BY DEF Typed, InTurn, IdsBounded

(***************************************************************************)
(* What a datanode loses when it stops.                                    *)
(***************************************************************************)
LEMMA TypedStop ==
    ASSUME TypeOK, NEW g \in Groups, Stop(g)
    PROVE  /\ alive' \in [Groups -> BOOLEAN] /\ calls' \in [Groups -> SUBSET Uploads]
           /\ links' \in [Groups -> Seq(Uploads)]
           /\ hold' \in [Threads -> Uploads \cup {0}]
  <1>1. calls' \in [Groups -> SUBSET Uploads]
    BY SubsetUpdated DEF TypeOK, Stop
  <1>2. <<>> \in Seq(Uploads)
    OBVIOUS
  <1>3. links' \in [Groups -> Seq(Uploads)]
    BY <1>2 DEF TypeOK, Stop
  <1> QED
    BY <1>1, <1>3 DEF TypeOK, Stop

(***************************************************************************)
(* The steps that belong to one plan.                                      *)
(***************************************************************************)
LEMMA TypedPlan ==
    ASSUME Typed, NEW t \in Threads,
           \/ Schedule(t) \/ PlanStep(t)
           \/ NotifyFails(t) \/ ReadBreaks(t) \/ ReportLost(t)
    PROVE  Typed'
  <1>1. t[1] \in Uploads /\ t[2] \in Groups /\ t = <<t[1], t[2]>>
    BY ThreadPairs
  <1>2. TypeOK /\ Key(t[1], t[2]) \in Keys
    BY <1>1 DEF Typed, TypeOK, Key, Keys
  <1>0. thread[t] \in {"received", "called", "linked"} => slice[t] # 0
    BY <1>1 DEF Typed, SliceHeld
  <1> USE DEF TypeOK
  <1> USE DEF clientVars, coordVars, proxyVars, nodeVars
  <1>3. ASSUME Fault PROVE faults' \in 0..MaxFaults
    BY <1>2, <1>3, SetAssumption DEF Fault
  <1>11. SliceHeld'
    <2> SUFFICES ASSUME NEW u \in Uploads, NEW g \in Groups
                 PROVE  /\ thread'[<<u, g>>] \in {"none", "started", "accepting"}
                               => slice'[<<u, g>>] = 0
                        /\ thread'[<<u, g>>] \in {"received", "called", "linked"}
                               => slice'[<<u, g>>] # 0
      BY DEF SliceHeld
    <2>1. <<u, g>> \in Threads /\ thread[<<u, g>>] \in ThreadStates
      BY <1>2 DEF Threads
    <2>2. /\ thread[<<u, g>>] \in {"none", "started", "accepting"} => slice[<<u, g>>] = 0
          /\ thread[<<u, g>>] \in {"received", "called", "linked"} => slice[<<u, g>>] # 0
      BY DEF Typed, SliceHeld
    <2>3. CASE Accept(t)
      BY <1>1, <1>2, <2>1, <2>2, <2>3 DEF Accept, Uploads
    <2>4. CASE LockAccept(t) \/ ReadBreaks(t) \/ Schedule(t)
      BY <1>2, <2>1, <2>2, <2>4 DEF LockAccept, ReadBreaks, Schedule
    <2>5. CASE Call(t) \/ Link(t) \/ Report(t) \/ ReportLost(t)
      BY <1>0, <1>2, <2>1, <2>2, <2>5 DEF Call, Link, Report, ReportLost
    <2>6. CASE \/ NotifyReturns(t) \/ NotifyFails(t) \/ Connect(t) \/ SeeCommit(t)
               \/ Save(t) \/ SaveAborts(t)
      BY <2>2, <2>6 DEF NotifyReturns, NotifyFails, Connect, SeeCommit, Save, SaveAborts
    <2> QED
      BY <2>3, <2>4, <2>5, <2>6 DEF PlanStep
  <1>4. CASE Schedule(t) \/ NotifyReturns(t) \/ NotifyFails(t)
    <2>1. TypeOK'
      BY <1>2, <1>3, <1>4 DEF Schedule, NotifyReturns, NotifyFails, ThreadStates
    <2> QED
      BY <1>4, <2>1, <1>11, TypedRest DEF Schedule, NotifyReturns, NotifyFails
  <1>5. CASE Connect(t) \/ SeeCommit(t)
    <2>1. conn' \in [Threads -> {"none", "connected", "committed"}]
      BY <1>2, <1>5 DEF Connect, SeeCommit
    <2>2. backlog' \in [Groups -> SUBSET Uploads]
      <3>1. backlog[t[2]] \cup {t[1]} \in SUBSET Uploads
        BY <1>1, <1>2
      <3>2. [backlog EXCEPT ![t[2]] = backlog[t[2]] \cup {t[1]}] \in [Groups -> SUBSET Uploads]
        BY <1>1, <1>2, <3>1, SubsetUpdated
      <3> QED
        BY <1>2, <1>5, <3>2 DEF Connect, SeeCommit
    <2>3. TypeOK'
      BY <1>2, <1>5, <2>1, <2>2 DEF Connect, SeeCommit
    <2> QED
      BY <1>5, <2>3, <1>11, TypedRest DEF Connect, SeeCommit
  <1>6. CASE LockAccept(t) \/ Accept(t) \/ ReadBreaks(t)
    <2>1. thread' \in [Threads -> ThreadStates]
      <3>1. \E s \in ThreadStates : thread' = [thread EXCEPT ![t] = s]
        <4>1. CASE LockAccept(t)
          BY <4>1 DEF LockAccept, ThreadStates
        <4>2. CASE Accept(t)
          BY <4>2 DEF Accept, ThreadStates
        <4>3. CASE ReadBreaks(t)
          BY <4>3 DEF ReadBreaks, ThreadStates
        <4> QED
          BY <1>6, <4>1, <4>2, <4>3
      <3> QED
        BY <1>2, <3>1
    <2>2. backlog' \in [Groups -> SUBSET Uploads]
      <3>1. CASE LockAccept(t)
        BY <1>2, <3>1 DEF LockAccept
      <3>2. ASSUME NEW p PROVE [backlog EXCEPT ![t[2]] = backlog[t[2]] \ {p}]
                                  \in [Groups -> SUBSET Uploads]
        <4>1. backlog[t[2]] \ {p} \in SUBSET Uploads
          BY <1>1, <1>2
        <4> QED
          BY <1>1, <1>2, <4>1, SubsetUpdated
      <3> QED
        <4>1. ASSUME Accept(t) \/ ReadBreaks(t)
              PROVE  \E p : backlog' = [backlog EXCEPT ![t[2]] = backlog[t[2]] \ {p}]
          <5> HIDE DEF TypeOK
          <5>1. CASE Accept(t)
            BY <5>1 DEF Accept
          <5>2. CASE ReadBreaks(t)
            BY <5>2 DEF ReadBreaks
          <5> QED
            BY <4>1, <5>1, <5>2
        <4> HIDE DEF TypeOK
        <4> QED
          BY <1>6, <3>1, <3>2, <4>1
    <2>3. slice' \in [Threads -> Uploads \cup {0}]
      BY <1>1, <1>2, <1>6 DEF LockAccept, Accept, ReadBreaks
    <2>4. TypeOK'
      BY <1>2, <1>3, <1>6, <2>1, <2>2, <2>3 DEF LockAccept, Accept, ReadBreaks
    <2> QED
      BY <1>6, <2>4, <1>11, TypedRest DEF LockAccept, Accept, ReadBreaks
  <1>7. CASE Call(t)
    <2>1. thread' \in [Threads -> ThreadStates]
      BY <1>2, <1>7 DEF Call, ThreadStates
    <2>2. calls' \in [Groups -> SUBSET Uploads]
      BY <1>1, <1>2, <1>7 DEF Call
    <2>3. TypeOK'
      BY <1>2, <1>3, <1>7, <2>1, <2>2 DEF Call
    <2> QED
      BY <1>7, <2>3, <1>11, TypedRest DEF Call
  <1>8. CASE Link(t)
    <2>1. slice[t] \in Uploads
      BY <1>0, <1>2, <1>8 DEF Link
    <2>2. Append(links[t[2]], slice[t]) \in Seq(Uploads)
      BY <1>1, <1>2, <2>1
    <2>3. links' \in [Groups -> Seq(Uploads)]
      BY <1>1, <1>2, <1>8, <2>2 DEF Link
    <2>4. thread' \in [Threads -> ThreadStates]
      BY <1>2, <1>8 DEF Link, ThreadStates
    <2>5. TypeOK'
      BY <1>2, <1>3, <1>8, <2>3, <2>4 DEF Link
    <2> QED
      BY <1>8, <2>5, <1>11, TypedRest DEF Link
  <1>9. CASE Report(t) \/ ReportLost(t)
    <2>1. TypeOK'
      BY <1>2, <1>3, <1>9 DEF Report, ReportLost, ThreadStates
    <2> QED
      BY <1>9, <2>1, <1>11, TypedRest DEF Report, ReportLost
  <1>10. CASE Save(t) \/ SaveAborts(t)
    <2>1. hold' \in [Threads -> Uploads \cup {0}] /\ disk' \in [Keys -> Uploads \cup {0}]
      BY <1>2, <1>10 DEF Save, SaveAborts, Stop
    <2>2. /\ alive' \in [Groups -> BOOLEAN] /\ calls' \in [Groups -> SUBSET Uploads]
          /\ links' \in [Groups -> Seq(Uploads)]
      BY <1>1, <1>2, <1>10, TypedStop DEF Save, SaveAborts
    <2>3. TypeOK'
      BY <1>2, <1>10, <2>1, <2>2 DEF Save, SaveAborts
    <2> QED
      BY <1>10, <2>3, <1>11, TypedRest DEF Save, SaveAborts
  <1> QED
    BY <1>4, <1>5, <1>6, <1>7, <1>8, <1>9, <1>10 DEF PlanStep

(***************************************************************************)
(* The steps of a proxy or a datanode as a whole.                          *)
(***************************************************************************)
LEMMA TypedGroup ==
    ASSUME Typed, NEW g \in Groups,
           Receive(g) \/ NodeStops(g) \/ NodeStarts(g) \/ ProxyRestarts(g)
    PROVE  Typed'
  <1> USE DEF clientVars, coordVars, proxyVars, nodeVars
  <1>1. TypeOK
    BY DEF Typed
  <1> USE DEF TypeOK
  <1>2. CASE Receive(g)
    <2>1. /\ Head(links[g]) \in Uploads
          /\ links' \in [Groups -> Seq(Uploads)]
      BY <1>1, <1>2 DEF Receive
    <2>2. \A u \in Uploads : <<u, g>> \in Threads
      BY DEF Threads
    <2>3. TypeOK'
      BY <1>1, <1>2, <2>1, <2>2 DEF Receive
    <2>4. SliceHeld'
      BY <1>2 DEF Typed, SliceHeld, Receive
    <2> QED
      BY <1>2, <2>3, <2>4, TypedRest DEF Receive
  <1>3. CASE NodeStops(g) \/ NodeStarts(g) \/ ProxyRestarts(g)
    <2>1. faults' \in 0..MaxFaults
      BY <1>1, <1>3, SetAssumption DEF NodeStops, NodeStarts, ProxyRestarts, Fault
    <2>2. /\ thread' \in [Threads -> ThreadStates]
          /\ backlog' \in [Groups -> SUBSET Uploads]
      BY <1>1, <1>3 DEF NodeStops, NodeStarts, ProxyRestarts, ThreadStates
    <2>3. /\ alive' \in [Groups -> BOOLEAN] /\ calls' \in [Groups -> SUBSET Uploads]
          /\ links' \in [Groups -> Seq(Uploads)]
          /\ hold' \in [Threads -> Uploads \cup {0}]
      BY <1>1, <1>3, TypedStop DEF NodeStops, NodeStarts, ProxyRestarts
    <2>4. TypeOK'
      BY <1>1, <1>3, <2>1, <2>2, <2>3 DEF NodeStops, NodeStarts, ProxyRestarts
    <2>5. SliceHeld'
      <3>1. CASE ProxyRestarts(g)
        <4>1. /\ slice' = slice
              /\ \A t \in Threads : thread'[t] \in {thread[t], "ended"}
          BY <1>1, <3>1 DEF ProxyRestarts
        <4>2. \A u \in Uploads : \A h \in Groups : <<u, h>> \in Threads
          BY DEF Threads
        <4> QED
          BY <4>1, <4>2 DEF Typed, SliceHeld
      <3>2. CASE NodeStops(g) \/ NodeStarts(g)
        <4>1. UNCHANGED <<thread, slice>>
          BY <3>2 DEF NodeStops, NodeStarts
        <4>2. SliceHeld
          BY DEF Typed
        <4> QED
          BY <4>1, <4>2 DEF SliceHeld
      <3> QED
        BY <1>3, <3>1, <3>2
    <2> QED
      BY <1>3, <2>4, <2>5, TypedRest DEF NodeStops, NodeStarts, ProxyRestarts
  <1> QED
    BY <1>2, <1>3

(***************************************************************************)
(* Every step keeps the variables in range.                                *)
(***************************************************************************)
LEMMA TypedNext == Typed /\ [Next]_vars => Typed'
  <1> SUFFICES ASSUME Typed, [Next]_vars PROVE Typed'
    OBVIOUS
  <1>1. CASE UNCHANGED vars
    BY <1>1 DEF vars, clientVars, coordVars, proxyVars, nodeVars, Typed, TypeOK,
                InTurn, IdsBounded, SliceHeld
  <1> QED
    BY <1>1, TypedCoord, TypedPlan, TypedGroup DEF Next, FaultStep

(***************************************************************************)
(* Every variable stays in its range, with any number of clients.          *)
(***************************************************************************)
THEOREM SetTypeCorrect == Spec => []TypeOK
  <1>1. Typed => TypeOK
    BY DEF Typed
  <1> QED
    BY <1>1, TypedInit, TypedNext, PTL DEF Spec

-----------------------------------------------------------------------------
(***************************************************************************)
(* One client, which stores one stripe after the other.                    *)
(***************************************************************************)
OneAtATime == \A u, v \in Uploads : v < u /\ stage[u] # "new" =>
                                        stage[v] \in {"acked", "refused"}

(***************************************************************************)
(* No two uploads have the same id.                                        *)
(***************************************************************************)
IdsFresh ==
    /\ \A u \in Uploads : stage[u] = "counting" => sid[u] = nextId
    /\ \A u \in Uploads : stage[u] \notin {"new", "counting"} => sid[u] < nextId
    /\ \A u, v \in Uploads : stage[u] # "new" /\ stage[v] # "new" /\ u # v
                                => sid[u] # sid[v]

(***************************************************************************)
(* A plan has no note, thread, connection or slice before it exists.       *)
(***************************************************************************)
Unplanned ==
    \A u \in Uploads : \A g \in Groups :
        stage[u] \in {"new", "counting"} =>
            /\ note[<<u, g>>] = "none" /\ conn[<<u, g>>] = "none"
            /\ thread[<<u, g>>] = "none" /\ slice[<<u, g>>] = 0

(***************************************************************************)
(* Only the slices of accepted uploads are sent.                           *)
(***************************************************************************)
OnlyAcceptedSend ==
    \A u \in Uploads : \A g \in Groups :
        conn[<<u, g>>] # "none" => stage[u] \in {"sending", "acked"}

(***************************************************************************)
(* A slice is waiting at its proxy or in one thread, never both or twice.  *)
(***************************************************************************)
SliceOnce ==
    \A g \in Groups :
        /\ \A p \in backlog[g] : conn[<<p, g>>] # "none"
        /\ \A u, p \in Uploads : slice[<<u, g>>] = p =>
                                    conn[<<p, g>>] # "none" /\ p \notin backlog[g]
        /\ \A u, v \in Uploads : slice[<<u, g>>] = slice[<<v, g>>] /\ slice[<<u, g>>] # 0
                                    => u = v

(***************************************************************************)
(* A commit comes from the plan's own thread at its end.                   *)
(***************************************************************************)
CommitsFromThreads ==
    \A u \in Uploads : \A g \in Groups :
        stage[u] \notin {"new", "counting"} /\ Key(u, g) \in committed =>
            thread[<<u, g>>] = "ended" /\ slice[<<u, g>>] # 0

(***************************************************************************)
(* What the client's threads, and the client, have been told.              *)
(***************************************************************************)
AcksFromCommits ==
    /\ \A u \in Uploads : \A g \in Groups :
           conn[<<u, g>>] = "committed" => Key(u, g) \in committed
    /\ \A u \in Uploads : \A g \in Groups :
           stage[u] = "acked" => conn[<<u, g>>] = "committed"

(***************************************************************************)
(* The table and the updating entries of the uploads a client may send.    *)
(***************************************************************************)
Metadata ==
    /\ \A u \in Uploads : \A g \in Groups :
           note[<<u, g>>] = "asked" => stage[u] = "placing"
    /\ \A u \in Uploads : stage[u] \in {"sending", "acked"} =>
           /\ sid[u] \in table
           /\ \A g \in Groups : Key(u, g) \in committed => Key(u, g) \notin updating

(***************************************************************************)
(* The inductive invariant, with Typed, of a single client.                *)
(***************************************************************************)
Sound ==
    /\ OneAtATime /\ IdsFresh /\ Unplanned /\ OnlyAcceptedSend /\ SliceOnce
    /\ CommitsFromThreads /\ AcksFromCommits /\ Metadata
    /\ AckedSlicesOwn

SingleClient == \A c, d \in Clients : c = d

(***************************************************************************)
(* Nothing is started.                                                     *)
(***************************************************************************)
LEMMA SoundInit == Init => Sound
  <1> SUFFICES ASSUME Init PROVE Sound
    OBVIOUS
  <1>1. \A u \in Uploads : \A g \in Groups : <<u, g>> \in Threads
    BY DEF Threads
  <1>2. OneAtATime /\ IdsFresh /\ Unplanned /\ OnlyAcceptedSend
    BY <1>1 DEF Init, OneAtATime, IdsFresh, Unplanned, OnlyAcceptedSend
  <1>3. SliceOnce
    BY <1>1 DEF Init, SliceOnce, Uploads
  <1>4. CommitsFromThreads /\ AcksFromCommits /\ Metadata /\ AckedSlicesOwn
    BY <1>1 DEF Init, CommitsFromThreads, AcksFromCommits, Metadata, AckedSlicesOwn
  <1> QED
    BY <1>2, <1>3, <1>4 DEF Sound

(***************************************************************************)
(* The thread of a running or acknowledged upload has no other upload's    *)
(* slice: senders come one at a time, and the earlier ones' slices are in  *)
(* their own threads.                                                      *)
(***************************************************************************)
LEMMA RunningSlicesOwn ==
    ASSUME Typed, Sound, NEW u \in Uploads, NEW g \in Groups,
           stage[u] \in {"placing", "sending", "acked"}, slice[<<u, g>>] # 0
    PROVE  slice[<<u, g>>] = u /\ stage[u] # "placing"
  <1> DEFINE p == slice[<<u, g>>]
  <1>1. p \in Uploads
    BY DEF Typed, TypeOK, Threads
  <1>2. stage[p] \in {"sending", "acked"}
    BY <1>1 DEF Sound, SliceOnce, OnlyAcceptedSend
  <1>3. CASE stage[p] = "acked"
    <2>1. slice[<<p, g>>] = p
      BY <1>1, <1>3 DEF Sound, AckedSlicesOwn
    <2>2. p = u
      BY <1>1, <2>1 DEF Sound, SliceOnce
    <2> QED
      BY <1>3, <2>2
  <1>4. CASE stage[p] = "sending" /\ stage[u] # "acked"
    <2>1. ~(p < u) /\ ~(u < p)
      BY <1>1, <1>4 DEF Sound, OneAtATime
    <2>2. p = u
      BY <1>1, <2>1 DEF Uploads
    <2> QED
      BY <1>4, <2>2
  <1>5. CASE stage[u] = "acked"
    BY <1>5 DEF Sound, AckedSlicesOwn
  <1> QED
    BY <1>2, <1>3, <1>4, <1>5

(***************************************************************************)
(* A new upload takes an id that no other has.                             *)
(***************************************************************************)
LEMMA SoundStartSet ==
    ASSUME SingleClient, Typed, Sound, NEW u \in Uploads, StartSet(u)
    PROVE  Sound'
  <1> USE DEF Typed, TypeOK, Sound
  <1> USE DEF coordVars, proxyVars
  <1>1. /\ stage[u] = "new" /\ stage' = [stage EXCEPT ![u] = "counting"]
        /\ sid' = [sid EXCEPT ![u] = nextId]
        /\ UNCHANGED <<nextId, note, table, updating, committed, conn, backlog, thread, slice>>
    BY DEF StartSet
  <1>2. \A v \in Uploads : stage[v] # "new" => stage[v] \in {"acked", "refused"}
    BY DEF StartSet, SingleClient, Active, Started, Stages
  <1>3. OneAtATime'
    BY <1>1, <1>2 DEF OneAtATime, StartSet, Uploads
  <1>4. IdsFresh'
    <2>1. \A v \in Uploads : stage[v] # "new" => v # u /\ sid[v] < nextId
      BY <1>1, <1>2 DEF IdsFresh
    <2>2. \A v \in Uploads : v # u => stage'[v] = stage[v] /\ sid'[v] = sid[v]
      BY <1>1
    <2>3. stage'[u] = "counting" /\ sid'[u] = nextId
      BY <1>1
    <2>4. \A v \in Uploads : stage[v] # "new" => sid[v] # nextId
      BY <2>1 DEF Ids
    <2>5. \A v, w \in Uploads : stage'[v] # "new" /\ stage'[w] # "new" /\ v # w
                                => sid'[v] # sid'[w]
      <3> SUFFICES ASSUME NEW v \in Uploads, NEW w \in Uploads,
                          stage'[v] # "new", stage'[w] # "new", v # w
                   PROVE  sid'[v] # sid'[w]
        OBVIOUS
      <3>1. CASE v # u /\ w # u
        BY <2>2, <3>1 DEF IdsFresh
      <3>2. CASE v = u
        BY <2>2, <2>3, <2>4, <3>2
      <3>3. CASE w = u
        BY <2>2, <2>3, <2>4, <3>3
      <3> QED
        BY <3>1, <3>2, <3>3
    <2>6. \A v \in Uploads : stage'[v] = "counting" => v = u
      BY <1>2, <2>2
    <2> QED
      BY <1>1, <2>1, <2>2, <2>3, <2>5, <2>6 DEF IdsFresh
  <1>5. Unplanned' /\ OnlyAcceptedSend'
    BY <1>1 DEF Unplanned, OnlyAcceptedSend
  <1>6. SliceOnce'
    BY <1>1 DEF SliceOnce
  <1>7. \A v \in Uploads : stage'[v] \notin {"new", "counting"} =>
            /\ stage'[v] = stage[v]
            /\ \A g \in Groups : Key(v, g)' = Key(v, g)
    BY <1>1 DEF Key
  <1>8. \A g \in Groups : conn[<<u, g>>] = "none" /\ note[<<u, g>>] = "none"
    BY <1>1 DEF Unplanned
  <1>9. CommitsFromThreads' /\ AckedSlicesOwn'
    BY <1>1, <1>7 DEF CommitsFromThreads, AckedSlicesOwn
  <1>10. AcksFromCommits'
    BY <1>1, <1>7, <1>8 DEF AcksFromCommits, Key
  <1>11. Metadata'
    <2>1. \A v \in Uploads : stage'[v] = IF v = u THEN "counting" ELSE stage[v]
      BY <1>1
    <2>2. \A v \in Uploads : \A g \in Groups :
              note'[<<v, g>>] = "asked" => stage'[v] = "placing"
      BY <1>1, <1>8, <2>1 DEF Metadata
    <2>3. \A v \in Uploads : stage'[v] \in {"sending", "acked"} =>
              sid'[v] = sid[v] /\ stage[v] \in {"sending", "acked"} /\ v # u
      BY <1>1, <2>1
    <2>4. table' = table /\ committed' = committed /\ updating' = updating
      BY <1>1
    <2> HIDE DEF Typed, TypeOK
    <2> QED
      BY <2>2, <2>3, <2>4 DEF Metadata, Key
  <1> QED
    BY <1>3, <1>4, <1>5, <1>6, <1>9, <1>10, <1>11

(***************************************************************************)
(* The keys of a new plan are not committed, and no other's key is taken   *)
(* from the commit table.                                                  *)
(***************************************************************************)
LEMMA SoundPlan ==
    ASSUME Typed, Sound, NEW u \in Uploads, Plan(u)
    PROVE  Sound'
  <1> USE DEF Typed, TypeOK, Sound
  <1> USE DEF proxyVars
  <1>1. /\ stage[u] = "counting" /\ stage' = [stage EXCEPT ![u] = "placing"]
        /\ nextId' = sid[u] + 1
        /\ committed' = committed \ {Key(u, g) : g \in Groups}
        /\ note' = [t \in Threads |-> IF t[1] = u THEN "asked" ELSE note[t]]
        /\ UNCHANGED <<sid, conn, table, updating, backlog, thread, slice>>
    BY DEF Plan
  <1>2. \A v \in Uploads : stage[v] # "new" /\ v # u => stage[v] \in {"acked", "refused"}
    <2> SUFFICES ASSUME NEW v \in Uploads, stage[v] # "new", v # u
                 PROVE  stage[v] \in {"acked", "refused"}
      OBVIOUS
    <2>1. v < u \/ u < v
      BY DEF Uploads
    <2>2. ~(u < v)
      BY <1>1 DEF OneAtATime
    <2> QED
      BY <1>1, <2>1, <2>2 DEF OneAtATime
  <1>3. OneAtATime'
    BY <1>1 DEF OneAtATime
  <1>4. IdsFresh'
    <2>1. sid[u] = nextId /\ nextId' = nextId + 1 /\ nextId \in Nat
      BY <1>1 DEF IdsFresh, Ids
    <2>2. \A v \in Uploads : stage'[v] # "counting"
      BY <1>1, <1>2
    <2>3. \A v \in Uploads : stage[v] \notin {"new", "counting"} => sid[v] < nextId
      BY DEF IdsFresh
    <2>4. \A v \in Uploads : v # u => stage'[v] = stage[v]
      BY <1>1
    <2>5. \A v \in Uploads : stage'[v] \notin {"new", "counting"} => sid'[v] < nextId'
      BY <1>1, <2>1, <2>3, <2>4 DEF Ids
    <2>6. \A v, w \in Uploads : stage'[v] # "new" /\ stage'[w] # "new" /\ v # w
                                => sid'[v] # sid'[w]
      BY <1>1, <2>4 DEF IdsFresh
    <2> QED
      BY <2>2, <2>5, <2>6 DEF IdsFresh
  <1>5. \A v \in Uploads : \A g \in Groups :
            note'[<<v, g>>] = IF v = u THEN "asked" ELSE note[<<v, g>>]
    BY <1>1 DEF Threads
  <1>6. Unplanned' /\ OnlyAcceptedSend'
    <2>1. \A v \in Uploads : v # u => stage'[v] = stage[v]
      BY <1>1
    <2>2. stage'[u] = "placing"
      BY <1>1
    <2>3. Unplanned'
      <3> SUFFICES ASSUME NEW v \in Uploads, NEW g \in Groups,
                          stage'[v] \in {"new", "counting"}
                   PROVE  /\ note'[<<v, g>>] = "none" /\ conn'[<<v, g>>] = "none"
                          /\ thread'[<<v, g>>] = "none" /\ slice'[<<v, g>>] = 0
        BY DEF Unplanned
      <3>1. v # u /\ stage[v] \in {"new", "counting"}
        BY <2>1, <2>2
      <3>2. /\ note[<<v, g>>] = "none" /\ conn[<<v, g>>] = "none"
            /\ thread[<<v, g>>] = "none" /\ slice[<<v, g>>] = 0
        BY <3>1 DEF Unplanned
      <3>3. note'[<<v, g>>] = "none"
        BY <1>5, <3>1, <3>2
      <3>4. UNCHANGED <<conn, thread, slice>>
        BY <1>1
      <3> QED
        BY <3>2, <3>3, <3>4
    <2>4. OnlyAcceptedSend'
      BY <1>1, <2>1, <2>2 DEF OnlyAcceptedSend
    <2> QED
      BY <2>3, <2>4
  <1>7. SliceOnce' /\ AckedSlicesOwn'
    BY <1>1 DEF SliceOnce, AckedSlicesOwn
  <1>8. \A v \in Uploads : \A g \in Groups :
            v # u /\ stage[v] # "new" => (Key(v, g)' \in committed' <=> Key(v, g) \in committed)
    BY <1>1 DEF Key, IdsFresh
  <1>9. \A g \in Groups : Key(u, g)' \notin committed'
    BY <1>1 DEF Key
  <1>10. CommitsFromThreads'
    BY <1>1, <1>8, <1>9 DEF CommitsFromThreads
  <1>11. AcksFromCommits'
    <2>1. \A v \in Uploads : \A g \in Groups :
              conn[<<v, g>>] = "committed" => v # u /\ stage[v] # "new"
      BY <1>1 DEF Unplanned
    <2> QED
      BY <1>1, <1>8, <2>1 DEF AcksFromCommits
  <1>12. Metadata'
    <2>1. \A v \in Uploads : v # u => stage'[v] = stage[v]
      BY <1>1
    <2>2. stage'[u] = "placing"
      BY <1>1
    <2>3. \A v \in Uploads : \A g \in Groups :
              note'[<<v, g>>] = "asked" => stage'[v] = "placing"
      BY <1>5, <2>1, <2>2 DEF Metadata
    <2>4. \A v \in Uploads : stage'[v] \in {"sending", "acked"} => stage[v] = stage'[v]
      BY <2>1, <2>2
    <2>5. \A v \in Uploads : \A g \in Groups : Key(v, g)' = Key(v, g)
      BY <1>1 DEF Key
    <2> QED
      BY <1>1, <2>3, <2>4, <2>5 DEF Metadata
  <1> QED
    BY <1>3, <1>4, <1>6, <1>7, <1>10, <1>11, <1>12

(***************************************************************************)
(* A step of the coordinator or the client that only moves one upload on.  *)
(***************************************************************************)
LEMMA SoundMovedOn ==
    ASSUME Typed, Sound, NEW u \in Uploads,
           Accepted(u) \/ Refused(u) \/ LostBit(u) \/ Acknowledge(u)
    PROVE  Sound'
  <1> USE DEF Typed, TypeOK, Sound
  <1> USE DEF coordVars, proxyVars
  <1> USE DEF Accepted, Refused, LostBit, Acknowledge
  <1>1. /\ \/ stage[u] = "placing" /\ stage'[u] \in {"sending", "refused"}
           \/ stage[u] = "sending" /\ stage'[u] = "acked"
        /\ \A v \in Uploads : v # u => stage'[v] = stage[v]
        /\ UNCHANGED <<nextId, sid, note, updating, committed, conn, backlog, thread, slice>>
        /\ table \subseteq table'
    OBVIOUS
  <1>2. OneAtATime' /\ IdsFresh'
    <2>1. OneAtATime'
      BY <1>1 DEF OneAtATime
    <2>2. stage[u] \notin {"new", "counting"}
      BY <1>1
    <2>3. \A v \in Uploads : stage'[v] # "new" => stage[v] # "new"
      BY <1>1, <2>2
    <2>4. \A v \in Uploads : /\ stage'[v] = "counting" => stage[v] = "counting"
                             /\ stage'[v] \notin {"new", "counting"} =>
                                    stage[v] \notin {"new", "counting"}
      BY <1>1, <2>2
    <2>5. IdsFresh'
      BY <1>1, <2>3, <2>4 DEF IdsFresh
    <2> QED
      BY <2>1, <2>5
  <1>3. Unplanned' /\ SliceOnce'
    BY <1>1 DEF Unplanned, SliceOnce
  <1>4. OnlyAcceptedSend'
    BY <1>1 DEF OnlyAcceptedSend
  <1>5. CommitsFromThreads'
    <2> SUFFICES ASSUME NEW v \in Uploads, NEW g \in Groups,
                        stage'[v] \notin {"new", "counting"}, Key(v, g)' \in committed'
                 PROVE  thread'[<<v, g>>] = "ended" /\ slice'[<<v, g>>] # 0
      BY DEF CommitsFromThreads
    <2>1. Key(v, g) \in committed
      BY <1>1 DEF Key
    <2>2. stage[v] \notin {"new", "counting"}
      BY <1>1
    <2>3. thread' = thread /\ slice' = slice
      BY <1>1
    <2> HIDE DEF Typed, TypeOK, Accepted, Refused, LostBit, Acknowledge
    <2> QED
      BY <2>1, <2>2, <2>3 DEF CommitsFromThreads
  <1>6. AcksFromCommits'
    BY <1>1 DEF AcksFromCommits, Key
  <1>7. AckedSlicesOwn'
    <2>1. ASSUME NEW v \in Uploads, NEW g \in Groups, stage'[v] = "acked"
          PROVE  slice'[<<v, g>>] = v
      <3>1. Key(v, g) \in committed
        BY <1>1, <1>6, <2>1 DEF AcksFromCommits, Key
      <3>2. stage[v] \in {"sending", "acked"}
        BY <1>1, <2>1
      <3>3. slice[<<v, g>>] # 0
        BY <3>1, <3>2 DEF CommitsFromThreads
      <3> QED
        BY <1>1, <3>2, <3>3, RunningSlicesOwn
    <2> QED
      BY <2>1 DEF AckedSlicesOwn
  <1>8. Metadata'
    <2>1. \A v \in Uploads : \A g \in Groups :
              note[<<v, g>>] = "asked" => stage'[v] = "placing"
      BY <1>1 DEF Metadata, AllNotified
    <2>2. \A v \in Uploads : stage'[v] \in {"sending", "acked"} => sid[v] \in table'
      BY <1>1 DEF Metadata
    <2>3. ASSUME NEW v \in Uploads, stage'[v] \in {"sending", "acked"},
                 NEW g \in Groups, Key(v, g) \in committed
          PROVE  Key(v, g) \notin updating
      <3>1. CASE stage[v] = "placing"
        <4>1. slice[<<v, g>>] # 0
          <5>1. stage[v] \notin {"new", "counting"} /\ Key(v, g) \in committed
            BY <2>3, <3>1
          <5> HIDE DEF Typed, TypeOK
          <5> QED
            BY <5>1 DEF CommitsFromThreads
        <4> QED
          BY <3>1, <4>1, RunningSlicesOwn
      <3>2. CASE stage[v] # "placing"
        BY <1>1, <2>3, <3>2 DEF Metadata
      <3> QED
        BY <3>1, <3>2
    <2> QED
      BY <1>1, <2>1, <2>2, <2>3 DEF Metadata, Key
  <1> QED
    BY <1>2, <1>3, <1>4, <1>5, <1>6, <1>7, <1>8

(***************************************************************************)
(* The calls of notify_proxies_ready.  A key enters the updating table     *)
(* while its upload is still placing.                                      *)
(***************************************************************************)
LEMMA SoundNotified ==
    ASSUME Typed, Sound, NEW u \in Uploads, NEW g \in Groups,
           \/ Schedule(<<u, g>>)
           \/ NotifyReturns(<<u, g>>)
           \/ NotifyFails(<<u, g>>)
    PROVE  Sound'
  <1> DEFINE t == <<u, g>>
  <1> USE DEF clientVars, coordVars, proxyVars
  <1> USE DEF Schedule, NotifyReturns, NotifyFails
  <1>1. t \in Threads
    BY DEF Threads
  <1>2. /\ UNCHANGED <<nextId, stage, sid, table, committed, conn, backlog, slice>>
        /\ stage[u] \notin {"new", "counting"}
    BY DEF Sound, Unplanned
  <1>3. /\ \A x \in Threads : x # t => note'[x] = note[x] /\ thread'[x] = thread[x]
        /\ note'[t] = "asked" => note[t] = "asked"
        /\ thread'[t] = thread[t] \/ thread[t] = "none"
    BY <1>1 DEF Typed, TypeOK
  <1>4. \A v \in Uploads : \A h \in Groups :
            <<v, h>> \in Threads /\ (<<v, h>> = t => v = u)
    BY DEF Threads
  <1>5. OneAtATime' /\ IdsFresh' /\ OnlyAcceptedSend' /\ SliceOnce' /\ AckedSlicesOwn'
    BY <1>2 DEF Sound, OneAtATime, IdsFresh, OnlyAcceptedSend, SliceOnce, AckedSlicesOwn
  <1>6. Unplanned'
    BY <1>2, <1>3, <1>4 DEF Sound, Unplanned
  <1>7. CommitsFromThreads'
    BY <1>2, <1>3, <1>4 DEF Sound, CommitsFromThreads, Key
  <1>8. AcksFromCommits'
    BY <1>2 DEF Sound, AcksFromCommits, Key
  <1>9. Metadata'
    <2>1. \A v \in Uploads : \A h \in Groups : note'[<<v, h>>] = "asked" => stage[v] = "placing"
      BY <1>3, <1>4 DEF Sound, Metadata
    <2>2. \/ updating' = updating
          \/ stage[u] = "placing" /\ updating' = updating \cup {Key(u, g)}
      BY DEF Sound, Metadata
    <2>3. \A v \in Uploads : \A h \in Groups :
              stage[v] \in {"sending", "acked"} /\ Key(v, h) \notin updating
                  => Key(v, h) \notin updating'
      BY <2>2 DEF Sound, IdsFresh, Key
    <2> QED
      BY <1>2, <2>1, <2>3 DEF Sound, Metadata, Key
  <1> QED
    BY <1>5, <1>6, <1>7, <1>8, <1>9 DEF Sound

(***************************************************************************)
(* The client's threads.                                                   *)
(***************************************************************************)
LEMMA SoundClient ==
    ASSUME Typed, Sound, NEW u \in Uploads, NEW g \in Groups,
           Connect(<<u, g>>) \/ SeeCommit(<<u, g>>)
    PROVE  Sound'
  <1> DEFINE t == <<u, g>>
  <1> USE DEF coordVars, proxyVars
  <1> USE DEF Connect, SeeCommit
  <1>1. t \in Threads
    BY DEF Threads
  <1>2. /\ UNCHANGED <<nextId, stage, sid, note, table, updating, committed, thread, slice>>
        /\ conn' = [conn EXCEPT ![t] = conn'[t]] /\ conn'[t] # "none"
        /\ stage[u] \in {"sending", "acked"}
    BY <1>1 DEF Typed, TypeOK, Sound, OnlyAcceptedSend
  <1>3. \A v \in Uploads : \A h \in Groups :
            /\ <<v, h>> # t => conn'[<<v, h>>] = conn[<<v, h>>]
            /\ <<v, h>> = t => v = u /\ h = g
    BY <1>1, <1>2 DEF Typed, TypeOK, Threads
  <1>4. OneAtATime' /\ IdsFresh' /\ AckedSlicesOwn' /\ CommitsFromThreads'
    BY <1>2 DEF Sound, OneAtATime, IdsFresh, AckedSlicesOwn, CommitsFromThreads, Key
  <1>5. Unplanned'
    BY <1>2, <1>3 DEF Sound, Unplanned
  <1>6. OnlyAcceptedSend'
    BY <1>2, <1>3 DEF Sound, OnlyAcceptedSend
  <1>7. SliceOnce'
    <2>0. \A h \in Groups : \A p \in backlog'[h] :
              /\ p \in Uploads
              /\ p \in backlog[h] \/ (p = u /\ h = g /\ conn[t] = "none")
      BY DEF Typed, TypeOK
    <2>1. ASSUME NEW h \in Groups, NEW p \in backlog'[h] PROVE conn'[<<p, h>>] # "none"
      <3>1. CASE p = u /\ h = g
        BY <1>2, <3>1
      <3>2. CASE ~(p = u /\ h = g)
        <4>1. p \in backlog[h] /\ p \in Uploads /\ <<p, h>> # t
          BY <2>0, <3>2
        <4> QED
          BY <1>3, <4>1 DEF Sound, SliceOnce
      <3> QED
        BY <3>1, <3>2
    <2>2. ASSUME NEW h \in Groups, NEW v \in Uploads, NEW p \in Uploads,
                 slice[<<v, h>>] = p
          PROVE  conn'[<<p, h>>] # "none" /\ p \notin backlog'[h]
      <3>1. conn[<<p, h>>] # "none" /\ p \notin backlog[h]
        BY <2>2 DEF Sound, SliceOnce
      <3>2. conn'[<<p, h>>] # "none"
        BY <1>2, <1>3, <3>1
      <3>3. p \notin backlog'[h]
        BY <2>0, <3>1
      <3> QED
        BY <3>2, <3>3
    <2> QED
      BY <1>2, <2>1, <2>2 DEF Sound, SliceOnce
  <1>8. AcksFromCommits'
    <2>1. conn'[t] = "committed" => Key(u, g) \in committed
      BY <1>1 DEF Typed, TypeOK
    <2>2. stage[u] = "acked" => conn'[t] = "committed"
      BY <1>1 DEF Typed, TypeOK, Sound, AcksFromCommits
    <2> QED
      BY <1>2, <1>3, <2>1, <2>2 DEF Sound, AcksFromCommits, Key
  <1>9. Metadata'
    BY <1>2 DEF Sound, Metadata, Key
  <1> QED
    BY <1>4, <1>5, <1>6, <1>7, <1>8, <1>9 DEF Sound

(***************************************************************************)
(* A proxy's thread takes a waiting slice.                                 *)
(***************************************************************************)
LEMMA SoundAccept ==
    ASSUME Typed, Sound, NEW u \in Uploads, NEW g \in Groups, Accept(<<u, g>>)
    PROVE  Sound'
  <1> DEFINE t == <<u, g>>
  <1>1. t \in Threads
    BY DEF Threads
  <1>2. PICK p \in backlog[g] : /\ slice' = [slice EXCEPT ![t] = p]
                               /\ backlog' = [backlog EXCEPT ![g] = backlog[g] \ {p}]
    BY DEF Accept
  <1>3. /\ UNCHANGED <<nextId, stage, sid, note, table, updating, committed, conn>>
        /\ thread[t] = "accepting" /\ thread' = [thread EXCEPT ![t] = "received"]
    BY DEF Accept, clientVars, coordVars
  <1>4. /\ p \in Uploads /\ slice'[t] = p /\ slice[t] = 0
        /\ thread'[t] = "received"
    BY <1>1, <1>2, <1>3 DEF Typed, TypeOK, SliceHeld
  <1>5. \A v \in Uploads : \A h \in Groups :
            <<v, h>> # t => /\ slice'[<<v, h>>] = slice[<<v, h>>]
                            /\ thread'[<<v, h>>] = thread[<<v, h>>]
    BY <1>1, <1>2, <1>3 DEF Typed, TypeOK, Threads
  <1>6. /\ backlog'[g] = backlog[g] \ {p}
        /\ \A h \in Groups : h # g => backlog'[h] = backlog[h]
    BY <1>2 DEF Typed, TypeOK
  <1>7. OneAtATime' /\ IdsFresh' /\ OnlyAcceptedSend'
    BY <1>3 DEF Sound, OneAtATime, IdsFresh, OnlyAcceptedSend
  <1>8. Unplanned'
    <2>1. stage[u] \notin {"new", "counting"}
      BY <1>3 DEF Sound, Unplanned
    <2> QED
      BY <1>3, <1>5, <2>1 DEF Sound, Unplanned
  <1>9. conn[<<p, g>>] # "none" /\ \A v \in Uploads : slice[<<v, g>>] # p
    BY <1>4 DEF Sound, SliceOnce
  <1>10. SliceOnce'
    <2> SUFFICES ASSUME NEW h \in Groups
                 PROVE  /\ \A q \in backlog'[h] : conn'[<<q, h>>] # "none"
                        /\ \A v, q \in Uploads : slice'[<<v, h>>] = q =>
                               conn'[<<q, h>>] # "none" /\ q \notin backlog'[h]
                        /\ \A v, w \in Uploads :
                               slice'[<<v, h>>] = slice'[<<w, h>>] /\ slice'[<<v, h>>] # 0
                                   => v = w
      BY DEF SliceOnce
    <2>1. CASE h # g
      <3>1. backlog'[h] = backlog[h] /\ conn' = conn
        BY <1>3, <1>6, <2>1
      <3>2. \A v \in Uploads : slice'[<<v, h>>] = slice[<<v, h>>]
        BY <1>5, <2>1
      <3> QED
        BY <3>1, <3>2 DEF Sound, SliceOnce
    <2>2. CASE h = g
      <3>1. \A q \in backlog'[h] : conn'[<<q, h>>] # "none"
        BY <1>3, <1>6, <2>2 DEF Sound, SliceOnce
      <3>2. \A v \in Uploads : slice'[<<v, g>>] = IF v = u THEN p ELSE slice[<<v, g>>]
        BY <1>4, <1>5
      <3>3. ASSUME NEW v \in Uploads, NEW q \in Uploads, slice'[<<v, g>>] = q
            PROVE  conn[<<q, g>>] # "none" /\ q \notin backlog'[g]
        <4>1. CASE v = u
          BY <1>6, <1>9, <3>2, <3>3, <4>1
        <4>2. CASE v # u
          BY <1>6, <3>2, <3>3, <4>2 DEF Sound, SliceOnce
        <4> QED
          BY <4>1, <4>2
      <3>4. ASSUME NEW v \in Uploads, NEW w \in Uploads,
                   slice'[<<v, g>>] = slice'[<<w, g>>], slice'[<<v, g>>] # 0
            PROVE  v = w
        <4>1. CASE v # u /\ w # u
          BY <3>2, <3>4, <4>1 DEF Sound, SliceOnce
        <4>2. CASE v = u \/ w = u
          BY <1>9, <3>2, <3>4, <4>2
        <4> QED
          BY <4>1, <4>2
      <3> QED
        BY <1>3, <2>2, <3>1, <3>3, <3>4
    <2> QED
      BY <2>1, <2>2
  <1>11. ~(stage[u] \notin {"new", "counting"} /\ Key(u, g) \in committed)
    BY <1>3 DEF Sound, CommitsFromThreads
  <1>12. CommitsFromThreads'
    <2>1. \A v \in Uploads : \A h \in Groups :
              stage[v] \notin {"new", "counting"} /\ Key(v, h) \in committed => <<v, h>> # t
      BY <1>11
    <2> QED
      BY <1>3, <1>5, <2>1 DEF Sound, CommitsFromThreads, Key
  <1>13. AcksFromCommits' /\ Metadata'
    BY <1>3 DEF Sound, AcksFromCommits, Metadata, Key
  <1>14. AckedSlicesOwn'
    <2>1. stage[u] # "acked"
      BY <1>11 DEF Sound, AcksFromCommits
    <2> QED
      BY <1>3, <1>5, <2>1 DEF Sound, AckedSlicesOwn
  <1> QED
    BY <1>7, <1>8, <1>10, <1>12, <1>13, <1>14 DEF Sound

(***************************************************************************)
(* The thread's report.                                                    *)
(***************************************************************************)
LEMMA SoundReport ==
    ASSUME Typed, Sound, NEW u \in Uploads, NEW g \in Groups, Report(<<u, g>>)
    PROVE  Sound'
  <1> DEFINE t == <<u, g>>
  <1>1. t \in Threads
    BY DEF Threads
  <1>2. /\ UNCHANGED <<nextId, stage, sid, note, table, conn, backlog, slice>>
        /\ thread[t] = "linked" /\ thread' = [thread EXCEPT ![t] = "ended"]
        /\ committed' = committed \cup {Key(u, g)}
        /\ updating' = updating \ {Key(u, g)}
    BY DEF Report, clientVars
  <1>3. /\ thread'[t] = "ended" /\ slice[t] # 0
        /\ \A x \in Threads : x # t => thread'[x] = thread[x]
    BY <1>1, <1>2 DEF Typed, TypeOK, SliceHeld
  <1>4. \A v \in Uploads : \A h \in Groups : <<v, h>> \in Threads
    BY DEF Threads
  <1>5. stage[u] \notin {"new", "counting"}
    BY <1>2 DEF Sound, Unplanned
  <1>6. OneAtATime' /\ IdsFresh' /\ OnlyAcceptedSend' /\ SliceOnce' /\ AckedSlicesOwn'
    BY <1>2 DEF Sound, OneAtATime, IdsFresh, OnlyAcceptedSend, SliceOnce, AckedSlicesOwn
  <1>7. Unplanned'
    <2>1. \A v \in Uploads : \A h \in Groups :
              stage[v] \in {"new", "counting"} => thread'[<<v, h>>] = thread[<<v, h>>]
      BY <1>3, <1>4, <1>5
    <2> QED
      BY <1>2, <2>1 DEF Sound, Unplanned
  <1>8. \A v \in Uploads : \A h \in Groups :
            stage[v] # "new" /\ Key(v, h) = Key(u, g) => v = u /\ h = g
    BY <1>5 DEF Sound, IdsFresh, Key
  <1>9. CommitsFromThreads'
    <2> SUFFICES ASSUME NEW v \in Uploads, NEW h \in Groups,
                        stage[v] \notin {"new", "counting"}, Key(v, h) \in committed'
                 PROVE  thread'[<<v, h>>] = "ended" /\ slice[<<v, h>>] # 0
      BY <1>2 DEF CommitsFromThreads, Key
    <2>1. CASE Key(v, h) = Key(u, g)
      BY <1>3, <1>8, <2>1
    <2>2. CASE Key(v, h) \in committed
      BY <1>3, <1>4, <2>2 DEF Sound, CommitsFromThreads
    <2> QED
      BY <1>2, <2>1, <2>2
  <1>10. AcksFromCommits'
    BY <1>2 DEF Sound, AcksFromCommits, Key
  <1>11. Metadata'
    <2>1. \A v \in Uploads : \A h \in Groups :
              stage[v] \in {"sending", "acked"} /\ Key(v, h) \in committed'
                  => Key(v, h) \notin updating'
      BY <1>2 DEF Sound, Metadata
    <2> QED
      BY <1>2, <2>1 DEF Sound, Metadata, Key
  <1> QED
    BY <1>6, <1>7, <1>9, <1>10, <1>11 DEF Sound

(***************************************************************************)
(* Threads that move on, or end without a report, and all that happens at  *)
(* the datanodes.                                                          *)
(***************************************************************************)
LEMMA SoundElsewhere ==
    ASSUME Typed, Sound,
           UNCHANGED <<nextId, stage, sid, note, table, updating, committed, conn, slice>>,
           \A g \in Groups : backlog'[g] \subseteq backlog[g],
           \A u \in Uploads : \A g \in Groups :
               /\ thread[<<u, g>>] = "none" => thread'[<<u, g>>] = "none"
               /\ thread[<<u, g>>] = "ended" => thread'[<<u, g>>] = "ended"
    PROVE  Sound'
  <1>1. OneAtATime' /\ IdsFresh' /\ OnlyAcceptedSend' /\ AckedSlicesOwn'
    BY DEF Sound, OneAtATime, IdsFresh, OnlyAcceptedSend, AckedSlicesOwn
  <1>2. Unplanned' /\ CommitsFromThreads'
    BY DEF Sound, Unplanned, CommitsFromThreads, Key
  <1>3. SliceOnce'
    BY DEF Sound, SliceOnce
  <1>4. AcksFromCommits' /\ Metadata'
    BY DEF Sound, AcksFromCommits, Metadata, Key
  <1> QED
    BY <1>1, <1>2, <1>3, <1>4 DEF Sound

(***************************************************************************)
(* The other steps of a proxy's thread, and of a datanode's.               *)
(***************************************************************************)
LEMMA SoundThread ==
    ASSUME Typed, Sound, NEW u \in Uploads, NEW g \in Groups,
           \/ LockAccept(<<u, g>>) \/ ReadBreaks(<<u, g>>) \/ Call(<<u, g>>)
           \/ Link(<<u, g>>) \/ ReportLost(<<u, g>>)
           \/ Save(<<u, g>>) \/ SaveAborts(<<u, g>>)
    PROVE  Sound'
  <1> DEFINE t == <<u, g>>
  <1> USE DEF LockAccept, ReadBreaks, Call, Link, ReportLost, Save, SaveAborts
  <1>1. UNCHANGED <<nextId, stage, sid, note, table, updating, committed, conn, slice>>
    BY DEF clientVars, coordVars, proxyVars
  <1>2. \A h \in Groups : backlog'[h] \subseteq backlog[h]
    <2>1. CASE ReadBreaks(t)
      BY <2>1 DEF Typed, TypeOK
    <2>2. CASE ~ReadBreaks(t)
      BY <2>2 DEF proxyVars
    <2> QED
      BY <2>1, <2>2
  <1>3. \A x \in Threads : \/ thread'[x] = thread[x]
                           \/ x = t /\ thread[x] \notin {"none", "ended"}
    BY DEF Typed, TypeOK, proxyVars
  <1>4. \A v \in Uploads : \A h \in Groups :
            /\ thread[<<v, h>>] = "none" => thread'[<<v, h>>] = "none"
            /\ thread[<<v, h>>] = "ended" => thread'[<<v, h>>] = "ended"
    BY <1>3 DEF Threads
  <1> QED
    BY <1>1, <1>2, <1>4, SoundElsewhere

(***************************************************************************)
(* The steps of a proxy or a datanode as a whole.                          *)
(***************************************************************************)
LEMMA SoundGroup ==
    ASSUME Typed, Sound, NEW g \in Groups,
           Receive(g) \/ NodeStops(g) \/ NodeStarts(g) \/ ProxyRestarts(g)
    PROVE  Sound'
  <1> USE DEF Receive, NodeStops, NodeStarts, ProxyRestarts
  <1>1. UNCHANGED <<nextId, stage, sid, note, table, updating, committed, conn, slice>>
    BY DEF clientVars, coordVars, proxyVars
  <1>2. \A h \in Groups : backlog'[h] \subseteq backlog[h]
    BY DEF Typed, TypeOK, proxyVars
  <1>3. \A x \in Threads : \/ thread'[x] = thread[x]
                           \/ thread[x] # "none" /\ thread'[x] = "ended"
    BY DEF Typed, TypeOK, proxyVars
  <1>4. \A v \in Uploads : \A h \in Groups :
            /\ thread[<<v, h>>] = "none" => thread'[<<v, h>>] = "none"
            /\ thread[<<v, h>>] = "ended" => thread'[<<v, h>>] = "ended"
    BY <1>3 DEF Threads
  <1> QED
    BY <1>1, <1>2, <1>4, SoundElsewhere

(***************************************************************************)
(* Every step keeps the invariant.                                         *)
(***************************************************************************)
LEMMA SoundNext == ASSUME SingleClient, Typed, Sound, [Next]_vars PROVE Sound'
  <1>1. ASSUME NEW t \in Threads,
               \/ Schedule(t) \/ PlanStep(t)
               \/ NotifyFails(t) \/ ReadBreaks(t) \/ ReportLost(t)
        PROVE  Sound'
    <2>1. PICK u \in Uploads, g \in Groups : t = <<u, g>>
      BY DEF Threads
    <2> QED
      BY <1>1, <2>1, SoundNotified, SoundClient, SoundAccept, SoundReport, SoundThread
      DEF PlanStep
  <1>2. ASSUME NEW u \in Uploads,
               StartSet(u) \/ CoordStep(u) \/ Acknowledge(u) \/ LostBit(u)
        PROVE  Sound'
    BY <1>2, SoundStartSet, SoundPlan, SoundMovedOn DEF CoordStep
  <1>3. CASE UNCHANGED vars
    BY <1>3, SoundElsewhere DEF vars, clientVars, coordVars, proxyVars
  <1> QED
    BY <1>1, <1>2, <1>3, SoundGroup DEF Next, FaultStep

(***************************************************************************)
(* With one client, the invariant always holds.                            *)
(***************************************************************************)
THEOREM SoundAlways == ASSUME SingleClient PROVE Spec => [](Typed /\ Sound)
  <1>1. Typed /\ Sound /\ [Next]_vars => Typed' /\ Sound'
    BY TypedNext, SoundNext
  <1> QED
    BY <1>1, TypedInit, SoundInit, PTL DEF Spec

(***************************************************************************)
(* With one client, the threads of an acknowledged stripe read its slices, *)
(* whatever failed.                                                        *)
(***************************************************************************)
THEOREM AckedSlicesAlwaysOwn == ASSUME SingleClient PROVE Spec => []AckedSlicesOwn
  <1>1. Sound => AckedSlicesOwn
    BY DEF Sound
  <1> QED
    BY <1>1, SoundAlways, PTL

(***************************************************************************)
(* With one client, the metadata of an acknowledged stripe is complete and *)
(* settled.                                                                *)
(***************************************************************************)
THEOREM AckedMetadataAlways == ASSUME SingleClient PROVE Spec => []AckedMetadata
  <1>1. Sound => AckedMetadata
    BY DEF Sound, AcksFromCommits, Metadata, AckedMetadata
  <1> QED
    BY <1>1, SoundAlways, PTL

-----------------------------------------------------------------------------
(***************************************************************************)
(* Counting what lies on a datanode.                                       *)
(***************************************************************************)
Places(s, p) == {i \in 1..Len(s) : s[i] = p}

LEMMA PlacesFinite ==
    ASSUME NEW S, NEW s \in Seq(S), NEW p
    PROVE  IsFiniteSet(Places(s, p)) /\ Cardinality(Places(s, p)) \in Nat
  <1>1. IsFiniteSet(1..Len(s))
    BY FS_Interval
  <1>2. Places(s, p) \subseteq 1..Len(s)
    BY DEF Places
  <1>3. IsFiniteSet(Places(s, p))
    BY <1>1, <1>2, FS_Subset
  <1> QED
    BY <1>3, FS_CardinalityType

(***************************************************************************)
(* One connection more.                                                    *)
(***************************************************************************)
LEMMA PlacesAppended ==
    ASSUME NEW S, NEW s \in Seq(S), NEW x \in S, NEW p
    PROVE  Cardinality(Places(Append(s, x), p))
             = Cardinality(Places(s, p)) + (IF x = p THEN 1 ELSE 0)
  <1> DEFINE n == Len(s)
             A == Places(s, p)
             B == Places(Append(s, x), p)
  <1>1. n \in Nat /\ Len(Append(s, x)) = n + 1
        /\ \A i \in 1..(n + 1) : Append(s, x)[i] = IF i = n + 1 THEN x ELSE s[i]
    OBVIOUS
  <1>2. A = {i \in 1..n : s[i] = p}
    BY DEF Places
  <1>3. B = {i \in 1..(n + 1) : (IF i = n + 1 THEN x ELSE s[i]) = p}
    BY <1>1 DEF Places
  <1>4. IsFiniteSet(A) /\ Cardinality(A) \in Nat
    BY PlacesFinite
  <1> HIDE DEF n, A, B
  <1>5. 1..(n + 1) = (1..n) \cup {n + 1} /\ n + 1 \notin 1..n
    BY <1>1
  <1>6. CASE x = p
    <2>1. B = A \cup {n + 1} /\ n + 1 \notin A
      BY <1>2, <1>3, <1>5, <1>6
    <2> QED
      BY <1>4, <1>6, <2>1, FS_AddElement DEF A, B
  <1>7. CASE x # p
    <2>1. B = A
      BY <1>2, <1>3, <1>5, <1>7
    <2> QED
      BY <1>4, <1>7, <2>1 DEF A, B
  <1> QED
    BY <1>6, <1>7

(***************************************************************************)
(* The first connection taken.                                             *)
(***************************************************************************)
LEMMA PlacesTail ==
    ASSUME NEW S, NEW s \in Seq(S), s # <<>>, NEW p
    PROVE  Cardinality(Places(s, p))
             = Cardinality(Places(Tail(s), p)) + (IF Head(s) = p THEN 1 ELSE 0)
  <1> DEFINE n == Len(s)
             A == Places(s, p)
             B == Places(Tail(s), p)
             C == A \ {1}
             f == [i \in B |-> i + 1]
  <1>1. n \in Nat \ {0} /\ Len(Tail(s)) = n - 1 /\ Head(s) = s[1] /\ Tail(s) \in Seq(S)
        /\ \A i \in 1..(n - 1) : Tail(s)[i] = s[i + 1]
    OBVIOUS
  <1>2. A = {i \in 1..n : s[i] = p} /\ B = {i \in 1..(n - 1) : s[i + 1] = p}
    BY <1>1 DEF Places
  <1>3. IsFiniteSet(A) /\ Cardinality(A) \in Nat /\ IsFiniteSet(B)
    BY <1>1, PlacesFinite
  <1> HIDE DEF n, A, B
  <1>4. f \in Bijection(B, C)
    <2>1. \A i \in B : i \in Nat /\ f[i] = i + 1 /\ f[i] \in C
      BY <1>1, <1>2
    <2>2. \A j \in C : j - 1 \in B /\ (j - 1) + 1 = j
      BY <1>1, <1>2
    <2>3. \A i, j \in B : f[i] = f[j] => i = j
      BY <2>1
    <2>4. \A j \in C : \E i \in B : f[i] = j
      BY <2>1, <2>2
    <2>5. f \in [B -> C]
      BY <2>1
    <2> HIDE DEF f, C
    <2> QED
      BY <2>3, <2>4, <2>5 DEF Bijection, Injection, IsInjective, Surjection
  <1>5. Cardinality(C) = Cardinality(B)
    <2>1. ExistsBijection(B, C)
      BY <1>4 DEF ExistsBijection
    <2> QED
      BY <1>3, <2>1, FS_Bijection, Zenon
  <1>6. CASE Head(s) = p
    <2>1. 1 \in A
      BY <1>1, <1>2, <1>6
    <2>2. Cardinality(C) = Cardinality(A) - 1
      BY <1>3, <2>1, FS_RemoveElement
    <2> QED
      BY <1>3, <1>5, <1>6, <2>2 DEF A, B
  <1>7. CASE Head(s) # p
    <2>1. C = A
      BY <1>1, <1>2, <1>7
    <2>2. Cardinality(B) = Cardinality(A) /\ Cardinality(B) \in Nat
      BY <1>3, <1>5, <2>1
    <2>3. Cardinality(A) = Cardinality(B) + (IF Head(s) = p THEN 1 ELSE 0)
      BY <1>7, <2>2
    <2> QED
      BY <2>3 DEF A, B
  <1> QED
    BY <1>6, <1>7

-----------------------------------------------------------------------------
(***************************************************************************)
(* Until something fails, a plan's data passes through one stage after the *)
(* other on the datanode, and a block file comes from a thread that is     *)
(* through with it.                                                        *)
(***************************************************************************)
Calling == {"called", "linked", "ended"}

Flow ==
    /\ \A g \in Groups : alive[g]
    /\ \A u \in Uploads : \A g \in Groups :
          /\ u \in calls[g] => thread[<<u, g>>] \in Calling /\ hold[<<u, g>>] = 0
          /\ hold[<<u, g>>] # 0 => thread[<<u, g>>] \in Calling
    /\ \A n \in Ids : \A g \in Groups : disk[<<n, g>>] # 0 =>
          \E u \in Uploads : /\ sid[u] = n /\ thread[<<u, g>>] \in Calling
                             /\ u \notin calls[g] /\ hold[<<u, g>>] = 0

Conserved == \A p \in Uploads : \A g \in Groups :
                Copies(p, g) = IF PassedOn(p, g) THEN 1 ELSE 0

Kept == faults = 0 => Flow /\ Conserved

(***************************************************************************)
(* Nothing is passed on at first.                                          *)
(***************************************************************************)
LEMMA KeptInit == Init => Kept
  <1> SUFFICES ASSUME Init PROVE Flow /\ Conserved
    BY DEF Kept
  <1>1. \A u \in Uploads : \A g \in Groups : <<u, g>> \in Threads
    BY DEF Threads
  <1>2. \A n \in Ids : \A g \in Groups : <<n, g>> \in Keys
    BY DEF Keys
  <1>3. Flow
    BY <1>1, <1>2 DEF Init, Flow
  <1>4. ASSUME NEW p \in Uploads, NEW g \in Groups
        PROVE  Copies(p, g) = IF PassedOn(p, g) THEN 1 ELSE 0
    <2>1. ~PassedOn(p, g)
      BY <1>1 DEF Init, PassedOn
    <2>2. links[g] = <<>> /\ p # 0
      BY DEF Init, Uploads
    <2>3. {i \in 1..Len(links[g]) : links[g][i] = p} = {}
      BY <2>2
    <2>4. {u \in Uploads : hold[<<u, g>>] = p} = {}
      BY <1>1, <2>2 DEF Init
    <2>5. {n \in Ids : disk[<<n, g>>] = p} = {}
      BY <1>2, <2>2 DEF Init
    <2>6. Copies(p, g) = 0 + 0 + 0
      BY <2>3, <2>4, <2>5, FS_EmptySet, Zenon DEF Copies
    <2> QED
      BY <2>1, <2>6
  <1> QED
    BY <1>3, <1>4 DEF Conserved

(***************************************************************************)
(* A step that touches nothing on the datanodes, and moves no thread past  *)
(* its call.                                                               *)
(***************************************************************************)
LEMMA KeptElsewhere ==
    ASSUME Typed, Sound, Kept, faults = 0,
           UNCHANGED <<links, hold, disk, alive, calls>>,
           \A u \in Uploads : \A g \in Groups :
               thread[<<u, g>>] # "none" => sid'[u] = sid[u],
           \A t \in Threads :
               \/ thread'[t] = thread[t] /\ slice'[t] = slice[t]
               \/ thread[t] \notin Calling /\ thread'[t] \notin Calling
               \/ thread[t] = "linked" /\ thread'[t] = "ended" /\ slice'[t] = slice[t]
    PROVE  Kept'
  <1>1. \A u \in Uploads : \A g \in Groups : <<u, g>> \in Threads
    BY DEF Threads
  <1>2. \A t \in Threads : thread[t] \in Calling => thread'[t] \in Calling
    BY DEF Calling
  <1>3. Flow /\ Conserved
    BY DEF Kept
  <1>4. Flow'
    <2>1. \A g \in Groups : alive'[g]
      BY <1>3 DEF Flow
    <2>2. \A u \in Uploads : \A g \in Groups :
              /\ u \in calls'[g] => thread'[<<u, g>>] \in Calling /\ hold'[<<u, g>>] = 0
              /\ hold'[<<u, g>>] # 0 => thread'[<<u, g>>] \in Calling
      BY <1>1, <1>2, <1>3 DEF Flow
    <2>3. ASSUME NEW n \in Ids, NEW g \in Groups, disk'[<<n, g>>] # 0
          PROVE  \E u \in Uploads : /\ sid'[u] = n /\ thread'[<<u, g>>] \in Calling
                                    /\ u \notin calls'[g] /\ hold'[<<u, g>>] = 0
      <3>1. PICK u \in Uploads : /\ sid[u] = n /\ thread[<<u, g>>] \in Calling
                                 /\ u \notin calls[g] /\ hold[<<u, g>>] = 0
        BY <1>3, <2>3 DEF Flow
      <3>2. sid'[u] = n /\ thread'[<<u, g>>] \in Calling
        BY <1>1, <1>2, <3>1 DEF Calling
      <3> QED
        BY <3>1, <3>2
    <2> QED
      BY <2>1, <2>2, <2>3 DEF Flow
  <1>5. ASSUME NEW p \in Uploads, NEW g \in Groups
        PROVE  (Copies(p, g) = IF PassedOn(p, g) THEN 1 ELSE 0)'
    <2>1. Copies(p, g)' = Copies(p, g)
      BY DEF Copies
    <2>2. \A t \in Threads : (thread'[t] \in {"linked", "ended"} /\ slice'[t] = p)
                               <=> (thread[t] \in {"linked", "ended"} /\ slice[t] = p)
      BY DEF Calling
    <2>3. PassedOn(p, g)' <=> PassedOn(p, g)
      BY <1>1, <2>2 DEF PassedOn
    <2> QED
      BY <1>3, <2>1, <2>3 DEF Conserved
  <1> QED
    BY <1>4, <1>5 DEF Kept, Conserved

(***************************************************************************)
(* The call to the datanode starts a thread there that has nothing yet.    *)
(***************************************************************************)
LEMMA KeptCall ==
    ASSUME Typed, Kept, faults = 0, faults' = 0,
           NEW u \in Uploads, NEW g \in Groups, Call(<<u, g>>)
    PROVE  Kept'
  <1> DEFINE t == <<u, g>>
  <1>1. Flow /\ Conserved /\ t \in Threads
    BY DEF Kept, Threads
  <1>2. /\ thread[t] = "received" /\ thread' = [thread EXCEPT ![t] = "called"]
        /\ calls' = [calls EXCEPT ![g] = @ \cup {u}]
        /\ UNCHANGED <<sid, slice, links, hold, disk, alive>>
    <2>1. alive[g]
      BY <1>1 DEF Flow
    <2>2. t[1] = u /\ t[2] = g
      OBVIOUS
    <2>3. ~Fault
      BY DEF Fault
    <2>4. calls' = [calls EXCEPT ![t[2]] = @ \cup {t[1]}]
      BY <2>1, <2>2, <2>3, Zenon DEF Call
    <2> QED
      BY <2>2, <2>4 DEF Call, clientVars
  <1>3. /\ thread \in [Threads -> ThreadStates] /\ calls \in [Groups -> SUBSET Uploads]
        /\ \A v \in Uploads : \A h \in Groups : <<v, h>> \in Threads
    BY DEF Typed, TypeOK, Threads
  <1>4. \A x \in Threads : /\ x # t => thread'[x] = thread[x]
                           /\ x = t => thread'[x] = "called" /\ thread[x] \notin Calling
    BY <1>2, <1>3 DEF Calling
  <1>5. \A v \in Uploads : \A h \in Groups :
            v \in calls'[h] <=> v \in calls[h] \/ (v = u /\ h = g)
    BY <1>2, <1>3
  <1>6. \A v \in Uploads : \A h \in Groups : <<v, h>> = t <=> v = u /\ h = g
    OBVIOUS
  <1>7. hold[t] = 0
    <2>1. hold[<<u, g>>] # 0 => thread[<<u, g>>] \in Calling
      BY <1>1 DEF Flow
    <2> QED
      BY <1>1, <1>4, <2>1
  <1> HIDE DEF t
  <1>8. Flow'
    <2>1. \A h \in Groups : alive'[h]
      BY <1>1, <1>2 DEF Flow
    <2>2. \A v \in Uploads : \A h \in Groups :
              /\ v \in calls'[h] => thread'[<<v, h>>] \in Calling /\ hold'[<<v, h>>] = 0
              /\ hold'[<<v, h>>] # 0 => thread'[<<v, h>>] \in Calling
      <3> SUFFICES ASSUME NEW v \in Uploads, NEW h \in Groups
                   PROVE  /\ v \in calls'[h] => /\ thread'[<<v, h>>] \in Calling
                                                /\ hold'[<<v, h>>] = 0
                          /\ hold'[<<v, h>>] # 0 => thread'[<<v, h>>] \in Calling
        OBVIOUS
      <3> DEFINE x == <<v, h>>
      <3>1. /\ v \in calls[h] => thread[x] \in Calling /\ hold[x] = 0
            /\ hold[x] # 0 => thread[x] \in Calling
        BY <1>1 DEF Flow
      <3>2. x \in Threads /\ (x = t <=> v = u /\ h = g)
        BY <1>3, <1>6
      <3>3. v \in calls'[h] <=> v \in calls[h] \/ (v = u /\ h = g)
        BY <1>5
      <3> HIDE DEF x
      <3>4. CASE x = t
        BY <1>2, <1>4, <1>7, <3>2, <3>4 DEF Calling, x
      <3>5. CASE x # t
        <4>1. thread'[x] = thread[x] /\ hold'[x] = hold[x]
          BY <1>2, <1>4, <3>2, <3>5
        <4> QED
          BY <3>1, <3>2, <3>3, <3>5, <4>1 DEF x
      <3> QED
        BY <3>4, <3>5
    <2>3. ASSUME NEW n \in Ids, NEW h \in Groups, disk'[<<n, h>>] # 0
          PROVE  \E v \in Uploads : /\ sid'[v] = n /\ thread'[<<v, h>>] \in Calling
                                    /\ v \notin calls'[h] /\ hold'[<<v, h>>] = 0
      <3>1. PICK v \in Uploads : /\ sid[v] = n /\ thread[<<v, h>>] \in Calling
                                 /\ v \notin calls[h] /\ hold[<<v, h>>] = 0
        BY <1>1, <1>2, <2>3 DEF Flow
      <3>2. <<v, h>> # t
        BY <1>3, <1>4, <3>1
      <3> QED
        BY <1>2, <1>3, <1>4, <1>5, <1>6, <3>1, <3>2
    <2> QED
      BY <2>1, <2>2, <2>3 DEF Flow
  <1>9. ASSUME NEW p \in Uploads, NEW h \in Groups
        PROVE  (Copies(p, h) = IF PassedOn(p, h) THEN 1 ELSE 0)'
    <2>1. Copies(p, h)' = Copies(p, h)
      BY <1>2 DEF Copies
    <2>2. \A x \in Threads : thread'[x] \in {"linked", "ended"}
                               <=> thread[x] \in {"linked", "ended"}
      BY <1>4 DEF Calling
    <2>3. PassedOn(p, h)' <=> PassedOn(p, h)
      BY <1>2, <1>3, <2>2 DEF PassedOn
    <2> QED
      BY <1>1, <2>1, <2>3 DEF Conserved
  <1> QED
    BY <1>8, <1>9 DEF Kept, Conserved

(***************************************************************************)
(* Two sets that differ at most in one element.                            *)
(***************************************************************************)
LEMMA OneChanged ==
    ASSUME NEW I, IsFiniteSet(I), NEW A \in SUBSET I, NEW B \in SUBSET I, NEW j \in I,
           \A i \in I : i # j => (i \in A <=> i \in B)
    PROVE  /\ Cardinality(B) + (IF j \in A THEN 1 ELSE 0)
                = Cardinality(A) + (IF j \in B THEN 1 ELSE 0)
           /\ Cardinality(A) \in Nat /\ Cardinality(B) \in Nat
  <1>1. A \ {j} = B \ {j}
    OBVIOUS
  <1>2. \A S \in {A, B} :
           /\ IsFiniteSet(S) /\ Cardinality(S) \in Nat
           /\ Cardinality(S \ {j}) = IF j \in S THEN Cardinality(S) - 1 ELSE Cardinality(S)
    BY FS_Subset, FS_CardinalityType, FS_RemoveElement
  <1>3. (IF j \in A THEN Cardinality(A) - 1 ELSE Cardinality(A))
          = (IF j \in B THEN Cardinality(B) - 1 ELSE Cardinality(B))
    BY <1>1, <1>2
  <1> QED
    BY <1>2, <1>3

(***************************************************************************)
(* The copies of a slice, by kind: the threads that hold it and the blocks *)
(* that keep it.                                                           *)
(***************************************************************************)
Holders(p, g) == {u \in Uploads : hold[<<u, g>>] = p}
Files(p, g)   == {n \in Ids : disk[<<n, g>>] = p}

LEMMA CopiesByKind ==
    ASSUME NEW p, NEW g
    PROVE  Copies(p, g) = Cardinality(Places(links[g], p))
                            + Cardinality(Holders(p, g)) + Cardinality(Files(p, g))
  BY DEF Copies, Places, Holders, Files

(***************************************************************************)
(* Uploads and ids are finite.                                             *)
(***************************************************************************)
LEMMA FiniteIndices == IsFiniteSet(Uploads) /\ IsFiniteSet(Ids)
  <1>1. 0 \in Int /\ 1 \in Int /\ MaxUploads \in Int
    BY SetAssumption
  <1> QED
    BY <1>1, FS_Interval, Zenon DEF Uploads, Ids

(***************************************************************************)
(* All three are numbers.                                                  *)
(***************************************************************************)
LEMMA CopiesCounted ==
    ASSUME Typed, NEW p, NEW g \in Groups
    PROVE  /\ Cardinality(Places(links[g], p)) \in Nat
           /\ Cardinality(Holders(p, g)) \in Nat
           /\ Cardinality(Files(p, g)) \in Nat
  <1>1. links[g] \in Seq(Uploads)
    BY DEF Typed, TypeOK
  <1>2. /\ IsFiniteSet(Holders(p, g))
        /\ IsFiniteSet(Files(p, g))
    BY FiniteIndices, FS_Subset DEF Holders, Files
  <1> QED
    BY <1>1, <1>2, PlacesFinite, FS_CardinalityType

(***************************************************************************)
(* The thread that passes a slice on is the only one that has it, and puts *)
(* it in one connection.                                                   *)
(***************************************************************************)
LEMMA KeptLink ==
    ASSUME Typed, Sound, Kept, faults = 0, faults' = 0,
           NEW u \in Uploads, NEW g \in Groups, Link(<<u, g>>)
    PROVE  Kept'
  <1> DEFINE t == <<u, g>>
             y == slice[t]
  <1>1. Flow /\ Conserved /\ t \in Threads /\ t[2] = g
    BY DEF Kept, Threads
  <1>2. /\ thread[t] = "called" /\ thread' = [thread EXCEPT ![t] = "linked"]
        /\ links' = [links EXCEPT ![g] = Append(@, y)]
        /\ UNCHANGED <<sid, slice, calls, hold, disk, alive>>
    <2>1. alive[t[2]] /\ ~Fault
      BY <1>1 DEF Flow, Fault
    <2>2. links' = [links EXCEPT ![t[2]] = Append(@, slice[t])]
      BY <2>1, Zenon DEF Link
    <2> QED
      BY <1>1, <2>2 DEF Link, clientVars
  <1>3. /\ thread \in [Threads -> ThreadStates] /\ links \in [Groups -> Seq(Uploads)]
        /\ \A v \in Uploads : \A h \in Groups : <<v, h>> \in Threads
    BY DEF Typed, TypeOK, Threads
  <1>4. \A x \in Threads : /\ x # t => thread'[x] = thread[x]
                           /\ thread[x] \in Calling <=> thread'[x] \in Calling
                           /\ x = t => thread'[x] = "linked"
    BY <1>2, <1>3 DEF Calling
  <1>5. y \in Uploads /\ \A v \in Uploads : slice[<<v, g>>] = y => v = u
    <2>1. y # 0
      BY <1>2 DEF Typed, SliceHeld
    <2>2. y \in Uploads \cup {0}
      BY <1>1 DEF Typed, TypeOK
    <2>3. \A v \in Uploads : slice[<<u, g>>] = slice[<<v, g>>] /\ slice[<<u, g>>] # 0 => u = v
      BY DEF Sound, SliceOnce
    <2> QED BY <2>1, <2>2, <2>3
  <1>6. links'[g] = Append(links[g], y) /\ links[g] \in Seq(Uploads)
        /\ \A h \in Groups : h # g => links'[h] = links[h]
    BY <1>2, <1>3
  <1>7. Flow'
    <2>1. \A v \in Uploads : \A h \in Groups :
              /\ v \in calls'[h] => thread'[<<v, h>>] \in Calling /\ hold'[<<v, h>>] = 0
              /\ hold'[<<v, h>>] # 0 => thread'[<<v, h>>] \in Calling
      <3> SUFFICES ASSUME NEW v \in Uploads, NEW h \in Groups
                   PROVE  /\ v \in calls'[h] => /\ thread'[<<v, h>>] \in Calling
                                                /\ hold'[<<v, h>>] = 0
                          /\ hold'[<<v, h>>] # 0 => thread'[<<v, h>>] \in Calling
        OBVIOUS
      <3>1. /\ v \in calls[h] => thread[<<v, h>>] \in Calling /\ hold[<<v, h>>] = 0
            /\ hold[<<v, h>>] # 0 => thread[<<v, h>>] \in Calling
        BY <1>1 DEF Flow
      <3>2. thread'[<<v, h>>] \in Calling <=> thread[<<v, h>>] \in Calling
        BY <1>3, <1>4
      <3> QED
        BY <1>2, <3>1, <3>2
    <2>2. ASSUME NEW n \in Ids, NEW h \in Groups, disk'[<<n, h>>] # 0
          PROVE  \E v \in Uploads : /\ sid'[v] = n /\ thread'[<<v, h>>] \in Calling
                                    /\ v \notin calls'[h] /\ hold'[<<v, h>>] = 0
      <3> HIDE DEF t, y
      <3>1. PICK v \in Uploads : /\ sid[v] = n /\ thread[<<v, h>>] \in Calling
                                 /\ v \notin calls[h] /\ hold[<<v, h>>] = 0
        BY <1>1, <1>2, <2>2 DEF Flow
      <3> QED
        BY <1>2, <1>3, <1>4, <3>1
    <2> QED
      BY <1>1, <1>2, <2>1, <2>2 DEF Flow
  <1>8. ASSUME NEW p \in Uploads, NEW h \in Groups
        PROVE  (Copies(p, h) = IF PassedOn(p, h) THEN 1 ELSE 0)'
    <2>1. Copies(p, h) = IF PassedOn(p, h) THEN 1 ELSE 0
      BY <1>1 DEF Conserved
    <2>2. Copies(p, h)' = Cardinality(Places(links'[h], p))
                            + Cardinality(Holders(p, h))
                            + Cardinality(Files(p, h))
      BY <1>2 DEF Copies, Places, Holders, Files
    <2>3. CASE h # g
      <3>1. \A v \in Uploads : thread'[<<v, h>>] = thread[<<v, h>>]
        BY <1>3, <1>4, <2>3
      <3>2. PassedOn(p, h)' <=> PassedOn(p, h)
        BY <1>2, <3>1 DEF PassedOn
      <3>3. Copies(p, h)' = Copies(p, h)
        BY <1>2, <1>6, <2>3 DEF Copies
      <3> QED
        BY <2>1, <3>2, <3>3
    <2>4. CASE h = g
      <3>1. Copies(p, g)' = Copies(p, g) + (IF y = p THEN 1 ELSE 0)
        <4> HIDE DEF y, t
        <4>1. Cardinality(Places(links'[g], p))
                = Cardinality(Places(links[g], p)) + (IF y = p THEN 1 ELSE 0)
          BY <1>5, <1>6, PlacesAppended
        <4> DEFINE a == Cardinality(Places(links[g], p))
                   b == Cardinality(Holders(p, g))
                   c == Cardinality(Files(p, g))
        <4>2. a \in Nat /\ b \in Nat /\ c \in Nat
          BY CopiesCounted
        <4>3. Copies(p, g) = a + b + c
          BY CopiesByKind
        <4>4. Copies(p, g)' = Cardinality(Places(links'[g], p)) + b + c
          BY <2>2, <2>4, Zenon
        <4>5. Cardinality(Places(links'[g], p)) = a + (IF y = p THEN 1 ELSE 0)
          BY <4>1
        <4> HIDE DEF a, b, c
        <4> QED
          BY <4>2, <4>3, <4>4, <4>5
      <3>2. PassedOn(p, g)' <=> PassedOn(p, g) \/ y = p
        <4>1. \A v \in Uploads : v # u => thread'[<<v, g>>] = thread[<<v, g>>]
          BY <1>3, <1>4
        <4>2. thread'[<<u, g>>] = "linked" /\ thread[<<u, g>>] = "called"
          BY <1>1, <1>2, <1>4
        <4> QED
          BY <1>2, <4>1, <4>2 DEF PassedOn
      <3>3. y = p => ~PassedOn(p, g)
        BY <1>2, <1>5 DEF PassedOn
      <3> QED
        BY <2>1, <2>4, <3>1, <3>2, <3>3
    <2> QED
      BY <2>3, <2>4
  <1> QED
    BY <1>7, <1>8 DEF Kept, Conserved

(***************************************************************************)
(* The datanode's thread that is served takes the first connection.  No    *)
(* block file comes from it yet.                                           *)
(***************************************************************************)
LEMMA KeptReceive ==
    ASSUME Typed, Kept, faults = 0, NEW g \in Groups, Receive(g)
    PROVE  Kept'
  <1>1. Flow /\ Conserved
    BY DEF Kept
  <1>2. PICK u \in calls[g] : /\ calls' = [calls EXCEPT ![g] = @ \ {u}]
                              /\ hold' = [hold EXCEPT ![<<u, g>>] = Head(links[g])]
    BY DEF Receive
  <1>3. /\ links[g] # <<>> /\ links' = [links EXCEPT ![g] = Tail(@)]
        /\ UNCHANGED <<sid, thread, slice, alive, disk>>
    BY DEF Receive, clientVars, proxyVars
  <1>4. /\ calls \in [Groups -> SUBSET Uploads] /\ links \in [Groups -> Seq(Uploads)]
        /\ hold \in [Threads -> Uploads \cup {0}]
        /\ \A v \in Uploads : \A h \in Groups : <<v, h>> \in Threads
    BY DEF Typed, TypeOK, Threads
  <1>5. u \in Uploads /\ thread[<<u, g>>] \in Calling /\ hold[<<u, g>>] = 0
    <2>1. u \in Uploads
      BY <1>4
    <2> QED
      BY <1>1, <1>2, <2>1 DEF Flow
  <1>6. \A v \in Uploads : \A h \in Groups :
            /\ v \in calls'[h] <=> v \in calls[h] /\ ~(v = u /\ h = g)
            /\ ~(v = u /\ h = g) => hold'[<<v, h>>] = hold[<<v, h>>]
    BY <1>2, <1>4
  <1>7. hold'[<<u, g>>] = Head(links[g])
    BY <1>2, <1>4, <1>5
  <1>8. /\ links[g] \in Seq(Uploads) /\ links'[g] = Tail(links[g])
        /\ \A h \in Groups : h # g => links'[h] = links[h]
    BY <1>3, <1>4
  <1>9. Flow'
    <2>1. \A h \in Groups : alive'[h]
      BY <1>1, <1>3 DEF Flow
    <2>2. ASSUME NEW v \in Uploads, NEW h \in Groups
          PROVE  /\ v \in calls'[h] => thread'[<<v, h>>] \in Calling /\ hold'[<<v, h>>] = 0
                 /\ hold'[<<v, h>>] # 0 => thread'[<<v, h>>] \in Calling
      <3>1. /\ v \in calls[h] => thread[<<v, h>>] \in Calling /\ hold[<<v, h>>] = 0
            /\ hold[<<v, h>>] # 0 => thread[<<v, h>>] \in Calling
        BY <1>1 DEF Flow
      <3>2. thread'[<<v, h>>] = thread[<<v, h>>]
        BY <1>3
      <3>3. CASE v = u /\ h = g
        BY <1>5, <1>6, <3>2, <3>3
      <3>4. CASE ~(v = u /\ h = g)
        BY <1>6, <3>1, <3>2, <3>4
      <3> QED
        BY <3>3, <3>4
    <2>3. ASSUME NEW n \in Ids, NEW h \in Groups, disk'[<<n, h>>] # 0
          PROVE  \E v \in Uploads : /\ sid'[v] = n /\ thread'[<<v, h>>] \in Calling
                                    /\ v \notin calls'[h] /\ hold'[<<v, h>>] = 0
      <3>1. PICK v \in Uploads : /\ sid[v] = n /\ thread[<<v, h>>] \in Calling
                                 /\ v \notin calls[h] /\ hold[<<v, h>>] = 0
        BY <1>1, <1>3, <2>3 DEF Flow
      <3>2. ~(v = u /\ h = g)
        BY <1>2, <3>1
      <3>3. v \notin calls'[h] /\ hold'[<<v, h>>] = 0
        BY <1>6, <3>1, <3>2
      <3> QED
        BY <1>3, <3>1, <3>3
    <2> QED
      BY <2>1, <2>2, <2>3 DEF Flow
  <1>10. ASSUME NEW p \in Uploads, NEW h \in Groups
         PROVE  (Copies(p, h) = IF PassedOn(p, h) THEN 1 ELSE 0)'
    <2>1. PassedOn(p, h)' <=> PassedOn(p, h)
      BY <1>3 DEF PassedOn
    <2>2. CASE h # g
      <3>1. \A v \in Uploads : hold'[<<v, h>>] = hold[<<v, h>>]
        BY <1>6, <2>2
      <3>2. Copies(p, h)' = Copies(p, h)
        BY <1>3, <1>8, <2>2, <3>1 DEF Copies
      <3> QED
        BY <1>1, <2>1, <3>2 DEF Conserved
    <2>3. CASE h = g
      <3> DEFINE a == Cardinality(Places(links[g], p))
                 b == Cardinality(Holders(p, g))
                 c == Cardinality(Files(p, g))
                 d == Cardinality(Places(links'[g], p))
                 e == Cardinality(Holders(p, g)')
                 x == Head(links[g])
      <3>1. a \in Nat /\ b \in Nat /\ c \in Nat
        BY CopiesCounted
      <3>2. Copies(p, g) = a + b + c
        BY CopiesByKind
      <3>3. Copies(p, g)' = d + e + c
        BY <1>3 DEF Copies, Places, Holders, Files
      <3>4. a = d + (IF x = p THEN 1 ELSE 0) /\ d \in Nat
        <4>1. links'[g] \in Seq(Uploads)
          BY <1>3, <1>8
        <4> QED
          BY <1>3, <1>8, <4>1, PlacesTail, PlacesFinite
      <3>5. e = b + (IF x = p THEN 1 ELSE 0)
        <4> DEFINE A == Holders(p, g)
                   B == Holders(p, g)'
        <4>1. /\ A \in SUBSET Uploads /\ B \in SUBSET Uploads
              /\ \A v \in Uploads : v # u => (v \in A <=> v \in B)
          BY <1>6 DEF Holders
        <4>2. u \notin A /\ (u \in B <=> x = p)
          BY <1>5, <1>7 DEF Holders, Uploads
        <4> HIDE DEF A, B, x
        <4>3. /\ Cardinality(B) + (IF u \in A THEN 1 ELSE 0)
                   = Cardinality(A) + (IF u \in B THEN 1 ELSE 0)
              /\ Cardinality(A) \in Nat /\ Cardinality(B) \in Nat
          BY <1>5, <4>1, FiniteIndices, OneChanged
        <4>4. Cardinality(B) = Cardinality(A) + (IF x = p THEN 1 ELSE 0)
          BY <4>2, <4>3
        <4> QED
          BY <4>4 DEF A, B
      <3>6. a + b + c = IF PassedOn(p, g) THEN 1 ELSE 0
        BY <1>1, <3>2 DEF Conserved
      <3> HIDE DEF a, b, c, d, e, x
      <3>7. d + e + c = a + b + c
        BY <3>1, <3>4, <3>5
      <3> QED
        BY <2>1, <2>3, <3>3, <3>6, <3>7
    <2> QED
      BY <2>2, <2>3
  <1> QED
    BY <1>9, <1>10 DEF Kept, Conserved

(***************************************************************************)
(* Saving a block moves the data from the thread to the block's file.      *)
(***************************************************************************)
LEMMA KeptSave ==
    ASSUME Typed, Kept, faults = 0, NEW u \in Uploads, NEW g \in Groups, Save(<<u, g>>)
    PROVE  Kept'
  <1> DEFINE x == hold[<<u, g>>]
  <1>1. Flow /\ Conserved
    BY DEF Kept
  <1>2. /\ x # 0 /\ disk[<<sid[u], g>>] = 0
        /\ disk' = [disk EXCEPT ![<<sid[u], g>>] = x]
        /\ hold' = [hold EXCEPT ![<<u, g>>] = 0]
        /\ UNCHANGED <<sid, thread, slice, alive, calls, links>>
    BY DEF Save, Key, clientVars, proxyVars
  <1>3. /\ hold \in [Threads -> Uploads \cup {0}] /\ disk \in [Keys -> Uploads \cup {0}]
        /\ \A v \in Uploads : \A h \in Groups : <<v, h>> \in Threads
        /\ \A n \in Ids : \A h \in Groups : <<n, h>> \in Keys
        /\ sid[u] \in Ids
    BY DEF Typed, TypeOK, Threads, Keys
  <1>4. thread[<<u, g>>] \in Calling /\ u \notin calls[g]
    BY <1>1, <1>2 DEF Flow
  <1>5. /\ \A v \in Uploads : \A h \in Groups :
              ~(v = u /\ h = g) => hold'[<<v, h>>] = hold[<<v, h>>]
        /\ \A n \in Ids : \A h \in Groups :
              ~(n = sid[u] /\ h = g) => disk'[<<n, h>>] = disk[<<n, h>>]
    BY <1>2, <1>3
  <1>6. hold'[<<u, g>>] = 0 /\ disk'[<<sid[u], g>>] = x
    BY <1>2, <1>3
  <1>7. Flow'
    <2>1. \A h \in Groups : alive'[h]
      BY <1>1, <1>2 DEF Flow
    <2>2. ASSUME NEW v \in Uploads, NEW h \in Groups
          PROVE  /\ v \in calls'[h] => thread'[<<v, h>>] \in Calling /\ hold'[<<v, h>>] = 0
                 /\ hold'[<<v, h>>] # 0 => thread'[<<v, h>>] \in Calling
      <3>1. /\ v \in calls[h] => thread[<<v, h>>] \in Calling /\ hold[<<v, h>>] = 0
            /\ hold[<<v, h>>] # 0 => thread[<<v, h>>] \in Calling
        BY <1>1 DEF Flow
      <3>2. thread'[<<v, h>>] = thread[<<v, h>>] /\ calls' = calls
        BY <1>2
      <3>3. CASE v = u /\ h = g
        BY <1>4, <1>6, <3>2, <3>3
      <3>4. CASE ~(v = u /\ h = g)
        BY <1>5, <3>1, <3>2, <3>4
      <3> QED
        BY <3>3, <3>4
    <2>3. ASSUME NEW n \in Ids, NEW h \in Groups, disk'[<<n, h>>] # 0
          PROVE  \E v \in Uploads : /\ sid'[v] = n /\ thread'[<<v, h>>] \in Calling
                                    /\ v \notin calls'[h] /\ hold'[<<v, h>>] = 0
      <3>1. CASE n = sid[u] /\ h = g
        BY <1>2, <1>4, <1>6, <3>1
      <3>2. CASE ~(n = sid[u] /\ h = g)
        <4>1. PICK v \in Uploads : /\ sid[v] = n /\ thread[<<v, h>>] \in Calling
                                   /\ v \notin calls[h] /\ hold[<<v, h>>] = 0
          BY <1>1, <1>5, <2>3, <3>2 DEF Flow
        <4>2. hold'[<<v, h>>] = 0
          BY <1>5, <1>6, <4>1
        <4> QED
          BY <1>2, <4>1, <4>2
      <3> QED
        BY <3>1, <3>2
    <2> QED
      BY <2>1, <2>2, <2>3 DEF Flow
  <1>8. ASSUME NEW p \in Uploads, NEW h \in Groups
        PROVE  (Copies(p, h) = IF PassedOn(p, h) THEN 1 ELSE 0)'
    <2>1. PassedOn(p, h)' <=> PassedOn(p, h)
      BY <1>2 DEF PassedOn
    <2>2. CASE h # g
      <3>1. /\ \A v \in Uploads : hold'[<<v, h>>] = hold[<<v, h>>]
            /\ \A n \in Ids : disk'[<<n, h>>] = disk[<<n, h>>]
        BY <1>5, <2>2
      <3>2. Copies(p, h)' = Copies(p, h)
        BY <1>2, <3>1 DEF Copies
      <3> QED
        BY <1>1, <2>1, <3>2 DEF Conserved
    <2>3. CASE h = g
      <3> DEFINE a == Cardinality(Places(links[g], p))
                 A == Holders(p, g)
                 B == Holders(p, g)'
                 C == Files(p, g)
                 D == Files(p, g)'
      <3>1. a \in Nat
        BY CopiesCounted
      <3>2. Copies(p, g) = a + Cardinality(A) + Cardinality(C)
        BY CopiesByKind
      <3>3. Copies(p, g)' = a + Cardinality(B) + Cardinality(D)
        BY <1>2 DEF Copies, Places, Holders, Files
      <3>4. /\ A \in SUBSET Uploads /\ B \in SUBSET Uploads
            /\ \A v \in Uploads : v # u => (v \in A <=> v \in B)
        BY <1>5 DEF Holders
      <3>5. /\ C \in SUBSET Ids /\ D \in SUBSET Ids
            /\ \A n \in Ids : n # sid[u] => (n \in C <=> n \in D)
        BY <1>5 DEF Files
      <3>6. (u \in A <=> x = p) /\ u \notin B /\ sid[u] \notin C /\ (sid[u] \in D <=> x = p)
        BY <1>2, <1>3, <1>6 DEF Holders, Files, Uploads
      <3> HIDE DEF a, A, B, C, D, x
      <3>7. /\ Cardinality(B) + (IF u \in A THEN 1 ELSE 0)
                 = Cardinality(A) + (IF u \in B THEN 1 ELSE 0)
            /\ Cardinality(A) \in Nat /\ Cardinality(B) \in Nat
        BY <3>4, FiniteIndices, OneChanged
      <3>8. /\ Cardinality(D) + (IF sid[u] \in C THEN 1 ELSE 0)
                 = Cardinality(C) + (IF sid[u] \in D THEN 1 ELSE 0)
            /\ Cardinality(C) \in Nat /\ Cardinality(D) \in Nat
        BY <1>3, <3>5, FiniteIndices, OneChanged
      <3>9. Cardinality(B) + Cardinality(D) = Cardinality(A) + Cardinality(C)
        BY <3>6, <3>7, <3>8
      <3>10. Copies(p, g)' = Copies(p, g)
        BY <3>1, <3>2, <3>3, <3>7, <3>8, <3>9
      <3> QED
        BY <1>1, <2>1, <2>3, <3>10 DEF Conserved
    <2> QED
      BY <2>2, <2>3
  <1> QED
    BY <1>7, <1>8 DEF Kept, Conserved

(***************************************************************************)
(* The assertion of the datanode does not fire: the file of a block can    *)
(* only come from the block's own thread.                                  *)
(***************************************************************************)
LEMMA NeverAborts ==
    ASSUME Typed, Sound, Kept, faults = 0, NEW u \in Uploads, NEW g \in Groups
    PROVE  ~SaveAborts(<<u, g>>)
  <1> SUFFICES ASSUME hold[<<u, g>>] # 0, disk[<<sid[u], g>>] # 0 PROVE FALSE
    BY DEF SaveAborts, Key
  <1>1. Flow /\ sid[u] \in Ids
    BY DEF Kept, Typed, TypeOK
  <1>2. PICK v \in Uploads : /\ sid[v] = sid[u] /\ thread[<<v, g>>] \in Calling
                             /\ hold[<<v, g>>] = 0
    BY <1>1 DEF Flow
  <1>3. thread[<<u, g>>] \in Calling /\ u # v
    BY <1>1, <1>2 DEF Flow
  <1>4. stage[u] # "new" /\ stage[v] # "new"
    BY <1>2, <1>3 DEF Sound, Unplanned, Calling
  <1> QED
    BY <1>2, <1>3, <1>4 DEF Sound, IdsFresh

(***************************************************************************)
(* Every step of a plan keeps the slices, as long as nothing fails.        *)
(***************************************************************************)
LEMMA KeptThread ==
    ASSUME Typed, Sound, Kept, faults' = 0, NEW u \in Uploads, NEW g \in Groups,
           \/ Schedule(<<u, g>>) \/ PlanStep(<<u, g>>)
           \/ NotifyFails(<<u, g>>) \/ ReadBreaks(<<u, g>>) \/ ReportLost(<<u, g>>)
    PROVE  Kept'
  <1> DEFINE t == <<u, g>>
  <1>1. faults \in Nat /\ t \in Threads /\ t[1] = u /\ t[2] = g
    BY SetAssumption DEF Typed, TypeOK, Threads
  <1>2. ~Fault
    BY <1>1 DEF Fault
  <1>3. CASE Call(t) \/ Link(t)
    <2>1. faults = 0
      BY <1>2, <1>3 DEF Call, Link
    <2> QED
      BY <1>3, <2>1, KeptCall, KeptLink
  <1>4. CASE Save(t) \/ SaveAborts(t)
    <2>1. faults = 0
      BY <1>4 DEF Save, SaveAborts
    <2> QED
      BY <1>4, <2>1, KeptSave, NeverAborts
  <1>5. CASE NotifyReturns(t) \/ Connect(t) \/ SeeCommit(t)
    <2> USE DEF NotifyReturns, Connect, SeeCommit, clientVars, coordVars, proxyVars, nodeVars
    <2>1. faults = 0
      BY <1>5
    <2>2. UNCHANGED <<sid, thread, slice, links, hold, disk, alive, calls>>
      BY <1>5
    <2> QED
      BY <2>1, <2>2, KeptElsewhere
  <1>6. CASE Schedule(t) \/ LockAccept(t) \/ Accept(t)
    <2> USE DEF Schedule, LockAccept, Accept, clientVars, coordVars, nodeVars
    <2>1. faults = 0
      BY <1>6
    <2>2. UNCHANGED <<sid, links, hold, disk, alive, calls>>
      BY <1>6
    <2>3. /\ thread[t] \in {"none", "started", "accepting"}
          /\ thread' = [thread EXCEPT ![t] = thread'[t]]
          /\ thread'[t] \in {"started", "accepting", "received"}
      BY <1>1, <1>6 DEF Typed, TypeOK
    <2>4. \A x \in Threads : x # t => thread'[x] = thread[x] /\ slice'[x] = slice[x]
      BY <1>6 DEF Typed, TypeOK
    <2>5. \A x \in Threads : \/ thread'[x] = thread[x] /\ slice'[x] = slice[x]
                             \/ thread[x] \notin Calling /\ thread'[x] \notin Calling
      BY <2>3, <2>4 DEF Calling
    <2> QED
      BY <2>1, <2>2, <2>5, KeptElsewhere
  <1>7. CASE Report(t)
    <2> USE DEF Report, clientVars, nodeVars
    <2>1. faults = 0 /\ UNCHANGED <<sid, slice, links, hold, disk, alive, calls>>
      BY <1>7
    <2>2. \A x \in Threads : \/ thread'[x] = thread[x]
                             \/ thread[x] = "linked" /\ thread'[x] = "ended"
      BY <1>1, <1>7 DEF Typed, TypeOK
    <2> QED
      BY <2>1, <2>2, KeptElsewhere
  <1>8. ~NotifyFails(t) /\ ~ReadBreaks(t) /\ ~ReportLost(t)
    BY <1>2 DEF NotifyFails, ReadBreaks, ReportLost
  <1> QED
    BY <1>3, <1>4, <1>5, <1>6, <1>7, <1>8 DEF PlanStep

(***************************************************************************)
(* The steps of an upload do not reach the datanodes.                      *)
(***************************************************************************)
LEMMA KeptUpload ==
    ASSUME Typed, Sound, Kept, faults' = 0, NEW u \in Uploads,
           StartSet(u) \/ CoordStep(u) \/ Acknowledge(u) \/ LostBit(u)
    PROVE  Kept'
  <1> USE DEF CoordStep, StartSet, Plan, Accepted, Refused, Acknowledge, proxyVars, nodeVars
  <1>1. faults \in Nat /\ ~Fault
    BY SetAssumption DEF Typed, TypeOK, Fault
  <1>2. faults = 0 /\ UNCHANGED <<thread, slice, links, hold, disk, alive, calls>>
    BY <1>1 DEF LostBit
  <1>3. \A v \in Uploads : \A g \in Groups : thread[<<v, g>>] # "none" => sid'[v] = sid[v]
    <2>1. \A v \in Uploads : stage[v] # "new" => sid'[v] = sid[v]
      BY <1>1 DEF LostBit, Typed, TypeOK
    <2> QED
      BY <2>1 DEF Sound, Unplanned
  <1> QED
    BY <1>2, <1>3, KeptElsewhere

(***************************************************************************)
(* Every step keeps the slices.                                            *)
(***************************************************************************)
LEMMA KeptNext == ASSUME Typed, Sound, Kept, [Next]_vars PROVE Kept'
  <1> SUFFICES ASSUME faults' = 0 PROVE Kept'
    BY DEF Kept
  <1>1. faults \in Nat /\ ~Fault
    BY SetAssumption DEF Typed, TypeOK, Fault
  <1>2. ASSUME NEW t \in Threads,
               \/ Schedule(t) \/ PlanStep(t)
               \/ NotifyFails(t) \/ ReadBreaks(t) \/ ReportLost(t)
        PROVE  Kept'
    <2>1. PICK u \in Uploads, g \in Groups : t = <<u, g>>
      BY DEF Threads
    <2> QED
      BY <1>2, <2>1, KeptThread
  <1>3. ASSUME NEW u \in Uploads,
               StartSet(u) \/ CoordStep(u) \/ Acknowledge(u) \/ LostBit(u)
        PROVE  Kept'
    BY <1>3, KeptUpload
  <1>4. ASSUME NEW g \in Groups, Receive(g) PROVE Kept'
    <2>1. faults = 0
      BY <1>4 DEF Receive
    <2> QED
      BY <1>4, <2>1, KeptReceive
  <1>5. ASSUME NEW g \in Groups, NodeStops(g) \/ NodeStarts(g) \/ ProxyRestarts(g)
        PROVE  Kept'
    <2>1. NodeStarts(g)
      BY <1>1, <1>5 DEF NodeStops, ProxyRestarts
    <2>2. faults = 0
      BY <2>1 DEF NodeStarts
    <2> QED
      BY <2>1, <2>2 DEF NodeStarts, Kept, Flow
  <1>6. CASE UNCHANGED vars
    BY <1>6, KeptElsewhere DEF vars, clientVars, coordVars, proxyVars, nodeVars
  <1> QED
    BY <1>2, <1>3, <1>4, <1>5, <1>6 DEF Next, FaultStep

(***************************************************************************)
(* With one client and until something fails, every slice a proxy passed   *)
(* on is in exactly one place on its datanode: the shared acceptor, which  *)
(* gives a thread another thread's data, loses and repeats nothing.        *)
(***************************************************************************)
THEOREM SlicesAlwaysConserved == ASSUME SingleClient PROVE Spec => []SlicesConserved
  <1>1. Typed /\ Sound /\ Kept /\ [Next]_vars => Kept'
    BY KeptNext
  <1>2. Kept => SlicesConserved
    BY DEF Kept, Conserved, SlicesConserved
  <1> QED
    BY <1>1, <1>2, KeptInit, SoundAlways, PTL DEF Spec
=============================================================================
