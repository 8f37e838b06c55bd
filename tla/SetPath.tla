------------------------------- MODULE SetPath --------------------------------
(***************************************************************************)
(* Storing a stripe.  The coordinator tells the proxy of every group to    *)
(* expect a slice; each proxy starts a detached thread that accepts one    *)
(* connection, reads the slice, hands it to a datanode and reports a       *)
(* commit.  The client connects to every proxy and waits until all keys    *)
(* are committed.  Neither a connection to a proxy nor one to a datanode   *)
(* says which plan or block it belongs to: whoever accepts it, has it.     *)
(*                                                                         *)
(* A group stands for one data block on one datanode behind one proxy, the *)
(* same for all stripes: the placements that let stripes meet most.  The   *)
(* threads of parity blocks differ only in what an existing file does.     *)
(***************************************************************************)
EXTENDS Naturals, Sequences, FiniteSets

CONSTANTS Clients,     \* clients; each stores one stripe after the other
          GroupNum,    \* placement groups of a stripe
          MaxUploads,  \* bound: calls of set
          MaxFaults    \* bound: lost calls, broken connections, stopped nodes

ASSUME SetAssumption ==
    /\ GroupNum \in Nat \ {0}
    /\ MaxUploads \in Nat
    /\ MaxFaults \in Nat

Groups  == 1..GroupNum
Uploads == 1..MaxUploads
Threads == Uploads \X Groups
Ids     == 0..MaxUploads
Keys    == Ids \X Groups

VARIABLES
    nextId,    \* m_cur_stripe_id
    stage,     \* per upload: where uploadSetValue and Client::set are
    owner,     \* per upload: its client
    sid,       \* per upload: its stripe id
    note,      \* per plan: notify_proxies_ready, "none", "asked", "ok", "failed"
    table,     \* ids in m_stripe_table
    updating,  \* keys in m_object_updating_table
    committed, \* keys in m_object_commit_table
    conn,      \* per slice: the client's thread, "none", "connected", "committed"
    backlog,   \* per proxy: slices whose connection is not accepted yet
    thread,    \* per plan: the thread scheduleAppend2Datanode started
    slice,     \* per plan: the upload whose slice that thread accepted, or 0
    alive,     \* per datanode: is it up?
    calls,     \* per datanode: handleAppend threads waiting to accept
    links,     \* per datanode: connections not accepted yet, with their data
    hold,      \* per handleAppend thread: the data it accepted, or 0
    disk,      \* per key: the data of the block file, or 0
    faults     \* faults so far, for the bound only

clientVars == <<stage, owner, sid, conn>>
coordVars  == <<nextId, note, table, updating, committed>>
proxyVars  == <<backlog, thread, slice>>
nodeVars   == <<alive, calls, links, hold, disk>>
vars == <<clientVars, coordVars, proxyVars, nodeVars, faults>>

Key(u, g)  == <<sid[u], g>>
Started    == {u \in Uploads : stage[u] # "new"}
Active(c)  == {u \in Started : owner[u] = c /\ stage[u] \notin {"acked", "refused"}}
Fault      == faults < MaxFaults /\ faults' = faults + 1

Init ==
    /\ nextId = 0
    /\ stage = [u \in Uploads |-> "new"]
    /\ owner \in [Uploads -> Clients]
    /\ sid = [u \in Uploads |-> 0]
    /\ note = [t \in Threads |-> "none"]
    /\ table = {} /\ updating = {} /\ committed = {}
    /\ conn = [t \in Threads |-> "none"]
    /\ backlog = [g \in Groups |-> {}]
    /\ thread = [t \in Threads |-> "none"] /\ slice = [t \in Threads |-> 0]
    /\ alive = [g \in Groups |-> TRUE]
    /\ calls = [g \in Groups |-> {}] /\ links = [g \in Groups |-> <<>>]
    /\ hold = [t \in Threads |-> 0] /\ disk = [k \in Keys |-> 0]
    /\ faults = 0

-----------------------------------------------------------------------------
(***************************************************************************)
(* uploadSetValue.  m_cur_stripe_id++ is a read and a write without        *)
(* m_mutex, in handlers that run concurrently: the read is StartSet.       *)
(***************************************************************************)
StartSet(u) ==
    /\ stage[u] = "new" /\ Active(owner[u]) = {}
    /\ \A v \in Uploads : v < u => stage[v] # "new"
    /\ stage' = [stage EXCEPT ![u] = "counting"]
    /\ sid' = [sid EXCEPT ![u] = nextId]
    /\ UNCHANGED <<owner, conn, coordVars, proxyVars, nodeVars, faults>>

Plan_SkipsId(u) ==
    /\ stage[u] = "counting"
    /\ nextId' = sid[u] + 2
    /\ committed' = committed \ {Key(u, g) : g \in Groups}
    /\ note' = [t \in Threads |-> IF t[1] = u THEN "asked" ELSE note[t]]
    /\ stage' = [stage EXCEPT ![u] = "placing"]
    /\ UNCHANGED <<owner, sid, conn, table, updating, proxyVars, nodeVars, faults>>

Plan(u) ==
    /\ stage[u] = "counting"
    /\ nextId' = sid[u] + 1
    /\ committed' = committed \ {Key(u, g) : g \in Groups}
    /\ note' = [t \in Threads |-> IF t[1] = u THEN "asked" ELSE note[t]]
    /\ stage' = [stage EXCEPT ![u] = "placing"]
    /\ UNCHANGED <<owner, sid, conn, table, updating, proxyVars, nodeVars, faults>>

(***************************************************************************)
(* The call reaches the proxy; it may do so although it failed at the      *)
(* coordinator.                                                            *)
(***************************************************************************)
Schedule(t) ==
    /\ note[t] \in {"asked", "failed"} /\ thread[t] = "none"
    /\ thread' = [thread EXCEPT ![t] = "started"]
    /\ UNCHANGED <<clientVars, coordVars, backlog, slice, nodeVars, faults>>

NotifyReturns(t) ==
    /\ note[t] = "asked" /\ thread[t] # "none"
    /\ note' = [note EXCEPT ![t] = "ok"]
    /\ updating' = updating \cup {Key(t[1], t[2])}
    /\ UNCHANGED <<clientVars, nextId, table, committed, proxyVars, nodeVars, faults>>

NotifyFails(t) ==
    /\ note[t] = "asked" /\ Fault
    /\ note' = [note EXCEPT ![t] = "failed"]
    /\ UNCHANGED <<clientVars, nextId, table, updating, committed, proxyVars, nodeVars>>

AllNotified(u) == \A g \in Groups : note[<<u, g>>] \in {"ok", "failed"}

Accepted(u) ==
    /\ stage[u] = "placing"
    /\ \A g \in Groups : note[<<u, g>>] = "ok"
    /\ table' = table \cup {sid[u]}
    /\ stage' = [stage EXCEPT ![u] = "sending"]
    /\ UNCHANGED <<owner, sid, conn, nextId, note, updating, committed, proxyVars,
                   nodeVars, faults>>

Refused(u) ==
    /\ stage[u] = "placing" /\ AllNotified(u)
    /\ \E g \in Groups : note[<<u, g>>] = "failed"
    /\ stage' = [stage EXCEPT ![u] = "refused"]
    /\ UNCHANGED <<owner, sid, conn, coordVars, proxyVars, nodeVars, faults>>

(***************************************************************************)
(* The notifying threads write neighbouring bits of one vector<bool>, and  *)
(* one of them may undo what another wrote.                                *)
(***************************************************************************)
LostBit(u) ==
    /\ stage[u] = "placing" /\ AllNotified(u) /\ GroupNum > 1 /\ Fault
    /\ stage' = [stage EXCEPT ![u] = "refused"]
    /\ UNCHANGED <<owner, sid, conn, coordVars, proxyVars, nodeVars>>

-----------------------------------------------------------------------------
(***************************************************************************)
(* Client::set with one async_append_to_proxies thread per slice.          *)
(***************************************************************************)
Connect(t) ==
    /\ stage[t[1]] = "sending" /\ conn[t] = "none"
    /\ conn' = [conn EXCEPT ![t] = "connected"]
    /\ backlog' = [backlog EXCEPT ![t[2]] = @ \cup {t[1]}]
    /\ UNCHANGED <<stage, owner, sid, coordVars, thread, slice, nodeVars, faults>>

(***************************************************************************)
(* checkCommitAbort returns; it has no other answer and no deadline.       *)
(***************************************************************************)
SeeCommit(t) ==
    /\ conn[t] = "connected" /\ Key(t[1], t[2]) \in committed
    /\ conn' = [conn EXCEPT ![t] = "committed"]
    /\ UNCHANGED <<stage, owner, sid, coordVars, proxyVars, nodeVars, faults>>

Acknowledge_AnyOf(u) ==
    /\ stage[u] = "sending"
    /\ \E g \in Groups : conn[<<u, g>>] = "committed"
    /\ stage' = [stage EXCEPT ![u] = "acked"]
    /\ UNCHANGED <<owner, sid, conn, coordVars, proxyVars, nodeVars, faults>>

Acknowledge(u) ==
    /\ stage[u] = "sending"
    /\ \A g \in Groups : conn[<<u, g>>] = "committed"
    /\ stage' = [stage EXCEPT ![u] = "acked"]
    /\ UNCHANGED <<owner, sid, conn, coordVars, proxyVars, nodeVars, faults>>

-----------------------------------------------------------------------------
(***************************************************************************)
(* append_and_save, the proxy's detached thread.                           *)
(***************************************************************************)
AcceptFree_NeverReleased(g) ==
    \A u \in Uploads : thread[<<u, g>>] \in {"none", "started"}

AcceptFree(g) == \A u \in Uploads : thread[<<u, g>>] # "accepting"

LockAccept(t) ==
    /\ thread[t] = "started" /\ AcceptFree(t[2])
    /\ thread' = [thread EXCEPT ![t] = "accepting"]
    /\ UNCHANGED <<clientVars, coordVars, backlog, slice, nodeVars, faults>>

Accept(t) ==
    /\ thread[t] = "accepting"
    /\ \E p \in backlog[t[2]] :
          /\ slice' = [slice EXCEPT ![t] = p]
          /\ backlog' = [backlog EXCEPT ![t[2]] = @ \ {p}]
    /\ thread' = [thread EXCEPT ![t] = "received"]
    /\ UNCHANGED <<clientVars, coordVars, nodeVars, faults>>

(***************************************************************************)
(* The connection is reset: the thread throws and never reports.           *)
(***************************************************************************)
ReadBreaks(t) ==
    /\ thread[t] = "accepting" /\ Fault
    /\ \E p \in backlog[t[2]] : backlog' = [backlog EXCEPT ![t[2]] = @ \ {p}]
    /\ thread' = [thread EXCEPT ![t] = "ended"]
    /\ UNCHANGED <<clientVars, coordVars, slice, nodeVars>>

(***************************************************************************)
(* AppendToDatanode: the handleAppend call, whose status is not looked at, *)
(* then the connection with the data.                                      *)
(***************************************************************************)
Call(t) ==
    /\ thread[t] = "received"
    /\ thread' = [thread EXCEPT ![t] = "called"]
    /\ \/ /\ alive[t[2]] /\ calls' = [calls EXCEPT ![t[2]] = @ \cup {t[1]}]
          /\ UNCHANGED faults
       \/ ~alive[t[2]] /\ UNCHANGED <<calls, faults>>
       \/ Fault /\ UNCHANGED calls
    /\ UNCHANGED <<clientVars, coordVars, backlog, slice, alive, links, hold, disk>>

Link(t) ==
    /\ thread[t] = "called"
    /\ thread' = [thread EXCEPT ![t] = "linked"]
    /\ \/ /\ alive[t[2]] /\ links' = [links EXCEPT ![t[2]] = Append(@, slice[t])]
          /\ UNCHANGED faults
       \/ ~alive[t[2]] /\ UNCHANGED <<links, faults>>
       \/ Fault /\ UNCHANGED links
    /\ UNCHANGED <<clientVars, coordVars, backlog, slice, alive, calls, hold, disk>>

Report_KeepsUpdating(t) ==
    /\ thread[t] = "linked"
    /\ thread' = [thread EXCEPT ![t] = "ended"]
    /\ committed' = committed \cup {Key(t[1], t[2])}
    /\ UNCHANGED <<clientVars, nextId, note, table, updating, backlog, slice, nodeVars, faults>>

(***************************************************************************)
(* reportCommitAbort, always with a commit.                                *)
(***************************************************************************)
Report(t) ==
    /\ thread[t] = "linked"
    /\ thread' = [thread EXCEPT ![t] = "ended"]
    /\ committed' = committed \cup {Key(t[1], t[2])}
    /\ updating' = updating \ {Key(t[1], t[2])}
    /\ UNCHANGED <<clientVars, nextId, note, table, backlog, slice, nodeVars, faults>>

ReportLost(t) ==
    /\ thread[t] = "linked" /\ Fault
    /\ thread' = [thread EXCEPT ![t] = "ended"]
    /\ UNCHANGED <<clientVars, coordVars, backlog, slice, nodeVars>>

(***************************************************************************)
(* The proxy goes down with its threads and connections, and comes back.   *)
(***************************************************************************)
ProxyRestarts(g) ==
    /\ Fault
    /\ thread' = [t \in Threads |-> IF t[2] = g /\ thread[t] # "none" THEN "ended"
                                   ELSE thread[t]]
    /\ backlog' = [backlog EXCEPT ![g] = {}]
    /\ UNCHANGED <<clientVars, coordVars, slice, nodeVars>>

-----------------------------------------------------------------------------
(***************************************************************************)
(* handleAppend's detached thread on the datanode of group g.  Threads     *)
(* wait in accept() in any order; the one that is served takes the first   *)
(* connection, whose data it then stores under its own key.                *)
(***************************************************************************)
Receive(g) ==
    /\ alive[g] /\ links[g] # <<>>
    /\ \E u \in calls[g] :
          /\ calls' = [calls EXCEPT ![g] = @ \ {u}]
          /\ hold' = [hold EXCEPT ![<<u, g>>] = Head(links[g])]
    /\ links' = [links EXCEPT ![g] = Tail(@)]
    /\ UNCHANGED <<clientVars, coordVars, proxyVars, alive, disk, faults>>

Stop(g) ==
    /\ alive' = [alive EXCEPT ![g] = FALSE]
    /\ calls' = [calls EXCEPT ![g] = {}] /\ links' = [links EXCEPT ![g] = <<>>]
    /\ hold' = [t \in Threads |-> IF t[2] = g THEN 0 ELSE hold[t]]

Save_NoCreate(t) ==
    /\ hold[t] # 0
    /\ hold' = [hold EXCEPT ![t] = 0]
    /\ UNCHANGED <<clientVars, coordVars, proxyVars, alive, calls, links, disk, faults>>

Save(t) ==
    /\ hold[t] # 0 /\ disk[Key(t[1], t[2])] = 0
    /\ disk' = [disk EXCEPT ![Key(t[1], t[2])] = hold[t]]
    /\ hold' = [hold EXCEPT ![t] = 0]
    /\ UNCHANGED <<clientVars, coordVars, proxyVars, alive, calls, links, faults>>

(***************************************************************************)
(* assert "File already exists with append_offset == 0!".                  *)
(***************************************************************************)
SaveAborts(t) ==
    /\ hold[t] # 0 /\ disk[Key(t[1], t[2])] # 0 /\ Stop(t[2])
    /\ UNCHANGED <<clientVars, coordVars, proxyVars, disk, faults>>

NodeStops(g) ==
    /\ alive[g] /\ Fault /\ Stop(g)
    /\ UNCHANGED <<clientVars, coordVars, proxyVars, disk>>

NodeStarts(g) ==
    /\ ~alive[g]
    /\ alive' = [alive EXCEPT ![g] = TRUE]
    /\ UNCHANGED <<clientVars, coordVars, proxyVars, calls, links, hold, disk, faults>>

-----------------------------------------------------------------------------
CoordStep(u) == Plan(u) \/ Accepted(u) \/ Refused(u)
PlanStep(t)  == \/ NotifyReturns(t)
                \/ Connect(t) \/ SeeCommit(t)
                \/ LockAccept(t) \/ Accept(t) \/ Call(t) \/ Link(t) \/ Report(t)
                \/ Save(t) \/ SaveAborts(t)
FaultStep    == \/ \E t \in Threads : NotifyFails(t) \/ ReadBreaks(t) \/ ReportLost(t)
                \/ \E u \in Uploads : LostBit(u)
                \/ \E g \in Groups : \/ NodeStops(g) \/ NodeStarts(g)
                                        \/ ProxyRestarts(g)

Next == \/ \E u \in Uploads : StartSet(u) \/ CoordStep(u) \/ Acknowledge(u)
        \/ \E t \in Threads : Schedule(t) \/ PlanStep(t)
        \/ \E g \in Groups : Receive(g)
        \/ FaultStep

Spec == Init /\ [][Next]_vars

(***************************************************************************)
(* Every thread that can go on does; the operating system schedules them.  *)
(* Nothing is assumed of the clients' wish to store, of failed calls or of *)
(* the restart of a datanode.                                              *)
(***************************************************************************)
Fairness ==
    /\ \A u \in Uploads : WF_vars(CoordStep(u)) /\ WF_vars(Acknowledge(u))
    /\ \A t \in Threads : /\ WF_vars(Schedule(t) /\ note[t] = "asked")
                          /\ WF_vars(NotifyReturns(t)) /\ WF_vars(Connect(t))
                          /\ WF_vars(SeeCommit(t)) /\ WF_vars(Save(t))
                          /\ WF_vars(LockAccept(t) \/ Accept(t) \/ Call(t)
                                     \/ Link(t) \/ Report(t))
    /\ \A g \in Groups : WF_vars(Receive(g))

FairSpec == Spec /\ Fairness

-----------------------------------------------------------------------------
Stages == {"new", "counting", "placing", "refused", "sending", "acked"}
ThreadStates == {"none", "started", "accepting", "received", "called", "linked", "ended"}

(***************************************************************************)
(* Every variable stays in its range; in particular a stripe id is never   *)
(* larger than the number of uploads, and a thread never stores data under *)
(* a key outside the plans.                                                *)
(***************************************************************************)
TypeOK ==
    /\ nextId \in Ids
    /\ stage \in [Uploads -> Stages]
    /\ owner \in [Uploads -> Clients]
    /\ sid \in [Uploads -> Ids]
    /\ note \in [Threads -> {"none", "asked", "ok", "failed"}]
    /\ table \subseteq Ids /\ updating \subseteq Keys /\ committed \subseteq Keys
    /\ conn \in [Threads -> {"none", "connected", "committed"}]
    /\ backlog \in [Groups -> SUBSET Uploads]
    /\ thread \in [Threads -> ThreadStates]
    /\ slice \in [Threads -> Uploads \cup {0}]
    /\ alive \in [Groups -> BOOLEAN]
    /\ calls \in [Groups -> SUBSET Uploads] /\ links \in [Groups -> Seq(Uploads)]
    /\ hold \in [Threads -> Uploads \cup {0}]
    /\ disk \in [Keys -> Uploads \cup {0}]
    /\ faults \in 0..MaxFaults

(***************************************************************************)
(* When a client (the only one) is told that its stripe is stored, the     *)
(* proxy thread of every group had read this stripe's slice, whatever      *)
(* uploads were refused before and left their threads accepting.           *)
(***************************************************************************)
AckedSlicesOwn ==
    \A u \in Uploads : stage[u] = "acked" => \A g \in Groups : slice[<<u, g>>] = u

(***************************************************************************)
(* An acknowledged stripe is in the stripe table, its keys are committed,  *)
(* and none of them is left in the updating table: the report has not come *)
(* before the entry it moves.                                              *)
(***************************************************************************)
AckedMetadata ==
    \A u \in Uploads : stage[u] = "acked" =>
        /\ sid[u] \in table
        /\ \A g \in Groups : Key(u, g) \in committed \ updating

(***************************************************************************)
(* As long as nothing has failed, every slice a proxy has passed on is in  *)
(* one place on its datanode: in a connection, in a thread's buffer or in  *)
(* a block file.  Sharing one acceptor loses and repeats nothing.          *)
(***************************************************************************)
PassedOn(p, g) == \E u \in Uploads : /\ slice[<<u, g>>] = p
                                    /\ thread[<<u, g>>] \in {"linked", "ended"}
Copies(p, g) ==
      Cardinality({i \in 1..Len(links[g]) : links[g][i] = p})
    + Cardinality({u \in Uploads : hold[<<u, g>>] = p})
    + Cardinality({n \in Ids : disk[<<n, g>>] = p})

SlicesConserved ==
    faults = 0 => \A p \in Uploads : \A g \in Groups :
                      Copies(p, g) = IF PassedOn(p, g) THEN 1 ELSE 0

(***************************************************************************)
(* Without faults every call of set returns: the wait for the commits,     *)
(* which has no deadline, ends.                                            *)
(***************************************************************************)
SetReturns ==
    \A u \in Uploads : (stage[u] \in {"counting", "placing", "sending"})
                        ~> (stage[u] \in {"acked", "refused"} \/ faults > 0)

(***************************************************************************)
(* The acknowledgement comes before the blocks are on disk; without faults *)
(* every block of the stripe gets its file and this stripe's data is kept  *)
(* in some block file of every group.                                      *)
(***************************************************************************)
EventuallySaved ==
    \A u \in Uploads : (stage[u] = "acked")
                        ~> \/ faults > 0
                           \/ \A g \in Groups : /\ disk[Key(u, g)] # 0
                                                 /\ \E n \in Ids : disk[<<n, g>>] = u

(***************************************************************************)
(* The proxy "places each block of the stripe to the data node specified   *)
(* by the data placement scheme" before the commit is reported (doc,       *)
(* Prototype Design, Procedure of set): an acknowledged stripe's block     *)
(* files never hold another stripe's data.                                 *)
(***************************************************************************)
AckedBlocksOwn ==
    \A u \in Uploads : stage[u] = "acked" =>
        \A g \in Groups : disk[Key(u, g)] \in {0, u}
=============================================================================
