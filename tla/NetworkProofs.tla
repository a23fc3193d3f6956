--------------------------- MODULE NetworkProofs ---------------------------
(***************************************************************************)
(* Proofs about Network, for every number of worker threads and every set  *)
(* of descriptors.                                                         *)
(***************************************************************************)
EXTENDS Network, FiniteSetTheorems, TLAPS

-----------------------------------------------------------------------------
(* The inductive invariant.                                                *)

Entry == [sfd : FDs, mode : {"new", "redispatch"}]
ConnState == {"none", "conn_new_cmd", "conn_watch", "conn_closed"}
Conn == [state : ConnState, thread : Threads \cup {None}, event : Threads \cup {None}]
WorkerPc == {"loop", "conn_new", "event_add", "count", "close", "allow", "uncount"}

TypeOK ==
    /\ open \in SUBSET FDs
    /\ mpc \in {"loop", "accepted", "emfile", "pushed"}
    /\ msfd \in FDs \cup {None} /\ mtid \in Threads \cup {None}
    /\ last_thread \in Threads
    /\ conns \in [FDs -> Conn]
    /\ new_conn_queue \in [Threads -> Seq(Entry)] /\ pipe \in [Threads -> Nat]
    /\ wpc \in [Threads -> WorkerPc] /\ wfd \in [Threads -> FDs \cup {None}]
    /\ spc \in {"idle", "pushed"} /\ stid \in Threads \cup {None}
    /\ curr_conns \in Int /\ dropped \in Nat

\* Where a thread is tells whether it holds a descriptor or owes a byte.
Places ==
    /\ msfd # None <=> mpc = "accepted"
    /\ mtid # None <=> mpc = "pushed"
    /\ stid # None <=> spc = "pushed"
    /\ \A t \in Threads : wfd[t] # None <=> wpc[t] \in {"conn_new", "event_add", "count", "close"}

Items(t) == 1 .. Len(new_conn_queue[t])

\* A descriptor is with the main thread, with one worker, or on one queue.
MainHolds == msfd # None => msfd \in open
WorkersHold ==
    \A t \in Threads : wfd[t] # None =>
        /\ wfd[t] \in open /\ wfd[t] # msfd
        /\ \A u \in Threads : wfd[u] = wfd[t] => u = t
QueuesHold ==
    \A t \in Threads : \A i \in Items(t) :
        /\ new_conn_queue[t][i].sfd \in open /\ new_conn_queue[t][i].sfd # msfd
        /\ \A u \in Threads : wfd[u] # new_conn_queue[t][i].sfd
QueuedOnce ==
    \A t, u \in Threads : \A i \in Items(t) : \A j \in Items(u) :
        new_conn_queue[u][j].sfd = new_conn_queue[t][i].sfd => u = t /\ j = i

\* The descriptors that are with a connection.
NewQueued(fd) == \E t \in Threads : \E i \in Items(t) :
                    new_conn_queue[t][i].sfd = fd /\ new_conn_queue[t][i].mode = "new"
Live(fd) == fd \in open /\ msfd # fd /\ ~NewQueued(fd) /\ \A t \in Threads : wfd[t] # fd

\* What the structure of a connection says of its descriptor.
LiveServed ==
    \A fd \in FDs : Live(fd) => /\ conns[fd].state \in {"conn_new_cmd", "conn_watch"}
                                 /\ conns[fd].thread \in Threads
WatchLive == \A fd \in FDs : conns[fd].state = "conn_watch" => Live(fd) /\ conns[fd].event = None
LentQueued ==
    \A t \in Threads : \A i \in Items(t) : new_conn_queue[t][i].mode = "redispatch" =>
        conns[new_conn_queue[t][i].sfd].state = "conn_watch"
EventLive ==
    \A fd \in FDs : conns[fd].event # None =>
        /\ conns[fd].state = "conn_new_cmd" /\ fd \in open /\ msfd # fd /\ ~NewQueued(fd)
        /\ \A t \in Threads : wfd[t] = fd => wpc[t] = "count" /\ conns[fd].event = t
WorkersSee ==
    \A t \in Threads :
        /\ wpc[t] = "close" => conns[wfd[t]].state = "conn_closed"
        /\ wpc[t] \in {"event_add", "count"} => conns[wfd[t]].state = "conn_new_cmd"

HeldInv == /\ MainHolds /\ WorkersHold /\ QueuesHold /\ QueuedOnce
           /\ LiveServed /\ WatchLive /\ LentQueued /\ EventLive /\ WorkersSee

\* curr_conns over the descriptors that are with a connection.
Leaving == {t \in Threads : wpc[t] \in {"close", "allow", "uncount"}}
LiveFds == {fd \in FDs : Live(fd)}
Counted == curr_conns = Cardinality(LiveFds) + dropped + Cardinality(Leaving)

HInv == TypeOK /\ Places /\ HeldInv
IInv == HInv /\ QueueAnnounced /\ Counted

\* None is no thread and no descriptor.
LEMMA Distinct == None \notin Threads /\ None \notin FDs
BY ThreadAssumption, FdAssumption DEF Threads

USE Distinct

-----------------------------------------------------------------------------
(* What the operations on queues and descriptors do.                       *)

\* cq_push adds one item behind the others.
LEMMA PushFacts ==
    ASSUME TypeOK, NEW t \in Threads, NEW x \in Entry, cq_push(t, x)
    PROVE  /\ new_conn_queue' \in [Threads -> Seq(Entry)]
           /\ \A u \in Threads : u # t => Items(u)' = Items(u)
                                          /\ new_conn_queue'[u] = new_conn_queue[u]
           /\ \E n \in Nat : /\ n = Len(new_conn_queue[t]) /\ n + 1 = Len(new_conn_queue'[t])
                             /\ n + 1 \notin Items(t) /\ Items(t)' = Items(t) \cup {n + 1}
                             /\ new_conn_queue'[t][n + 1] = x
           /\ \A i \in Items(t) : new_conn_queue'[t][i] = new_conn_queue[t][i]
<1>1. new_conn_queue \in [Threads -> Seq(Entry)]
  BY DEF TypeOK
<1>2. new_conn_queue'[t] = Append(new_conn_queue[t], x)
  BY <1>1 DEF cq_push
<1>3. new_conn_queue[t] \in Seq(Entry)
  BY <1>1
<1>4. new_conn_queue' \in [Threads -> Seq(Entry)]
  BY <1>1, <1>3 DEF cq_push
<1>5. \A u \in Threads : u # t => Items(u)' = Items(u)
                                 /\ new_conn_queue'[u] = new_conn_queue[u]
  BY <1>1 DEF cq_push, Items
<1>6. PICK n \in Nat : n = Len(new_conn_queue[t])
  BY <1>3
<1>7. Len(new_conn_queue'[t]) = n + 1 /\ new_conn_queue'[t][n + 1] = x
  BY <1>2, <1>3, <1>6
<1>8. \A i \in Items(t) : new_conn_queue'[t][i] = new_conn_queue[t][i]
  BY <1>2, <1>3 DEF Items
<1>9. n + 1 \notin Items(t) /\ Items(t)' = Items(t) \cup {n + 1}
  BY <1>6, <1>7 DEF Items
<1> QED BY <1>4, <1>5, <1>6, <1>7, <1>8, <1>9

\* cq_pop takes the first item of a queue that has one.
LEMMA PopFacts ==
    ASSUME TypeOK, NEW t \in Threads, cq_pop(t)
    PROVE  /\ new_conn_queue' \in [Threads -> Seq(Entry)]
           /\ \A u \in Threads : u # t => new_conn_queue'[u] = new_conn_queue[u]
           /\ Len(new_conn_queue[t]) \in Nat
           /\ new_conn_queue[t] = <<>> <=> Len(new_conn_queue[t]) = 0
           /\ new_conn_queue[t] = <<>> => new_conn_queue'[t] = <<>>
           /\ new_conn_queue[t] # <<>> =>
                /\ Head(new_conn_queue[t]) = new_conn_queue[t][1]
                /\ new_conn_queue[t][1] \in Entry
                /\ Len(new_conn_queue'[t]) = Len(new_conn_queue[t]) - 1
                /\ \A i \in 1 .. Len(new_conn_queue[t]) - 1 :
                     new_conn_queue'[t][i] = new_conn_queue[t][i + 1]
<1>1. new_conn_queue \in [Threads -> Seq(Entry)]
  BY DEF TypeOK
<1>2. new_conn_queue'[t] = IF new_conn_queue[t] = <<>> THEN new_conn_queue[t]
                                                      ELSE Tail(new_conn_queue[t])
  BY <1>1 DEF cq_pop
<1>3. new_conn_queue[t] \in Seq(Entry)
  BY <1>1
<1>4. new_conn_queue' \in [Threads -> Seq(Entry)]
  BY <1>1, <1>3 DEF cq_pop
<1>5. \A u \in Threads : u # t => new_conn_queue'[u] = new_conn_queue[u]
  BY <1>1 DEF cq_pop
<1>6. ASSUME new_conn_queue[t] # <<>>
      PROVE  /\ Head(new_conn_queue[t]) = new_conn_queue[t][1]
             /\ new_conn_queue[t][1] \in Entry
             /\ Len(new_conn_queue'[t]) = Len(new_conn_queue[t]) - 1
             /\ \A i \in 1 .. Len(new_conn_queue[t]) - 1 :
                     new_conn_queue'[t][i] = new_conn_queue[t][i + 1]
  BY <1>2, <1>3, <1>6
<1> QED BY <1>2, <1>3, <1>4, <1>5, <1>6

\* What is left on the queues was there before, in the same order.
Popped(t) ==
    /\ \A u \in Threads : u # t => Items(u)' = Items(u) /\ new_conn_queue'[u] = new_conn_queue[u]
    /\ \A i \in Items(t)' : i \in Int /\ i + 1 \in Items(t) /\ i + 1 # 1
                            /\ new_conn_queue'[t][i] = new_conn_queue[t][i + 1]
    /\ \A i \in Items(t) : i # 1 =>
         \E j \in Items(t)' : new_conn_queue'[t][j] = new_conn_queue[t][i]

LEMMA PopItems ==
    ASSUME TypeOK, NEW t \in Threads, cq_pop(t), new_conn_queue[t] # <<>>
    PROVE  Popped(t)
<1>1. \A u \in Threads : u # t => Items(u)' = Items(u) /\ new_conn_queue'[u] = new_conn_queue[u]
  BY PopFacts DEF Items
<1>2. PICK n \in Nat : n = Len(new_conn_queue[t]) /\ n # 0
  BY PopFacts
<1>3. /\ Len(new_conn_queue'[t]) = n - 1
      /\ \A i \in 1 .. n - 1 : new_conn_queue'[t][i] = new_conn_queue[t][i + 1]
  BY <1>2, PopFacts
<1>4. Items(t) = 1 .. n /\ Items(t)' = 1 .. n - 1
  BY <1>2, <1>3 DEF Items
<1>5. ASSUME NEW i \in Items(t), i # 1
      PROVE  \E j \in Items(t)' : new_conn_queue'[t][j] = new_conn_queue[t][i]
  <2>1. i - 1 \in 1 .. n - 1 /\ (i - 1) + 1 = i
    BY <1>4, <1>5
  <2> QED BY <1>3, <1>4, <2>1
<1>6. \A i \in Items(t)' : i \in Int /\ i + 1 \in Items(t) /\ i + 1 # 1
                            /\ new_conn_queue'[t][i] = new_conn_queue[t][i + 1]
  BY <1>3, <1>4
<1> QED BY <1>1, <1>5, <1>6 DEF Popped

\* What is on the queues.
LEMMA ItemFacts ==
    ASSUME TypeOK, NEW t \in Threads
    PROVE  /\ new_conn_queue[t] \in Seq(Entry) /\ Len(new_conn_queue[t]) \in Nat
           /\ \A i \in Items(t) : /\ new_conn_queue[t][i].sfd \in FDs
                                  /\ new_conn_queue[t][i].mode \in {"new", "redispatch"}
<1>1. new_conn_queue[t] \in Seq(Entry)
  BY DEF TypeOK
<1>2. \A i \in Items(t) : new_conn_queue[t][i] \in Entry
  BY <1>1 DEF Items
<1> QED BY <1>1, <1>2 DEF Entry

\* The structure of a connection gets a state and an event.
LEMMA ConnMarked ==
    ASSUME conns \in [FDs -> Conn], NEW fd \in FDs, NEW s \in ConnState,
           NEW e \in Threads \cup {None},
           conns' = [conns EXCEPT ![fd].state = s, ![fd].event = e]
    PROVE  /\ conns' \in [FDs -> Conn]
           /\ conns'[fd].state = s /\ conns'[fd].event = e
           /\ conns'[fd].thread = conns[fd].thread
           /\ \A x \in FDs : x # fd => conns'[x] = conns[x]
<1>1. conns' \in [FDs -> Conn]
  BY DEF Conn
<1>2. conns'[fd].state = s /\ conns'[fd].event = e /\ conns'[fd].thread = conns[fd].thread
  BY DEF Conn
<1>3. \A x \in FDs : x # fd => conns'[x] = conns[x]
  BY DEF Conn
<1> QED BY <1>1, <1>2, <1>3

\* It gets a state, a thread or an event.
LEMMA ConnStateSet ==
    ASSUME conns \in [FDs -> Conn], NEW fd \in FDs, NEW v \in ConnState,
           conns' = [conns EXCEPT ![fd].state = v]
    PROVE  /\ conns' \in [FDs -> Conn]
           /\ conns'[fd].state = v
           /\ conns'[fd].thread = conns[fd].thread /\ conns'[fd].event = conns[fd].event
           /\ \A x \in FDs : x # fd => conns'[x] = conns[x]
<1>1. conns' \in [FDs -> Conn]
  BY DEF Conn
<1>2. /\ conns'[fd].state = v
      /\ conns'[fd].thread = conns[fd].thread /\ conns'[fd].event = conns[fd].event
  BY DEF Conn
<1>3. \A x \in FDs : x # fd => conns'[x] = conns[x]
  BY DEF Conn
<1> QED BY <1>1, <1>2, <1>3

LEMMA ConnThread ==
    ASSUME conns \in [FDs -> Conn], NEW fd \in FDs, NEW v \in Threads,
           conns' = [conns EXCEPT ![fd].thread = v]
    PROVE  /\ conns' \in [FDs -> Conn]
           /\ conns'[fd].thread = v
           /\ conns'[fd].state = conns[fd].state /\ conns'[fd].event = conns[fd].event
           /\ \A x \in FDs : x # fd => conns'[x] = conns[x]
<1>1. conns' \in [FDs -> Conn]
  BY DEF Conn
<1>2. /\ conns'[fd].thread = v
      /\ conns'[fd].state = conns[fd].state /\ conns'[fd].event = conns[fd].event
  BY DEF Conn
<1>3. \A x \in FDs : x # fd => conns'[x] = conns[x]
  BY DEF Conn
<1> QED BY <1>1, <1>2, <1>3

LEMMA ConnEvent ==
    ASSUME conns \in [FDs -> Conn], NEW fd \in FDs, NEW v \in Threads,
           conns' = [conns EXCEPT ![fd].event = v]
    PROVE  /\ conns' \in [FDs -> Conn]
           /\ conns'[fd].event = v
           /\ conns'[fd].state = conns[fd].state /\ conns'[fd].thread = conns[fd].thread
           /\ \A x \in FDs : x # fd => conns'[x] = conns[x]
<1>1. conns' \in [FDs -> Conn]
  BY DEF Conn
<1>2. /\ conns'[fd].event = v
      /\ conns'[fd].state = conns[fd].state /\ conns'[fd].thread = conns[fd].thread
  BY DEF Conn
<1>3. \A x \in FDs : x # fd => conns'[x] = conns[x]
  BY DEF Conn
<1> QED BY <1>1, <1>2, <1>3

\* A worker goes on, with another descriptor or with none.
LEMMA WorkerMoves ==
    ASSUME TypeOK, NEW t \in Threads, NEW p \in WorkerPc, NEW f \in FDs \cup {None},
           wpc' = [wpc EXCEPT ![t] = p], wfd' = [wfd EXCEPT ![t] = f]
    PROVE  /\ wpc' \in [Threads -> WorkerPc] /\ wfd' \in [Threads -> FDs \cup {None}]
           /\ wpc'[t] = p /\ wfd'[t] = f
           /\ \A u \in Threads : u # t => wpc'[u] = wpc[u] /\ wfd'[u] = wfd[u]
BY DEF TypeOK

LEMMA WorkerAdvances ==
    ASSUME TypeOK, NEW t \in Threads, NEW p \in WorkerPc,
           wpc' = [wpc EXCEPT ![t] = p], wfd' = wfd
    PROVE  /\ wpc' \in [Threads -> WorkerPc] /\ wfd' \in [Threads -> FDs \cup {None}]
           /\ wpc'[t] = p /\ wfd'[t] = wfd[t]
           /\ \A u \in Threads : u # t => wpc'[u] = wpc[u] /\ wfd'[u] = wfd[u]
BY DEF TypeOK

LEMMA WorkerTypes ==
    ASSUME TypeOK, Places
    PROVE  \A t \in Threads :
             /\ wfd[t] \in FDs \cup {None}
             /\ wpc[t] \in {"conn_new", "event_add", "count", "close"} => wfd[t] \in FDs
             /\ wpc[t] \in {"loop", "allow", "uncount"} => wfd[t] = None
BY DEF TypeOK, Places

\* A set of descriptors that is not empty has a lowest one.
LEMMA MinInSet ==
    ASSUME NEW S \in SUBSET FDs, S # {}
    PROVE  Min(S) \in S
<1> DEFINE Below(x) == {y \in S : y <= x}
           T == {Below(x) : x \in S}
<1>1. IsFiniteSet(S)
  BY FdAssumption, FS_Subset
<1>2. S \in SUBSET Nat
  BY FdAssumption
<1>3. IsWellFoundedOn(StrictSubsetOrdering(S), FiniteSubsetsOf(S))
  BY FS_StrictSubsetOrderingWellFounded
<1>4. T \subseteq FiniteSubsetsOf(S) /\ T # {}
  <2>1. FiniteSubsetsOf(S) = SUBSET S
    BY <1>1, FS_FiniteSubsetsOfFinite
  <2>2. T \subseteq SUBSET S /\ T # {}
    OBVIOUS
  <2> QED BY <2>1, <2>2
<1>5. PICK A \in T : \A B \in T : ~ (<<B, A>> \in StrictSubsetOrdering(S))
  BY <1>3, <1>4, WFMin
<1>6. PICK x \in S : A = Below(x)
  BY <1>5
<1>7. ASSUME NEW y \in S, ~ (x <= y) PROVE FALSE
  <2>1. y < x /\ x \in Nat /\ y \in Nat
    BY <1>2, <1>7
  <2>2. x \in Below(x) /\ x \notin Below(y)
    BY <2>1
  <2>3. ASSUME NEW z \in Below(y) PROVE z \in Below(x)
    <3>1. z \in S /\ z \in Nat /\ z <= y
      BY <1>2
    <3> QED BY <3>1, <2>1
  <2>4. <<Below(y), A>> \in StrictSubsetOrdering(S)
    BY <2>2, <2>3, <1>6 DEF StrictSubsetOrdering
  <2>5. Below(y) \in T
    OBVIOUS
  <2> QED BY <2>4, <2>5, <1>5
<1> QED BY <1>7 DEF Min

-----------------------------------------------------------------------------
(* Every step keeps the invariant.                                         *)

USE DEF HInv

\* A step that moves no descriptor.
LEMMA HeldFrame ==
    ASSUME HeldInv, UNCHANGED <<open, msfd, wfd, wpc, conns, new_conn_queue>>
    PROVE  HeldInv' /\ LiveFds' = LiveFds
BY DEF HeldInv, MainHolds, WorkersHold, QueuesHold, QueuedOnce, LiveServed, WatchLive,
       LentQueued, EventLive, WorkersSee, Live, NewQueued, Items, LiveFds

LEMMA Step_ClientConnects ==
    ASSUME HInv, ClientConnects
    PROVE  HInv' /\ LiveFds' = LiveFds
<1>1. TypeOK' /\ Places'
  BY DEF TypeOK, Places, ClientConnects, mainVars, queueVars, workVars, sideVars
<1> QED BY <1>1, HeldFrame DEF ClientConnects, mainVars, queueVars, workVars

LEMMA Step_AcceptEMFILE ==
    ASSUME HInv, AcceptEMFILE
    PROVE  HInv' /\ LiveFds' = LiveFds
<1>1. TypeOK' /\ Places'
  BY DEF TypeOK, Places, AcceptEMFILE, queueVars, workVars, sideVars
<1> QED BY <1>1, HeldFrame DEF AcceptEMFILE, queueVars, workVars

LEMMA Step_accept_new_conns ==
    ASSUME HInv, accept_new_conns
    PROVE  HInv' /\ LiveFds' = LiveFds
<1>1. TypeOK' /\ Places'
  BY DEF TypeOK, Places, accept_new_conns, queueVars, workVars, sideVars
<1> QED BY <1>1, HeldFrame DEF accept_new_conns, queueVars, workVars

LEMMA Step_maxconns_handler ==
    ASSUME HInv, maxconns_handler
    PROVE  HInv' /\ LiveFds' = LiveFds
<1>1. TypeOK' /\ Places'
  BY DEF TypeOK, Places, maxconns_handler, mainVars, queueVars, workVars, sideVars
<1> QED BY <1>1, HeldFrame DEF maxconns_handler, mainVars, queueVars, workVars

LEMMA Step_NotifyWorker ==
    ASSUME HInv, NotifyWorker
    PROVE  HInv' /\ LiveFds' = LiveFds
<1>1. mtid \in Threads
  BY DEF TypeOK, Places, NotifyWorker
<1>2. pipe' \in [Threads -> Nat]
  BY <1>1 DEF TypeOK, NotifyWorker, Notify
<1>3. TypeOK' /\ Places'
  BY <1>2 DEF TypeOK, Places, NotifyWorker, workVars, sideVars
<1> QED BY <1>3, HeldFrame DEF NotifyWorker, workVars

LEMMA Step_RedispatchNotify ==
    ASSUME HInv, RedispatchNotify
    PROVE  HInv' /\ LiveFds' = LiveFds
<1>1. stid \in Threads
  BY DEF TypeOK, Places, RedispatchNotify
<1>2. pipe' \in [Threads -> Nat]
  BY <1>1 DEF TypeOK, RedispatchNotify, Notify
<1>3. TypeOK' /\ Places'
  BY <1>2 DEF TypeOK, Places, RedispatchNotify, mainVars, workVars
<1> QED BY <1>3, HeldFrame DEF RedispatchNotify, mainVars, workVars

\* The main thread gets a descriptor that was closed.
LEMMA Step_Accept ==
    ASSUME HInv, Accept
    PROVE  HInv' /\ LiveFds' = LiveFds
<1>1. PICK fd \in FDs : fd \notin open /\ msfd' = fd /\ open' = open \cup {fd}
  BY MinInSet DEF Accept
<1>2. msfd = None /\ UNCHANGED <<wfd, wpc, conns, new_conn_queue>>
  BY DEF Places, Accept, workVars, queueVars
<1>3. TypeOK' /\ Places'
  BY <1>1 DEF TypeOK, Places, Accept, queueVars, workVars, sideVars
<1>4. MainHolds' /\ WorkersHold' /\ QueuesHold' /\ QueuedOnce'
  BY <1>1, <1>2 DEF HeldInv, MainHolds, WorkersHold, QueuesHold, QueuedOnce, Items
<1>5. \A x \in FDs : Live(x)' <=> Live(x)
  BY <1>1, <1>2 DEF Live, NewQueued, Items
<1>6. LiveServed' /\ WatchLive' /\ LentQueued' /\ WorkersSee'
  BY <1>2, <1>5 DEF HeldInv, LiveServed, WatchLive, LentQueued, WorkersSee, Items
<1>7. EventLive'
  BY <1>1, <1>2 DEF HeldInv, EventLive, NewQueued, Items
<1>8. LiveFds' = LiveFds
  BY <1>5 DEF LiveFds
<1> QED BY <1>8, <1>3, <1>4, <1>6, <1>7 DEF HeldInv

\* The main thread closes it.
LEMMA Step_CloseAccepted ==
    ASSUME HInv, CloseAccepted
    PROVE  HInv' /\ LiveFds' = LiveFds
<1>1. /\ msfd \in FDs /\ msfd \in open /\ msfd' = None /\ open' = open \ {msfd}
      /\ UNCHANGED <<wfd, wpc, conns, new_conn_queue>>
  BY DEF TypeOK, Places, HeldInv, MainHolds, CloseAccepted, workVars, queueVars
<1>3. TypeOK' /\ Places'
  BY DEF TypeOK, Places, CloseAccepted, queueVars, workVars, sideVars
<1>4. MainHolds' /\ WorkersHold' /\ QueuedOnce'
  BY <1>1 DEF HeldInv, MainHolds, WorkersHold, QueuedOnce, Items
<1>5. QueuesHold'
  BY <1>1, ItemFacts DEF HeldInv, QueuesHold, Items
<1>6. \A x \in FDs : Live(x)' <=> Live(x)
  BY <1>1 DEF Live, NewQueued, Items
<1>7. LiveServed' /\ WatchLive' /\ LentQueued' /\ WorkersSee'
  BY <1>1, <1>6 DEF HeldInv, LiveServed, WatchLive, LentQueued, WorkersSee, Items
<1>8. EventLive'
  BY <1>1 DEF HeldInv, EventLive, NewQueued, Items
<1>9. LiveFds' = LiveFds
  BY <1>6 DEF LiveFds
<1> QED BY <1>9, <1>3, <1>4, <1>5, <1>7, <1>8 DEF HeldInv

\* The main thread puts it on a queue.
LEMMA Step_dispatch_conn_new ==
    ASSUME HInv, dispatch_conn_new
    PROVE  HInv' /\ LiveFds' = LiveFds
<1>1. /\ msfd \in FDs /\ msfd \in open /\ msfd' = None
      /\ UNCHANGED <<open, wfd, wpc, conns>>
  BY DEF TypeOK, Places, HeldInv, MainHolds, dispatch_conn_new, workVars
<1>2. PICK tid \in Threads : tid = (last_thread + 1) % NumThreads
  <2>1. (last_thread + 1) % NumThreads \in Threads
    BY ThreadAssumption DEF TypeOK, Threads
  <2> QED BY <2>1
<1>3. PICK x \in Entry : x = [sfd |-> msfd, mode |-> "new"] /\ x.sfd = msfd /\ x.mode = "new"
  <2>1. [sfd |-> msfd, mode |-> "new"] \in Entry
    BY <1>1 DEF Entry
  <2> QED BY <2>1
<1>4. cq_push(tid, x) /\ last_thread' = tid /\ mtid' = tid
  BY <1>2, <1>3 DEF dispatch_conn_new
<1>5. new_conn_queue' \in [Threads -> Seq(Entry)]
  BY <1>2, <1>3, <1>4, PushFacts
<1>6. TypeOK' /\ Places'
  BY <1>2, <1>4, <1>5 DEF TypeOK, Places, dispatch_conn_new, workVars, sideVars
<1>7. PICK n : /\ Items(tid)' = Items(tid) \cup {n}
               /\ new_conn_queue'[tid][n] = x /\ n \notin Items(tid)
               /\ \A u \in Threads : u # tid => Items(u)' = Items(u)
                                                /\ new_conn_queue'[u] = new_conn_queue[u]
               /\ \A i \in Items(tid) : new_conn_queue'[tid][i] = new_conn_queue[tid][i]
  BY <1>2, <1>3, <1>4, PushFacts
<1>8. MainHolds' /\ WorkersHold' /\ QueuesHold'
  <2>1. \A u \in Threads : wfd[u] # msfd
    BY <1>1 DEF HeldInv, WorkersHold
  <2>2. QueuesHold'
    BY <1>1, <1>3, <1>7, <2>1, ItemFacts DEF HeldInv, QueuesHold
  <2> QED BY <1>1, <2>2 DEF HeldInv, MainHolds, WorkersHold
<1>9. QueuedOnce'
  BY <1>1, <1>2, <1>3, <1>7 DEF HeldInv, QueuesHold, QueuedOnce
<1>10. \A fd \in FDs : NewQueued(fd)' <=> NewQueued(fd) \/ fd = msfd
  BY <1>1, <1>2, <1>3, <1>7 DEF NewQueued
<1>11. \A fd \in FDs : Live(fd)' <=> Live(fd)
  BY <1>1, <1>10 DEF Live
<1>12. LiveServed' /\ WatchLive' /\ WorkersSee'
  BY <1>1, <1>11 DEF HeldInv, LiveServed, WatchLive, WorkersSee
<1>13. LentQueued'
  BY <1>1, <1>2, <1>3, <1>7 DEF HeldInv, LentQueued
<1>14. EventLive'
  BY <1>1, <1>10 DEF HeldInv, EventLive
<1>15. LiveFds' = LiveFds
  BY <1>11 DEF LiveFds
<1> QED BY <1>15, <1>6, <1>8, <1>9, <1>12, <1>13, <1>14 DEF HeldInv

\* A worker closes a connection.
LEMMA Step_conn_close ==
    ASSUME HInv, NEW t \in Threads, NEW fd \in FDs, conn_close(t, fd)
    PROVE  HInv' /\ fd \in LiveFds /\ LiveFds' = LiveFds \ {fd}
<1>1. /\ wpc[t] = "loop" /\ conns[fd].event = t /\ wfd[t] = None
      /\ UNCHANGED <<open, msfd, new_conn_queue>>
  BY DEF Places, conn_close, Serves, mainVars, queueVars
<1>2. /\ conns' \in [FDs -> Conn]
      /\ conns'[fd].state = "conn_closed" /\ conns'[fd].event = None
      /\ \A x \in FDs : x # fd => conns'[x] = conns[x]
  BY ConnMarked DEF TypeOK, conn_close, ConnState
<1>3. /\ wpc' \in [Threads -> WorkerPc] /\ wfd' \in [Threads -> FDs \cup {None}]
      /\ wpc'[t] = "close" /\ wfd'[t] = fd
      /\ \A u \in Threads : u # t => wpc'[u] = wpc[u] /\ wfd'[u] = wfd[u]
  BY WorkerMoves DEF conn_close, WorkerPc
<1>4. TypeOK' /\ Places'
  BY <1>2, <1>3 DEF TypeOK, Places, conn_close, mainVars, queueVars, sideVars
<1>6. Live(fd) /\ conns[fd].state = "conn_new_cmd"
  BY <1>1 DEF HeldInv, EventLive, Live
<1>7. MainHolds' /\ WorkersHold' /\ QueuedOnce'
  BY <1>1, <1>3, <1>6 DEF HeldInv, MainHolds, WorkersHold, QueuedOnce, Live, Items
<1>8. QueuesHold'
  <2>1. \A u \in Threads : \A i \in Items(u) : new_conn_queue[u][i].sfd # fd
    BY <1>6, ItemFacts DEF HeldInv, LentQueued, Live, NewQueued
  <2> QED BY <1>1, <1>3, <2>1 DEF HeldInv, QueuesHold, Items
<1>9. LiveServed' /\ WatchLive'
  BY <1>1, <1>2, <1>3, <1>6 DEF HeldInv, LiveServed, WatchLive, Live, NewQueued, Items
<1>10. LentQueued'
  BY <1>1, <1>2, <1>6, ItemFacts DEF HeldInv, LentQueued, Items
<1>11. EventLive'
  BY <1>1, <1>2, <1>3, <1>6 DEF HeldInv, EventLive, NewQueued, Live, Items
<1>12. WorkersSee'
  BY <1>1, <1>2, <1>3, <1>6, WorkerTypes DEF HeldInv, WorkersSee, Live
<1>13. fd \in LiveFds /\ LiveFds' = LiveFds \ {fd}
  <2>1. ~Live(fd)' /\ \A x \in FDs : x # fd => (Live(x)' <=> Live(x))
    BY <1>1, <1>3 DEF Live, NewQueued, Items
  <2> QED BY <1>6, <2>1 DEF LiveFds
<1> QED BY <1>13, <1>4, <1>7, <1>8, <1>9, <1>10, <1>11, <1>12 DEF HeldInv

\* A byte is read and a descriptor that is new is taken from the queue.
LEMMA Step_thread_libevent_process ==
    ASSUME HInv, NEW t \in Threads, thread_libevent_process(t)
    PROVE  HInv' /\ LiveFds' = LiveFds
<1>1. wpc[t] = "loop" /\ wfd[t] = None /\ UNCHANGED <<open, msfd, conns>>
  BY DEF Places, thread_libevent_process, mainVars
<1>2. pipe' \in [Threads -> Nat]
  BY DEF TypeOK, thread_libevent_process
<1>3. cq_pop(t)
  BY DEF thread_libevent_process
<1>4. CASE new_conn_queue[t] = <<>>
  <2>1. new_conn_queue' = new_conn_queue
    BY <1>4 DEF TypeOK, thread_libevent_process, cq_pop
  <2>2. wpc' = wpc /\ wfd' = wfd
    BY <1>1, <1>4 DEF TypeOK, thread_libevent_process
  <2>3. TypeOK' /\ Places'
    BY <1>2, <2>1, <2>2 DEF TypeOK, Places, thread_libevent_process, mainVars, sideVars
  <2> QED BY <1>1, <2>1, <2>2, <2>3, HeldFrame
<1>5. CASE new_conn_queue[t] # <<>>
  <2>1. PICK fd \in FDs :
          /\ 1 \in Items(t) /\ new_conn_queue[t][1].sfd = fd /\ new_conn_queue[t][1].mode = "new"
          /\ wpc' = [wpc EXCEPT ![t] = "conn_new"] /\ wfd' = [wfd EXCEPT ![t] = fd]
    <3>1. Head(new_conn_queue[t]) = new_conn_queue[t][1] /\ 1 \in Items(t)
      BY <1>3, <1>5, PopFacts DEF Items
    <3> QED BY <1>5, <3>1, ItemFacts DEF thread_libevent_process
  <2>2. /\ wpc' \in [Threads -> WorkerPc] /\ wfd' \in [Threads -> FDs \cup {None}]
        /\ wpc'[t] = "conn_new" /\ wfd'[t] = fd
        /\ \A u \in Threads : u # t => wpc'[u] = wpc[u] /\ wfd'[u] = wfd[u]
    BY <2>1, WorkerMoves DEF WorkerPc
  <2>3. new_conn_queue' \in [Threads -> Seq(Entry)]
    BY <1>3, PopFacts
  <2>4. TypeOK' /\ Places'
    BY <1>1, <1>2, <2>2, <2>3 DEF TypeOK, Places, thread_libevent_process, mainVars, sideVars
  <2>5. Popped(t)
    BY <1>3, <1>5, PopItems
  <2>6. /\ fd \in open /\ msfd # fd
        /\ \A u \in Threads : wfd[u] # fd /\ \A i \in Items(u)' : new_conn_queue'[u][i].sfd # fd
    <3>1. fd \in open /\ msfd # fd /\ \A u \in Threads : wfd[u] # fd
      BY <2>1 DEF HeldInv, QueuesHold
    <3> QED BY <2>1, <2>5, <3>1 DEF HeldInv, QueuedOnce, Popped
  <2>7. MainHolds' /\ WorkersHold'
    BY <1>1, <2>2, <2>6 DEF HeldInv, MainHolds, WorkersHold
  <2>8. QueuesHold'
    BY <1>1, <2>2, <2>5, <2>6 DEF HeldInv, QueuesHold, Popped
  <2>9. QueuedOnce'
    BY <2>5 DEF HeldInv, QueuedOnce, Popped
  <2>10. \A x \in FDs : NewQueued(x) <=> NewQueued(x)' \/ x = fd
    BY <2>1, <2>5 DEF NewQueued, Popped
  <2>11. \A x \in FDs : Live(x)' <=> Live(x)
    BY <1>1, <2>2, <2>6, <2>10 DEF Live
  <2>12. LiveServed' /\ WatchLive'
    BY <1>1, <2>11 DEF HeldInv, LiveServed, WatchLive
  <2>13. LentQueued'
    BY <1>1, <2>5 DEF HeldInv, LentQueued, Popped
  <2>14. EventLive'
    BY <1>1, <2>2, <2>10 DEF HeldInv, EventLive
  <2>15. WorkersSee'
    BY <1>1, <2>2 DEF HeldInv, WorkersSee
  <2>16. LiveFds' = LiveFds
    BY <2>11 DEF LiveFds
  <2> QED BY <2>16, <2>4, <2>7, <2>8, <2>9, <2>12, <2>13, <2>14, <2>15 DEF HeldInv
<1> QED BY <1>4, <1>5

\* A byte is read and a connection that was lent gets its event back, or not.
LEMMA Step_conn_worker_readd ==
    ASSUME HInv, NEW t \in Threads, conn_worker_readd(t)
    PROVE  HInv' /\ LiveFds' = LiveFds
<1>1. UNCHANGED <<open, msfd, wpc, wfd>> /\ cq_pop(t) /\ new_conn_queue[t] # <<>>
  BY DEF conn_worker_readd, mainVars, workVars
<1>2. pipe' \in [Threads -> Nat]
  BY DEF TypeOK, conn_worker_readd
<1>3. Head(new_conn_queue[t]) = new_conn_queue[t][1] /\ 1 \in Items(t)
  BY <1>1, PopFacts DEF Items
<1>4. PICK fd \in FDs : /\ fd = new_conn_queue[t][1].sfd
                        /\ new_conn_queue[t][1].mode = "redispatch"
  BY <1>3, ItemFacts DEF conn_worker_readd
<1>5. conns[fd].state = "conn_watch" /\ Live(fd)
  BY <1>3, <1>4 DEF HeldInv, LentQueued, WatchLive
<1>6. PICK base \in Threads \cup {None} :
        conns' = [conns EXCEPT ![fd].state = "conn_new_cmd", ![fd].event = base]
  <2>1. conns[fd].thread \in Threads
    BY <1>5 DEF HeldInv, LiveServed
  <2>2. \E base \in {conns[fd].thread, None} :
          conns' = [conns EXCEPT ![fd].state = "conn_new_cmd", ![fd].event = base]
    BY <1>3, <1>4 DEF conn_worker_readd
  <2> QED BY <2>1, <2>2
<1>7. /\ conns' \in [FDs -> Conn]
      /\ conns'[fd].state = "conn_new_cmd" /\ conns'[fd].event = base
      /\ conns'[fd].thread = conns[fd].thread
      /\ \A x \in FDs : x # fd => conns'[x] = conns[x]
  BY <1>6, ConnMarked DEF TypeOK, ConnState
<1>8. new_conn_queue' \in [Threads -> Seq(Entry)]
  BY <1>1, PopFacts
<1>9. TypeOK' /\ Places'
  BY <1>1, <1>2, <1>7, <1>8 DEF TypeOK, Places, conn_worker_readd, mainVars, sideVars
<1>10. Popped(t)
  BY <1>1, PopItems
<1>11. MainHolds' /\ WorkersHold' /\ QueuesHold' /\ QueuedOnce'
  <2>1. QueuesHold'
    BY <1>1, <1>10 DEF HeldInv, QueuesHold, Popped
  <2>2. QueuedOnce'
    BY <1>10 DEF HeldInv, QueuedOnce, Popped
  <2> QED BY <1>1, <2>1, <2>2 DEF HeldInv, MainHolds, WorkersHold
<1>12. \A x \in FDs : NewQueued(x) <=> NewQueued(x)'
  BY <1>4, <1>10 DEF NewQueued, Popped
<1>13. \A x \in FDs : Live(x)' <=> Live(x)
  BY <1>1, <1>12 DEF Live
<1>14. LiveServed' /\ WatchLive'
  BY <1>5, <1>7, <1>13 DEF HeldInv, LiveServed, WatchLive
<1>15. LentQueued'
  <2>1. \A u \in Threads : \A i \in Items(u)' :
          /\ new_conn_queue'[u][i].sfd # fd /\ new_conn_queue'[u][i].sfd \in FDs
          /\ new_conn_queue'[u][i].mode = "redispatch" =>
               conns[new_conn_queue'[u][i].sfd].state = "conn_watch"
    <3> SUFFICES ASSUME NEW u \in Threads, NEW i \in Items(u)'
                 PROVE  \E j \in Items(u) : /\ new_conn_queue'[u][i] = new_conn_queue[u][j]
                                            /\ ~(u = t /\ j = 1)
      BY <1>3, <1>4, ItemFacts DEF HeldInv, QueuedOnce, LentQueued
    <3> QED BY <1>10 DEF Popped
  <2> QED BY <1>7, <2>1 DEF LentQueued
<1>16. EventLive'
  BY <1>1, <1>5, <1>7, <1>12 DEF HeldInv, EventLive, Live
<1>17. WorkersSee'
  BY <1>1, <1>5, <1>7, WorkerTypes DEF HeldInv, WorkersSee, Live
<1>18. LiveFds' = LiveFds
  BY <1>13 DEF LiveFds
<1> QED BY <1>18, <1>9, <1>11, <1>14, <1>15, <1>16, <1>17 DEF HeldInv

\* Which connections are live depends on who holds the descriptors only.
LEMMA LiveFrame ==
    ASSUME UNCHANGED <<open, msfd, wfd, new_conn_queue>>
    PROVE  /\ MainHolds => MainHolds'
           /\ WorkersHold => WorkersHold'
           /\ QueuesHold => QueuesHold'
           /\ QueuedOnce => QueuedOnce'
           /\ \A t \in Threads : Items(t)' = Items(t)
           /\ \A fd \in FDs : (NewQueued(fd)' <=> NewQueued(fd)) /\ (Live(fd)' <=> Live(fd))
BY DEF MainHolds, WorkersHold, QueuesHold, QueuedOnce, Items, NewQueued, Live

\* A descriptor that a worker holds is with nobody else.
LEMMA WorkerAlone ==
    ASSUME HInv, NEW t \in Threads, wfd[t] # None
    PROVE  /\ wfd[t] \in FDs /\ wfd[t] \in open /\ msfd # wfd[t]
           /\ \A u \in Threads : wfd[u] = wfd[t] => u = t
           /\ \A u \in Threads : \A i \in Items(u) : new_conn_queue[u][i].sfd # wfd[t]
           /\ ~Live(wfd[t]) /\ ~NewQueued(wfd[t])
           /\ conns[wfd[t]].state # "conn_watch"
<1>1. wfd[t] \in FDs
  BY DEF TypeOK
<1>2. /\ wfd[t] \in open /\ msfd # wfd[t] /\ \A u \in Threads : wfd[u] = wfd[t] => u = t
  BY DEF HeldInv, WorkersHold
<1>3. \A u \in Threads : \A i \in Items(u) : new_conn_queue[u][i].sfd # wfd[t]
  BY DEF HeldInv, QueuesHold
<1>4. ~Live(wfd[t])
  BY DEF Live
<1>5. ~NewQueued(wfd[t])
  BY <1>3 DEF NewQueued
<1> QED BY <1>1, <1>2, <1>3, <1>4, <1>5 DEF HeldInv, WatchLive

\* A worker takes the structure of the descriptor.
LEMMA Step_conn_new ==
    ASSUME HInv, NEW t \in Threads, conn_new(t)
    PROVE  HInv' /\ LiveFds' = LiveFds
<1>1. wpc[t] = "conn_new" /\ UNCHANGED <<open, msfd, wfd, new_conn_queue>>
  BY DEF conn_new, mainVars, queueVars
<1>2. PICK fd \in FDs : fd = wfd[t]
  BY <1>1, WorkerTypes
<1>3. /\ conns' \in [FDs -> Conn]
      /\ conns'[fd].state = "conn_new_cmd" /\ conns'[fd].event = conns[fd].event
      /\ \A x \in FDs : x # fd => conns'[x] = conns[x]
  BY <1>2, ConnStateSet DEF TypeOK, conn_new, ConnState
<1>4. /\ wpc' \in [Threads -> WorkerPc] /\ wfd' \in [Threads -> FDs \cup {None}]
      /\ wpc'[t] = "event_add" /\ \A u \in Threads : u # t => wpc'[u] = wpc[u]
  BY <1>1, WorkerAdvances DEF conn_new, WorkerPc
<1>5. TypeOK' /\ Places'
  BY <1>1, <1>3, <1>4 DEF TypeOK, Places, conn_new, mainVars, queueVars, sideVars
<1>6. /\ ~Live(fd) /\ conns[fd].state # "conn_watch" /\ conns[fd].event = None
      /\ \A u \in Threads : wfd[u] = fd => u = t
      /\ \A u \in Threads : \A i \in Items(u) : new_conn_queue[u][i].sfd # fd
  <2>1. conns[fd].event = None
    BY <1>1, <1>2 DEF HeldInv, EventLive
  <2> QED BY <1>2, <2>1, WorkerAlone
<1>7. MainHolds' /\ WorkersHold' /\ QueuesHold' /\ QueuedOnce'
  BY <1>1, LiveFrame DEF HeldInv
<1>8. LiveServed' /\ WatchLive'
  BY <1>1, <1>3, <1>6, LiveFrame DEF HeldInv, LiveServed, WatchLive
<1>9. LentQueued'
  BY <1>1, <1>3, <1>6, LiveFrame, ItemFacts DEF HeldInv, LentQueued
<1>10. EventLive'
  BY <1>1, <1>3, <1>4, <1>6, LiveFrame DEF HeldInv, EventLive
<1>11. WorkersSee'
  BY <1>1, <1>2, <1>3, <1>4, <1>6, WorkerTypes DEF HeldInv, WorkersSee
<1>12. LiveFds' = LiveFds
  BY <1>1, LiveFrame DEF LiveFds
<1> QED BY <1>12, <1>5, <1>7, <1>8, <1>9, <1>10, <1>11 DEF HeldInv

\* The event of the new connection is added.
LEMMA Step_event_add ==
    ASSUME HInv, NEW t \in Threads, event_add(t)
    PROVE  HInv' /\ LiveFds' = LiveFds
<1>1. wpc[t] = "event_add" /\ UNCHANGED <<open, msfd, wfd, new_conn_queue>>
  BY DEF event_add, mainVars, queueVars
<1>2. PICK fd \in FDs : fd = wfd[t]
  BY <1>1, WorkerTypes
<1>3. /\ conns' \in [FDs -> Conn]
      /\ conns'[fd].event = t /\ conns'[fd].state = conns[fd].state
      /\ \A x \in FDs : x # fd => conns'[x] = conns[x]
  BY <1>2, ConnEvent DEF TypeOK, event_add
<1>4. /\ wpc' \in [Threads -> WorkerPc] /\ wfd' \in [Threads -> FDs \cup {None}]
      /\ wpc'[t] = "count" /\ \A u \in Threads : u # t => wpc'[u] = wpc[u]
  BY <1>1, WorkerAdvances DEF event_add, WorkerPc
<1>5. TypeOK' /\ Places'
  BY <1>1, <1>3, <1>4 DEF TypeOK, Places, event_add, mainVars, queueVars, sideVars
<1>6. /\ ~Live(fd) /\ conns[fd].state = "conn_new_cmd" /\ fd \in open /\ msfd # fd
      /\ ~NewQueued(fd) /\ \A u \in Threads : wfd[u] = fd => u = t
  BY <1>1, <1>2, WorkerAlone DEF HeldInv, WorkersSee
<1>7. MainHolds' /\ WorkersHold' /\ QueuesHold' /\ QueuedOnce'
  BY <1>1, LiveFrame DEF HeldInv
<1>8. LiveServed' /\ WatchLive'
  BY <1>1, <1>3, <1>6, LiveFrame DEF HeldInv, LiveServed, WatchLive
<1>9. LentQueued'
  BY <1>1, <1>3, <1>6, LiveFrame, ItemFacts DEF HeldInv, LentQueued
<1>10. EventLive'
  BY <1>1, <1>3, <1>4, <1>6, LiveFrame DEF HeldInv, EventLive
<1>11. WorkersSee'
  BY <1>1, <1>2, <1>3, <1>4, <1>6, WorkerTypes DEF HeldInv, WorkersSee
<1>12. LiveFds' = LiveFds
  BY <1>1, LiveFrame DEF LiveFds
<1> QED BY <1>12, <1>5, <1>7, <1>8, <1>9, <1>10, <1>11 DEF HeldInv

\* A worker puts down the descriptor that only it holds; others see no change.
LEMMA PutDown ==
    ASSUME HInv, NEW t \in Threads, NEW fd, wfd[t] = fd, fd # None,
           UNCHANGED <<msfd, new_conn_queue>>,
           wfd'[t] = None, \A u \in Threads : u # t => wfd'[u] = wfd[u],
           open' \in {open, open \ {fd}}
    PROVE  /\ MainHolds' /\ WorkersHold' /\ QueuesHold' /\ QueuedOnce'
           /\ \A u \in Threads : Items(u)' = Items(u)
           /\ \A x \in FDs : NewQueued(x)' <=> NewQueued(x)
           /\ \A x \in FDs : x # fd => (Live(x)' <=> Live(x))
           /\ Live(fd)' <=> fd \in open'
<1>1. /\ fd \in FDs /\ fd \in open /\ msfd # fd /\ \A u \in Threads : wfd[u] = fd => u = t
      /\ \A u \in Threads : \A i \in Items(u) : new_conn_queue[u][i].sfd # fd
      /\ ~NewQueued(fd)
  BY WorkerAlone
<1>2. MainHolds' /\ WorkersHold'
  BY <1>1 DEF HeldInv, MainHolds, WorkersHold
<1>3. QueuesHold'
  <2>1. \A x : x \in open /\ x # fd => x \in open'
    OBVIOUS
  <2>2. \A u \in Threads : wfd'[u] \in {wfd[u], None}
    OBVIOUS
  <2> QED BY <1>1, <2>1, <2>2, ItemFacts DEF HeldInv, QueuesHold, Items
<1>4. QueuedOnce'
  BY DEF HeldInv, QueuedOnce, Items
<1>5. \A u \in Threads : Items(u)' = Items(u)
  BY DEF Items
<1>6. \A x \in FDs : NewQueued(x)' <=> NewQueued(x)
  BY DEF NewQueued, Items
<1>7. \A x \in FDs : x # fd => (Live(x)' <=> Live(x))
  BY <1>1, <1>6 DEF Live
<1>8. Live(fd)' <=> fd \in open'
  BY <1>1, <1>6 DEF Live
<1> QED BY <1>2, <1>3, <1>4, <1>5, <1>6, <1>7, <1>8

\* The connection is counted and is the worker's.
LEMMA Step_ConnCounted ==
    ASSUME HInv, NEW t \in Threads, ConnCounted(t)
    PROVE  HInv' /\ wfd[t] \in FDs \ LiveFds /\ LiveFds' = LiveFds \cup {wfd[t]}
<1>1. wpc[t] = "count" /\ UNCHANGED <<open, msfd, new_conn_queue>>
  BY DEF ConnCounted, mainVars, queueVars
<1>2. PICK fd \in FDs : fd = wfd[t]
  BY <1>1, WorkerTypes
<1>3. /\ conns' \in [FDs -> Conn]
      /\ conns'[fd].thread = t /\ conns'[fd].state = conns[fd].state
      /\ conns'[fd].event = conns[fd].event
      /\ \A x \in FDs : x # fd => conns'[x] = conns[x]
  BY <1>2, ConnThread DEF TypeOK, ConnCounted
<1>4. /\ wpc' \in [Threads -> WorkerPc] /\ wfd' \in [Threads -> FDs \cup {None}]
      /\ wpc'[t] = "loop" /\ wfd'[t] = None
      /\ \A u \in Threads : u # t => wpc'[u] = wpc[u] /\ wfd'[u] = wfd[u]
  BY WorkerMoves DEF ConnCounted, WorkerPc
<1>5. TypeOK' /\ Places'
  BY <1>1, <1>3, <1>4 DEF TypeOK, Places, ConnCounted, mainVars, queueVars, sideVars
<1>6. /\ conns[fd].state = "conn_new_cmd" /\ fd \in open
      /\ \A u \in Threads : wfd[u] = fd => u = t
  BY <1>1, <1>2, WorkerAlone DEF HeldInv, WorkersSee
<1>7. /\ MainHolds' /\ WorkersHold' /\ QueuesHold' /\ QueuedOnce'
      /\ \A u \in Threads : Items(u)' = Items(u)
      /\ \A x \in FDs : NewQueued(x)' <=> NewQueued(x)
      /\ \A x \in FDs : x # fd => (Live(x)' <=> Live(x))
      /\ Live(fd)'
  BY <1>1, <1>2, <1>4, <1>6, PutDown
<1>8. LiveServed' /\ WatchLive'
  BY <1>3, <1>6, <1>7 DEF HeldInv, LiveServed, WatchLive
<1>9. LentQueued'
  BY <1>1, <1>3, <1>7, ItemFacts DEF HeldInv, LentQueued
<1>10. EventLive'
  BY <1>1, <1>3, <1>4, <1>7 DEF HeldInv, EventLive
<1>11. WorkersSee'
  BY <1>1, <1>3, <1>4, <1>6, WorkerTypes DEF HeldInv, WorkersSee
<1>12. fd \in FDs \ LiveFds /\ LiveFds' = LiveFds \cup {fd}
  <2>1. fd \notin LiveFds
    BY <1>1, <1>2, WorkerAlone DEF LiveFds
  <2> QED BY <1>7, <2>1 DEF LiveFds
<1> QED BY <1>2, <1>12, <1>5, <1>7, <1>8, <1>9, <1>10, <1>11 DEF HeldInv

\* The descriptor that a worker holds is closed.
LEMMA HeldClosed ==
    ASSUME HInv, NEW t \in Threads, wpc[t] \in {"conn_new", "event_add", "close"},
           open' = open \ {wfd[t]}, UNCHANGED <<conns, msfd, new_conn_queue>>,
           wpc'[t] \in {"loop", "allow"}, wfd'[t] = None,
           \A u \in Threads : u # t => wpc'[u] = wpc[u] /\ wfd'[u] = wfd[u]
    PROVE  HeldInv' /\ LiveFds' = LiveFds
<1>1. PICK fd \in FDs : fd = wfd[t]
  BY WorkerTypes
<1>2. conns[fd].event = None /\ conns[fd].state # "conn_watch"
  <2>1. conns[fd].event = None
    BY <1>1 DEF HeldInv, EventLive
  <2> QED BY <1>1, <2>1, WorkerAlone
<1>3. /\ MainHolds' /\ WorkersHold' /\ QueuesHold' /\ QueuedOnce'
      /\ \A u \in Threads : Items(u)' = Items(u)
      /\ \A x \in FDs : NewQueued(x)' <=> NewQueued(x)
      /\ \A x \in FDs : x # fd => (Live(x)' <=> Live(x))
      /\ ~Live(fd)'
  BY <1>1, PutDown
<1>4. LiveServed' /\ WatchLive'
  BY <1>2, <1>3 DEF HeldInv, LiveServed, WatchLive
<1>5. LentQueued'
  BY <1>3 DEF HeldInv, LentQueued
<1>6. EventLive'
  BY <1>1, <1>2, <1>3 DEF HeldInv, EventLive
<1>7. WorkersSee'
  BY DEF HeldInv, WorkersSee
<1>8. LiveFds' = LiveFds
  BY <1>1, <1>3, WorkerAlone DEF LiveFds
<1> QED BY <1>8, <1>3, <1>4, <1>5, <1>6, <1>7 DEF HeldInv

LEMMA Step_ConnNewFails ==
    ASSUME HInv, NEW t \in Threads, ConnNewFails(t)
    PROVE  HInv' /\ LiveFds' = LiveFds
<1>1. /\ wpc' \in [Threads -> WorkerPc] /\ wfd' \in [Threads -> FDs \cup {None}]
      /\ wpc'[t] = "loop" /\ wfd'[t] = None
      /\ \A u \in Threads : u # t => wpc'[u] = wpc[u] /\ wfd'[u] = wfd[u]
  BY WorkerMoves DEF ConnNewFails, WorkerPc
<1>2. TypeOK' /\ Places'
  BY <1>1 DEF TypeOK, Places, ConnNewFails, mainVars, queueVars, sideVars
<1>3. HeldInv' /\ LiveFds' = LiveFds
  BY <1>1, HeldClosed DEF ConnNewFails, mainVars, queueVars
<1> QED BY <1>2, <1>3

LEMMA Step_CloseFd ==
    ASSUME HInv, NEW t \in Threads, CloseFd(t)
    PROVE  HInv' /\ LiveFds' = LiveFds
<1>1. /\ wpc' \in [Threads -> WorkerPc] /\ wfd' \in [Threads -> FDs \cup {None}]
      /\ wpc'[t] = "allow" /\ wfd'[t] = None
      /\ \A u \in Threads : u # t => wpc'[u] = wpc[u] /\ wfd'[u] = wfd[u]
  BY WorkerMoves DEF CloseFd, WorkerPc
<1>2. TypeOK' /\ Places'
  BY <1>1 DEF TypeOK, Places, CloseFd, mainVars, queueVars, sideVars
<1>3. HeldInv' /\ LiveFds' = LiveFds
  BY <1>1, HeldClosed DEF CloseFd, mainVars, queueVars
<1> QED BY <1>2, <1>3

\* A worker that has closed a descriptor goes on to count it.
LEMMA HeldAdvance ==
    ASSUME HInv, NEW t \in Threads, wpc[t] \in {"allow", "uncount"},
           UNCHANGED <<open, conns, msfd, new_conn_queue, wfd>>,
           wpc'[t] \in {"loop", "uncount"}, \A u \in Threads : u # t => wpc'[u] = wpc[u]
    PROVE  HeldInv' /\ LiveFds' = LiveFds
<1>1. MainHolds' /\ WorkersHold' /\ QueuesHold' /\ QueuedOnce'
  BY LiveFrame DEF HeldInv
<1>2. LiveServed' /\ WatchLive' /\ LentQueued'
  BY LiveFrame DEF HeldInv, LiveServed, WatchLive, LentQueued
<1>3. EventLive'
  BY LiveFrame DEF HeldInv, EventLive
<1>4. WorkersSee'
  BY DEF HeldInv, WorkersSee
<1>5. LiveFds' = LiveFds
  BY LiveFrame DEF LiveFds
<1> QED BY <1>5, <1>1, <1>2, <1>3, <1>4 DEF HeldInv

LEMMA Step_AllowNewConns ==
    ASSUME HInv, NEW t \in Threads, AllowNewConns(t)
    PROVE  HInv' /\ LiveFds' = LiveFds
<1>1. /\ wpc' \in [Threads -> WorkerPc] /\ wfd' = wfd
      /\ wpc'[t] = "uncount" /\ \A u \in Threads : u # t => wpc'[u] = wpc[u]
  BY WorkerAdvances DEF AllowNewConns, WorkerPc
<1>2. TypeOK' /\ Places'
  BY <1>1 DEF TypeOK, Places, AllowNewConns, mainVars, queueVars, sideVars
<1>3. HeldInv' /\ LiveFds' = LiveFds
  BY <1>1, HeldAdvance DEF AllowNewConns, mainVars, queueVars
<1> QED BY <1>2, <1>3

LEMMA Step_Uncount ==
    ASSUME HInv, NEW t \in Threads, Uncount(t)
    PROVE  HInv' /\ LiveFds' = LiveFds
<1>1. /\ wpc' \in [Threads -> WorkerPc] /\ wfd' = wfd
      /\ wpc'[t] = "loop" /\ \A u \in Threads : u # t => wpc'[u] = wpc[u]
  BY WorkerAdvances DEF Uncount, WorkerPc
<1>2. TypeOK' /\ Places'
  BY <1>1 DEF TypeOK, Places, Uncount, mainVars, queueVars, sideVars
<1>3. HeldInv' /\ LiveFds' = LiveFds
  BY <1>1, HeldAdvance DEF Uncount, mainVars, queueVars
<1> QED BY <1>2, <1>3

\* A connection is lent to the crawler.
LEMMA Step_HandOff ==
    ASSUME HInv, NEW t \in Threads, NEW fd \in FDs, HandOff(t, fd)
    PROVE  HInv' /\ LiveFds' = LiveFds
<1>1. /\ wpc[t] = "loop" /\ wfd[t] = None /\ conns[fd].event = t
      /\ UNCHANGED <<open, msfd, wfd, wpc, new_conn_queue>>
  BY DEF Places, HandOff, Serves, mainVars, workVars, queueVars
<1>2. /\ conns' \in [FDs -> Conn]
      /\ conns'[fd].state = "conn_watch" /\ conns'[fd].event = None
      /\ conns'[fd].thread = conns[fd].thread
      /\ \A x \in FDs : x # fd => conns'[x] = conns[x]
  BY ConnMarked DEF TypeOK, HandOff, ConnState
<1>3. TypeOK' /\ Places'
  BY <1>2 DEF TypeOK, Places, HandOff, mainVars, queueVars, workVars, sideVars
<1>4. Live(fd) /\ conns[fd].state = "conn_new_cmd"
  BY <1>1 DEF HeldInv, EventLive, Live
<1>5. MainHolds' /\ WorkersHold' /\ QueuesHold' /\ QueuedOnce'
  BY <1>1, LiveFrame DEF HeldInv
<1>6. LiveServed' /\ WatchLive'
  BY <1>1, <1>2, <1>4, LiveFrame DEF HeldInv, LiveServed, WatchLive
<1>7. LentQueued'
  BY <1>1, <1>2, LiveFrame, ItemFacts DEF HeldInv, LentQueued
<1>8. EventLive'
  BY <1>1, <1>2, LiveFrame DEF HeldInv, EventLive
<1>9. WorkersSee'
  BY <1>1, <1>2, <1>4, WorkerTypes DEF HeldInv, WorkersSee, Live
<1>10. LiveFds' = LiveFds
  BY <1>1, LiveFrame DEF LiveFds
<1> QED BY <1>10, <1>3, <1>5, <1>6, <1>7, <1>8, <1>9 DEF HeldInv

\* A side thread puts a connection on its worker's queue.
LEMMA Step_redispath_conn ==
    ASSUME HInv, NEW fd \in FDs, redispath_conn(fd)
    PROVE  HInv' /\ LiveFds' = LiveFds
<1>1. /\ conns[fd].state = "conn_watch" /\ UNCHANGED <<open, msfd, wfd, wpc, conns>>
  BY DEF redispath_conn, mainVars, workVars
<1>2. \A u \in Threads : \A i \in Items(u) : new_conn_queue[u][i].sfd # fd
  BY ItemFacts DEF redispath_conn, Queued, Items
<1>3. Live(fd)
  BY <1>1 DEF HeldInv, WatchLive
<1>4. PICK tid \in Threads : tid = conns[fd].thread
  BY <1>3 DEF HeldInv, LiveServed
<1>5. PICK x \in Entry : /\ x = [sfd |-> fd, mode |-> "redispatch"]
                         /\ x.sfd = fd /\ x.mode = "redispatch"
  <2>1. [sfd |-> fd, mode |-> "redispatch"] \in Entry
    BY DEF Entry
  <2> QED BY <2>1
<1>6. cq_push(tid, x) /\ stid' = tid
  BY <1>4, <1>5 DEF redispath_conn
<1>7. new_conn_queue' \in [Threads -> Seq(Entry)]
  BY <1>6, PushFacts
<1>8. TypeOK' /\ Places'
  BY <1>6, <1>7 DEF TypeOK, Places, redispath_conn, mainVars, workVars
<1>9. PICK n : /\ Items(tid)' = Items(tid) \cup {n}
               /\ new_conn_queue'[tid][n] = x /\ n \notin Items(tid)
               /\ \A u \in Threads : u # tid => Items(u)' = Items(u)
                                                /\ new_conn_queue'[u] = new_conn_queue[u]
               /\ \A i \in Items(tid) : new_conn_queue'[tid][i] = new_conn_queue[tid][i]
  BY <1>6, PushFacts
<1>10. MainHolds' /\ WorkersHold'
  BY <1>1 DEF HeldInv, MainHolds, WorkersHold
<1>11. QueuesHold'
  BY <1>1, <1>3, <1>5, <1>9 DEF HeldInv, QueuesHold, Live
<1>12. QueuedOnce'
  BY <1>2, <1>5, <1>9 DEF HeldInv, QueuedOnce
<1>13. \A y \in FDs : NewQueued(y)' <=> NewQueued(y)
  BY <1>5, <1>9 DEF NewQueued
<1>14. \A y \in FDs : Live(y)' <=> Live(y)
  BY <1>1, <1>13 DEF Live
<1>15. LiveServed' /\ WatchLive' /\ WorkersSee'
  BY <1>1, <1>14 DEF HeldInv, LiveServed, WatchLive, WorkersSee
<1>16. LentQueued'
  BY <1>1, <1>5, <1>9 DEF HeldInv, LentQueued
<1>17. EventLive'
  BY <1>1, <1>13 DEF HeldInv, EventLive
<1>18. LiveFds' = LiveFds
  BY <1>14 DEF LiveFds
<1> QED BY <1>18, <1>8, <1>10, <1>11, <1>12, <1>15, <1>16, <1>17 DEF HeldInv

\* A side thread gives a connection up.
LEMMA Step_RedispatchFails ==
    ASSUME HInv, NEW fd \in FDs, RedispatchFails(fd)
    PROVE  HInv' /\ fd \in LiveFds /\ LiveFds' = LiveFds \ {fd}
<1>1. /\ conns[fd].state = "conn_watch" /\ open' = open \ {fd}
      /\ UNCHANGED <<msfd, wfd, wpc, new_conn_queue>>
  BY DEF RedispatchFails, mainVars, workVars, queueVars
<1>2. \A u \in Threads : \A i \in Items(u) : new_conn_queue[u][i].sfd # fd
  BY ItemFacts DEF RedispatchFails, Queued, Items
<1>3. Live(fd) /\ conns[fd].event = None
  BY <1>1 DEF HeldInv, WatchLive
<1>4. /\ conns' \in [FDs -> Conn]
      /\ conns'[fd].state = "conn_closed" /\ conns'[fd].event = conns[fd].event
      /\ \A x \in FDs : x # fd => conns'[x] = conns[x]
  BY ConnStateSet DEF TypeOK, RedispatchFails, ConnState
<1>5. TypeOK' /\ Places'
  BY <1>4 DEF TypeOK, Places, RedispatchFails, mainVars, workVars, queueVars
<1>6. MainHolds' /\ WorkersHold' /\ QueuedOnce'
  BY <1>1, <1>3 DEF HeldInv, MainHolds, WorkersHold, QueuedOnce, Live, Items
<1>7. QueuesHold'
  BY <1>1, <1>2 DEF HeldInv, QueuesHold, Items
<1>8. \A x \in FDs : NewQueued(x)' <=> NewQueued(x)
  BY <1>1 DEF NewQueued, Items
<1>9. ~Live(fd)' /\ \A x \in FDs : x # fd => (Live(x)' <=> Live(x))
  BY <1>1, <1>8 DEF Live
<1>10. LiveServed' /\ WatchLive'
  BY <1>4, <1>9 DEF HeldInv, LiveServed, WatchLive
<1>11. LentQueued'
  BY <1>1, <1>2, <1>4, ItemFacts DEF HeldInv, LentQueued, Items
<1>12. EventLive'
  BY <1>1, <1>3, <1>4, <1>8 DEF HeldInv, EventLive
<1>13. WorkersSee'
  BY <1>1, <1>3, <1>4, WorkerTypes DEF HeldInv, WorkersSee, Live
<1>14. fd \in LiveFds /\ LiveFds' = LiveFds \ {fd}
  BY <1>3, <1>9 DEF LiveFds
<1> QED BY <1>14, <1>5, <1>6, <1>7, <1>10, <1>11, <1>12, <1>13 DEF HeldInv

-----------------------------------------------------------------------------
(* Items and the bytes that announce them.                                 *)

LEMMA AnnounceFrame ==
    ASSUME QueueAnnounced, UNCHANGED <<new_conn_queue, pipe, mtid, spc, stid>>,
           mpc' = "pushed" <=> mpc = "pushed"
    PROVE  QueueAnnounced'
BY DEF QueueAnnounced

\* A thread that pushes is not between a push and its byte already.
LEMMA Announce_dispatch_conn_new ==
    ASSUME HInv, QueueAnnounced, dispatch_conn_new
    PROVE  QueueAnnounced'
<1>1. PICK tid \in Threads : tid = (last_thread + 1) % NumThreads
  <2>1. (last_thread + 1) % NumThreads \in Threads
    BY ThreadAssumption DEF TypeOK, Threads
  <2> QED BY <2>1
<1>2. PICK x \in Entry : x = [sfd |-> msfd, mode |-> "new"]
  <2>1. msfd \in FDs
    BY DEF TypeOK, Places, dispatch_conn_new
  <2>2. [sfd |-> msfd, mode |-> "new"] \in Entry
    BY <2>1 DEF Entry
  <2> QED BY <2>2
<1>3. cq_push(tid, x) /\ mpc = "accepted" /\ mpc' = "pushed" /\ mtid' = tid
      /\ UNCHANGED <<pipe, spc, stid>>
  BY <1>1, <1>2 DEF dispatch_conn_new, sideVars
<1>4. /\ Len(new_conn_queue'[tid]) = Len(new_conn_queue[tid]) + 1
      /\ \A u \in Threads : u # tid => new_conn_queue'[u] = new_conn_queue[u]
  BY <1>3, PushFacts
<1>5. \A u \in Threads : pipe[u] \in Nat
  BY DEF TypeOK
<1> QED BY <1>3, <1>4, <1>5 DEF QueueAnnounced

LEMMA Announce_redispath_conn ==
    ASSUME HInv, QueueAnnounced, NEW fd \in FDs, redispath_conn(fd)
    PROVE  QueueAnnounced'
<1>1. PICK tid \in Threads : tid = conns[fd].thread
  BY DEF redispath_conn, HeldInv, WatchLive, LiveServed
<1>2. PICK x \in Entry : x = [sfd |-> fd, mode |-> "redispatch"]
  <2>1. [sfd |-> fd, mode |-> "redispatch"] \in Entry
    BY DEF Entry
  <2> QED BY <2>1
<1>3. cq_push(tid, x) /\ spc = "idle" /\ spc' = "pushed" /\ stid' = tid
      /\ UNCHANGED <<pipe, mpc, mtid>>
  BY <1>1, <1>2 DEF redispath_conn, mainVars
<1>4. /\ Len(new_conn_queue'[tid]) = Len(new_conn_queue[tid]) + 1
      /\ \A u \in Threads : u # tid => new_conn_queue'[u] = new_conn_queue[u]
  BY <1>3, PushFacts
<1>5. \A u \in Threads : pipe[u] \in Nat
  BY DEF TypeOK
<1> QED BY <1>3, <1>4, <1>5 DEF QueueAnnounced

\* The byte is written.
LEMMA Announce_Notify ==
    ASSUME HInv, QueueAnnounced, NotifyWorker \/ RedispatchNotify
    PROVE  QueueAnnounced'
<1>1. \A u \in Threads : pipe[u] \in Nat
  BY DEF TypeOK
<1>2. CASE NotifyWorker
  <2>1. mtid \in Threads
    BY <1>2 DEF TypeOK, Places, NotifyWorker
  <2>2. pipe'[mtid] = pipe[mtid] + 1 /\ \A u \in Threads : u # mtid => pipe'[u] = pipe[u]
    BY <1>2, <2>1 DEF TypeOK, NotifyWorker, Notify
  <2> QED BY <1>1, <1>2, <2>1, <2>2 DEF QueueAnnounced, NotifyWorker, sideVars
<1>3. CASE RedispatchNotify
  <2>1. stid \in Threads
    BY <1>3 DEF TypeOK, Places, RedispatchNotify
  <2>2. pipe'[stid] = pipe[stid] + 1 /\ \A u \in Threads : u # stid => pipe'[u] = pipe[u]
    BY <1>3, <2>1 DEF TypeOK, RedispatchNotify, Notify
  <2> QED BY <1>1, <1>3, <2>1, <2>2 DEF QueueAnnounced, RedispatchNotify, mainVars
<1> QED BY <1>2, <1>3

\* A byte is read, and then there is an item.
LEMMA Announce_Read ==
    ASSUME HInv, QueueAnnounced, NEW t \in Threads,
           thread_libevent_process(t) \/ conn_worker_readd(t)
    PROVE  QueueAnnounced'
<1>1. /\ cq_pop(t) /\ pipe[t] > 0 /\ pipe' = [pipe EXCEPT ![t] = @ - 1]
      /\ UNCHANGED <<mpc, mtid, spc, stid>>
  BY DEF thread_libevent_process, conn_worker_readd, mainVars, sideVars
<1>2. \A u \in Threads : pipe[u] \in Nat
  BY DEF TypeOK
<1>3. pipe'[t] = pipe[t] - 1 /\ \A u \in Threads : u # t => pipe'[u] = pipe[u]
  BY <1>1 DEF TypeOK
<1>4. Len(new_conn_queue[t]) # 0
  BY <1>1, <1>2 DEF QueueAnnounced
<1>5. /\ Len(new_conn_queue'[t]) = Len(new_conn_queue[t]) - 1
      /\ \A u \in Threads : u # t => new_conn_queue'[u] = new_conn_queue[u]
  BY <1>1, <1>4, PopFacts
<1> QED BY <1>1, <1>2, <1>3, <1>5 DEF QueueAnnounced

-----------------------------------------------------------------------------
(* The count of connections.                                               *)

LEMMA CountedSets ==
    ASSUME TRUE
    PROVE  /\ IsFiniteSet(LiveFds) /\ Cardinality(LiveFds) \in Nat
           /\ IsFiniteSet(Leaving) /\ Cardinality(Leaving) \in Nat
<1>1. IsFiniteSet(Threads)
  BY ThreadAssumption, FS_Interval DEF Threads
<1>2. IsFiniteSet(LiveFds)
  BY FdAssumption, FS_Subset DEF LiveFds
<1>3. IsFiniteSet(Leaving)
  BY <1>1, FS_Subset DEF Leaving
<1> QED BY <1>2, <1>3, FS_CardinalityType

LEMMA CountFrame ==
    ASSUME Counted, LiveFds' = LiveFds, Leaving' = Leaving, UNCHANGED <<curr_conns, dropped>>
    PROVE  Counted'
BY DEF Counted

\* A connection more.
LEMMA Count_ConnCounted ==
    ASSUME HInv, Counted, NEW t \in Threads, ConnCounted(t)
    PROVE  Counted'
<1>1. PICK fd : fd \notin LiveFds /\ LiveFds' = LiveFds \cup {fd}
  BY Step_ConnCounted
<1>2. Cardinality(LiveFds') = Cardinality(LiveFds) + 1
  BY <1>1, CountedSets, FS_AddElement
<1>3. Leaving' = Leaving
  BY DEF TypeOK, ConnCounted, Leaving
<1>4. curr_conns' = curr_conns + 1 /\ dropped' = dropped
  BY DEF ConnCounted, sideVars
<1> QED BY <1>2, <1>3, <1>4, CountedSets DEF Counted, TypeOK

\* A connection that its worker is about to uncount.
LEMMA Count_conn_close ==
    ASSUME HInv, Counted, NEW t \in Threads, NEW fd \in FDs, conn_close(t, fd)
    PROVE  Counted'
<1>1. fd \in LiveFds /\ LiveFds' = LiveFds \ {fd}
  BY Step_conn_close
<1>2. Cardinality(LiveFds') = Cardinality(LiveFds) - 1
  BY <1>1, CountedSets, FS_RemoveElement
<1>3. t \notin Leaving /\ Leaving' = Leaving \cup {t}
  BY DEF TypeOK, conn_close, Serves, Leaving
<1>4. Cardinality(Leaving') = Cardinality(Leaving) + 1
  BY <1>3, CountedSets, FS_AddElement
<1>5. UNCHANGED <<curr_conns, dropped>>
  BY DEF conn_close, sideVars
<1> QED BY <1>2, <1>4, <1>5, CountedSets DEF Counted, TypeOK

\* It is uncounted.
LEMMA Count_Uncount ==
    ASSUME HInv, Counted, NEW t \in Threads, Uncount(t)
    PROVE  Counted'
<1>1. LiveFds' = LiveFds
  BY Step_Uncount
<1>2. t \in Leaving /\ Leaving' = Leaving \ {t}
  BY DEF TypeOK, Uncount, Leaving
<1>3. Cardinality(Leaving') = Cardinality(Leaving) - 1
  BY <1>2, CountedSets, FS_RemoveElement
<1>4. curr_conns' = curr_conns - 1 /\ dropped' = dropped
  BY DEF Uncount, sideVars
<1> QED BY <1>1, <1>3, <1>4, CountedSets DEF Counted, TypeOK

\* A connection that stays counted for ever.
LEMMA Count_RedispatchFails ==
    ASSUME HInv, Counted, NEW fd \in FDs, RedispatchFails(fd)
    PROVE  Counted'
<1>1. fd \in LiveFds /\ LiveFds' = LiveFds \ {fd}
  BY Step_RedispatchFails
<1>2. Cardinality(LiveFds') = Cardinality(LiveFds) - 1
  BY <1>1, CountedSets, FS_RemoveElement
<1>3. Leaving' = Leaving
  BY DEF RedispatchFails, workVars, Leaving
<1>4. curr_conns' = curr_conns /\ dropped' = dropped + 1
  BY DEF RedispatchFails
<1> QED BY <1>2, <1>3, <1>4, CountedSets DEF Counted, TypeOK

-----------------------------------------------------------------------------
(* The invariant.                                                          *)

LEMMA InitIInv == Init => IInv
<1> SUFFICES ASSUME Init PROVE IInv
  OBVIOUS
<1>1. conns \in [FDs -> Conn] /\ \A fd \in FDs : /\ conns[fd].state = "none"
                                                 /\ conns[fd].event = None
  BY DEF Init, Conn, ConnState, NoConn
<1>2. \A t \in Threads : new_conn_queue[t] = <<>> /\ Items(t) = {} /\ Len(new_conn_queue[t]) = 0
  BY DEF Init, setup_thread, Items
<1>3. new_conn_queue \in [Threads -> Seq(Entry)] /\ pipe \in [Threads -> Nat]
  BY DEF Init, setup_thread
<1>4. NumThreads - 1 \in Threads
  BY ThreadAssumption DEF Threads
<1>5. TypeOK
  BY <1>1, <1>3, <1>4 DEF Init, TypeOK, WorkerPc
<1>6. Places
  BY DEF Init, Places
<1>7. HeldInv
  BY <1>1, <1>2 DEF Init, HeldInv, MainHolds, WorkersHold, QueuesHold, QueuedOnce, LiveServed,
       WatchLive, LentQueued, EventLive, WorkersSee, Live
<1>8. QueueAnnounced
  BY <1>2 DEF Init, setup_thread, QueueAnnounced
<1>9. Counted
  <2>1. LiveFds = {} /\ Leaving = {}
    BY DEF Init, LiveFds, Live, Leaving
  <2> QED BY <2>1, FS_EmptySet DEF Init, Counted
<1> QED BY <1>5, <1>6, <1>7, <1>8, <1>9 DEF IInv

LEMMA Main_IInv ==
    ASSUME IInv, ClientConnects \/ Main
    PROVE  IInv'
<1>1. HInv /\ QueueAnnounced /\ Counted
  BY DEF IInv
<1>2. CASE ClientConnects
  <2>1. QueueAnnounced'
    BY <1>1, <1>2, AnnounceFrame DEF ClientConnects, mainVars, queueVars, sideVars
  <2>2. Counted'
    BY <1>1, <1>2, Step_ClientConnects, CountFrame DEF ClientConnects, workVars, sideVars, Leaving
  <2> QED BY <1>1, <1>2, <2>1, <2>2, Step_ClientConnects DEF IInv
<1>3. CASE Accept
  <2>1. QueueAnnounced'
    BY <1>1, <1>3, AnnounceFrame DEF Accept, queueVars, sideVars
  <2>2. Counted'
    BY <1>1, <1>3, Step_Accept, CountFrame DEF Accept, workVars, sideVars, Leaving
  <2> QED BY <1>1, <1>3, <2>1, <2>2, Step_Accept DEF IInv
<1>4. CASE AcceptEMFILE
  <2>1. QueueAnnounced'
    BY <1>1, <1>4, AnnounceFrame DEF AcceptEMFILE, queueVars, sideVars
  <2>2. Counted'
    BY <1>1, <1>4, Step_AcceptEMFILE, CountFrame DEF AcceptEMFILE, workVars, sideVars, Leaving
  <2> QED BY <1>1, <1>4, <2>1, <2>2, Step_AcceptEMFILE DEF IInv
<1>5. CASE accept_new_conns
  <2>1. QueueAnnounced'
    BY <1>1, <1>5, AnnounceFrame DEF accept_new_conns, queueVars, sideVars
  <2>2. Counted'
    BY <1>1, <1>5, Step_accept_new_conns, CountFrame DEF accept_new_conns, workVars, sideVars, Leaving
  <2> QED BY <1>1, <1>5, <2>1, <2>2, Step_accept_new_conns DEF IInv
<1>6. CASE maxconns_handler
  <2>1. QueueAnnounced'
    BY <1>1, <1>6, AnnounceFrame DEF maxconns_handler, mainVars, queueVars, sideVars
  <2>2. Counted'
    BY <1>1, <1>6, Step_maxconns_handler, CountFrame
       DEF maxconns_handler, workVars, sideVars, Leaving
  <2> QED BY <1>1, <1>6, <2>1, <2>2, Step_maxconns_handler DEF IInv
<1>7. CASE CloseAccepted
  <2>1. QueueAnnounced'
    BY <1>1, <1>7, AnnounceFrame DEF CloseAccepted, queueVars, sideVars
  <2>2. Counted'
    BY <1>1, <1>7, Step_CloseAccepted, CountFrame DEF CloseAccepted, workVars, sideVars, Leaving
  <2> QED BY <1>1, <1>7, <2>1, <2>2, Step_CloseAccepted DEF IInv
<1>8. CASE dispatch_conn_new
  <2>1. Counted'
    BY <1>1, <1>8, Step_dispatch_conn_new, CountFrame
       DEF dispatch_conn_new, workVars, sideVars, Leaving
  <2> QED BY <1>1, <1>8, <2>1, Announce_dispatch_conn_new, Step_dispatch_conn_new DEF IInv
<1>9. CASE NotifyWorker
  <2>1. Counted'
    BY <1>1, <1>9, Step_NotifyWorker, CountFrame DEF NotifyWorker, workVars, sideVars, Leaving
  <2> QED BY <1>1, <1>9, <2>1, Announce_Notify, Step_NotifyWorker DEF IInv
<1> QED BY <1>2, <1>3, <1>4, <1>5, <1>6, <1>7, <1>8, <1>9 DEF Main

LEMMA Side_IInv ==
    ASSUME IInv, Side
    PROVE  IInv'
<1>1. HInv /\ QueueAnnounced /\ Counted
  BY DEF IInv
<1>2. CASE RedispatchNotify
  <2>1. Counted'
    BY <1>1, <1>2, Step_RedispatchNotify, CountFrame DEF RedispatchNotify, workVars, Leaving
  <2> QED BY <1>1, <1>2, <2>1, Announce_Notify, Step_RedispatchNotify DEF IInv
<1>3. ASSUME NEW fd \in FDs, redispath_conn(fd) PROVE IInv'
  <2>1. Counted'
    BY <1>1, <1>3, Step_redispath_conn, CountFrame DEF redispath_conn, workVars, Leaving
  <2> QED BY <1>1, <1>3, <2>1, Announce_redispath_conn, Step_redispath_conn DEF IInv
<1>4. ASSUME NEW fd \in FDs, RedispatchFails(fd) PROVE IInv'
  <2>1. QueueAnnounced'
    BY <1>1, <1>4, AnnounceFrame DEF RedispatchFails, mainVars, queueVars
  <2> QED BY <1>1, <1>4, <2>1, Count_RedispatchFails, Step_RedispatchFails DEF IInv
<1> QED BY <1>2, <1>3, <1>4 DEF Side

LEMMA Worker_IInv ==
    ASSUME IInv, NEW t \in Threads, Worker(t)
    PROVE  IInv'
<1>1. HInv /\ QueueAnnounced /\ Counted
  BY DEF IInv
<1>2. CASE thread_libevent_process(t)
  <2>1. Leaving' = Leaving
    BY <1>1, <1>2 DEF TypeOK, thread_libevent_process, Leaving
  <2>2. Counted'
    BY <1>1, <1>2, <2>1, Step_thread_libevent_process, CountFrame
       DEF thread_libevent_process, sideVars
  <2> QED BY <1>1, <1>2, <2>2, Announce_Read, Step_thread_libevent_process DEF IInv
<1>3. CASE conn_worker_readd(t)
  <2>1. Counted'
    BY <1>1, <1>3, Step_conn_worker_readd, CountFrame
       DEF conn_worker_readd, workVars, sideVars, Leaving
  <2> QED BY <1>1, <1>3, <2>1, Announce_Read, Step_conn_worker_readd DEF IInv
<1>4. CASE conn_new(t)
  <2>1. Leaving' = Leaving
    BY <1>1, <1>4 DEF TypeOK, conn_new, Leaving
  <2>2. Counted'
    BY <1>1, <1>4, <2>1, Step_conn_new, CountFrame DEF conn_new, sideVars
  <2>3. QueueAnnounced'
    BY <1>1, <1>4, AnnounceFrame DEF conn_new, mainVars, queueVars, sideVars
  <2> QED BY <1>1, <1>4, <2>2, <2>3, Step_conn_new DEF IInv
<1>5. CASE event_add(t)
  <2>1. Leaving' = Leaving
    BY <1>1, <1>5 DEF TypeOK, event_add, Leaving
  <2>2. Counted'
    BY <1>1, <1>5, <2>1, Step_event_add, CountFrame DEF event_add, sideVars
  <2>3. QueueAnnounced'
    BY <1>1, <1>5, AnnounceFrame DEF event_add, mainVars, queueVars, sideVars
  <2> QED BY <1>1, <1>5, <2>2, <2>3, Step_event_add DEF IInv
<1>6. CASE ConnCounted(t)
  <2>1. QueueAnnounced'
    BY <1>1, <1>6, AnnounceFrame DEF ConnCounted, mainVars, queueVars, sideVars
  <2> QED BY <1>1, <1>6, <2>1, Count_ConnCounted, Step_ConnCounted DEF IInv
<1>7. CASE ConnNewFails(t)
  <2>1. Leaving' = Leaving
    BY <1>1, <1>7 DEF TypeOK, ConnNewFails, Leaving
  <2>2. Counted'
    BY <1>1, <1>7, <2>1, Step_ConnNewFails, CountFrame DEF ConnNewFails, sideVars
  <2>3. QueueAnnounced'
    BY <1>1, <1>7, AnnounceFrame DEF ConnNewFails, mainVars, queueVars, sideVars
  <2> QED BY <1>1, <1>7, <2>2, <2>3, Step_ConnNewFails DEF IInv
<1>8. CASE CloseFd(t)
  <2>1. Leaving' = Leaving
    BY <1>1, <1>8 DEF TypeOK, CloseFd, Leaving
  <2>2. Counted'
    BY <1>1, <1>8, <2>1, Step_CloseFd, CountFrame DEF CloseFd, sideVars
  <2>3. QueueAnnounced'
    BY <1>1, <1>8, AnnounceFrame DEF CloseFd, mainVars, queueVars, sideVars
  <2> QED BY <1>1, <1>8, <2>2, <2>3, Step_CloseFd DEF IInv
<1>9. CASE AllowNewConns(t)
  <2>1. Leaving' = Leaving
    BY <1>1, <1>9 DEF TypeOK, AllowNewConns, Leaving
  <2>2. Counted'
    BY <1>1, <1>9, <2>1, Step_AllowNewConns, CountFrame DEF AllowNewConns, sideVars
  <2>3. QueueAnnounced'
    BY <1>1, <1>9, AnnounceFrame DEF AllowNewConns, mainVars, queueVars, sideVars
  <2> QED BY <1>1, <1>9, <2>2, <2>3, Step_AllowNewConns DEF IInv
<1>10. CASE Uncount(t)
  <2>1. QueueAnnounced'
    BY <1>1, <1>10, AnnounceFrame DEF Uncount, mainVars, queueVars, sideVars
  <2> QED BY <1>1, <1>10, <2>1, Count_Uncount, Step_Uncount DEF IInv
<1>11. ASSUME NEW fd \in FDs, HandOff(t, fd) PROVE IInv'
  <2>1. QueueAnnounced'
    BY <1>1, <1>11, AnnounceFrame DEF HandOff, mainVars, queueVars, sideVars
  <2>2. Counted'
    BY <1>1, <1>11, Step_HandOff, CountFrame DEF HandOff, workVars, sideVars, Leaving
  <2> QED BY <1>1, <1>11, <2>1, <2>2, Step_HandOff DEF IInv
<1>12. ASSUME NEW fd \in FDs, conn_close(t, fd) PROVE IInv'
  <2>1. QueueAnnounced'
    BY <1>1, <1>12, AnnounceFrame DEF conn_close, mainVars, queueVars, sideVars
  <2> QED BY <1>1, <1>12, <2>1, Count_conn_close, Step_conn_close DEF IInv
<1> QED BY <1>2, <1>3, <1>4, <1>5, <1>6, <1>7, <1>8, <1>9, <1>10, <1>11, <1>12
        DEF Worker, Closing

LEMMA StepIInv == IInv /\ [Next]_vars => IInv'
<1>1. ASSUME IInv, UNCHANGED vars PROVE IInv'
  <2>1. TypeOK' /\ Places'
    BY <1>1 DEF IInv, TypeOK, Places, vars, mainVars, queueVars, workVars, sideVars
  <2>2. HeldInv' /\ LiveFds' = LiveFds
    BY <1>1, HeldFrame DEF IInv, vars, mainVars, queueVars, workVars
  <2>3. QueueAnnounced'
    BY <1>1, AnnounceFrame DEF IInv, vars, mainVars, queueVars, sideVars
  <2>4. Counted'
    BY <1>1, <2>2, CountFrame DEF IInv, vars, workVars, sideVars, Leaving
  <2> QED BY <2>1, <2>2, <2>3, <2>4 DEF IInv
<1> QED BY <1>1, Main_IInv, Side_IInv, Worker_IInv DEF Next

\* Every reachable state satisfies the inductive invariant.
THEOREM Invariance == Spec => []IInv
<1> QED BY InitIInv, StepIInv, PTL DEF Spec

\* dispatch_conn_new and redispath_conn push an item and then write a byte;
\* thread_libevent_process reads a byte and then pops: items and bytes stay
\* in step, for every number of worker threads.
THEOREM Announced == Spec => []QueueAnnounced
<1>1. IInv => QueueAnnounced
  BY DEF IInv
<1> QED BY <1>1, Invariance, PTL

-----------------------------------------------------------------------------
(* From holders to numbers of holders.                                     *)

\* A set whose elements are all the same.
LEMMA AtMostOne ==
    ASSUME NEW S, \A x, y \in S : x = y
    PROVE  /\ S = {} => Cardinality(S) = 0
           /\ S # {} => Cardinality(S) = 1
<1>1. S = {} => Cardinality(S) = 0
  BY FS_EmptySet
<1>2. ASSUME S # {} PROVE Cardinality(S) = 1
  <2>1. PICK x \in S : S = {x}
    BY <1>2
  <2> QED BY <2>1, FS_Singleton
<1> QED BY <1>1, <1>2

\* No queue is longer than there are descriptors, since none is on it twice.
LEMMA QueueLength ==
    ASSUME HInv, NEW t \in Threads
    PROVE  Len(new_conn_queue[t]) <= Cardinality(FDs)
<1>1. PICK n \in Nat : n = Len(new_conn_queue[t])
  BY ItemFacts
<1> DEFINE f == [i \in 1 .. n |-> new_conn_queue[t][i].sfd]
<1>2. \A i \in 1 .. n : f[i] \in FDs
  BY <1>1, ItemFacts DEF Items
<1>3. \A i, j \in 1 .. n : f[i] = f[j] => i = j
  BY <1>1 DEF HeldInv, QueuedOnce, Items
<1>4. f \in Injection(1 .. n, FDs)
  BY <1>2, <1>3 DEF Injection, IsInjective
<1>5. Cardinality(1 .. n) <= Cardinality(FDs)
  BY <1>4, FdAssumption, FS_Injection
<1>6. Cardinality(1 .. n) = n
  BY FS_Interval
<1> QED BY <1>1, <1>5, <1>6

QueuedAt(fd) == {x \in Threads \X (1 .. Cardinality(FDs)) :
                   /\ x[2] \in DOMAIN new_conn_queue[x[1]]
                   /\ new_conn_queue[x[1]][x[2]] = [sfd |-> fd, mode |-> "new"]}
WithWorker(fd) == {t \in Threads : wfd[t] = fd /\ wpc[t] # "close"}
WithCloser(fd) == {t \in Threads : wfd[t] = fd /\ wpc[t] = "close"}

LEMMA QueuedAtMostOnce ==
    ASSUME HInv, NEW fd \in FDs
    PROVE  Cardinality(QueuedAt(fd)) = IF NewQueued(fd) THEN 1 ELSE 0
<1>1. ASSUME NEW t \in Threads
      PROVE  /\ DOMAIN new_conn_queue[t] = Items(t)
             /\ Items(t) \subseteq 1 .. Cardinality(FDs)
             /\ \A i \in Items(t) : new_conn_queue[t][i] = [sfd |-> fd, mode |-> "new"] <=>
                  new_conn_queue[t][i].sfd = fd /\ new_conn_queue[t][i].mode = "new"
  <2>1. new_conn_queue[t] \in Seq(Entry)
    BY ItemFacts
  <2>2. DOMAIN new_conn_queue[t] = Items(t)
    BY <2>1 DEF Items
  <2>3. Cardinality(FDs) \in Nat
    BY FdAssumption, FS_CardinalityType
  <2>4. Items(t) \subseteq 1 .. Cardinality(FDs)
    BY <2>3, QueueLength, ItemFacts DEF Items
  <2>5. \A i \in Items(t) : new_conn_queue[t][i] \in Entry
    BY <2>1 DEF Items
  <2>6. \A x \in Entry : x = [sfd |-> fd, mode |-> "new"] <=> x.sfd = fd /\ x.mode = "new"
    BY DEF Entry
  <2> QED BY <2>2, <2>4, <2>5, <2>6
<1>2. \A x \in QueuedAt(fd) : /\ x = <<x[1], x[2]>> /\ x[1] \in Threads /\ x[2] \in Items(x[1])
                              /\ new_conn_queue[x[1]][x[2]].sfd = fd
                              /\ new_conn_queue[x[1]][x[2]].mode = "new"
  BY <1>1 DEF QueuedAt
<1>3. \A x, y \in QueuedAt(fd) : x = y
  <2> SUFFICES ASSUME NEW x \in QueuedAt(fd), NEW y \in QueuedAt(fd) PROVE x = y
    OBVIOUS
  <2>1. x[1] = y[1] /\ x[2] = y[2]
    BY <1>2 DEF HeldInv, QueuedOnce
  <2> QED BY <1>2, <2>1
<1>4. ASSUME NewQueued(fd) PROVE QueuedAt(fd) # {}
  <2>1. PICK t \in Threads : \E i \in Items(t) :
          new_conn_queue[t][i].sfd = fd /\ new_conn_queue[t][i].mode = "new"
    BY <1>4 DEF NewQueued
  <2>2. PICK i \in Items(t) : new_conn_queue[t][i].sfd = fd /\ new_conn_queue[t][i].mode = "new"
    BY <2>1
  <2>3. /\ i \in DOMAIN new_conn_queue[t] /\ i \in 1 .. Cardinality(FDs)
        /\ new_conn_queue[t][i] = [sfd |-> fd, mode |-> "new"]
    BY <1>1, <2>2
  <2>4. <<t, i>> \in QueuedAt(fd)
    BY <2>3 DEF QueuedAt
  <2> QED BY <2>4
<1>5. ASSUME QueuedAt(fd) # {} PROVE NewQueued(fd)
  BY <1>2, <1>5 DEF NewQueued
<1> QED BY <1>3, <1>4, <1>5, AtMostOne

\* How often a descriptor is held.
LEMMA HolderCounts ==
    ASSUME HInv, NEW fd \in FDs
    PROVE  /\ Pending(fd) = (IF msfd = fd THEN 1 ELSE 0) + (IF NewQueued(fd) THEN 1 ELSE 0)
                            + (IF WithWorker(fd) # {} THEN 1 ELSE 0)
           /\ Closers(fd) = IF WithCloser(fd) # {} THEN 1 ELSE 0
<1>1. \A t, u \in Threads : wfd[t] = fd /\ wfd[u] = fd => t = u
  BY DEF HeldInv, WorkersHold
<1>2. Cardinality(WithWorker(fd)) = IF WithWorker(fd) # {} THEN 1 ELSE 0
  <2>1. \A t, u \in WithWorker(fd) : t = u
    BY <1>1 DEF WithWorker
  <2> QED BY <2>1, AtMostOne
<1>3. Cardinality(WithCloser(fd)) = IF WithCloser(fd) # {} THEN 1 ELSE 0
  <2>1. \A t, u \in WithCloser(fd) : t = u
    BY <1>1 DEF WithCloser
  <2> QED BY <2>1, AtMostOne
<1>4. Pending(fd) = (IF msfd = fd THEN 1 ELSE 0) + Cardinality(QueuedAt(fd))
                    + Cardinality(WithWorker(fd))
  BY DEF Pending, QueuedAt, WithWorker
<1>5. Closers(fd) = Cardinality(WithCloser(fd))
  BY DEF Closers, WithCloser
<1> QED BY <1>2, <1>3, <1>4, <1>5, QueuedAtMostOnce

LEMMA ConnectedIsLive ==
    ASSUME HInv, NEW fd \in FDs
    PROVE  Connected(fd) <=> Live(fd)
<1>1. Pending(fd) = 0 <=> msfd # fd /\ ~NewQueued(fd) /\ WithWorker(fd) = {}
  BY HolderCounts
<1>2. ASSUME Connected(fd) PROVE Live(fd)
  <2>1. WithCloser(fd) = {}
    BY <1>2 DEF Connected, WithCloser, HeldInv, WorkersSee
  <2> QED BY <1>1, <1>2, <2>1 DEF Connected, Live, WithWorker, WithCloser
<1>3. ASSUME Live(fd) PROVE Connected(fd)
  BY <1>1, <1>3 DEF Connected, Live, WithWorker, HeldInv, LiveServed
<1> QED BY <1>2, <1>3

LEMMA HeldOnceFollows == HInv => FdHeldOnce
<1> SUFFICES ASSUME HInv, NEW fd \in FDs
             PROVE  /\ Pending(fd) + Closers(fd) =
                         IF fd \in open /\ ~Connected(fd) THEN 1 ELSE 0
                    /\ Closers(fd) = 1 => conns[fd].state = "conn_closed"
                    /\ conns[fd].event # None => conns[fd].state = "conn_new_cmd" /\ fd \in open
  BY DEF FdHeldOnce
<1>1. conns[fd].event # None => conns[fd].state = "conn_new_cmd" /\ fd \in open
  BY DEF HeldInv, EventLive
<1>2. Closers(fd) = 1 => conns[fd].state = "conn_closed"
  BY HolderCounts DEF WithCloser, HeldInv, WorkersSee
<1>3. ASSUME fd \notin open
      PROVE  msfd # fd /\ ~NewQueued(fd) /\ WithWorker(fd) = {} /\ WithCloser(fd) = {}
  <2>1. ~NewQueued(fd)
    BY <1>3 DEF HeldInv, QueuesHold, NewQueued
  <2> QED BY <1>3, <2>1 DEF HeldInv, MainHolds, WorkersHold, WithWorker, WithCloser
<1>4. WithWorker(fd) # {} \/ WithCloser(fd) # {} => msfd # fd /\ ~NewQueued(fd)
  <2>1. \A t \in Threads : wfd[t] = fd => msfd # fd /\ ~NewQueued(fd)
    BY WorkerAlone
  <2> QED BY <2>1 DEF WithWorker, WithCloser
<1>5. ~(WithWorker(fd) # {} /\ WithCloser(fd) # {})
  BY DEF WithWorker, WithCloser, HeldInv, WorkersHold
<1>6. ~(msfd = fd /\ NewQueued(fd))
  BY DEF NewQueued, HeldInv, QueuesHold
<1>7. fd \in open => (Live(fd) <=> msfd # fd /\ ~NewQueued(fd) /\ WithWorker(fd) = {}
                                   /\ WithCloser(fd) = {})
  BY DEF Live, WithWorker, WithCloser
<1>8. Connected(fd) <=> Live(fd)
  BY ConnectedIsLive
<1>9. Pending(fd) + Closers(fd) = IF fd \in open /\ ~Connected(fd) THEN 1 ELSE 0
  BY <1>3, <1>4, <1>5, <1>6, <1>7, <1>8, HolderCounts
<1> QED BY <1>1, <1>2, <1>9

LEMMA CountFollows == IInv => CurrConnsExact
<1> SUFFICES ASSUME IInv PROVE CurrConnsExact
  OBVIOUS
<1>1. {fd \in FDs : Connected(fd)} = LiveFds
  BY ConnectedIsLive DEF IInv, LiveFds
<1> QED BY <1>1 DEF IInv, Counted, CurrConnsExact, Leaving

\* The kernel gives a descriptor away again the moment it is closed, and conns
\* is indexed by descriptor: an open descriptor has exactly one holder, a
\* closed one has none, whatever order the main thread, the workers and the
\* side threads run in.
THEOREM HeldByOne == Spec => []FdHeldOnce
<1>1. IInv => FdHeldOnce
  BY HeldOnceFollows DEF IInv
<1> QED BY <1>1, Invariance, PTL

\* curr_conns, which maxconns_fast compares with the limit, counts the
\* connections, those on their way out and those redispath_conn gave up.
THEOREM CountExact == Spec => []CurrConnsExact
<1> QED BY CountFollows, Invariance, PTL
=============================================================================
