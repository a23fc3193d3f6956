------------------------------ MODULE Network ------------------------------
(***************************************************************************)
(* How connections come and go: the main thread accepts a descriptor and   *)
(* puts it on the queue of one of the worker threads, which it wakes with  *)
(* a byte in that worker's pipe; the worker turns the descriptor into a    *)
(* connection, serves it and closes it; a connection that was lent to a    *)
(* side thread comes back the same way.  When the process has no           *)
(* descriptor left, the main thread stops accepting until one is closed.   *)
(* What a connection does between its events is in Conn.                   *)
(***************************************************************************)
EXTENDS Naturals, Sequences, FiniteSets, FiniteSetsExt

CONSTANTS NumThreads,   \* settings.num_threads
          FDs,          \* descriptors left for connections
          Backlog,      \* settings.backlog
          ConnLimit,    \* settings.maxconns - 1 - stats_state.reserved_fds
          MaxDropped,   \* bound: failed redispatches
          None

ASSUME ThreadAssumption == NumThreads \in Nat \ {0} /\ None \notin 0 .. NumThreads - 1
ASSUME FdAssumption == FDs \subseteq Nat /\ IsFiniteSet(FDs) /\ None \notin FDs
ASSUME LimitAssumption == Backlog \in Nat \ {0} /\ ConnLimit \in Nat /\ MaxDropped \in Nat

Threads == 0 .. NumThreads - 1

VARIABLES
    maxconns_fast,   \* the setting
    waiting,         \* clients in the kernel's listen queue
    open,            \* descriptors of the process that are open
    mpc, msfd, mtid, \* main thread: where it is, sfd, the thread to notify
    accepting,       \* the listening socket's event is on
    allow_new_conns,
    timer,           \* maxconnsevent is pending
    last_thread,
    conns,           \* the connection structures, by descriptor
    new_conn_queue,  \* of each thread
    pipe,            \* 'c' bytes in each thread's notify pipe
    wpc, wfd,        \* worker threads: where each is, with which descriptor
    spc, stid,       \* side thread: between cq_push and write, and for whom
    curr_conns,
    dropped          \* history: connections given up by redispath_conn

mainVars == <<mpc, msfd, mtid, last_thread>>
listenVars == <<accepting, allow_new_conns, timer>>
sideVars == <<spc, stid, dropped>>
workVars == <<wpc, wfd>>
queueVars == <<new_conn_queue, pipe>>
vars == <<maxconns_fast, waiting, open, mainVars, listenVars, conns, queueVars, workVars,
          sideVars, curr_conns>>

\* event: the thread in whose event base the connection's event is.
NoConn == [state |-> "none", thread |-> None, event |-> None]

\* setup_thread: an empty queue and an empty pipe.
setup_thread == /\ new_conn_queue = [t \in Threads |-> <<>>]
                /\ pipe = [t \in Threads |-> 0]

\* memcached_thread_init has come back: all workers are in their event loop.
Init == /\ maxconns_fast \in BOOLEAN
        /\ waiting = 0 /\ open = {}
        /\ mpc = "loop" /\ msfd = None /\ mtid = None
        /\ accepting = TRUE /\ allow_new_conns = TRUE /\ timer = FALSE
        /\ last_thread = NumThreads - 1      \* -1, modulo num_threads
        /\ conns = [fd \in FDs |-> NoConn]
        /\ setup_thread
        /\ wpc = [t \in Threads |-> "loop"] /\ wfd = [t \in Threads |-> None]
        /\ spc = "idle" /\ stid = None
        /\ curr_conns = 0 /\ dropped = 0
-----------------------------------------------------------------------------
(* The queues.                                                             *)

cq_push(t, x) == new_conn_queue' = [new_conn_queue EXCEPT ![t] = Append(@, x)]
cq_pop(t) == new_conn_queue' = [new_conn_queue EXCEPT ![t] = IF @ = <<>> THEN @ ELSE Tail(@)]

\* An item of the freelist or of a new block of them; NULL when malloc fails.
cqi_new == BOOLEAN

Notify(t) == pipe' = [pipe EXCEPT ![t] = @ + 1]
-----------------------------------------------------------------------------
(* The main thread.                                                        *)

\* A client connects: the kernel queues it, up to the backlog.
ClientConnects ==
    /\ waiting < Backlog
    /\ waiting' = waiting + 1
    /\ UNCHANGED <<maxconns_fast, open, mainVars, listenVars, conns, queueVars, workVars,
                   sideVars, curr_conns>>

\* accept takes the lowest descriptor that is free...
Accept ==
    /\ mpc = "loop" /\ accepting /\ waiting > 0 /\ FDs \ open # {}
    /\ LET sfd == Min(FDs \ open) IN msfd' = sfd /\ open' = open \cup {sfd}
    /\ waiting' = waiting - 1
    /\ mpc' = "accepted"
    /\ UNCHANGED <<maxconns_fast, mtid, last_thread, listenVars, conns, queueVars, workVars,
                   sideVars, curr_conns>>

\* ...or fails with EMFILE.
AcceptEMFILE ==
    /\ mpc = "loop" /\ accepting /\ waiting > 0 /\ FDs \ open = {}
    /\ mpc' = "emfile"
    /\ UNCHANGED <<maxconns_fast, waiting, open, msfd, mtid, last_thread, listenVars, conns,
                   queueVars, workVars, sideVars, curr_conns>>

\* do_accept_new_conns(false), under conn_lock, ends with maxconns_handler(-42),
\* which sets the timer.
accept_new_conns ==
    /\ mpc = "emfile"
    /\ accepting' = FALSE /\ allow_new_conns' = FALSE /\ timer' = TRUE
    /\ mpc' = "loop"
    /\ UNCHANGED <<maxconns_fast, waiting, open, msfd, mtid, last_thread, conns, queueVars,
                   workVars, sideVars, curr_conns>>

\* Mutation: the timer is not set again.
maxconns_handler_Once ==
    /\ mpc = "loop" /\ timer
    /\ timer' = FALSE
    /\ accepting' = (accepting \/ allow_new_conns)
    /\ UNCHANGED <<maxconns_fast, waiting, open, mainVars, allow_new_conns, conns, queueVars,
                   workVars, sideVars, curr_conns>>

\* Every 10 ms: poll again, or accept again.
maxconns_handler ==
    /\ mpc = "loop" /\ timer
    /\ timer' = ~allow_new_conns
    /\ accepting' = (accepting \/ allow_new_conns)
    /\ UNCHANGED <<maxconns_fast, waiting, open, mainVars, allow_new_conns, conns, queueVars,
                   workVars, sideVars, curr_conns>>

AtLimit == maxconns_fast /\ curr_conns >= ConnLimit

\* The accepted descriptor is closed again: fcntl failed, or the limit is
\* reached and the client is told so, or malloc failed in dispatch_conn_new.
\* (The first two differ only in the message; AtLimit leaves no other way.)
CloseAccepted ==
    /\ mpc = "accepted"
    /\ open' = open \ {msfd}
    /\ mpc' = "loop" /\ msfd' = None
    /\ UNCHANGED <<maxconns_fast, waiting, mtid, last_thread, listenVars, conns, queueVars,
                   workVars, sideVars, curr_conns>>

\* dispatch_conn_new up to cq_push: the threads take turns.
dispatch_conn_new ==
    /\ mpc = "accepted" /\ ~AtLimit
    /\ LET tid == (last_thread + 1) % NumThreads
       IN  last_thread' = tid /\ mtid' = tid /\ cq_push(tid, [sfd |-> msfd, mode |-> "new"])
    /\ mpc' = "pushed" /\ msfd' = None
    /\ UNCHANGED <<maxconns_fast, waiting, open, listenVars, conns, pipe, workVars, sideVars,
                   curr_conns>>

\* Mutation: a worker that has work queued already is not woken again.
NotifyWorker_IfAlone ==
    /\ mpc = "pushed"
    /\ IF Len(new_conn_queue[mtid]) > 1 THEN UNCHANGED pipe ELSE Notify(mtid)
    /\ mpc' = "loop" /\ mtid' = None
    /\ UNCHANGED <<maxconns_fast, waiting, open, msfd, last_thread, listenVars, conns,
                   new_conn_queue, workVars, sideVars, curr_conns>>

\* Its write to the notify pipe.
NotifyWorker ==
    /\ mpc = "pushed"
    /\ Notify(mtid)
    /\ mpc' = "loop" /\ mtid' = None
    /\ UNCHANGED <<maxconns_fast, waiting, open, msfd, last_thread, listenVars, conns,
                   new_conn_queue, workVars, sideVars, curr_conns>>
-----------------------------------------------------------------------------
(* A worker thread reads its pipe.                                         *)

\* One byte, one item.  A new descriptor goes to conn_new...
thread_libevent_process(t) ==
    /\ wpc[t] = "loop" /\ pipe[t] > 0
    /\ pipe' = [pipe EXCEPT ![t] = @ - 1]
    /\ cq_pop(t)
    /\ LET q == new_conn_queue[t]
           new == q # <<>> /\ Head(q).mode = "new"
       IN  /\ q = <<>> \/ new
           /\ wpc' = [wpc EXCEPT ![t] = IF new THEN "conn_new" ELSE "loop"]
           /\ wfd' = [wfd EXCEPT ![t] = IF new THEN Head(q).sfd ELSE None]
    /\ UNCHANGED <<maxconns_fast, waiting, open, mainVars, listenVars, conns, sideVars,
                   curr_conns>>

\* ...and a connection that was lent comes back.  If event_add fails nobody
\* is told (a TODO of the code): the connection stays without an event.
conn_worker_readd(t) ==
    /\ wpc[t] = "loop" /\ pipe[t] > 0
    /\ new_conn_queue[t] # <<>> /\ Head(new_conn_queue[t]).mode = "redispatch"
    /\ pipe' = [pipe EXCEPT ![t] = @ - 1]
    /\ cq_pop(t)
    /\ LET fd == Head(new_conn_queue[t]).sfd
       IN  \E base \in {conns[fd].thread, None} :
             conns' = [conns EXCEPT ![fd].state = "conn_new_cmd", ![fd].event = base]
    /\ UNCHANGED <<maxconns_fast, waiting, open, mainVars, listenVars, workVars, sideVars,
                   curr_conns>>

\* conn_new: the structure of an earlier connection with the same descriptor
\* is used again; without one a new structure is allocated.
conn_new(t) ==
    /\ wpc[t] = "conn_new"
    /\ conns' = [conns EXCEPT ![wfd[t]].state = "conn_new_cmd"]
    /\ wpc' = [wpc EXCEPT ![t] = "event_add"]
    /\ UNCHANGED <<maxconns_fast, waiting, open, mainVars, listenVars, queueVars, wfd,
                   sideVars, curr_conns>>

\* The end of conn_new, and c->thread = me.
ConnCounted(t) ==
    /\ wpc[t] = "count"
    /\ curr_conns' = curr_conns + 1
    /\ conns' = [conns EXCEPT ![wfd[t]].thread = t]
    /\ wpc' = [wpc EXCEPT ![t] = "loop"] /\ wfd' = [wfd EXCEPT ![t] = None]
    /\ UNCHANGED <<maxconns_fast, waiting, open, mainVars, listenVars, queueVars, sideVars>>

event_add(t) ==
    /\ wpc[t] = "event_add"
    /\ conns' = [conns EXCEPT ![wfd[t]].event = t]
    /\ wpc' = [wpc EXCEPT ![t] = "count"]
    /\ UNCHANGED <<maxconns_fast, waiting, open, mainVars, listenVars, queueVars, wfd,
                   sideVars, curr_conns>>

\* Mutation: a connection that was never counted is uncounted.
ConnNewFails_Uncounts(t) ==
    /\ \/ wpc[t] = "conn_new" /\ conns[wfd[t]].state = "none"
       \/ wpc[t] = "event_add"
    /\ open' = open \ {wfd[t]}
    /\ curr_conns' = IF curr_conns = 0 THEN 0 ELSE curr_conns - 1
    /\ wpc' = [wpc EXCEPT ![t] = "loop"] /\ wfd' = [wfd EXCEPT ![t] = None]
    /\ UNCHANGED <<maxconns_fast, waiting, mainVars, listenVars, conns, queueVars, sideVars>>

\* conn_new returns NULL, because malloc or event_add failed; in the second
\* case the structure keeps its state.  The worker closes the descriptor.
ConnNewFails(t) ==
    /\ \/ wpc[t] = "conn_new" /\ conns[wfd[t]].state = "none"
       \/ wpc[t] = "event_add"
    /\ open' = open \ {wfd[t]}
    /\ wpc' = [wpc EXCEPT ![t] = "loop"] /\ wfd' = [wfd EXCEPT ![t] = None]
    /\ UNCHANGED <<maxconns_fast, waiting, mainVars, listenVars, conns, queueVars, sideVars,
                   curr_conns>>
-----------------------------------------------------------------------------
(* ...or an event of one of its connections.                               *)

Serves(t, fd) == wpc[t] = "loop" /\ conns[fd].event = t

\* lru_crawler metadump: the connection is lent to the crawler.
HandOff(t, fd) ==
    /\ Serves(t, fd)
    /\ conns' = [conns EXCEPT ![fd].state = "conn_watch", ![fd].event = None]
    /\ UNCHANGED <<maxconns_fast, waiting, open, mainVars, listenVars, queueVars, workVars,
                   sideVars, curr_conns>>

\* Mutation: the descriptor is closed before the structure is done with.
conn_close_FdFirst(t, fd) ==
    /\ Serves(t, fd)
    /\ open' = open \ {fd}
    /\ wpc' = [wpc EXCEPT ![t] = "close"] /\ wfd' = [wfd EXCEPT ![t] = fd]
    /\ UNCHANGED <<maxconns_fast, waiting, mainVars, listenVars, conns, queueVars, sideVars,
                   curr_conns>>

\* conn_close: the event is deleted, then the structure is marked...
conn_close(t, fd) ==
    /\ Serves(t, fd)
    /\ conns' = [conns EXCEPT ![fd].state = "conn_closed", ![fd].event = None]
    /\ wpc' = [wpc EXCEPT ![t] = "close"] /\ wfd' = [wfd EXCEPT ![t] = fd]
    /\ UNCHANGED <<maxconns_fast, waiting, open, mainVars, listenVars, queueVars, sideVars,
                   curr_conns>>

\* ...then the descriptor is closed...
CloseFd(t) ==
    /\ wpc[t] = "close"
    /\ open' = open \ {wfd[t]}
    /\ wpc' = [wpc EXCEPT ![t] = "allow"] /\ wfd' = [wfd EXCEPT ![t] = None]
    /\ UNCHANGED <<maxconns_fast, waiting, mainVars, listenVars, conns, queueVars, sideVars,
                   curr_conns>>

\* ...then, under conn_lock, allow_new_conns is set...
AllowNewConns(t) ==
    /\ wpc[t] = "allow"
    /\ allow_new_conns' = TRUE
    /\ wpc' = [wpc EXCEPT ![t] = "uncount"]
    /\ UNCHANGED <<maxconns_fast, waiting, open, mainVars, accepting, timer, conns, queueVars,
                   wfd, sideVars, curr_conns>>

\* ...and then it is counted.
Uncount(t) ==
    /\ wpc[t] = "uncount"
    /\ curr_conns' = curr_conns - 1
    /\ wpc' = [wpc EXCEPT ![t] = "loop"]
    /\ UNCHANGED <<maxconns_fast, waiting, open, mainVars, listenVars, conns, queueVars, wfd,
                   sideVars>>
-----------------------------------------------------------------------------
(* redispath_conn, in a side thread that is done with a connection.        *)

Queued(fd) == \E t \in Threads : \E i \in DOMAIN new_conn_queue[t] :
                 new_conn_queue[t][i].sfd = fd

redispath_conn(fd) ==
    /\ spc = "idle" /\ conns[fd].state = "conn_watch" /\ ~Queued(fd)
    /\ cq_push(conns[fd].thread, [sfd |-> fd, mode |-> "redispatch"])
    /\ spc' = "pushed" /\ stid' = conns[fd].thread
    /\ UNCHANGED <<maxconns_fast, waiting, open, mainVars, listenVars, conns, pipe, workVars,
                   dropped, curr_conns>>

RedispatchNotify ==
    /\ spc = "pushed"
    /\ Notify(stid)
    /\ spc' = "idle" /\ stid' = None
    /\ UNCHANGED <<maxconns_fast, waiting, open, mainVars, listenVars, conns, new_conn_queue,
                   workVars, dropped, curr_conns>>

\* malloc fails: the connection is closed "forcefully", which is less than
\* conn_close does: curr_conns and allow_new_conns stay as they are.
RedispatchFails(fd) ==
    /\ spc = "idle" /\ conns[fd].state = "conn_watch" /\ ~Queued(fd)
    /\ dropped < MaxDropped
    /\ conns' = [conns EXCEPT ![fd].state = "conn_closed"]
    /\ open' = open \ {fd}
    /\ dropped' = dropped + 1
    /\ UNCHANGED <<maxconns_fast, waiting, mainVars, listenVars, queueVars, workVars, spc,
                   stid, curr_conns>>
-----------------------------------------------------------------------------
Main == \/ Accept \/ AcceptEMFILE \/ accept_new_conns \/ maxconns_handler \/ CloseAccepted
        \/ dispatch_conn_new \/ NotifyWorker

Closing(t) == CloseFd(t) \/ AllowNewConns(t) \/ Uncount(t)

Worker(t) == \/ thread_libevent_process(t) \/ conn_worker_readd(t) \/ conn_new(t)
             \/ event_add(t) \/ ConnCounted(t) \/ ConnNewFails(t) \/ Closing(t)
             \/ \E fd \in FDs : HandOff(t, fd) \/ conn_close(t, fd)

Side == \/ RedispatchNotify
        \/ \E fd \in FDs : redispath_conn(fd) \/ RedispatchFails(fd)

Next == ClientConnects \/ Main \/ Side \/ \E t \in Threads : Worker(t)

Spec == Init /\ [][Next]_vars

\* The threads run; libevent calls the timer's handler when it is due and
\* reads of the pipe are not starved by other events.
Fairness == /\ WF_vars(Main /\ mpc # "loop") /\ WF_vars(maxconns_handler)
            /\ WF_vars(RedispatchNotify)
            /\ \A t \in Threads :
                 /\ WF_vars(Worker(t) /\ wpc[t] # "loop")
                 /\ SF_vars(thread_libevent_process(t) \/ conn_worker_readd(t))

FairSpec == Spec /\ Fairness
-----------------------------------------------------------------------------
(* Properties.                                                             *)

\* The byte in the pipe and the item on the queue are written by one thread
\* and read by another, one at a time: every item is announced by exactly one
\* byte, or by one that its sender is about to write, whoever the senders are.
\* An item that is not is never looked at.
QueueAnnounced ==
    \A t \in Threads :
        Len(new_conn_queue[t]) = pipe[t] + (IF mpc = "pushed" /\ mtid = t THEN 1 ELSE 0)
                                         + (IF spc = "pushed" /\ stid = t THEN 1 ELSE 0)

\* On their way to a connection: accepted, queued, or inside conn_new.
Pending(fd) ==
    (IF msfd = fd THEN 1 ELSE 0)
    + Cardinality({x \in Threads \X (1 .. Cardinality(FDs)) :
                     /\ x[2] \in DOMAIN new_conn_queue[x[1]]
                     /\ new_conn_queue[x[1]][x[2]] = [sfd |-> fd, mode |-> "new"]})
    + Cardinality({t \in Threads : wfd[t] = fd /\ wpc[t] # "close"})
Closers(fd) == Cardinality({t \in Threads : wfd[t] = fd /\ wpc[t] = "close"})
Connected(fd) == fd \in open /\ Pending(fd) = 0
                 /\ conns[fd].state \in {"conn_new_cmd", "conn_watch"}

\* conns is indexed by descriptor and the kernel gives a descriptor away again
\* the moment it is closed.  So a descriptor that is open is in the hands of
\* one thread or one connection; none is closed, or made a connection of, that
\* its holder has lost already; and none is left open without a holder.
FdHeldOnce ==
    \A fd \in FDs :
        /\ Pending(fd) + Closers(fd) =
             IF fd \in open /\ ~Connected(fd) THEN 1 ELSE 0
        /\ Closers(fd) = 1 => conns[fd].state = "conn_closed"
        /\ conns[fd].event # None => conns[fd].state = "conn_new_cmd" /\ fd \in open

\* curr_conns decides whether maxconns_fast turns a client away.  It counts the
\* connections, those that a worker is about to uncount, and for ever those
\* that redispath_conn gave up.
CurrConnsExact ==
    curr_conns = Cardinality({fd \in FDs : Connected(fd)}) + dropped
                 + Cardinality({t \in Threads : wpc[t] \in {"close", "allow", "uncount"}})

\* Once a connection was closed after accepting was switched off, it is
\* switched on again.  (A connection that closes between the accept that fails
\* and allow_new_conns = false does not count, and accepting then stays off
\* until some other connection closes.)
AcceptResumes == ~accepting /\ allow_new_conns ~> accepting
=============================================================================
