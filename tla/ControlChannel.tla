--------------------------- MODULE ControlChannel ----------------------------
(* The local control channel (control_protocol.py): one request on each       *)
(* connection, a thread that accepts, bounded threads that answer, and the    *)
(* end of the server, which joins them all only for so long.                  *)
EXTENDS Naturals, FiniteSets

CONSTANTS
  Peer,     \* clients, each with one connection at a time
  Clients,  \* max_clients
  Nil       \* no socket, nobody

ASSUME ChannelAssumption == IsFiniteSet(Peer) /\ Clients \in Nat \ {0} /\ Nil \notin Nat

VARIABLES
  peer,      \* each client and, if there is one, the worker of its connection
  server,    \* how far start() or close() is; "none": no process
  acceptor,  \* the accept thread, and the connection it has in hand
  stop,      \* the stop event
  slots,     \* free slots
  tracked,   \* _workers and _connections
  joining,   \* the workers close() has found
  path,      \* inode at the socket path; listening, the one of the listener
  listening, bound, inodes, chances

channelVars == <<peer, server, acceptor, stop, slots, tracked, joining, path, listening, bound, inodes, chances>>

Absent == [client |-> "away", worker |-> "none", overran |-> FALSE]
PeerState ==
  [client: {"away", "waiting"}, \* in request(), or not
   worker: {"none", "backlog", "added", "reading", "handling", "answering", "ending"},
   overran: BOOLEAN]            \* close() has given up waiting for it
ServerStep == {"none", "bind", "up", "listener", "join acceptor", "snapshot", "join workers", "clear", "down"}

Chance(what) == chances[what] > 0 /\ chances' = [chances EXCEPT ![what] = @ - 1]
Working(p) == peer[p].worker \notin {"none", "backlog", "added"}
Worker(p, step) == peer' = [peer EXCEPT ![p].worker = step]
Sockets == UNCHANGED <<path, listening, bound, inodes>>
Server == UNCHANGED <<server, acceptor, stop, joining>>

-----------------------------------------------------------------------------
(* ControlClient.request: connect, send, and read one answer; unavailable if *)
(* nobody listens. It gives up when the time is over, and the server does    *)
(* not learn of it: the request may still be handled.                        *)
Connect(p) ==
  /\ peer[p] = Absent /\ Chance("requests")
  /\ path # Nil /\ path = listening
  /\ peer' = [peer EXCEPT ![p] = [Absent EXCEPT !.client = "waiting", !.worker = "backlog"]]
  /\ UNCHANGED <<slots, tracked>> /\ Sockets /\ Server

GiveUp(p) ==
  /\ peer[p].client = "waiting" /\ Chance("timeouts")
  /\ peer' = [peer EXCEPT ![p].client = "away"]
  /\ UNCHANGED <<slots, tracked>> /\ Sockets /\ Server

(* A connection that is closed unanswered ends the client's wait.            *)
Dropped(q) == [q EXCEPT !.client = "away", !.worker = "none"]

-----------------------------------------------------------------------------
(* The accept thread: it looks at the stop event before it waits and after a *)
(* connection came, takes a slot or drops the connection, registers the      *)
(* worker, and starts it.                                                    *)
Take(p) ==
  /\ acceptor = [step |-> "accept", peer |-> Nil] /\ listening # Nil
  /\ peer[p].worker = "backlog"
  /\ acceptor' = [step |-> "taken", peer |-> p]
  /\ UNCHANGED <<peer, server, stop, slots, tracked, joining, chances>> /\ Sockets

Hand == acceptor.peer
Accepting == acceptor' = [step |-> "accept", peer |-> Nil]

CheckStop ==
  /\ acceptor.step = "taken"
  /\ IF stop THEN /\ peer' = [peer EXCEPT ![Hand] = Dropped(@)]
                  /\ acceptor' = [step |-> "ended", peer |-> Nil]
     ELSE UNCHANGED peer /\ acceptor' = [acceptor EXCEPT !.step = "checked"]
  /\ UNCHANGED <<server, stop, slots, tracked, joining, chances>> /\ Sockets

Register ==
  /\ acceptor.step = "checked"
  /\ IF slots = 0
     THEN /\ peer' = [peer EXCEPT ![Hand] = Dropped(@)] /\ Accepting
          /\ UNCHANGED <<slots, tracked>>
     ELSE /\ slots' = slots - 1 /\ tracked' = tracked \cup {Hand}
          /\ Worker(Hand, "added") /\ acceptor' = [acceptor EXCEPT !.step = "start"]
  /\ UNCHANGED <<server, stop, joining, chances>> /\ Sockets

StartWorker ==
  /\ acceptor.step = "start" /\ Accepting
  /\ \/ Worker(Hand, "reading") /\ UNCHANGED <<slots, tracked, chances>>
     \/ /\ Chance("faults")
        /\ peer' = [peer EXCEPT ![Hand] = Dropped(@)]
        /\ slots' = slots + 1 /\ tracked' = tracked \ {Hand}
  /\ UNCHANGED <<server, stop, joining>> /\ Sockets

AcceptorEnds ==
  /\ acceptor.step = "accept" /\ stop
  /\ acceptor' = [acceptor EXCEPT !.step = "ended"]
  /\ UNCHANGED <<peer, server, stop, slots, tracked, joining, chances>> /\ Sockets

-----------------------------------------------------------------------------
(* A worker: read, decode, handle, answer; a message that is malformed gets  *)
(* its answer without the handler, one that never comes gets none. close()   *)
(* shuts the connection of a worker it has found under it.                   *)
Read(p) ==
  /\ peer[p].worker = "reading"
  /\ \/ Worker(p, "handling") /\ UNCHANGED chances
     \/ Chance("faults") /\ Worker(p, "answering")
     \/ (p \in joining \/ peer[p].client = "away") /\ Worker(p, "ending") /\ UNCHANGED chances
  /\ UNCHANGED <<slots, tracked>> /\ Sockets /\ Server

Handle(p) ==
  /\ peer[p].worker = "handling" /\ Worker(p, "answering")
  /\ UNCHANGED <<slots, tracked, chances>> /\ Sockets /\ Server

Unsent(p) ==
  /\ p \in joining /\ peer[p].worker = "answering" /\ Worker(p, "ending")
  /\ UNCHANGED <<slots, tracked, chances>> /\ Sockets /\ Server

Answer(p) ==
  /\ peer[p].worker = "answering"
  /\ peer' = [peer EXCEPT ![p].worker = "ending", ![p].client = "away"]
  /\ UNCHANGED <<slots, tracked, chances>> /\ Sockets /\ Server

EndWorker(p) ==
  /\ peer[p].worker = "ending"
  /\ peer' = [peer EXCEPT ![p] = [Dropped(@) EXCEPT !.overran = FALSE]]
  /\ tracked' = tracked \ {p} /\ slots' = slots + 1
  /\ UNCHANGED chances /\ Sockets /\ Server

-----------------------------------------------------------------------------
(* close(): stop, close the listener, join the accept thread, shut what is   *)
(* there and join its workers, each for a bounded time, forget them, and     *)
(* remove the socket if it is still the one that was bound.                  *)
Close ==
  /\ server = "up" /\ stop' = TRUE /\ server' = "listener"
  /\ UNCHANGED <<peer, acceptor, slots, tracked, joining, chances>> /\ Sockets

CloseListener ==
  /\ server = "listener" /\ server' = "join acceptor" /\ listening' = Nil
  /\ peer' = [p \in Peer |-> IF peer[p].worker = "backlog" /\ acceptor.peer # p THEN Dropped(peer[p]) ELSE peer[p]]
  /\ UNCHANGED <<acceptor, stop, slots, tracked, joining, path, bound, inodes, chances>>

(* Fault: the workers are looked for while the accept thread goes on.        *)
AcceptorJoinedNever == TRUE

AcceptorJoined == acceptor.step = "ended"

JoinAcceptor ==
  /\ server = "join acceptor" /\ AcceptorJoined /\ server' = "snapshot"
  /\ UNCHANGED <<peer, acceptor, stop, slots, tracked, joining, chances>> /\ Sockets

Snapshot ==
  /\ server = "snapshot" /\ server' = "join workers" /\ joining' = tracked
  /\ UNCHANGED <<peer, acceptor, stop, slots, tracked, chances>> /\ Sockets

JoinWorker(p) ==
  /\ server = "join workers" /\ p \in joining /\ Working(p) /\ ~peer[p].overran
  /\ Chance("timeouts")
  /\ peer' = [peer EXCEPT ![p].overran = TRUE]
  /\ UNCHANGED <<slots, tracked>> /\ Sockets /\ Server

Clear ==
  /\ server = "join workers" /\ \A p \in joining : ~Working(p) \/ peer[p].overran
  /\ server' = "clear" /\ tracked' = {}
  /\ UNCHANGED <<peer, acceptor, stop, slots, joining, chances>> /\ Sockets

CleanUp ==
  /\ server = "clear" /\ server' = "down"
  /\ path' = IF path = bound THEN Nil ELSE path
  /\ bound' = Nil
  /\ UNCHANGED <<peer, acceptor, stop, slots, tracked, joining, listening, inodes, chances>>

-----------------------------------------------------------------------------
(* The process ends, closed or not: a crash leaves its socket at the path.   *)
Terminate ==
  /\ server # "none" /\ (server = "down" \/ chances.crashes > 0)
  /\ chances' = IF server = "down" THEN chances ELSE [chances EXCEPT !.crashes = @ - 1]
  /\ peer' = [p \in Peer |-> IF peer[p].worker = "none" THEN peer[p] ELSE [Dropped(peer[p]) EXCEPT !.overran = FALSE]]
  /\ server' = "none" /\ acceptor' = [step |-> "ended", peer |-> Nil] /\ stop' = FALSE
  /\ slots' = Clients /\ tracked' = {} /\ joining' = {}
  /\ listening' = Nil /\ bound' = Nil
  /\ UNCHANGED <<path, inodes>>

(* start(): a socket at the path is removed if nobody listens behind it and  *)
(* it has not changed meanwhile; then bind, listen, accept. One process at a *)
(* time starts here (systemd).                                               *)
Probe ==
  /\ server = "none" /\ Chance("starts") /\ server' = "bind"
  /\ path' = Nil
  /\ UNCHANGED <<peer, acceptor, stop, slots, tracked, joining, listening, bound, inodes>>

Bind ==
  /\ server = "bind"
  /\ \/ /\ inodes' = inodes + 1 /\ path' = inodes + 1 /\ bound' = inodes + 1 /\ listening' = inodes + 1
        /\ server' = "up" /\ Accepting /\ UNCHANGED chances
     \/ /\ Chance("faults") /\ server' = "down"
        /\ UNCHANGED <<path, bound, listening, inodes, acceptor>>
  /\ UNCHANGED <<peer, stop, slots, tracked, joining>>

ChannelInit(budget) ==
  /\ peer = [p \in Peer |-> Absent] /\ server = "none"
  /\ acceptor = [step |-> "ended", peer |-> Nil] /\ stop = FALSE
  /\ slots = Clients /\ tracked = {} /\ joining = {}
  /\ path = Nil /\ listening = Nil /\ bound = Nil /\ inodes = 0
  /\ chances = budget

ChannelStep ==
  \/ \E p \in Peer : \/ Connect(p) \/ GiveUp(p) \/ Take(p)
                     \/ Read(p) \/ Handle(p) \/ Answer(p) \/ Unsent(p) \/ EndWorker(p) \/ JoinWorker(p)
  \/ CheckStop \/ Register \/ StartWorker \/ AcceptorEnds
  \/ Close \/ CloseListener \/ JoinAcceptor \/ Snapshot \/ Clear \/ CleanUp
  \/ Terminate \/ Probe \/ Bind

ChannelTypeOK ==
  /\ peer \in [Peer -> PeerState] /\ server \in ServerStep
  /\ acceptor \in [step: {"accept", "taken", "checked", "start", "ended"}, peer: Peer \cup {Nil}]
  /\ slots \in 0 .. Clients /\ tracked \subseteq Peer /\ joining \subseteq Peer

(* A slot is taken exactly by each worker that is registered or runs, also   *)
(* when one could not be started and when close() has forgotten them.        *)
SlotsBalance == slots = Clients - Cardinality({p \in Peer : Working(p) \/ peer[p].worker = "added"})

(* When close() has returned, no worker is in the handler but those it has   *)
(* waited for in vain.                                                       *)
ClosedIsQuiet == server \in {"clear", "down"} => \A p \in Peer : peer[p].worker # "added" /\ (Working(p) => peer[p].overran)

(* While the server accepts, the path leads to it, whatever was there.       *)
PathServes == server = "up" => path = listening /\ path = bound
=============================================================================
