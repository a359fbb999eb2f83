----------------------------- MODULE Descriptors -----------------------------
(***************************************************************************)
(* The descriptors of the server process of csf_assign05: the listening    *)
(* socket that Server::listen gets from open_listenfd (csapp.c), the       *)
(* accept loop (Server::handle_client_requests), which gives the           *)
(* descriptor of each client to a worker of its own, and what the workers  *)
(* close (Connection::close, then the destructor of the same Connection).  *)
(*                                                                         *)
(* A connection is named by the number of its accept.  What a worker does  *)
(* with its client in between is module ChatServer.                        *)
(***************************************************************************)
EXTENDS Integers

CONSTANTS
  Fds,          \* descriptors the process may have open
  MaxAddrs,     \* bound: getaddrinfo returns at most this many addresses
  MaxAccepts,   \* bound: accept is called at most this often
  Free          \* "not open"

Clients == 1 .. MaxAccepts

\* Descriptors 0 to 2 are open for other purposes before the server listens.
ASSUME DescriptorAssumption ==
  /\ Fds \subseteq Nat \ {0}
  /\ MaxAddrs \in Nat
  /\ MaxAccepts \in Nat
  /\ Free \notin Clients \cup {0}

\* What the table holds for a socket of open_listenfd.
Listener == 0

VARIABLES
  stage,      \* what main does next
  left,       \* number of addresses open_listenfd has still to try
  listenfd,   \* its variable
  m_ssock,    \* the listening socket, once there is one
  table,      \* table[f]: the connection behind f, Listener or Free
  accepted,   \* number of accepts so far
  m_fd,       \* m_fd[c]: the descriptor the worker of c was given
  pc          \* what the worker of c does next

workerVars == <<accepted, m_fd, pc>>
vars == <<stage, left, listenfd, m_ssock, table, workerVars>>

Stages == {"getaddrinfo", "socket", "bind", "listen", "accept", "ended"}
PCs == {"none", "serve", "close", "destroy", "done"}

TypeOK ==
  /\ stage \in Stages
  /\ left \in 0 .. MaxAddrs
  /\ listenfd \in Fds \cup {-1}
  /\ m_ssock \in Fds \cup {-1}
  /\ table \in [Fds -> Clients \cup {Listener, Free}]
  /\ accepted \in 0 .. MaxAccepts
  /\ m_fd \in [Clients -> Fds \cup {-1}]
  /\ pc \in [Clients -> PCs]

Init ==
  /\ stage = "getaddrinfo"
  /\ left = 0
  /\ listenfd = -1
  /\ m_ssock = -1
  /\ table = [f \in Fds |-> Free]
  /\ accepted = 0
  /\ m_fd = [c \in Clients |-> -1]
  /\ pc = [c \in Clients |-> "none"]

-----------------------------------------------------------------------------
(***************************************************************************)
(* main and open_listenfd.                                                 *)
(***************************************************************************)
FreeFds == {f \in Fds : table[f] = Free}

\* f is the descriptor that socket or accept returns: the least that is not open.
IsNext(f) == f \in FreeFds /\ \A g \in FreeFds : f <= g

\* Server::listen fails and main returns, or pthread_create fails: the process ends.
Exit ==
  /\ stage' = "ended"
  /\ table' = [f \in Fds |-> Free]
  /\ UNCHANGED <<left, listenfd, m_ssock, workerVars>>

GetAddrInfo ==
  /\ stage = "getaddrinfo"
  /\ left' \in 1 .. MaxAddrs
  /\ stage' = "socket"
  /\ UNCHANGED <<listenfd, m_ssock, table, workerVars>>

Socket ==
  /\ stage = "socket" /\ left > 0
  /\ \E f \in Fds :
       /\ IsNext(f)
       /\ listenfd' = f
       /\ table' = [table EXCEPT ![f] = Listener]
  /\ stage' = "bind"
  /\ UNCHANGED <<left, m_ssock, workerVars>>

SocketFails ==
  /\ stage = "socket" /\ left > 0
  /\ left' = left - 1
  /\ UNCHANGED <<stage, listenfd, m_ssock, table, workerVars>>

Bind ==
  /\ stage = "bind"
  /\ stage' = "listen"
  /\ UNCHANGED <<left, listenfd, m_ssock, table, workerVars>>

\* Mutant: the next address is tried, and the socket stays.
BindFailsLeavesOpen ==
  /\ stage = "bind"
  /\ left' = left - 1
  /\ stage' = "socket"
  /\ UNCHANGED <<listenfd, m_ssock, table, workerVars>>

BindFails ==
  /\ stage = "bind"
  /\ left' = left - 1
  /\ table' = [table EXCEPT ![listenfd] = Free]
  /\ stage' = "socket"
  /\ UNCHANGED <<listenfd, m_ssock, workerVars>>

Listen ==
  /\ stage = "listen"
  /\ m_ssock' = listenfd
  /\ stage' = "accept"
  /\ UNCHANGED <<left, listenfd, table, workerVars>>

\* getaddrinfo fails, no address is left, the close after a failed bind fails, or
\* listen does.
ListenFails ==
  /\ stage \in {"getaddrinfo", "bind", "listen"} \/ (stage = "socket" /\ left = 0)
  /\ Exit

-----------------------------------------------------------------------------
(***************************************************************************)
(* The loop of handle_client_requests.                                     *)
(***************************************************************************)

\* What accept returned, a descriptor or -1, is handed to a new worker.
StartWorker(fd) ==
  /\ stage = "accept"
  /\ accepted < MaxAccepts
  /\ accepted' = accepted + 1
  /\ m_fd' = [m_fd EXCEPT ![accepted + 1] = fd]
  /\ pc' = [pc EXCEPT ![accepted + 1] = "serve"]
  /\ UNCHANGED <<stage, left, listenfd, m_ssock>>

Accept ==
  \E f \in Fds :
    /\ IsNext(f)
    /\ StartWorker(f)
    /\ table' = [table EXCEPT ![f] = accepted + 1]

\* accept returns -1: no descriptor is left, or the client is gone already.
AcceptFails == StartWorker(-1) /\ UNCHANGED table

\* pthread_create fails.
NoThread == stage = "accept" /\ Exit

-----------------------------------------------------------------------------
\* The test of Connection::close and of its destructor.
Valid(fd) == fd > 0

\* ::close: nothing happens, but an error nobody looks at, if fd is not open.
CloseFd(fd) ==
  IF Valid(fd) THEN table' = [table EXCEPT ![fd] = Free] ELSE UNCHANGED table

Step(c, from, to) ==
  /\ stage = "accept"
  /\ pc[c] = from
  /\ pc' = [pc EXCEPT ![c] = to]
  /\ UNCHANGED <<stage, left, listenfd, m_ssock, accepted, m_fd>>

\* Mutant: the Connection is allocated with new, and a worker whose login fails
\* returns without closing it.
FinishLeavesOpen(c) == Step(c, "serve", "done") /\ UNCHANGED table

\* The worker is done with its client, whatever the reason.
Finish(c) == Step(c, "serve", "close") /\ UNCHANGED table

\* conn.close().  m_fd keeps its value.
Close(c) == Step(c, "close", "destroy") /\ CloseFd(m_fd[c])

\* ~Connection, when the worker returns.
Destroy(c) == Step(c, "destroy", "done") /\ CloseFd(m_fd[c])

Next ==
  \/ GetAddrInfo \/ Socket \/ SocketFails \/ Bind \/ BindFails \/ Listen \/ ListenFails
  \/ Accept \/ AcceptFails \/ NoThread
  \/ \E c \in Clients : Finish(c) \/ Close(c) \/ Destroy(c)

Spec == Init /\ [][Next]_vars

-----------------------------------------------------------------------------
\* A descriptor that is open belongs to a client whose worker is still to
\* close it: none is left open by a worker that has gone on, however the
\* second close of other workers interferes.
NoDescriptorLeak ==
  \A f \in Fds : table[f] \in Clients =>
    m_fd[table[f]] = f /\ pc[table[f]] \in {"serve", "close"}

\* f is the only descriptor that stands for a socket of open_listenfd.
OnlyListener(f) == \A g \in Fds : table[g] = Listener <=> g = f

\* Once the server listens no worker ever closes its socket, the second close
\* included, and nothing remains of the addresses it could not be bound to.
ListenerStaysOpen == stage = "accept" => m_ssock \in Fds /\ OnlyListener(m_ssock)

\* "Close the socket if it is open" (connection.cpp, the destructor): a worker
\* closes its own socket only, so that while a worker serves a client the
\* descriptor it was given is that client's.
ServesItsClient ==
  \A c \in Clients : stage = "accept" /\ pc[c] = "serve" /\ m_fd[c] # -1 => table[m_fd[c]] = c

\* What open_listenfd has open on its walk.
WalkInv ==
  /\ stage \in {"getaddrinfo", "socket"} => OnlyListener(-1)
  /\ stage \in {"bind", "listen"} => listenfd \in Fds /\ OnlyListener(listenfd)
  /\ stage = "bind" => left > 0
  /\ stage \notin {"accept", "ended"} => accepted = 0

\* The inductive invariant behind NoDescriptorLeak and ListenerStaysOpen: no
\* worker was ever given the listening socket, and nobody was given anything
\* before its accept.
IndInv ==
  /\ TypeOK
  /\ NoDescriptorLeak
  /\ ListenerStaysOpen
  /\ WalkInv
  /\ stage = "accept" => \A c \in Clients : m_fd[c] # m_ssock
  /\ \A c \in Clients : c > accepted => pc[c] = "none" /\ m_fd[c] = -1
=============================================================================
