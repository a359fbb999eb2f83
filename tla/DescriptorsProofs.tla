-------------------------- MODULE DescriptorsProofs --------------------------
(***************************************************************************)
(* Proofs about Descriptors: although every worker closes its descriptor   *)
(* twice, none is leaked and the listening socket is never closed, and     *)
(* open_listenfd leaves none of the sockets open that it could not use.    *)
(***************************************************************************)
EXTENDS Descriptors, TLAPS

\* Connection::close and the destructor free at most the descriptor they were
\* given, and free it indeed when it is a descriptor.
LEMMA CloseFrees ==
  ASSUME TypeOK, NEW fd \in Fds \cup {-1}, CloseFd(fd)
  PROVE  /\ table' \in [Fds -> Clients \cup {Listener, Free}]
         /\ \A f \in Fds : table'[f] = IF f = fd THEN Free ELSE table[f]
  BY DescriptorAssumption DEF TypeOK, CloseFd, Valid

\* The process starts with no socket.
LEMMA InitInd == Init => IndInv
  BY DescriptorAssumption
  DEF Init, IndInv, TypeOK, NoDescriptorLeak, ListenerStaysOpen, WalkInv, OnlyListener,
      Stages, PCs, Clients, Listener

\* A process that ends has nothing open.
LEMMA ExitInd == IndInv /\ Exit => IndInv'
  BY DescriptorAssumption
  DEF Exit, IndInv, TypeOK, NoDescriptorLeak, ListenerStaysOpen, WalkInv, OnlyListener,
      Stages, PCs, Clients, workerVars, Listener

\* open_listenfd's walk over the addresses preserves the invariant: no client has
\* anything yet, and what the walk has open is at most the socket of this address.
LEMMA WalkInd ==
  ASSUME IndInv, GetAddrInfo \/ Socket \/ SocketFails \/ Bind \/ BindFails \/ Listen
  PROVE  IndInv'
<1>1. /\ UNCHANGED workerVars
      /\ stage \notin {"accept", "ended"} /\ accepted = 0 /\ accepted' = 0
      /\ \A f \in Fds : table[f] \notin Clients
  BY DescriptorAssumption
  DEF IndInv, WalkInv, TypeOK, NoDescriptorLeak, Clients, workerVars, GetAddrInfo, Socket,
      SocketFails, Bind, BindFails, Listen
<1>2. /\ stage' \in Stages /\ left' \in 0 .. MaxAddrs
      /\ listenfd' \in Fds \cup {-1} /\ m_ssock' \in Fds \cup {-1}
      /\ table' \in [Fds -> Clients \cup {Listener, Free}]
      /\ \A f \in Fds : table'[f] \notin Clients
      /\ stage' # "ended"
      /\ WalkInv'
      /\ ListenerStaysOpen'
  <2>1. CASE GetAddrInfo
    BY <2>1, <1>1, DescriptorAssumption
    DEF GetAddrInfo, IndInv, TypeOK, WalkInv, ListenerStaysOpen, OnlyListener, Stages, workerVars
  <2>2. CASE Socket
    BY <2>2, <1>1, DescriptorAssumption
    DEF Socket, IsNext, FreeFds, IndInv, TypeOK, WalkInv, ListenerStaysOpen, OnlyListener, Stages,
        workerVars, Listener, Clients
  <2>3. CASE SocketFails
    BY <2>3, <1>1, DescriptorAssumption
    DEF SocketFails, IndInv, TypeOK, WalkInv, ListenerStaysOpen, OnlyListener, Stages, workerVars
  <2>4. CASE Bind
    BY <2>4, <1>1, DescriptorAssumption
    DEF Bind, IndInv, TypeOK, WalkInv, ListenerStaysOpen, OnlyListener, Stages, workerVars
  <2>5. CASE BindFails
    BY <2>5, <1>1, DescriptorAssumption
    DEF BindFails, IndInv, TypeOK, WalkInv, ListenerStaysOpen, OnlyListener, Stages,
        workerVars, Listener, Clients
  <2>6. CASE Listen
    BY <2>6, <1>1, DescriptorAssumption
    DEF Listen, IndInv, TypeOK, WalkInv, ListenerStaysOpen, OnlyListener, Stages, workerVars
  <2> QED BY <2>1, <2>2, <2>3, <2>4, <2>5, <2>6
<1>3. TypeOK'
  BY <1>1, <1>2 DEF IndInv, TypeOK, workerVars, Clients
<1>4. NoDescriptorLeak'
  BY <1>2 DEF NoDescriptorLeak, Clients
<1>5. \A c \in Clients : m_fd'[c] = -1 /\ pc'[c] = "none"
  BY <1>1, DescriptorAssumption DEF IndInv, Clients, workerVars
<1>6. stage' = "accept" => \A c \in Clients : m_fd'[c] # m_ssock'
  BY <1>2, <1>5, DescriptorAssumption DEF ListenerStaysOpen
<1> QED BY <1>2, <1>3, <1>4, <1>5, <1>6 DEF IndInv, Clients

\* A worker that is started gets a descriptor nobody has, or none: the loop of
\* handle_client_requests preserves the invariant.
LEMMA AcceptInd ==
  ASSUME IndInv, Accept \/ AcceptFails
  PROVE  IndInv'
<1> DEFINE new == accepted + 1
<1>1. /\ new \in Clients
      /\ pc[new] = "none"
      /\ \A f \in Fds : table[f] # new
  BY DescriptorAssumption
  DEF IndInv, TypeOK, NoDescriptorLeak, Clients, Accept, AcceptFails, StartWorker
<1>2. PICK fd \in Fds \cup {-1} :
        /\ StartWorker(fd)
        /\ fd # m_ssock
        /\ \/ fd = -1 /\ UNCHANGED table
           \/ fd \in Fds /\ table' = [table EXCEPT ![fd] = new]
  BY DescriptorAssumption
  DEF IndInv, ListenerStaysOpen, OnlyListener, Accept, AcceptFails, StartWorker, IsNext, FreeFds,
      Listener
<1>3. /\ stage = "accept" /\ UNCHANGED <<stage, left, listenfd, m_ssock>>
      /\ accepted' = new
      /\ m_fd' \in [Clients -> Fds \cup {-1}]
      /\ \A c \in Clients : m_fd'[c] = IF c = new THEN fd ELSE m_fd[c]
      /\ pc' \in [Clients -> PCs]
      /\ \A c \in Clients : pc'[c] = IF c = new THEN "serve" ELSE pc[c]
  BY <1>1, <1>2 DEF IndInv, TypeOK, StartWorker, PCs
<1>4. TypeOK'
  BY <1>1, <1>2, <1>3, DescriptorAssumption DEF IndInv, TypeOK, Clients
<1>5. NoDescriptorLeak'
  <2> SUFFICES ASSUME NEW f \in Fds, table'[f] \in Clients
               PROVE  /\ m_fd'[table'[f]] = f
                      /\ pc'[table'[f]] \in {"serve", "close"}
    BY DEF NoDescriptorLeak, Clients
  <2>1. CASE f = fd
    BY <2>1, <1>1, <1>2, <1>3, DescriptorAssumption DEF IndInv, TypeOK
  <2>2. CASE f # fd
    BY <2>2, <1>1, <1>2, <1>3 DEF IndInv, TypeOK, NoDescriptorLeak
  <2> QED BY <2>1, <2>2
<1>6. ListenerStaysOpen'
  BY <1>1, <1>2, <1>3, DescriptorAssumption
  DEF IndInv, TypeOK, ListenerStaysOpen, OnlyListener, Listener, Clients
<1>7. \A c \in Clients : m_fd'[c] # m_ssock'
  BY <1>2, <1>3 DEF IndInv
<1>8. \A c \in Clients : c > accepted' => pc'[c] = "none" /\ m_fd'[c] = -1
  BY <1>1, <1>3, DescriptorAssumption DEF IndInv, TypeOK, Clients
<1>9. WalkInv'
  BY <1>3 DEF WalkInv
<1> QED BY <1>4, <1>5, <1>6, <1>7, <1>8, <1>9 DEF IndInv, Clients

\* A step of a worker that frees at most its own descriptor preserves the
\* invariant, provided the worker is not said to serve any more when it has
\* passed its first close.
LEMMA WorkerInd ==
  ASSUME IndInv, NEW c \in Clients, Finish(c) \/ Close(c) \/ Destroy(c)
  PROVE  IndInv'
<1>1. /\ stage = "accept" /\ UNCHANGED <<stage, left, listenfd, m_ssock>>
      /\ accepted' = accepted /\ m_fd' = m_fd
      /\ pc[c] \in {"serve", "close", "destroy"}
      /\ pc' \in [Clients -> PCs]
      /\ \A d \in Clients \ {c} : pc'[d] = pc[d]
  BY DEF IndInv, TypeOK, PCs, Finish, Close, Destroy, Step
<1>2. m_fd[c] \in Fds \cup {-1} /\ m_fd[c] # m_ssock
  BY <1>1 DEF IndInv, TypeOK
<1>3. /\ table' \in [Fds -> Clients \cup {Listener, Free}]
      /\ \A f \in Fds : table'[f] = table[f] \/ (f = m_fd[c] /\ table'[f] = Free)
  BY <1>2, CloseFrees DEF IndInv, TypeOK, Finish, Close, Destroy
<1>4. \A f \in Fds : table'[f] = c => pc'[c] \in {"serve", "close"}
  <2>1. CASE Finish(c)
    BY <2>1 DEF IndInv, TypeOK, Finish, Step
  <2>2. CASE Close(c)
    <3>1. \A f \in Fds : f # m_fd[c] => table[f] # c
      BY DEF IndInv, NoDescriptorLeak
    <3> QED BY <2>2, <3>1, <1>2, CloseFrees, DescriptorAssumption
            DEF Close, IndInv, Clients
  <2>3. CASE Destroy(c)
    <3>1. \A f \in Fds : table[f] # c
      BY <2>3 DEF IndInv, NoDescriptorLeak, Destroy, Step
    <3> QED BY <3>1, <1>3, DescriptorAssumption DEF Clients
  <2> QED BY <2>1, <2>2, <2>3
<1>5. TypeOK'
  BY <1>1, <1>3 DEF IndInv, TypeOK, Clients
<1>6. NoDescriptorLeak'
  <2> SUFFICES ASSUME NEW f \in Fds, table'[f] \in Clients
               PROVE  /\ m_fd'[table'[f]] = f
                      /\ pc'[table'[f]] \in {"serve", "close"}
    BY DEF NoDescriptorLeak, Clients
  <2>1. table'[f] = table[f]
    BY <1>3, DescriptorAssumption
  <2> QED BY <2>1, <1>1, <1>4 DEF IndInv, NoDescriptorLeak
<1>7. ListenerStaysOpen'
  <2>1. m_ssock \in Fds /\ OnlyListener(m_ssock)
    BY <1>1 DEF IndInv, ListenerStaysOpen
  <2>2. \A f \in Fds : table'[f] = Listener <=> table[f] = Listener
    BY <2>1, <1>2, <1>3, DescriptorAssumption DEF OnlyListener, Listener
  <2> QED BY <2>1, <2>2, <1>1 DEF ListenerStaysOpen, OnlyListener
<1>8. \A d \in Clients : d > accepted' => pc'[d] = "none" /\ m_fd'[d] = -1
  BY <1>1 DEF IndInv
<1>9. WalkInv'
  BY <1>1 DEF WalkInv
<1> QED BY <1>1, <1>5, <1>6, <1>7, <1>8, <1>9 DEF IndInv, Clients

\* The invariant holds of every state of the server process, for any number of
\* descriptors, of addresses and of clients.
THEOREM Invariance == Spec => []IndInv
<1>1. IndInv /\ [Next]_vars => IndInv'
  <2> SUFFICES ASSUME IndInv, [Next]_vars PROVE IndInv'
    OBVIOUS
  <2>1. CASE Next
    BY <2>1, ExitInd, WalkInd, AcceptInd, WorkerInd DEF Next, ListenFails, NoThread
  <2>2. CASE UNCHANGED vars
    BY <2>2
    DEF vars, workerVars, IndInv, TypeOK, NoDescriptorLeak, ListenerStaysOpen, WalkInv,
        OnlyListener, Clients
  <2> QED BY <2>1, <2>2
<1> QED BY <1>1, InitInd, PTL DEF Spec

\* Every descriptor that is open has a worker that will close it.
THEOREM NothingLeaks == Spec => []NoDescriptorLeak
<1>1. IndInv => NoDescriptorLeak
  BY DEF IndInv
<1> QED BY <1>1, Invariance, PTL

\* No close, first or second, ever hits the listening socket, and it is the only
\* socket that open_listenfd leaves.
THEOREM ListenerSafe == Spec => []ListenerStaysOpen
<1>1. IndInv => ListenerStaysOpen
  BY DEF IndInv
<1> QED BY <1>1, Invariance, PTL
=============================================================================
