--------------------------- MODULE TraceServerProofs ---------------------------
(***************************************************************************)
(* No descriptor leaks, for any number of clients, requests and signals.   *)
(* A descriptor is open exactly in recv and send; so the proof goes by the *)
(* place of the server, and what a signal may do at each.                  *)
(***************************************************************************)
EXTENDS TraceServer, SequenceTheorems, TLAPS

Talking == {"recv", "send"}

ClientType == [state : {"idle", "open", "closed", "gone"},
               request : Requests \cup {"none"},
               unread : 0..Window]

\* Outside of handle_request there is no client, in it there is one.
OneClient == client_fd # NoClient <=> pc \in Talking

\* accept is only called when a connection waits.
Waiting == pc = "accept" => backlog # <<>>

\* A Ctrl+C that kills the server finds it outside of the loop.
HandlerInLoop == pc \in Loop \cup {"set running"} => handler = "server_sigint_handler"

IInv == TypeOK /\ ConnectionsAreClosed /\ OneClient /\ Waiting /\ HandlerInLoop

USE ServerAssumption DEF Talking, Loop, Ended

LEMMA InitIInv == Init => IInv
<1> SUFFICES ASSUME Init PROVE IInv
  OBVIOUS
<1>1. backlog \in Seq(Clients) /\ to_send \in Seq(1..BodyUnits)
  BY DEF Init
<1>2. clients \in [Clients -> ClientType]
  BY DEF Init, ClientType
<1>3. TypeOK
  <2>1. 0 \in 0..MaxInterrupts
    OBVIOUS
  <2>2. /\ pc = "setup" /\ server_running = TRUE /\ handler = "default"
        /\ interrupts = 0 /\ client_fd = NoClient /\ open_fds = {} /\ progress = FALSE
    BY DEF Init
  <2> QED
    BY <1>1, <1>2, <2>1, <2>2 DEF TypeOK, ClientType
<1> QED
  BY <1>3 DEF Init, IInv, ConnectionsAreClosed, OneClient, Waiting, HandlerInLoop

\* An answer's parts are never empty: not at first, nor when a unit is sent.
LEMMA PartsType == ASSUME NEW request PROVE Parts(request) \in Seq(1..BodyUnits)
<1>1. 1 \in 1..BodyUnits /\ BodyUnits \in 1..BodyUnits
  OBVIOUS
<1>2. <<1>> \in Seq(1..BodyUnits) /\ <<1, BodyUnits>> \in Seq(1..BodyUnits)
  BY <1>1
<1> QED
  BY <1>2 DEF Parts

LEMMA RestOfAnswer ==
  ASSUME to_send \in Seq(1..BodyUnits), to_send # <<>>
  PROVE  /\ Tail(to_send) \in Seq(1..BodyUnits)
         /\ Head(to_send) # 1 => [to_send EXCEPT ![1] = @ - 1] \in Seq(1..BodyUnits)
<1>1. 1 \in 1..Len(to_send)
  OBVIOUS
<1>2. Tail(to_send) \in Seq(1..BodyUnits) /\ to_send[1] \in 1..BodyUnits
  BY <1>1
<1>3. to_send[1] # 1 => to_send[1] - 1 \in 1..BodyUnits
  BY <1>2
<1> QED
  BY <1>1, <1>2, <1>3, ExceptSeq

\* What the server changes of a client keeps its type.
LEMMA ClientMoves ==
  ASSUME clients \in [Clients -> ClientType], NEW c \in Clients
  PROVE  /\ \A v \in {"idle", "open", "closed", "gone"} :
              [clients EXCEPT ![c].state = v] \in [Clients -> ClientType]
         /\ \A n \in 0..Window : [clients EXCEPT ![c].unread = n] \in [Clients -> ClientType]
BY DEF ClientType

LEMMA CloseClientIInv ==
  ASSUME IInv, pc \in Talking, CloseClient,
         UNCHANGED <<handler, backlog>>,
         server_running' \in BOOLEAN, interrupts' \in 0..MaxInterrupts,
         to_send' = to_send, progress' = progress
  PROVE  IInv'
<1>1. client_fd \in Clients
  BY DEF IInv, TypeOK, OneClient
<1>2. clients' \in [Clients -> ClientType]
  <2>1. clients' = [clients EXCEPT ![client_fd].state =
                      IF clients[client_fd].state = "gone" THEN "gone" ELSE "closed"]
    BY DEF CloseClient
  <2> QED
    BY <1>1, <2>1, ClientMoves DEF IInv, TypeOK, ClientType
<1> QED
  BY <1>1, <1>2 DEF IInv, TypeOK, CloseClient, ClientType, ConnectionsAreClosed,
    OneClient, Waiting, HandlerInLoop

\* The server's own steps.
LEMMA ServerStepIInv == IInv /\ ServerStep => IInv'
<1> SUFFICES ASSUME IInv, ServerStep PROVE IInv'
  OBVIOUS
<1> USE DEF IInv, TypeOK, ConnectionsAreClosed, OneClient, Waiting, HandlerInLoop,
            flagVars, answerVars, outerVars
<1>1. CASE Setup \/ SetupFails
  BY <1>1 DEF Setup, SetupFails
<1>9. CASE InstallHandler
  BY <1>9 DEF InstallHandler
<1>10. CASE SetRunning
  BY <1>10 DEF SetRunning
<1>2. CASE Check \/ Select
  BY <1>2 DEF Check, Select
<1>3. CASE Accept \/ AcceptFails
  <2>1. Head(backlog) \in Clients /\ Tail(backlog) \in Seq(Clients)
    BY <1>3, HeadTailProperties DEF Accept, AcceptFails
  <2> QED
    BY <1>3, <2>1 DEF Accept, AcceptFails
<1>4. CASE Recv
  BY <1>4, PartsType DEF Recv
<1>5. CASE RecvFails
  BY <1>5, CloseClientIInv DEF RecvFails, ReturnEarly
<1>6. CASE SendUnit
  <2>1. client_fd \in Clients
    BY <1>6 DEF SendUnit
  <2>2. clients[client_fd].unread + 1 \in 0..Window
    BY <1>6, <2>1 DEF SendUnit, Blocked
  <2>3. clients' \in [Clients -> ClientType]
    BY <1>6, <2>1, <2>2, ClientMoves DEF SendUnit, ClientType
  <2>4. to_send' \in Seq(1..BodyUnits) /\ progress' \in BOOLEAN
    BY <1>6, RestOfAnswer DEF SendUnit
  <2> QED
    BY <1>6, <2>3, <2>4 DEF SendUnit, ClientType
<1>7. CASE SendFails
  BY <1>7, RestOfAnswer DEF SendFails, AbandonPart
<1>8. CASE Answered
  BY <1>8, CloseClientIInv DEF Answered
<1> QED
  BY <1>1, <1>2, <1>3, <1>4, <1>5, <1>6, <1>7, <1>8, <1>9, <1>10 DEF ServerStep

\* A signal in recv closes the client; everywhere else it leaves open_fds alone,
\* and it kills the server only before the loop.
LEMMA InterruptIInv == IInv /\ Interrupt => IInv'
<1> SUFFICES ASSUME IInv, Interrupt PROVE IInv'
  OBVIOUS
<1>1. interrupts' \in 0..MaxInterrupts /\ UNCHANGED <<handler, backlog>>
  <2>1. interrupts \in 0..MaxInterrupts
    BY DEF IInv, TypeOK
  <2> QED
    BY <2>1 DEF Interrupt
<1> USE DEF IInv, TypeOK, ConnectionsAreClosed, OneClient, Waiting, HandlerInLoop, answerVars
<1>2. CASE handler = "default"
  BY <1>1, <1>2 DEF Interrupt
<1>3. CASE handler # "default" /\ BetweenCalls
  BY <1>1, <1>3 DEF Interrupt, BetweenCalls
<1>4. CASE handler # "default" /\ InterruptCall
  <2>1. server_running' = FALSE
    BY <1>4 DEF Interrupt
  <2>2. CASE pc = "select"
    BY <1>1, <1>4, <2>1, <2>2 DEF InterruptCall
  <2>3. CASE pc = "recv"
    BY <1>1, <1>4, <2>1, <2>3, CloseClientIInv DEF InterruptCall, ReturnEarly
  <2>4. CASE pc = "send"
    BY <1>1, <1>4, <2>1, <2>4, RestOfAnswer DEF InterruptCall, AbandonPart
  <2> QED
    BY <1>4, <2>2, <2>3, <2>4 DEF InterruptCall
<1> QED
  BY <1>2, <1>3, <1>4 DEF Interrupt

LEMMA ClientIInv ==
  ASSUME NEW c \in Clients, IInv, Connect(c) \/ SendRequest(c) \/ Read(c) \/ Leave(c)
  PROVE  IInv'
<1>1. clients' \in [Clients -> ClientType]
  <2>1. clients \in [Clients -> ClientType]
    BY DEF IInv, TypeOK, ClientType
  <2>2. CASE Connect(c)
    BY <2>1, <2>2 DEF Connect, ClientType
  <2>5. CASE Leave(c)
    BY <2>1, <2>5 DEF Leave, ClientType
  <2>3. CASE SendRequest(c)
    BY <2>1, <2>3 DEF SendRequest, ClientType
  <2>4. CASE Read(c)
    BY <2>1, <2>4 DEF Read, ClientType
  <2> QED
    BY <2>2, <2>3, <2>4, <2>5
<1>2. backlog' \in Seq(Clients) /\ (backlog # <<>> => backlog' # <<>>)
  <2>1. backlog \in Seq(Clients)
    BY DEF IInv, TypeOK
  <2>2. Append(backlog, c) \in Seq(Clients) /\ Append(backlog, c) # <<>>
    BY <2>1, AppendProperties
  <2> QED
    BY <2>1, <2>2 DEF Connect, SendRequest, Read, Leave
<1>3. UNCHANGED <<pc, server_running, handler, client_fd, open_fds, to_send, progress,
                  interrupts>>
  BY DEF Connect, SendRequest, Read, Leave, serverVars, flagVars, answerVars
<1> QED
  BY <1>1, <1>2, <1>3 DEF IInv, TypeOK, ClientType, ConnectionsAreClosed, OneClient,
    Waiting, HandlerInLoop

\* The server talks to one client at a time, and only then has a descriptor.
THEOREM ServerInvariant == Spec => []IInv
<1>1. IInv /\ UNCHANGED vars => IInv'
  BY DEF IInv, TypeOK, ConnectionsAreClosed, OneClient, Waiting, HandlerInLoop,
    vars, serverVars, flagVars, answerVars
<1>2. IInv /\ [Next]_vars => IInv'
  BY <1>1, ServerStepIInv, InterruptIInv, ClientIInv DEF Next
<1> QED
  BY <1>2, InitIInv, PTL DEF Spec

\* The state of the server has its types.  (serve_trace)
THEOREM ServerTypeOK == Spec => []TypeOK
<1>1. IInv => TypeOK
  BY DEF IInv
<1> QED
  BY <1>1, ServerInvariant, PTL

\* No connection outlives its handle_request, by whichever of its returns.
\* (handle_request)
THEOREM ServerClosesConnections == Spec => []ConnectionsAreClosed
<1>1. IInv => ConnectionsAreClosed
  BY DEF IInv
<1> QED
  BY <1>1, ServerInvariant, PTL
=============================================================================
