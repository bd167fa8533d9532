----------------------------- MODULE TraceServer -----------------------------
(***************************************************************************)
(* serve_trace (lib/trace_server.cpp): a single thread that answers HTTP   *)
(* clients one at a time with blocking calls, until Ctrl+C.  The steps are *)
(* the system calls: a signal may arrive before, in or after each of them. *)
(* The handler is installed without SA_RESTART, so a call that a signal    *)
(* meets while it blocks returns.  Answers are counted in units of what a  *)
(* connection can buffer.                                                  *)
(***************************************************************************)
EXTENDS Naturals, Sequences, FiniteSets

CONSTANTS
  Clients,        \* connections that may be made
  Silent,         \* the clients that may never send, or never read
  NoClient,
  Requests,       \* what the first recv holds: "trace", "page" or "bad"
  BodyUnits,      \* length of a trace or page
  Window,         \* units that a connection buffers
  MaxInterrupts   \* Ctrl+C is typed so often (bound of the model)

ASSUME ServerAssumption ==
  /\ Silent \subseteq Clients /\ NoClient \notin Clients
  /\ Requests \subseteq {"trace", "page", "bad"}
  /\ BodyUnits \in Nat \ {0} /\ Window \in Nat \ {0} /\ MaxInterrupts \in Nat

VARIABLES
  pc,              \* the call that serve_trace is in or about to make
  server_running,  \* server_running
  handler,         \* what SIGINT does: "default" or "server_sigint_handler"
  interrupts,      \* how often Ctrl+C was typed
  backlog,         \* connections to accept
  client_fd,       \* the client of handle_request
  open_fds,        \* clients whose descriptor is open
  to_send,         \* units that remain of the parts of the answer
  progress,        \* the current send has queued something
  clients          \* what each client has done

flagVars   == <<server_running, handler>>
answerVars == <<client_fd, open_fds, to_send, progress>>
outerVars  == <<interrupts, backlog, clients>>
serverVars == <<pc, flagVars, answerVars>>
vars == <<serverVars, interrupts, backlog, clients>>

Ended == {"failed", "stopped", "killed"}
Loop  == {"check", "select", "accept", "recv", "send"}

Init ==
  /\ pc = "setup"
  /\ server_running = TRUE
  /\ handler = "default"
  /\ interrupts = 0
  /\ backlog = <<>>
  /\ client_fd = NoClient
  /\ open_fds = {}
  /\ to_send = <<>>
  /\ progress = FALSE
  /\ clients = [c \in Clients |-> [state |-> "idle", request |-> "none", unread |-> 0]]

-----------------------------------------------------------------------------
(* Before the loop *)

\* read_trace_file, socket, bind or listen fails, and serve_trace returns.
SetupFails ==
  /\ pc = "setup" /\ pc' = "failed"
  /\ UNCHANGED <<flagVars, answerVars, outerVars>>

\* From listen on clients can connect; "Press Ctrl+C to stop." is printed and
\* the browser is started.
Setup ==
  /\ pc = "setup" /\ pc' = "sigaction"
  /\ UNCHANGED <<flagVars, answerVars, outerVars>>

InstallHandler ==
  /\ pc = "sigaction" /\ pc' = "set running"
  /\ handler' = "server_sigint_handler"
  /\ UNCHANGED <<server_running, answerVars, outerVars>>

SetRunning ==
  /\ pc = "set running" /\ pc' = "check"
  /\ server_running' = TRUE
  /\ UNCHANGED <<handler, answerVars, outerVars>>

-----------------------------------------------------------------------------
(* The loop *)

\* Mutant: the flag is read once, as if it were not volatile.
CheckHoisted ==
  /\ pc = "check" /\ pc' = "select"
  /\ UNCHANGED <<flagVars, answerVars, outerVars>>

Check ==
  /\ pc = "check" /\ pc' = IF server_running THEN "select" ELSE "stopped"
  /\ UNCHANGED <<flagVars, answerVars, outerVars>>

\* select returns when a connection waits, or after a second without one.
Select ==
  /\ pc = "select" /\ pc' = IF backlog # <<>> THEN "accept" ELSE "check"
  /\ UNCHANGED <<flagVars, answerVars, outerVars>>

Accept ==
  /\ pc = "accept" /\ pc' = "recv"
  /\ client_fd' = Head(backlog)
  /\ open_fds' = open_fds \cup {Head(backlog)}
  /\ backlog' = Tail(backlog)
  /\ UNCHANGED <<flagVars, to_send, progress, interrupts, clients>>

\* The connection was aborted before it could be accepted.
AcceptFails ==
  /\ pc = "accept" /\ pc' = "check"
  /\ clients[Head(backlog)].state = "gone"
  /\ backlog' = Tail(backlog)
  /\ UNCHANGED <<flagVars, answerVars, interrupts, clients>>

-----------------------------------------------------------------------------
(* handle_request *)

\* Mutants: the early return leaves the descriptor open; recv is tried again.
ReturnWithoutClose ==
  /\ pc' = "check"
  /\ client_fd' = NoClient
  /\ UNCHANGED <<open_fds, clients>>

RetryRecv == UNCHANGED <<pc, client_fd, open_fds, clients>>

\* close(client_fd), and back to the loop.
CloseClient ==
  /\ pc' = "check"
  /\ client_fd' = NoClient
  /\ open_fds' = open_fds \ {client_fd}
  /\ clients' = [clients EXCEPT ![client_fd].state =
                   IF @ = "gone" THEN "gone" ELSE "closed"]

\* recv returns 0 or an error, and handle_request returns early.
ReturnEarly == CloseClient

RecvFails ==
  /\ pc = "recv"
  /\ clients[client_fd].state = "gone"
  /\ ReturnEarly
  /\ UNCHANGED <<flagVars, to_send, progress, interrupts, backlog>>

\* The header and the body; or the single part of a refusal.
Parts(request) == IF request = "bad" THEN <<1>> ELSE <<1, BodyUnits>>

Recv ==
  /\ pc = "recv" /\ pc' = "send"
  /\ clients[client_fd].request # "none"
  /\ to_send' = Parts(clients[client_fd].request)
  /\ progress' = FALSE
  /\ UNCHANGED <<flagVars, client_fd, open_fds, outerVars>>

Blocked == clients[client_fd].state = "open" /\ clients[client_fd].unread = Window

\* Mutant: one unit too many.
SendUnitPastEnd ==
  /\ pc = "send" /\ to_send # <<>>
  /\ clients[client_fd].state = "open" /\ ~Blocked
  /\ clients' = [clients EXCEPT ![client_fd].unread = @ + 1]
  /\ to_send' = IF Head(to_send) = 0 THEN Tail(to_send)
                ELSE [to_send EXCEPT ![1] = @ - 1]
  /\ progress' = (Head(to_send) # 0)
  /\ UNCHANGED <<pc, flagVars, client_fd, open_fds, interrupts, backlog>>

SendUnit ==
  /\ pc = "send" /\ to_send # <<>>
  /\ clients[client_fd].state = "open" /\ ~Blocked
  /\ clients' = [clients EXCEPT ![client_fd].unread = @ + 1]
  /\ to_send' = IF Head(to_send) = 1 THEN Tail(to_send)
                ELSE [to_send EXCEPT ![1] = @ - 1]
  /\ progress' = (Head(to_send) # 1)
  /\ UNCHANGED <<pc, flagVars, client_fd, open_fds, interrupts, backlog>>

\* A failed send ends its send_all, and the next part is tried.
AbandonPart == to_send' = Tail(to_send) /\ progress' = FALSE

SendFails ==
  /\ pc = "send" /\ to_send # <<>>
  /\ clients[client_fd].state = "gone"
  /\ AbandonPart
  /\ UNCHANGED <<pc, flagVars, client_fd, open_fds, outerVars>>

Answered ==
  /\ pc = "send" /\ to_send = <<>>
  /\ CloseClient
  /\ UNCHANGED <<flagVars, to_send, progress, interrupts, backlog>>

-----------------------------------------------------------------------------
(* Ctrl+C *)

\* The call that the server blocks in returns: select and recv with an error,
\* send with what it has queued, and with an error if that is nothing.
InterruptCall ==
  \/ /\ pc = "select" /\ pc' = "check"
     /\ UNCHANGED <<answerVars, clients>>
  \/ /\ pc = "recv" /\ clients[client_fd].state = "open"
     /\ clients[client_fd].request = "none"
     /\ ReturnEarly
     /\ UNCHANGED <<to_send, progress>>
  \/ /\ pc = "send" /\ to_send # <<>> /\ Blocked
     /\ IF progress THEN progress' = FALSE /\ UNCHANGED to_send ELSE AbandonPart
     /\ UNCHANGED <<pc, client_fd, open_fds, clients>>

BetweenCalls == UNCHANGED <<pc, answerVars, clients>>

Interrupt ==
  /\ pc \notin Ended \cup {"setup"} /\ interrupts < MaxInterrupts
  /\ interrupts' = interrupts + 1
  /\ IF handler = "default"
     THEN /\ pc' = "killed"
          /\ UNCHANGED <<server_running, answerVars, clients>>
     ELSE /\ server_running' = FALSE
          /\ InterruptCall \/ BetweenCalls
  /\ UNCHANGED <<handler, backlog>>

-----------------------------------------------------------------------------
(* The clients *)

Listening == pc \notin Ended \cup {"setup"}

Connect(c) ==
  /\ Listening
  /\ clients[c].state = "idle"
  /\ clients' = [clients EXCEPT ![c].state = "open"]
  /\ backlog' = Append(backlog, c)
  /\ UNCHANGED <<serverVars, interrupts>>

SendRequest(c) ==
  /\ clients[c].state = "open" /\ clients[c].request = "none"
  /\ \E r \in Requests : clients' = [clients EXCEPT ![c].request = r]
  /\ UNCHANGED <<serverVars, interrupts, backlog>>

Read(c) ==
  /\ clients[c].state = "open" /\ clients[c].unread > 0
  /\ clients' = [clients EXCEPT ![c].unread = 0]
  /\ UNCHANGED <<serverVars, interrupts, backlog>>

Leave(c) ==
  /\ clients[c].state = "open"
  /\ clients' = [clients EXCEPT ![c].state = "gone"]
  /\ UNCHANGED <<serverVars, interrupts, backlog>>

-----------------------------------------------------------------------------

ServerStep ==
  \/ Setup \/ SetupFails \/ InstallHandler \/ SetRunning
  \/ Check \/ Select \/ Accept \/ AcceptFails
  \/ Recv \/ RecvFails \/ SendUnit \/ SendFails \/ Answered

Next ==
  \/ ServerStep
  \/ Interrupt
  \/ \E c \in Clients : Connect(c) \/ SendRequest(c) \/ Read(c) \/ Leave(c)

\* The server is scheduled; clients other than the silent ones send their
\* request and read the answer.  Nobody has to connect, leave or type Ctrl+C.
Fairness ==
  /\ WF_vars(ServerStep)
  /\ \A c \in Clients \ Silent : WF_vars(SendRequest(c)) /\ WF_vars(Read(c))

Spec == Init /\ [][Next]_vars /\ Fairness

-----------------------------------------------------------------------------
(* Properties *)

TypeOK ==
  /\ pc \in {"setup", "sigaction", "set running"} \cup Loop \cup Ended
  /\ server_running \in BOOLEAN
  /\ handler \in {"default", "server_sigint_handler"}
  /\ interrupts \in 0..MaxInterrupts
  /\ backlog \in Seq(Clients)
  /\ client_fd \in Clients \cup {NoClient}
  /\ open_fds \subseteq Clients
  /\ to_send \in Seq(1..BodyUnits)
  /\ progress \in BOOLEAN
  /\ clients \in [Clients -> [state : {"idle", "open", "closed", "gone"},
                              request : Requests \cup {"none"},
                              unread : 0..Window]]

\* No connection outlives its handle_request, by whichever of its returns, and
\* with a signal at any point: there are descriptors for any number of clients.
\* (handle_request)
ConnectionsAreClosed ==
  open_fds = IF pc \in {"recv", "send"} THEN {client_fd} ELSE {}

\* Once the loop runs, Ctrl+C stops the server, whatever it is doing, unless a
\* client that says nothing keeps it in recv or send.  (trace_server.hpp:16)
FlagStopsServer ==
  (pc \in Loop /\ ~server_running) ~> (pc = "stopped" \/ [](client_fd \in Silent))

\* As long as the server runs, every client that connects is served, though only
\* one is at a time and some leave or are interrupted: again unless a silent
\* client keeps it.  (serve_trace)
ClientsAreServed ==
  \A c \in Clients :
    clients[c].state = "open" ~>
      (clients[c].state \in {"closed", "gone"} \/ pc \in Ended \/ [](client_fd \in Silent))
=============================================================================
