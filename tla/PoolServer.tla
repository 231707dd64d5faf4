----------------------------- MODULE PoolServer -----------------------------
(***************************************************************************)
(* sockets/client-server_schemes/parallel_server_with_pool: a listener     *)
(* hands each client the port of a service process that it takes to be     *)
(* free.  The services tell it what they do through a pipe each, as bytes: *)
(* a read takes up to five of them, whichever messages they belong to.     *)
(***************************************************************************)
EXTENDS Integers, Sequences

CONSTANTS MAX_SERVICES,  \* service processes
          Clients,       \* clients that connect, each once
          Nobody         \* no client

ASSUME PoolAssumption == MAX_SERVICES \in Nat \ {0}

Services == 1 .. MAX_SERVICES

VARIABLES pc,        \* where the listener is in its loop
          readfds,   \* services whose pipe select found readable
          accepts,   \* whether select found the listening socket readable
          busy,      \* busy of service_objs
          pipe,      \* bytes in the pipe of a service
          svc,       \* where a service is
          serving,   \* the client a service has accepted
          queue,     \* clients connected to a service and not accepted
          lqueue,    \* clients connected to the listener and not accepted
          client,    \* where a client is
          port,      \* the service a client was sent to
          straddled  \* history: services of which a read took parts of two messages

listener == <<pc, readfds, accepts, busy, straddled>>
services == <<svc, serving>>
clients == <<client, port>>
vars == <<listener, services, clients, pipe, queue, lqueue>>

Ready == <<"r", "e", "a", "d", "y">>
Busy == <<"b", "u", "s", "y">>
Free == <<"f", "r", "e", "e">>

Init ==
  /\ pc = "select" /\ readfds = {} /\ accepts = FALSE
  /\ busy = [s \in Services |-> 0]
  /\ pipe = [s \in Services |-> <<>>]
  /\ svc = [s \in Services |-> "new"]
  /\ serving = [s \in Services |-> Nobody]
  /\ queue = [s \in Services |-> <<>>] /\ lqueue = <<>>
  /\ client = [c \in Clients |-> "new"] /\ port = [c \in Clients |-> 0]
  /\ straddled = {}

-----------------------------------------------------------------------------
(* The listener's loop. *)

(* Mutant: the listening socket is missing in the set of descriptors. *)
SelectPipesOnly ==
  /\ pc = "select"
  /\ readfds' = {s \in Services : pipe[s] # <<>>}
  /\ accepts' = FALSE
  /\ readfds' # {}
  /\ pc' = "scan"
  /\ UNCHANGED <<busy, straddled, services, clients, pipe, queue, lqueue>>

(* select waits until there is something to do. *)
Select ==
  /\ pc = "select"
  /\ readfds' = {s \in Services : pipe[s] # <<>>}
  /\ accepts' = (lqueue # <<>>)
  /\ readfds' # {} \/ accepts'
  /\ pc' = "scan"
  /\ UNCHANGED <<busy, straddled, services, clients, pipe, queue, lqueue>>

(* strncmp(buf, msg, n) = 0, n the length of msg. *)
Matches(buf, msg) == Len(msg) <= Len(buf) /\ SubSeq(buf, 1, Len(msg)) = msg

(* The services are looked at in order, and what was read is compared. *)
ReadPipe(s) ==
  LET buf == SubSeq(pipe[s], 1, IF Len(pipe[s]) < 5 THEN Len(pipe[s]) ELSE 5)
  IN  /\ pc = "scan" /\ s \in readfds
      /\ \A r \in readfds : s <= r
      /\ busy' = [busy EXCEPT ![s] = IF Matches(buf, Busy) THEN 1
                                     ELSE IF Matches(buf, Free) \/ Matches(buf, Ready) THEN 0
                                     ELSE @]
      /\ straddled' = IF buf \in {Busy, Free, Ready} THEN straddled ELSE straddled \cup {s}
      /\ pipe' = [pipe EXCEPT ![s] = SubSeq(@, Len(buf) + 1, Len(@))]
      /\ readfds' = readfds \ {s}
      /\ UNCHANGED <<pc, accepts, services, clients, queue, lqueue>>

(* accept, and the port of the first service marked free, or -1. *)
Dispatch ==
  LET c == Head(lqueue)
      found == {s \in Services : busy[s] = 0}
  IN  /\ pc = "scan" /\ readfds = {}
      /\ \/ ~accepts /\ UNCHANGED <<busy, clients, lqueue>>
         \/ /\ accepts /\ found = {}
            /\ client' = [client EXCEPT ![c] = "turned_away"]
            /\ lqueue' = Tail(lqueue)
            /\ UNCHANGED <<busy, port>>
         \/ /\ accepts
            /\ \E s \in found :
                 /\ \A r \in found : s <= r
                 /\ port' = [port EXCEPT ![c] = s]
                 /\ busy' = [busy EXCEPT ![s] = 1]
            /\ client' = [client EXCEPT ![c] = "told"]
            /\ lqueue' = Tail(lqueue)
      /\ pc' = "select" /\ accepts' = FALSE
      /\ UNCHANGED <<readfds, straddled, services, pipe, queue>>

-----------------------------------------------------------------------------
(* service_process. *)

Notify(s, msg) == pipe' = [pipe EXCEPT ![s] = @ \o msg]

Listen(s) ==
  /\ svc[s] = "new"
  /\ svc' = [svc EXCEPT ![s] = "listening"]
  /\ UNCHANGED <<listener, serving, clients, pipe, queue, lqueue>>

SendReady(s) ==
  /\ svc[s] = "listening"
  /\ svc' = [svc EXCEPT ![s] = "accept"]
  /\ Notify(s, Ready)
  /\ UNCHANGED <<listener, serving, clients, queue, lqueue>>

Accept(s) ==
  /\ svc[s] = "accept" /\ queue[s] # <<>>
  /\ svc' = [svc EXCEPT ![s] = "accepted"]
  /\ serving' = [serving EXCEPT ![s] = Head(queue[s])]
  /\ queue' = [queue EXCEPT ![s] = Tail(@)]
  /\ UNCHANGED <<listener, clients, pipe, lqueue>>

SendBusy(s) ==
  /\ svc[s] = "accepted"
  /\ svc' = [svc EXCEPT ![s] = "recv"]
  /\ Notify(s, Busy)
  /\ UNCHANGED <<listener, serving, clients, queue, lqueue>>

(* recv waits for the request; then the time is sent. *)
Serve(s) ==
  /\ svc[s] = "recv" /\ client[serving[s]] = "requested"
  /\ svc' = [svc EXCEPT ![s] = "close"]
  /\ client' = [client EXCEPT ![serving[s]] = "served"]
  /\ UNCHANGED <<listener, serving, port, pipe, queue, lqueue>>

(* Mutant: the listener is not told. *)
CloseSilently(s) ==
  /\ svc[s] = "close"
  /\ svc' = [svc EXCEPT ![s] = "accept"]
  /\ serving' = [serving EXCEPT ![s] = Nobody]
  /\ UNCHANGED <<listener, clients, pipe, queue, lqueue>>

SendFree(s) ==
  /\ svc[s] = "close"
  /\ svc' = [svc EXCEPT ![s] = "accept"]
  /\ serving' = [serving EXCEPT ![s] = Nobody]
  /\ Notify(s, Free)
  /\ UNCHANGED <<listener, clients, queue, lqueue>>

-----------------------------------------------------------------------------
(* client.c *)

AskListener(c) ==
  /\ client[c] = "new"
  /\ client' = [client EXCEPT ![c] = "queued"]
  /\ lqueue' = Append(lqueue, c)
  /\ UNCHANGED <<listener, services, port, pipe, queue>>

(* The connection is refused while the service does not listen yet, which  *)
(* ends the client, and waits while the service's backlog is full.         *)
Connect(c) ==
  LET s == port[c]
  IN  /\ client[c] = "told"
      /\ \/ /\ svc[s] = "new"
            /\ client' = [client EXCEPT ![c] = "refused"]
            /\ UNCHANGED queue
         \/ /\ svc[s] # "new" /\ Len(queue[s]) < 2
            /\ client' = [client EXCEPT ![c] = "connected"]
            /\ queue' = [queue EXCEPT ![s] = Append(@, c)]
      /\ UNCHANGED <<listener, services, port, pipe, lqueue>>

Request(c) ==
  /\ client[c] = "connected"
  /\ client' = [client EXCEPT ![c] = "requested"]
  /\ UNCHANGED <<listener, services, port, pipe, queue, lqueue>>

ListenerStep == Select \/ Dispatch \/ \E s \in Services : ReadPipe(s)
ServiceStep(s) ==
  Listen(s) \/ SendReady(s) \/ Accept(s) \/ SendBusy(s) \/ Serve(s) \/ SendFree(s)
ClientStep(c) == Connect(c) \/ Request(c)

Next ==
  \/ ListenerStep
  \/ \E s \in Services : ServiceStep(s)
  \/ \E c \in Clients : AskListener(c) \/ ClientStep(c)

Spec ==
  /\ Init /\ [][Next]_vars
  /\ WF_vars(ListenerStep)
  /\ \A s \in Services : WF_vars(ServiceStep(s))
  /\ \A c \in Clients : WF_vars(ClientStep(c))

-----------------------------------------------------------------------------
(* Properties. *)

(* Clients that were sent to s and have not reached it, or never will. *)
Expected(s) == {c \in Clients : port[c] = s /\ client[c] \in {"told", "refused"}}

(* busy of service_objs, as long as every read took one message: when all  *)
(* that a service wrote has been read, a service that is serving is marked *)
(* busy, and one marked busy is serving or has been handed a client that   *)
(* has yet to come.  (Reads that take parts of two messages, "busyf" and   *)
(* "freeb", break either half.)                                            *)
BusyFlagIsRight ==
  \A s \in Services \ straddled :
    pipe[s] = <<>> =>
      /\ svc[s] \in {"recv", "close"} => busy[s] = 1
      /\ busy[s] = 1 => svc[s] \in {"accepted", "recv", "close"}
                        \/ queue[s] # <<>> \/ Expected(s) # {}

(* Every client that connects gets the time, is turned away, or was sent   *)
(* to a service that did not listen yet: no client waits for ever, however *)
(* wrong the flags are.                                                    *)
EveryClientEnds ==
  \A c \in Clients :
    (client[c] = "queued") ~> (client[c] \in {"served", "turned_away", "refused"})
=============================================================================
