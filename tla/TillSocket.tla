----------------------------- MODULE TillSocket -----------------------------
(***************************************************************************)
(* How a till hears of an M-PESA payment: its WebSocket to one of the      *)
(* workers, the workers' registries of sockets, and the Redis channel that *)
(* takes an event to all workers.                                          *)
(*                                                                         *)
(* Code: frontend/src/hooks/useMpesaSocket.js; backend/app/routers/ws.py,  *)
(* routers/auth.py (tickets), core/notifier.py (ConnectionManager),        *)
(* core/pubsub.py (WebSocketPubSub), routers/mpesa.py (the notification    *)
(* after the callback's commit).                                           *)
(*                                                                         *)
(* One terminal.  A socket is one run of connect(): first the ticket, from *)
(* a worker the proxy picks, then the connection, to one it picks again;   *)
(* tickets and registries are dictionaries in each worker.  The client and *)
(* the server end of a socket learn of its end separately, and connect,    *)
(* disconnect and a failed send all go by the terminal's name.             *)
(*                                                                         *)
(* Abstracted: employees and what else makes a ticket bad (its 30 s); the  *)
(* heartbeat, by which a handler ends some time after its client is gone;  *)
(* delays.  The page stays; leaving it is a last cleanup.                  *)
(***************************************************************************)
EXTENDS Integers, FiniteSets

CONSTANTS
    Worker,
    Socket,         \* bound: runs of connect() of a behaviour
    Event,          \* notifications of payments
    NoWorker, NoSocket, NoEvent,
    MaxRetries,     \* MAX_RETRIES (10)
    MaxRenders,     \* bound: times the page's callbacks change
    MaxFaults       \* bound: broken connections, late pongs, Redis errors, ended loops

ASSUME NamesAssumption ==
    NoWorker \notin Worker /\ NoSocket \notin Socket /\ NoEvent \notin Event
ASSUME BoundsAssumption ==
    MaxRetries \in Nat /\ MaxRenders \in Nat /\ MaxFaults \in Nat

VARIABLES
    client,     \* each socket's state in the page
    server,     \* and in its worker
    ticket,     \* the worker that issued its ticket
    at,         \* the worker it is connected to
    current,    \* wsRef
    connecting, \* connectingRef
    retries,    \* retryCount
    timers,     \* connect() calls that wait for their delay
    registry,   \* of each worker: the terminal's connection
    lock,       \* of each worker: the socket whose connect() holds _registry_lock
    listening,  \* workers whose _subscriber_loop runs
    inbox,      \* of each worker: events on their way to it
    sending,    \* of each worker: the send at work
    published, received,
    audience,   \* of each event: the sockets that should hear it
    robbed,     \* sockets a send to another one has taken off the registry
    renders, faults

sockets == <<client, server, ticket, at>>
page    == <<current, connecting, retries, timers>>
worker  == <<registry, lock, listening, inbox, sending>>
ghosts  == <<published, received, audience, robbed>>
bounds  == <<renders, faults>>
vars    == <<sockets, page, worker, ghosts, bounds>>

-----------------------------------------------------------------------------
(* State *)

Sending == [pc : {"idle", "send", "pop"}, event : Event \cup {NoEvent},
            conn : Socket \cup {NoSocket}]

Quiet == [pc |-> "idle", event |-> NoEvent, conn |-> NoSocket]

\* The sockets, the page and the workers keep their shape.
TypeOK ==
    /\ client \in [Socket -> {"none", "ticket", "opening", "open", "closing", "closed"}]
    /\ server \in [Socket -> {"none", "accepted", "replacing", "running", "ending", "done"}]
    /\ ticket \in [Socket -> Worker \cup {NoWorker}]
    /\ at \in [Socket -> Worker \cup {NoWorker}]
    /\ current \in Socket \cup {NoSocket}
    /\ connecting \in BOOLEAN
    /\ retries \in 0..MaxRetries
    /\ timers \in Nat
    /\ registry \in [Worker -> Socket \cup {NoSocket}]
    /\ lock \in [Worker -> Socket \cup {NoSocket}]
    /\ listening \in SUBSET Worker
    /\ inbox \in [Worker -> SUBSET Event]
    /\ sending \in [Worker -> Sending]
    /\ published \in SUBSET Event /\ received \in SUBSET Event
    /\ audience \in [Event -> SUBSET Socket]
    /\ robbed \in SUBSET Socket
    /\ renders \in 0..MaxRenders /\ faults \in 0..MaxFaults

Init ==
    /\ client = [s \in Socket |-> "none"]
    /\ server = [s \in Socket |-> "none"]
    /\ ticket = [s \in Socket |-> NoWorker]
    /\ at = [s \in Socket |-> NoWorker]
    /\ current = NoSocket /\ connecting = FALSE /\ retries = 0
    /\ timers = 1                       \* the page's first connect()
    /\ registry = [w \in Worker |-> NoSocket]
    /\ lock = [w \in Worker |-> NoSocket]
    /\ listening = Worker
    /\ inbox = [w \in Worker |-> {}]
    /\ sending = [w \in Worker |-> Quiet]
    /\ published = {} /\ received = {} /\ robbed = {}
    /\ audience = [e \in Event |-> {}]
    /\ renders = 0 /\ faults = 0

Fault == faults < MaxFaults /\ faults' = faults + 1

\* The page or the worker starts to close what is open, or opens, of some sockets.
Closed(some) ==
    [s \in Socket |-> IF s \in some /\ client[s] \in {"opening", "open"} THEN "closing"
                     ELSE client[s]]

-----------------------------------------------------------------------------
(* The page *)

\* connect(): nothing under a run at work, else a new run.
Starts(s, cl) ==
    IF connecting
    THEN client' = cl /\ UNCHANGED connecting
    ELSE cl[s] = "none" /\ client' = [cl EXCEPT ![s] = "ticket"] /\ connecting' = TRUE

Fire(s) ==
    /\ timers > 0
    /\ timers' = timers - 1
    /\ Starts(s, client)
    /\ UNCHANGED <<server, ticket, at, current, retries, worker, ghosts, bounds>>

\* A receipt changes the callbacks: the effect's cleanup drops the last timer
\* and closes the current socket, and the effect runs connect() again: in vain
\* if the socket was opening, whose guard its onclose resets.
Render(s) ==
    /\ renders < MaxRenders
    /\ renders' = renders + 1
    /\ timers' = IF timers > 0 THEN timers - 1 ELSE 0
    /\ Starts(s, Closed({current}))
    /\ UNCHANGED <<server, ticket, at, current, retries, worker, ghosts, faults>>

\* The ticket of POST /auth/ws-ticket, or none; then new WebSocket.
GetTicket(s) ==
    /\ client[s] = "ticket"
    /\ \E w \in Worker \cup {NoWorker} :
        /\ w = NoWorker => Fault
        /\ w # NoWorker => UNCHANGED faults
        /\ ticket' = [ticket EXCEPT ![s] = w]
    /\ client' = [client EXCEPT ![s] = "opening"]
    /\ current' = s
    /\ UNCHANGED <<server, at, connecting, retries, timers, worker, ghosts, renders>>

\* (Mistake) the guard is reset by onopen only.
OnCloseGuarded(s) ==
    /\ client[s] = "closing"
    /\ client' = [client EXCEPT ![s] = "closed"]
    /\ UNCHANGED connecting
    /\ IF retries < MaxRetries THEN retries' = retries + 1 /\ timers' = timers + 1
       ELSE UNCHANGED <<retries, timers>>
    /\ UNCHANGED <<server, ticket, at, current, worker, ghosts, bounds>>

\* onclose: the same whether a retry, the page or the server closed it.
OnClose(s) ==
    /\ client[s] = "closing"
    /\ client' = [client EXCEPT ![s] = "closed"]
    /\ connecting' = FALSE
    /\ IF retries < MaxRetries THEN retries' = retries + 1 /\ timers' = timers + 1
       ELSE UNCHANGED <<retries, timers>>
    /\ UNCHANGED <<server, ticket, at, current, worker, ghosts, bounds>>

\* The line breaks; the worker does not see it yet.
Break(s) ==
    /\ client[s] \in {"opening", "open"}
    /\ Fault
    /\ client' = [client EXCEPT ![s] = "closing"]
    /\ UNCHANGED <<server, ticket, at, page, worker, ghosts, renders>>

-----------------------------------------------------------------------------
(* The worker *)

\* pos_websocket: a ticket of this worker's is used up and the socket accepted,
\* which the page sees as onopen unless it has closed it; another worker's is
\* refused, and no use any more.
Accept(s, w) ==
    /\ client[s] \in {"opening", "closing", "closed"}
    /\ server[s] = "none" /\ ticket[s] = w
    /\ at' = [at EXCEPT ![s] = w]
    /\ server' = [server EXCEPT ![s] = "accepted"]
    /\ IF client[s] = "opening"
       THEN /\ client' = [client EXCEPT ![s] = "open"]
            /\ connecting' = FALSE /\ retries' = 0
       ELSE UNCHANGED <<client, connecting, retries>>
    /\ UNCHANGED <<ticket, current, timers, worker, ghosts, bounds>>

Refuse(s, w) ==
    /\ client[s] = "opening" /\ ticket[s] # w
    /\ client' = [client EXCEPT ![s] = "closing"]
    /\ ticket' = [ticket EXCEPT ![s] = NoWorker]
    /\ UNCHANGED <<server, at, page, worker, ghosts, bounds>>

\* ConnectionManager.connect: under the lock the old connection is closed ...
Replace(s) ==
    LET w == at[s] IN
    /\ server[s] = "accepted" /\ lock[w] = NoSocket
    /\ lock' = [lock EXCEPT ![w] = s]
    /\ server' = [server EXCEPT ![s] = "replacing"]
    /\ client' = Closed({registry[w]})
    /\ UNCHANGED <<ticket, at, page, registry, listening, inbox, sending, ghosts, bounds>>

\* ... and the new one registered.
Register(s) ==
    LET w == at[s] IN
    /\ server[s] = "replacing"
    /\ registry' = [registry EXCEPT ![w] = s]
    /\ lock' = [lock EXCEPT ![w] = NoSocket]
    /\ server' = [server EXCEPT ![s] = "running"]
    /\ UNCHANGED <<client, ticket, at, page, listening, inbox, sending, ghosts, bounds>>

\* A disconnect, or no pong in time although the page is there.
HandlerEnds(s) ==
    /\ server[s] = "running"
    /\ IF client[s] = "open" THEN Fault ELSE UNCHANGED faults
    /\ server' = [server EXCEPT ![s] = "ending"]
    /\ UNCHANGED <<client, ticket, at, page, worker, ghosts, renders>>

\* (Mistake) what is taken off is not closed.
TakeOffOpen(s) ==
    LET w == at[s] IN
    /\ server[s] = "ending" /\ lock[w] = NoSocket
    /\ server' = [server EXCEPT ![s] = "done"]
    /\ client' = Closed({s})
    /\ registry' = [registry EXCEPT ![w] = NoSocket]
    /\ UNCHANGED <<ticket, at, page, lock, listening, inbox, sending, ghosts, bounds>>

\* The handler's finally: the terminal's connection is taken off and closed,
\* whichever it is by now; the server closes the handler's own.
Disconnect(s) ==
    LET w == at[s] IN
    /\ server[s] = "ending" /\ lock[w] = NoSocket
    /\ server' = [server EXCEPT ![s] = "done"]
    /\ client' = Closed({s, registry[w]})
    /\ registry' = [registry EXCEPT ![w] = NoSocket]
    /\ UNCHANGED <<ticket, at, page, lock, listening, inbox, sending, ghosts, bounds>>

-----------------------------------------------------------------------------
(* Events *)

Hears(w) == IF registry[w] # NoSocket /\ client[registry[w]] = "open"
            THEN {registry[w]} ELSE {}

\* (Mistake) a worker passes over what it published itself.
PublishElsewhere(e, w) ==
    /\ e \notin published
    /\ published' = published \cup {e}
    /\ \E to \in {listening, {w}} :
        /\ IF to = listening THEN UNCHANGED faults ELSE Fault
        /\ inbox' = [v \in Worker |-> IF v \in to \ {w} THEN inbox[v] \cup {e} ELSE inbox[v]]
        /\ audience' = [audience EXCEPT ![e] = UNION {Hears(v) : v \in to}]
    /\ UNCHANGED <<sockets, page, registry, lock, listening, sending, received, robbed,
                   renders>>

\* The callback's worker w publishes after its commit: to every worker that
\* listens, or, when Redis fails, to its own sockets.
Publish(e, w) ==
    /\ e \notin published
    /\ published' = published \cup {e}
    /\ \E to \in {listening, {w}} :
        /\ IF to = listening THEN UNCHANGED faults ELSE Fault
        /\ inbox' = [v \in Worker |-> IF v \in to THEN inbox[v] \cup {e} ELSE inbox[v]]
        /\ audience' = [audience EXCEPT ![e] = UNION {Hears(v) : v \in to}]
    /\ UNCHANGED <<sockets, page, registry, lock, listening, sending, received, robbed,
                   renders>>

\* An error ends the loop for good, and with it what Redis had for it.
LoopEnds(w) ==
    /\ w \in listening
    /\ Fault
    /\ listening' = listening \ {w}
    /\ inbox' = [inbox EXCEPT ![w] = {}]
    /\ UNCHANGED <<sockets, page, registry, lock, sending, ghosts, renders>>

\* manager.send: the connection is looked up without the lock.
LookUp(w, e) ==
    /\ sending[w].pc = "idle" /\ e \in inbox[w]
    /\ inbox' = [inbox EXCEPT ![w] = @ \ {e}]
    /\ sending' = IF registry[w] = NoSocket THEN sending
                  ELSE [sending EXCEPT ![w] =
                          [pc |-> "send", event |-> e, conn |-> registry[w]]]
    /\ UNCHANGED <<sockets, page, registry, lock, listening, ghosts, bounds>>

\* To an open socket it arrives; to one that has gone it fails, or is lost in
\* the line before the worker knows.
Send(w) ==
    LET s == sending[w].conn IN
    /\ sending[w].pc = "send"
    /\ IF client[s] = "open"
       THEN /\ received' = received \cup {sending[w].event}
            /\ sending' = [sending EXCEPT ![w] = Quiet]
       ELSE /\ UNCHANGED received
            /\ \/ sending' = [sending EXCEPT ![w].pc = "pop"]
               \/ server[s] = "running" /\ sending' = [sending EXCEPT ![w] = Quiet]
    /\ UNCHANGED <<sockets, page, registry, lock, listening, inbox, published, audience,
                   robbed, bounds>>

\* A failed send takes the terminal off the registry, and does not close what
\* it takes off.
Pop(w) ==
    /\ sending[w].pc = "pop" /\ lock[w] = NoSocket
    /\ robbed' = robbed \cup ({registry[w]} \ {NoSocket, sending[w].conn})
    /\ registry' = [registry EXCEPT ![w] = NoSocket]
    /\ sending' = [sending EXCEPT ![w] = Quiet]
    /\ UNCHANGED <<sockets, page, lock, listening, inbox, published, received, audience,
                   bounds>>

-----------------------------------------------------------------------------

Page(s) == Fire(s) \/ Render(s) \/ GetTicket(s) \/ OnClose(s) \/ Break(s)

Handler(s) ==
    \/ \E w \in Worker : Accept(s, w) \/ Refuse(s, w)
    \/ Replace(s) \/ Register(s) \/ HandlerEnds(s) \/ Disconnect(s)

Notifier(w) ==
    \/ \E e \in Event : Publish(e, w) \/ LookUp(w, e)
    \/ LoopEnds(w) \/ Send(w) \/ Pop(w)

Next ==
    \/ \E s \in Socket : Page(s) \/ Handler(s)
    \/ \E w \in Worker : Notifier(w)

Spec == Init /\ [][Next]_vars

-----------------------------------------------------------------------------
(* Properties *)

\* No entry of a registry outlives its handler: the connection it names is one
\* of this worker's whose finally has not run.
RegisteredIsServed ==
    \A w \in Worker : registry[w] # NoSocket =>
        at[registry[w]] = w /\ server[registry[w]] \in {"running", "ending"}

\* A till that thinks it is connected can be reached: an open socket is in its
\* worker's registry once its connect() is done, unless a send to the socket
\* before it has failed late and taken it off.
OpenIsRegistered ==
    \A s \in Socket :
        client[s] = "open" /\ server[s] \in {"running", "ending"} /\ s \notin robbed =>
            registry[at[s]] = s

\* Registries and sockets keep their shape and agree: what is registered is
\* served, and what is open is registered, over every reconnection.
RegistryAgrees == TypeOK /\ RegisteredIsServed /\ OpenIsRegistered

InFlight(e) == \E w \in Worker : e \in inbox[w] \/ sending[w].event = e

\* A payment reaches the till: when no worker has the event any more, the till
\* has it, or each socket that should have heard it has closed, has been taken
\* off, or was on a worker that no longer listens.
ReachesWhoStays ==
    \A e \in published \ received : InFlight(e) \/
        \A s \in audience[e] :
            client[s] # "open" \/ s \in robbed \/ at[s] \notin listening

\* The till keeps trying: without a socket at work and without a timer it has
\* used up its retries.
KeepsTrying ==
    /\ \A s \in Socket : client[s] \in {"none", "closed"}
    /\ timers = 0
    => retries = MaxRetries

\* The guard does not outlive the run that set it.
GuardIsHeld ==
    connecting => \E s \in Socket : client[s] \in {"ticket", "opening", "closing"}

\* The page neither stops trying before its limit nor locks itself out.
NeverStuck == KeepsTrying /\ GuardIsHeld
=============================================================================
