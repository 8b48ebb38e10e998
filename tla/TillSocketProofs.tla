-------------------------- MODULE TillSocketProofs --------------------------
(***************************************************************************)
(* Proofs about TillSocket, for every number of workers, sockets, events,  *)
(* retries and faults: registries and sockets agree, a payment reaches the *)
(* sockets that stay, and the page is never stuck.                         *)
(***************************************************************************)
EXTENDS TillSocket, TLAPS

\* The types rest on one more fact: a send at work has an event in hand.
SendHasEvent == \A w \in Worker : sending[w].pc # "idle" => sending[w].event \in Event

TypeInv == TypeOK /\ SendHasEvent

(***************************************************************************)
(* What the registry relies on.  A socket that is open has a handler at    *)
(* work, and a handler a worker; whoever is replacing a connection holds   *)
(* the lock of its worker and has closed the connection it replaces; a     *)
(* send at work has a connection of its worker in hand, and one that is    *)
(* about to take the terminal off has found it gone.                       *)
(***************************************************************************)
OpenIsServed ==
    \A s \in Socket :
        /\ server[s] # "none" => at[s] \in Worker
        /\ client[s] \in {"none", "ticket", "opening"} => server[s] = "none"
        /\ client[s] = "open" =>
              server[s] \in {"accepted", "replacing", "running", "ending"}

LockIsHeld ==
    /\ \A w \in Worker : lock[w] # NoSocket =>
          server[lock[w]] = "replacing" /\ at[lock[w]] = w
    /\ \A s \in Socket : server[s] = "replacing" => lock[at[s]] = s

ReplacedIsClosed ==
    \A s \in Socket : server[s] = "replacing" =>
        registry[at[s]] = NoSocket \/ client[registry[at[s]]] # "open"

SendIsOfWorker ==
    \A w \in Worker : sending[w].pc # "idle" =>
        /\ sending[w].conn \in Socket
        /\ at[sending[w].conn] = w
        /\ server[sending[w].conn] \in {"running", "ending", "done"}

PopFoundItGone ==
    \A w \in Worker : sending[w].pc = "pop" => client[sending[w].conn] # "open"

ServingInv ==
    /\ TypeInv
    /\ OpenIsServed /\ LockIsHeld /\ SendIsOfWorker /\ PopFoundItGone
    /\ RegisteredIsServed

RegistryInv == ServingInv /\ ReplacedIsClosed /\ OpenIsRegistered

(***************************************************************************)
(* What a payment on its way relies on: the worker of a socket that should *)
(* hear it has the event, or is sending it to that very socket.            *)
(***************************************************************************)
AudienceIsServed ==
    \A e \in Event : \A s \in audience[e] : server[s] \in {"running", "ending", "done"}

StillHears(s) == client[s] = "open" /\ s \notin robbed /\ at[s] \in listening

OnItsWay(e, s) ==
    \/ e \in inbox[at[s]]
    \/ /\ sending[at[s]].pc = "send"
       /\ sending[at[s]].event = e /\ sending[at[s]].conn = s

AudienceIsAwaited ==
    \A e \in published \ received : \A s \in audience[e] :
        StillHears(s) => OnItsWay(e, s)

PaymentInv == RegistryInv /\ AudienceIsServed /\ AudienceIsAwaited

USE NamesAssumption, BoundsAssumption

-----------------------------------------------------------------------------
(* Types *)

ClientStates == {"none", "ticket", "opening", "open", "closing", "closed"}

ServerStates == {"none", "accepted", "replacing", "running", "ending", "done"}

LEMMA QuietType == Quiet \in Sending
BY DEF Quiet, Sending

LEMMA TypeInit == Init => TypeOK
<1> SUFFICES ASSUME Init PROVE TypeOK
  OBVIOUS
<1>1. /\ client \in [Socket -> ClientStates] /\ server \in [Socket -> ServerStates]
      /\ ticket \in [Socket -> Worker \cup {NoWorker}]
      /\ at \in [Socket -> Worker \cup {NoWorker}]
  BY DEF Init, ClientStates, ServerStates
<1>2. /\ registry \in [Worker -> Socket \cup {NoSocket}]
      /\ lock \in [Worker -> Socket \cup {NoSocket}]
      /\ inbox \in [Worker -> SUBSET Event] /\ listening \in SUBSET Worker
      /\ sending \in [Worker -> Sending]
  BY QuietType DEF Init
<1>3. audience \in [Event -> SUBSET Socket]
  BY DEF Init
<1>4. retries \in 0..MaxRetries /\ timers \in Nat
      /\ renders \in 0..MaxRenders /\ faults \in 0..MaxFaults
  BY DEF Init
<1> QED
  BY <1>1, <1>2, <1>3, <1>4 DEF Init, TypeOK, ClientStates, ServerStates

LEMMA FaultType == TypeOK /\ Fault => faults' \in 0..MaxFaults
BY DEF TypeOK, Fault

LEMMA ClosedType ==
    ASSUME TypeOK, NEW some
    PROVE  /\ Closed(some) \in [Socket -> ClientStates]
           /\ \A q \in Socket : Closed(some)[q] =
                IF q \in some /\ client[q] \in {"opening", "open"} THEN "closing"
                ELSE client[q]
BY DEF TypeOK, Closed, ClientStates

LEMMA StartsType ==
    ASSUME TypeOK, NEW s \in Socket, NEW cl \in [Socket -> ClientStates], Starts(s, cl)
    PROVE  client' \in [Socket -> ClientStates] /\ connecting' \in BOOLEAN
BY DEF TypeOK, Starts, ClientStates

LEMMA TypeStep == TypeInv /\ [Next]_vars => TypeOK'
<1> SUFFICES ASSUME TypeOK, SendHasEvent, [Next]_vars PROVE TypeOK'
  BY DEF TypeInv
<1> USE DEF sockets, page, worker, ghosts, bounds
<1>1. ASSUME NEW s \in Socket, Page(s) PROVE TypeOK'
  <2>1. CASE Fire(s)
    <3>1. client' \in [Socket -> ClientStates] /\ connecting' \in BOOLEAN
      BY <2>1, StartsType DEF Fire, TypeOK, ClientStates
    <3>2. timers' \in Nat
      BY <2>1 DEF Fire, TypeOK
    <3> QED
      BY <2>1, <3>1, <3>2 DEF Fire, TypeOK, ClientStates
  <2>2. CASE Render(s)
    <3> DEFINE cl == Closed({current})
    <3>1. cl \in [Socket -> ClientStates]
      BY ClosedType DEF TypeOK, ClientStates
    <3>2. Starts(s, cl)
      BY <2>2 DEF Render
    <3> HIDE DEF cl
    <3>3. client' \in [Socket -> ClientStates]
          /\ connecting' \in BOOLEAN
      BY <3>1, <3>2, StartsType
    <3>4. timers' \in Nat /\ renders' \in 0..MaxRenders
      BY <2>2 DEF Render, TypeOK
    <3> QED
      BY <2>2, <3>3, <3>4 DEF Render, TypeOK, ClientStates
  <2>3. CASE GetTicket(s)
    BY <2>3, FaultType DEF GetTicket, TypeOK
  <2>4. CASE OnClose(s)
    <3>1. client' \in [Socket -> ClientStates]
      BY <2>4 DEF OnClose, TypeOK, ClientStates
    <3>2. retries' \in 0..MaxRetries /\ timers' \in Nat
      BY <2>4 DEF OnClose, TypeOK
    <3> QED
      BY <2>4, <3>1, <3>2 DEF OnClose, TypeOK, ClientStates
  <2>5. CASE Break(s)
    BY <2>5, FaultType DEF Break, TypeOK
  <2> QED
    BY <1>1, <2>1, <2>2, <2>3, <2>4, <2>5 DEF Page
<1>2. ASSUME NEW s \in Socket, Handler(s) PROVE TypeOK'
  <2>1. ASSUME NEW w \in Worker, Accept(s, w) PROVE TypeOK'
    <3>1. /\ client' \in [Socket -> ClientStates] /\ server' \in [Socket -> ServerStates]
          /\ at' \in [Socket -> Worker \cup {NoWorker}]
      BY <2>1 DEF Accept, TypeOK, ClientStates, ServerStates
    <3>2. retries \in 0..MaxRetries /\ connecting \in BOOLEAN
      BY DEF TypeOK
    <3>3. /\ retries' = 0 \/ retries' = retries
          /\ connecting' = FALSE \/ connecting' = connecting
      BY <2>1 DEF Accept
    <3>4. retries' \in 0..MaxRetries
      BY <3>2, <3>3
    <3>5. connecting' \in BOOLEAN
      BY <3>2, <3>3, Zenon
    <3> QED
      BY <2>1, <3>1, <3>4, <3>5 DEF Accept, TypeOK, ClientStates, ServerStates
  <2>2. ASSUME NEW w \in Worker, Refuse(s, w) PROVE TypeOK'
    BY <2>2 DEF Refuse, TypeOK
  <2>3. CASE Replace(s)
    <3>2. client' \in [Socket -> ClientStates]
      BY <2>3, ClosedType DEF Replace, TypeOK, ClientStates
    <3>3. lock' \in [Worker -> Socket \cup {NoSocket}] /\ server' \in [Socket -> ServerStates]
      BY <2>3 DEF Replace, TypeOK, ServerStates
    <3> QED
      BY <2>3, <3>2, <3>3 DEF Replace, TypeOK, ClientStates, ServerStates
  <2>4. CASE Register(s)
    BY <2>4 DEF Register, TypeOK
  <2>5. CASE HandlerEnds(s)
    BY <2>5, FaultType DEF HandlerEnds, TypeOK
  <2>6. CASE Disconnect(s)
    <3>2. client' \in [Socket -> ClientStates]
      BY <2>6, ClosedType DEF Disconnect, TypeOK, ClientStates
    <3>3. registry' \in [Worker -> Socket \cup {NoSocket}]
          /\ server' \in [Socket -> ServerStates]
      BY <2>6 DEF Disconnect, TypeOK, ServerStates
    <3> QED
      BY <2>6, <3>2, <3>3 DEF Disconnect, TypeOK, ClientStates, ServerStates
  <2> QED
    BY <1>2, <2>1, <2>2, <2>3, <2>4, <2>5, <2>6 DEF Handler
<1>3. ASSUME NEW w \in Worker, Notifier(w) PROVE TypeOK'
  <2>1. ASSUME NEW e \in Event, Publish(e, w) PROVE TypeOK'
    BY <2>1, FaultType DEF Publish, Hears, TypeOK
  <2>2. ASSUME NEW e \in Event, LookUp(w, e) PROVE TypeOK'
    BY <2>2 DEF LookUp, TypeOK, Sending
  <2>3. CASE LoopEnds(w)
    BY <2>3, FaultType DEF LoopEnds, TypeOK
  <2>4. CASE Send(w)
    <3>1. sending' \in [Worker -> Sending]
      BY <2>4, QuietType DEF Send, TypeOK, Sending
    <3>2. received' \in SUBSET Event
      BY <2>4 DEF Send, TypeOK, SendHasEvent
    <3> QED
      BY <2>4, <3>1, <3>2 DEF Send, TypeOK
  <2>5. CASE Pop(w)
    BY <2>5 DEF Pop, TypeOK, Sending, Quiet
  <2> QED
    BY <1>3, <2>1, <2>2, <2>3, <2>4, <2>5 DEF Notifier
<1>4. CASE UNCHANGED vars
  BY <1>4 DEF vars, TypeOK
<1> QED
  BY <1>1, <1>2, <1>3, <1>4 DEF Next

LEMMA EventStep == TypeInv /\ [Next]_vars => SendHasEvent'
<1> SUFFICES ASSUME TypeOK, SendHasEvent, [Next]_vars PROVE SendHasEvent'
  BY DEF TypeInv
<1> USE DEF sockets, page, worker, ghosts, bounds
<1>1. CASE UNCHANGED sending
  BY <1>1 DEF SendHasEvent
<1>2. ASSUME NEW w \in Worker, NEW e \in Event, LookUp(w, e) PROVE SendHasEvent'
  BY <1>2 DEF LookUp, SendHasEvent, TypeOK
<1>3. ASSUME NEW w \in Worker, Send(w) \/ Pop(w) PROVE SendHasEvent'
  <2>1. /\ sending \in [Worker -> Sending]
        /\ \/ sending' = [sending EXCEPT ![w] = Quiet]
           \/ sending[w].pc = "send" /\ sending' = [sending EXCEPT ![w].pc = "pop"]
           \/ sending' = sending
    BY <1>3 DEF Send, Pop, TypeOK
  <2>2. \A v \in Worker : \/ sending'[v] = sending[v] \/ sending'[v] = Quiet
                          \/ /\ sending[v].pc = "send"
                             /\ sending'[v].event = sending[v].event
    BY <2>1 DEF Sending
  <2> QED
    BY <2>2 DEF SendHasEvent, Quiet
<1>4. ASSUME NEW s \in Socket, Page(s) PROVE UNCHANGED sending
  BY <1>4 DEF Page, Fire, Render, GetTicket, OnClose, Break
<1>5. ASSUME NEW s \in Socket, Handler(s) PROVE UNCHANGED sending
  BY <1>5 DEF Handler, Accept, Refuse, Replace, Register, HandlerEnds, Disconnect
<1>6. ASSUME NEW w \in Worker, NEW e \in Event, Publish(e, w) PROVE UNCHANGED sending
  BY <1>6 DEF Publish
<1>7. ASSUME NEW w \in Worker, LoopEnds(w) PROVE UNCHANGED sending
  BY <1>7 DEF LoopEnds
<1> QED
  BY <1>1, <1>2, <1>3, <1>4, <1>5, <1>6, <1>7 DEF Next, Notifier, vars

LEMMA TypeInvariant == Spec => []TypeInv
<1>1. Init => TypeInv
  BY TypeInit DEF TypeInv, Init, SendHasEvent, Quiet
<1>2. TypeInv /\ [Next]_vars => TypeInv'
  BY TypeStep, EventStep DEF TypeInv
<1> QED
  BY <1>1, <1>2, PTL DEF Spec

\* The sockets, the page and the workers keep their shape (TypeOK).
THEOREM TypeCorrect == Spec => []TypeOK
<1>1. TypeInv => TypeOK
  BY DEF TypeInv
<1> QED
  BY <1>1, TypeInvariant, PTL

-----------------------------------------------------------------------------
(* Registries and sockets *)

\* No step but Accept opens a socket or gives it a handler; the others only
\* let a run of connect() get on.
GetsOn ==
    \A q \in Socket :
        /\ client'[q] = "open" => client[q] = "open"
        /\ client'[q] \in {"none", "ticket", "opening"} =>
              client[q] \in {"none", "ticket", "opening"}

LEMMA ClosedGetsOn == TypeOK /\ (\E x : client' = Closed(x)) => GetsOn
BY ClosedType DEF GetsOn

LEMMA PageGetsOn ==
    ASSUME TypeOK, NEW s \in Socket, Page(s)
    PROVE  GetsOn /\ UNCHANGED <<server, at, worker, ghosts>>
<1> USE DEF sockets, page, worker, ghosts, bounds
<1>1. ASSUME NEW cl \in [Socket -> ClientStates], Starts(s, cl),
             \A q \in Socket : cl[q] = client[q] \/ cl[q] = "closing"
      PROVE  GetsOn
  BY <1>1 DEF Starts, GetsOn, TypeOK, ClientStates
<1>2. CASE Fire(s)
  BY <1>1, <1>2 DEF Fire, TypeOK, ClientStates
<1>3. CASE Render(s)
  <2> DEFINE cl == Closed({current})
  <2>1. /\ cl \in [Socket -> ClientStates]
        /\ \A q \in Socket : cl[q] = client[q] \/ cl[q] = "closing"
    BY ClosedType DEF TypeOK, ClientStates
  <2>2. Starts(s, cl)
    BY <1>3 DEF Render
  <2> HIDE DEF cl
  <2>3. GetsOn
    BY <1>1, <2>1, <2>2
  <2> QED
    BY <1>3, <2>3 DEF Render
<1>4. CASE GetTicket(s)
  BY <1>4 DEF GetTicket, GetsOn, TypeOK
<1>5. CASE OnClose(s)
  BY <1>5 DEF OnClose, GetsOn, TypeOK
<1>6. CASE Break(s)
  BY <1>6 DEF Break, GetsOn, TypeOK
<1> QED
  BY <1>2, <1>3, <1>4, <1>5, <1>6 DEF Page

\* A step that moves no handler, registry, lock or send keeps the registry's
\* invariant.
LEMMA GetsOnFrame ==
    ASSUME RegistryInv, TypeInv', GetsOn,
           UNCHANGED <<server, at, lock, registry, sending, robbed>>
    PROVE  RegistryInv'
<1> USE DEF RegistryInv, ServingInv
<1>1. OpenIsServed'
  BY DEF OpenIsServed, GetsOn
<1>2. LockIsHeld' /\ SendIsOfWorker' /\ RegisteredIsServed'
  BY DEF LockIsHeld, SendIsOfWorker, RegisteredIsServed
<1>3. PopFoundItGone'
  BY DEF PopFoundItGone, SendIsOfWorker, GetsOn, TypeInv, TypeOK
<1>4. \A s \in Socket : server[s] = "replacing" => registry[at[s]] \in Socket \cup {NoSocket}
  BY DEF OpenIsServed, TypeInv, TypeOK
<1>5. ReplacedIsClosed'
  BY <1>4 DEF ReplacedIsClosed, GetsOn
<1>6. OpenIsRegistered'
  BY DEF OpenIsRegistered, GetsOn
<1> QED
  BY <1>1, <1>2, <1>3, <1>5, <1>6

LEMMA AcceptRegistry ==
    ASSUME RegistryInv, TypeInv', NEW s \in Socket, NEW w \in Worker, Accept(s, w)
    PROVE  RegistryInv'
<1> USE DEF RegistryInv, ServingInv
<1>1. /\ server[s] = "none"
      /\ server' = [server EXCEPT ![s] = "accepted"] /\ at' = [at EXCEPT ![s] = w]
      /\ client[s] \in {"opening", "closing", "closed"}
      /\ \/ client' = [client EXCEPT ![s] = "open"]
         \/ client[s] # "opening" /\ client' = client
      /\ UNCHANGED <<lock, registry, sending, robbed>>
  BY DEF Accept, worker, ghosts
<1>2. /\ server \in [Socket -> ServerStates] /\ client \in [Socket -> ClientStates]
      /\ at \in [Socket -> Worker \cup {NoWorker}]
      /\ lock \in [Worker -> Socket \cup {NoSocket}]
      /\ registry \in [Worker -> Socket \cup {NoSocket}]
  BY DEF TypeInv, TypeOK, ServerStates, ClientStates
<1>3. OpenIsServed'
  BY <1>1, <1>2 DEF OpenIsServed
<1>4. LockIsHeld'
  BY <1>1, <1>2 DEF LockIsHeld
<1>5. SendIsOfWorker' /\ PopFoundItGone'
  BY <1>1, <1>2 DEF SendIsOfWorker, PopFoundItGone
<1>6. RegisteredIsServed'
  BY <1>1, <1>2 DEF RegisteredIsServed
<1>7. ReplacedIsClosed'
  BY <1>1, <1>2, <1>6 DEF ReplacedIsClosed, RegisteredIsServed, OpenIsServed
<1>8. OpenIsRegistered'
  BY <1>1, <1>2 DEF OpenIsRegistered
<1> QED
  BY <1>3, <1>4, <1>5, <1>6, <1>7, <1>8

LEMMA ReplaceRegistry ==
    ASSUME RegistryInv, TypeInv', NEW s \in Socket, Replace(s)
    PROVE  RegistryInv'
<1> USE DEF RegistryInv, ServingInv
<1> DEFINE w == at[s]
<1>1. /\ server[s] = "accepted" /\ lock[w] = NoSocket /\ w \in Worker
      /\ server' = [server EXCEPT ![s] = "replacing"] /\ lock' = [lock EXCEPT ![w] = s]
      /\ UNCHANGED <<at, registry, sending, robbed>>
  BY DEF Replace, OpenIsServed, ghosts
<1>2. /\ server \in [Socket -> ServerStates] /\ client \in [Socket -> ClientStates]
      /\ at \in [Socket -> Worker \cup {NoWorker}]
      /\ lock \in [Worker -> Socket \cup {NoSocket}]
      /\ registry \in [Worker -> Socket \cup {NoSocket}]
  BY DEF TypeInv, TypeOK, ServerStates, ClientStates
<1>3. GetsOn /\ (registry[w] # NoSocket => client'[registry[w]] # "open")
  BY <1>1, <1>2, ClosedType DEF Replace, GetsOn, TypeInv
<1> HIDE DEF w
<1>4. at[s] = w
  BY DEF w
<1>5. OpenIsServed'
  BY <1>1, <1>2, <1>3 DEF OpenIsServed, GetsOn
<1>6. LockIsHeld'
  BY <1>1, <1>2, <1>4 DEF LockIsHeld, OpenIsServed
<1>7. SendIsOfWorker' /\ PopFoundItGone'
  BY <1>1, <1>2, <1>3 DEF SendIsOfWorker, PopFoundItGone, GetsOn
<1>8. RegisteredIsServed'
  BY <1>1, <1>2 DEF RegisteredIsServed
<1>9. ReplacedIsClosed'
  BY <1>1, <1>2, <1>3, <1>4 DEF ReplacedIsClosed, GetsOn, OpenIsServed
<1>10. OpenIsRegistered'
  BY <1>1, <1>2, <1>3 DEF OpenIsRegistered, GetsOn
<1> QED
  BY <1>5, <1>6, <1>7, <1>8, <1>9, <1>10

LEMMA RegisterRegistry ==
    ASSUME RegistryInv, TypeInv', NEW s \in Socket, Register(s)
    PROVE  RegistryInv'
<1> USE DEF RegistryInv, ServingInv
<1> DEFINE w == at[s]
<1>1. /\ server[s] = "replacing" /\ lock[w] = s /\ w \in Worker
      /\ server' = [server EXCEPT ![s] = "running"] /\ lock' = [lock EXCEPT ![w] = NoSocket]
      /\ registry' = [registry EXCEPT ![w] = s]
      /\ UNCHANGED <<client, at, sending, robbed>>
  BY DEF Register, OpenIsServed, LockIsHeld, ghosts
<1>2. /\ server \in [Socket -> ServerStates] /\ client \in [Socket -> ClientStates]
      /\ at \in [Socket -> Worker \cup {NoWorker}]
      /\ lock \in [Worker -> Socket \cup {NoSocket}]
      /\ registry \in [Worker -> Socket \cup {NoSocket}]
  BY DEF TypeInv, TypeOK, ServerStates, ClientStates
<1> HIDE DEF w
<1>3. at[s] = w
  BY DEF w
<1>4. OpenIsServed'
  BY <1>1, <1>2 DEF OpenIsServed
<1>5. LockIsHeld'
  BY <1>1, <1>2, <1>3 DEF LockIsHeld
<1>6. SendIsOfWorker' /\ PopFoundItGone'
  BY <1>1, <1>2 DEF SendIsOfWorker, PopFoundItGone
<1>7. RegisteredIsServed'
  BY <1>1, <1>2, <1>3 DEF RegisteredIsServed
<1>8. \A q \in Socket : server'[q] = "replacing" => at[q] # w
  BY <1>1, <1>2, <1>3 DEF LockIsHeld
<1>9. ReplacedIsClosed'
  BY <1>1, <1>2, <1>8 DEF ReplacedIsClosed, OpenIsServed
<1>10. registry[w] = NoSocket \/ client[registry[w]] # "open"
  BY <1>1, <1>3 DEF ReplacedIsClosed
<1>11. OpenIsRegistered'
  BY <1>1, <1>2, <1>3, <1>10 DEF OpenIsRegistered
<1> QED
  BY <1>4, <1>5, <1>6, <1>7, <1>9, <1>11

LEMMA HandlerEndsRegistry ==
    ASSUME RegistryInv, TypeInv', NEW s \in Socket, HandlerEnds(s)
    PROVE  RegistryInv'
<1> USE DEF RegistryInv, ServingInv
<1>1. /\ server[s] = "running"
      /\ client[s] \notin {"none", "ticket", "opening"}
      /\ server' = [server EXCEPT ![s] = "ending"]
      /\ UNCHANGED <<client, at, lock, registry, sending, robbed>>
  BY DEF HandlerEnds, OpenIsServed, worker, ghosts
<1>2. /\ server \in [Socket -> ServerStates]
      /\ lock \in [Worker -> Socket \cup {NoSocket}]
      /\ registry \in [Worker -> Socket \cup {NoSocket}]
  BY DEF TypeInv, TypeOK, ServerStates
<1>3. OpenIsServed'
  BY <1>1, <1>2 DEF OpenIsServed
<1>4. LockIsHeld'
  BY <1>1, <1>2 DEF LockIsHeld
<1>5. SendIsOfWorker' /\ PopFoundItGone'
  BY <1>1, <1>2 DEF SendIsOfWorker, PopFoundItGone
<1>6. RegisteredIsServed'
  BY <1>1, <1>2 DEF RegisteredIsServed
<1>7. ReplacedIsClosed' /\ OpenIsRegistered'
  BY <1>1, <1>2 DEF ReplacedIsClosed, OpenIsRegistered
<1> QED
  BY <1>3, <1>4, <1>5, <1>6, <1>7

LEMMA DisconnectRegistry ==
    ASSUME RegistryInv, TypeInv', NEW s \in Socket, Disconnect(s)
    PROVE  RegistryInv'
<1> USE DEF RegistryInv, ServingInv
<1> DEFINE w == at[s]
<1>1. /\ server[s] = "ending" /\ lock[w] = NoSocket /\ w \in Worker
      /\ server' = [server EXCEPT ![s] = "done"]
      /\ registry' = [registry EXCEPT ![w] = NoSocket]
      /\ UNCHANGED <<at, lock, sending, robbed>>
  BY DEF Disconnect, OpenIsServed, ghosts
<1>2. /\ server \in [Socket -> ServerStates] /\ client \in [Socket -> ClientStates]
      /\ at \in [Socket -> Worker \cup {NoWorker}]
      /\ lock \in [Worker -> Socket \cup {NoSocket}]
      /\ registry \in [Worker -> Socket \cup {NoSocket}]
  BY DEF TypeInv, TypeOK, ServerStates, ClientStates
<1>3. /\ GetsOn /\ client'[s] # "open"
      /\ registry[w] # NoSocket => client'[registry[w]] # "open"
  BY <1>1, <1>2, ClosedType DEF Disconnect, GetsOn, TypeInv
<1> HIDE DEF w
<1>4. at[s] = w
  BY DEF w
<1>5. OpenIsServed'
  BY <1>1, <1>2, <1>3 DEF OpenIsServed, GetsOn
<1>6. LockIsHeld'
  BY <1>1, <1>2 DEF LockIsHeld
<1>7. SendIsOfWorker' /\ PopFoundItGone'
  BY <1>1, <1>2, <1>3 DEF SendIsOfWorker, PopFoundItGone, GetsOn
<1>8. RegisteredIsServed'
  BY <1>1, <1>2, <1>4 DEF RegisteredIsServed
<1>9. ReplacedIsClosed'
  BY <1>1, <1>2, <1>3 DEF ReplacedIsClosed, GetsOn, OpenIsServed
<1>10. OpenIsRegistered'
  BY <1>1, <1>2, <1>3 DEF OpenIsRegistered, GetsOn, OpenIsServed
<1> QED
  BY <1>5, <1>6, <1>7, <1>8, <1>9, <1>10

\* A step of a send, of which only the entry of worker w changes.
LEMMA LookUpRegistry ==
    ASSUME RegistryInv, TypeInv', NEW w \in Worker, NEW e \in Event, LookUp(w, e)
    PROVE  RegistryInv'
<1> USE DEF RegistryInv, ServingInv
<1>1. /\ UNCHANGED <<client, server, at, lock, registry, robbed>>
      /\ \/ sending' = sending
         \/ /\ registry[w] # NoSocket
            /\ sending' = [sending EXCEPT ![w] =
                             [pc |-> "send", event |-> e, conn |-> registry[w]]]
  BY DEF LookUp, sockets, ghosts
<1>2. /\ registry \in [Worker -> Socket \cup {NoSocket}] /\ sending \in [Worker -> Sending]
  BY DEF TypeInv, TypeOK
<1>3. SendIsOfWorker' /\ PopFoundItGone'
  BY <1>1, <1>2 DEF SendIsOfWorker, PopFoundItGone, RegisteredIsServed
<1>4. OpenIsServed' /\ LockIsHeld' /\ RegisteredIsServed'
  BY <1>1 DEF OpenIsServed, LockIsHeld, RegisteredIsServed
<1>5. ReplacedIsClosed' /\ OpenIsRegistered'
  BY <1>1 DEF ReplacedIsClosed, OpenIsRegistered
<1> QED
  BY <1>3, <1>4, <1>5

LEMMA SendRegistry ==
    ASSUME RegistryInv, TypeInv', NEW w \in Worker, Send(w)
    PROVE  RegistryInv'
<1> USE DEF RegistryInv, ServingInv
<1>1. /\ UNCHANGED <<client, server, at, lock, registry, robbed>>
      /\ sending[w].pc = "send"
      /\ \/ sending' = [sending EXCEPT ![w] = Quiet]
         \/ /\ client[sending[w].conn] # "open"
            /\ sending' = [sending EXCEPT ![w].pc = "pop"]
  BY DEF Send, sockets
<1>2. sending \in [Worker -> Sending]
  BY DEF TypeInv, TypeOK
<1>3. \A v \in Worker : \/ sending'[v] = sending[v] \/ sending'[v] = Quiet
                        \/ /\ sending[v].pc # "idle"
                           /\ sending'[v].conn = sending[v].conn
                           /\ client[sending[v].conn] # "open"
  BY <1>1, <1>2 DEF Sending
<1>4. SendIsOfWorker' /\ PopFoundItGone'
  BY <1>1, <1>3 DEF SendIsOfWorker, PopFoundItGone, Quiet
<1>5. OpenIsServed' /\ LockIsHeld' /\ RegisteredIsServed'
  BY <1>1 DEF OpenIsServed, LockIsHeld, RegisteredIsServed
<1>6. ReplacedIsClosed' /\ OpenIsRegistered'
  BY <1>1 DEF ReplacedIsClosed, OpenIsRegistered
<1> QED
  BY <1>4, <1>5, <1>6

LEMMA PopRegistry ==
    ASSUME RegistryInv, TypeInv', NEW w \in Worker, Pop(w)
    PROVE  RegistryInv'
<1> USE DEF RegistryInv, ServingInv
<1>1. /\ UNCHANGED <<client, server, at, lock>>
      /\ sending[w].pc = "pop" /\ lock[w] = NoSocket
      /\ robbed' = robbed \cup ({registry[w]} \ {NoSocket, sending[w].conn})
      /\ registry' = [registry EXCEPT ![w] = NoSocket]
      /\ sending' = [sending EXCEPT ![w] = Quiet]
  BY DEF Pop, sockets
<1>2. /\ registry \in [Worker -> Socket \cup {NoSocket}] /\ sending \in [Worker -> Sending]
  BY DEF TypeInv, TypeOK
<1>3. SendIsOfWorker' /\ PopFoundItGone'
  BY <1>1, <1>2 DEF SendIsOfWorker, PopFoundItGone, Quiet
<1>4. OpenIsServed' /\ LockIsHeld' /\ RegisteredIsServed'
  BY <1>1, <1>2 DEF OpenIsServed, LockIsHeld, RegisteredIsServed
<1>5. client[sending[w].conn] # "open"
  BY <1>1 DEF PopFoundItGone
<1>6. ReplacedIsClosed'
  BY <1>1, <1>2 DEF ReplacedIsClosed, OpenIsServed
<1>7. OpenIsRegistered'
  BY <1>1, <1>2, <1>5 DEF OpenIsRegistered, OpenIsServed
<1> QED
  BY <1>3, <1>4, <1>6, <1>7

LEMMA RegistryStep == RegistryInv /\ [Next]_vars => RegistryInv'
<1> SUFFICES ASSUME RegistryInv, [Next]_vars PROVE RegistryInv'
  OBVIOUS
<1>1. TypeInv /\ TypeInv' /\ TypeOK
  BY TypeStep, EventStep DEF RegistryInv, ServingInv, TypeInv
<1>2. ASSUME NEW s \in Socket, Page(s) PROVE RegistryInv'
  BY <1>1, <1>2, PageGetsOn, GetsOnFrame DEF worker, ghosts
<1>3. ASSUME NEW s \in Socket, Handler(s) PROVE RegistryInv'
  <2>1. ASSUME NEW w \in Worker, Refuse(s, w) PROVE RegistryInv'
    <3>1. GetsOn
      BY <1>1, <2>1 DEF Refuse, GetsOn, TypeOK
    <3> QED
      BY <1>1, <2>1, <3>1, GetsOnFrame DEF Refuse, worker, ghosts
  <2> QED
    BY <1>1, <1>3, <2>1, AcceptRegistry, ReplaceRegistry, RegisterRegistry,
       HandlerEndsRegistry, DisconnectRegistry DEF Handler
<1>4. ASSUME NEW w \in Worker, Notifier(w) PROVE RegistryInv'
  <2>1. ASSUME UNCHANGED <<client, server, at, lock, registry, sending, robbed>>
        PROVE  RegistryInv'
    BY <1>1, <2>1, GetsOnFrame DEF GetsOn
  <2>2. ASSUME NEW e \in Event, Publish(e, w) PROVE RegistryInv'
    BY <2>1, <2>2 DEF Publish, sockets
  <2>3. CASE LoopEnds(w)
    BY <2>1, <2>3 DEF LoopEnds, sockets, ghosts
  <2> QED
    BY <1>1, <1>4, <2>2, <2>3, LookUpRegistry, SendRegistry, PopRegistry DEF Notifier
<1>5. CASE UNCHANGED vars
  BY <1>1, <1>5, GetsOnFrame DEF vars, sockets, worker, ghosts, GetsOn
<1> QED
  BY <1>2, <1>3, <1>4, <1>5 DEF Next

LEMMA InitRegistry == Init => RegistryInv
<1> SUFFICES ASSUME Init PROVE RegistryInv
  OBVIOUS
<1>1. TypeInv
  BY TypeInit DEF TypeInv, Init, SendHasEvent, Quiet
<1>2. OpenIsServed /\ LockIsHeld /\ ReplacedIsClosed
  BY DEF Init, OpenIsServed, LockIsHeld, ReplacedIsClosed
<1>3. SendIsOfWorker /\ PopFoundItGone
  BY DEF Init, SendIsOfWorker, PopFoundItGone, Quiet
<1>4. RegisteredIsServed /\ OpenIsRegistered
  BY DEF Init, RegisteredIsServed, OpenIsRegistered
<1> QED
  BY <1>1, <1>2, <1>3, <1>4 DEF RegistryInv, ServingInv

LEMMA RegistryInvariant == Spec => []RegistryInv
BY InitRegistry, RegistryStep, PTL DEF Spec

\* What a worker has registered it serves, and a till that thinks it is
\* connected is registered unless a late failed send took it off, over every
\* reconnection (RegistryAgrees; ConnectionManager, pos_websocket).
THEOREM RegistriesAgree == Spec => []RegistryAgrees
<1>1. RegistryInv => RegistryAgrees
  BY DEF RegistryInv, ServingInv, TypeInv, RegistryAgrees
<1> QED
  BY <1>1, RegistryInvariant, PTL

-----------------------------------------------------------------------------
(* Payments *)

\* A socket in an audience is open: its handler runs and it is registered.
LEMMA HearerIsRegistered ==
    ASSUME RegistryInv, AudienceIsServed,
           NEW e \in Event, NEW s \in audience[e], client[s] = "open", s \notin robbed
    PROVE  s \in Socket /\ at[s] \in Worker /\ registry[at[s]] = s
<1>1. s \in Socket
  BY DEF RegistryInv, ServingInv, TypeInv, TypeOK
<1>2. server[s] \in {"running", "ending"}
  BY <1>1 DEF RegistryInv, ServingInv, OpenIsServed, AudienceIsServed
<1> QED
  BY <1>1, <1>2 DEF RegistryInv, ServingInv, OpenIsServed, OpenIsRegistered

\* A step that touches neither events nor the registry's registrants.
LEMMA AudienceFrame ==
    ASSUME PaymentInv,
           \A s \in Socket : server[s] \in {"running", "ending", "done"} =>
              /\ server'[s] \in {"running", "ending", "done"} /\ at'[s] = at[s]
              /\ client'[s] = "open" => client[s] = "open",
           UNCHANGED <<listening, inbox, sending, ghosts>>
    PROVE  AudienceIsServed' /\ AudienceIsAwaited'
<1>1. \A e \in Event : \A s \in audience[e] :
        s \in Socket /\ server[s] \in {"running", "ending", "done"}
  BY DEF PaymentInv, RegistryInv, ServingInv, TypeInv, TypeOK, AudienceIsServed
<1>2. AudienceIsServed'
  BY <1>1 DEF AudienceIsServed, ghosts
<1>3. published \subseteq Event
  BY DEF PaymentInv, RegistryInv, ServingInv, TypeInv, TypeOK
<1>4. AudienceIsAwaited'
  <2> SUFFICES ASSUME NEW e \in published \ received, NEW s \in audience[e], StillHears(s)'
               PROVE  OnItsWay(e, s)'
    BY DEF AudienceIsAwaited, ghosts
  <2>1. at'[s] = at[s] /\ StillHears(s)
    BY <1>1, <1>3 DEF StillHears, ghosts
  <2>2. OnItsWay(e, s)
    BY <2>1 DEF PaymentInv, AudienceIsAwaited
  <2> QED
    BY <2>1, <2>2 DEF OnItsWay
<1> QED
  BY <1>2, <1>4

LEMMA PageAudience ==
    ASSUME PaymentInv, NEW s \in Socket, Page(s)
    PROVE  AudienceIsServed' /\ AudienceIsAwaited'
<1>1. GetsOn /\ UNCHANGED <<server, at, worker, ghosts>>
  BY PageGetsOn DEF PaymentInv, RegistryInv, ServingInv, TypeInv
<1> QED
  BY <1>1, AudienceFrame DEF GetsOn, worker

LEMMA HandlerAudience ==
    ASSUME PaymentInv, NEW s \in Socket, Handler(s)
    PROVE  AudienceIsServed' /\ AudienceIsAwaited'
<1>1. TypeOK /\ OpenIsServed
  BY DEF PaymentInv, RegistryInv, ServingInv, TypeInv
<1>2. /\ server \in [Socket -> ServerStates] /\ client \in [Socket -> ClientStates]
      /\ at \in [Socket -> Worker \cup {NoWorker}]
  BY <1>1 DEF TypeOK, ServerStates, ClientStates
<1>3. /\ UNCHANGED <<listening, inbox, sending, ghosts>>
      /\ \A q \in Socket : server[q] \in {"running", "ending", "done"} =>
            server'[q] \in {"running", "ending", "done"} /\ at'[q] = at[q]
  BY <1>1, <1>2 DEF Handler, Accept, Refuse, Replace, Register, HandlerEnds, Disconnect,
                    worker, OpenIsServed
<1>4. \A q \in Socket : server[q] \in {"running", "ending", "done"} =>
        (client'[q] = "open" => client[q] = "open")
  <2>1. ASSUME NEW w \in Worker, Accept(s, w) PROVE server[s] = "none"
    BY <1>1, <1>2, <2>1 DEF Accept, OpenIsServed, ServerStates
  <2>2. ASSUME NEW w \in Worker, Accept(s, w), NEW q \in Socket, q # s
        PROVE  client'[q] = client[q]
    BY <1>2, <2>2 DEF Accept
  <2>3. CASE \E w \in Worker : Accept(s, w)
    BY <2>1, <2>2, <2>3
  <2>4. CASE \E w \in Worker : Refuse(s, w)
    BY <1>2, <2>4 DEF Refuse
  <2>5. CASE Replace(s) \/ Disconnect(s)
    BY <1>1, <1>2, <2>5, ClosedType DEF Replace, Disconnect
  <2>6. CASE Register(s) \/ HandlerEnds(s)
    BY <2>6 DEF Register, HandlerEnds
  <2> QED
    BY <2>3, <2>4, <2>5, <2>6 DEF Handler
<1> QED
  BY <1>3, <1>4, AudienceFrame

LEMMA PublishAudience ==
    ASSUME PaymentInv, NEW w \in Worker, NEW e0 \in Event, Publish(e0, w)
    PROVE  AudienceIsServed' /\ AudienceIsAwaited'
<1>1. PICK to \in {listening, {w}} :
        /\ published' = published \cup {e0} /\ e0 \notin published
        /\ inbox' = [v \in Worker |-> IF v \in to THEN inbox[v] \cup {e0} ELSE inbox[v]]
        /\ audience' = [audience EXCEPT ![e0] = UNION {Hears(v) : v \in to}]
        /\ UNCHANGED <<client, server, at, registry, listening, sending, received, robbed>>
  BY DEF Publish, sockets
<1>2. /\ to \subseteq Worker /\ audience \in [Event -> SUBSET Socket]
      /\ published \subseteq Event /\ at \in [Socket -> Worker \cup {NoWorker}]
  BY DEF PaymentInv, RegistryInv, ServingInv, TypeInv, TypeOK
<1>3. \A s \in audience'[e0] :
        at[s] \in to /\ server[s] \in {"running", "ending"}
  BY <1>1, <1>2 DEF Hears, PaymentInv, RegistryInv, ServingInv, RegisteredIsServed
<1>4. AudienceIsServed'
  BY <1>1, <1>2, <1>3 DEF AudienceIsServed, PaymentInv
<1>5. AudienceIsAwaited'
  <2> SUFFICES ASSUME NEW e \in published' \ received, NEW s \in audience'[e], StillHears(s)
               PROVE  OnItsWay(e, s)'
    BY <1>1 DEF AudienceIsAwaited, StillHears
  <2>1. CASE e = e0
    BY <1>1, <1>2, <1>3, <2>1 DEF OnItsWay
  <2>2. CASE e # e0
    <3>1. e \in published \ received /\ s \in audience[e] /\ s \in Socket
      BY <1>1, <1>2, <2>2
    <3>2. OnItsWay(e, s) /\ at[s] \in Worker
      BY <3>1, HearerIsRegistered, <1>2 DEF PaymentInv, AudienceIsAwaited, StillHears
    <3> QED
      BY <1>1, <3>2 DEF OnItsWay
  <2> QED
    BY <2>1, <2>2
<1> QED
  BY <1>4, <1>5

LEMMA LookUpAudience ==
    ASSUME PaymentInv, NEW w \in Worker, NEW e0 \in Event, LookUp(w, e0)
    PROVE  AudienceIsServed' /\ AudienceIsAwaited'
<1>1. /\ sending[w].pc = "idle"
      /\ inbox' = [inbox EXCEPT ![w] = @ \ {e0}]
      /\ sending' = IF registry[w] = NoSocket THEN sending
                    ELSE [sending EXCEPT ![w] =
                            [pc |-> "send", event |-> e0, conn |-> registry[w]]]
      /\ UNCHANGED <<client, server, at, registry, listening, published, received,
                     audience, robbed>>
  BY DEF LookUp, sockets, ghosts
<1>2. /\ inbox \in [Worker -> SUBSET Event] /\ sending \in [Worker -> Sending]
      /\ published \subseteq Event
  BY DEF PaymentInv, RegistryInv, ServingInv, TypeInv, TypeOK
<1>3. AudienceIsServed'
  BY <1>1 DEF AudienceIsServed, PaymentInv
<1>4. AudienceIsAwaited'
  <2> SUFFICES ASSUME NEW e \in published \ received, NEW s \in audience[e], StillHears(s)
               PROVE  OnItsWay(e, s)'
    BY <1>1 DEF AudienceIsAwaited, StillHears
  <2>1. s \in Socket /\ at[s] \in Worker /\ registry[at[s]] = s /\ OnItsWay(e, s)
    BY <1>2, HearerIsRegistered DEF PaymentInv, AudienceIsAwaited, StillHears
  <2>2. CASE at[s] = w
    BY <1>1, <1>2, <2>1, <2>2 DEF OnItsWay
  <2>3. CASE at[s] # w
    BY <1>1, <1>2, <2>1, <2>3 DEF OnItsWay
  <2> QED
    BY <2>2, <2>3
<1> QED
  BY <1>3, <1>4

LEMMA SendAudience ==
    ASSUME PaymentInv, NEW w \in Worker, Send(w) \/ Pop(w)
    PROVE  AudienceIsServed' /\ AudienceIsAwaited'
<1>1. /\ UNCHANGED <<client, server, at, listening, inbox, published, audience>>
      /\ received \subseteq received' /\ robbed \subseteq robbed'
      /\ \/ sending' = [sending EXCEPT ![w] = Quiet]
         \/ sending' = [sending EXCEPT ![w].pc = "pop"]
      /\ sending[w].pc = "send" /\ client[sending[w].conn] = "open" =>
            sending[w].event \in received'
  BY DEF Send, Pop, sockets
<1>2. sending \in [Worker -> Sending] /\ published \subseteq Event
  BY DEF PaymentInv, RegistryInv, ServingInv, TypeInv, TypeOK
<1>3. \A v \in Worker \ {w} : sending'[v] = sending[v]
  BY <1>1, <1>2
<1>4. AudienceIsServed'
  BY <1>1 DEF AudienceIsServed, PaymentInv
<1>5. AudienceIsAwaited'
  <2> SUFFICES ASSUME NEW e \in published \ received', NEW s \in audience[e], StillHears(s)
               PROVE  OnItsWay(e, s)'
    BY <1>1 DEF AudienceIsAwaited, StillHears
  <2>1. e \in published \ received
    BY <1>1
  <2>2. s \in Socket /\ at[s] \in Worker /\ OnItsWay(e, s) /\ client[s] = "open"
    BY <1>2, <2>1, HearerIsRegistered DEF PaymentInv, AudienceIsAwaited, StillHears
  <2>3. CASE at[s] = w
    BY <1>1, <2>2, <2>3 DEF OnItsWay
  <2>4. CASE at[s] # w
    BY <1>1, <1>3, <2>2, <2>4 DEF OnItsWay
  <2> QED
    BY <2>3, <2>4
<1> QED
  BY <1>4, <1>5

LEMMA LoopEndsAudience ==
    ASSUME PaymentInv, NEW w \in Worker, LoopEnds(w)
    PROVE  AudienceIsServed' /\ AudienceIsAwaited'
<1>1. /\ listening' = listening \ {w} /\ inbox' = [inbox EXCEPT ![w] = {}]
      /\ UNCHANGED <<client, server, at, sending, published, received, audience, robbed>>
  BY DEF LoopEnds, sockets, ghosts
<1>2. inbox \in [Worker -> SUBSET Event] /\ listening \subseteq Worker
  BY DEF PaymentInv, RegistryInv, ServingInv, TypeInv, TypeOK
<1>3. AudienceIsServed'
  BY <1>1 DEF AudienceIsServed, PaymentInv
<1>4. AudienceIsAwaited'
  BY <1>1, <1>2 DEF PaymentInv, AudienceIsAwaited, StillHears, OnItsWay
<1> QED
  BY <1>3, <1>4

LEMMA PaymentStep == PaymentInv /\ [Next]_vars => PaymentInv'
<1> SUFFICES ASSUME PaymentInv, [Next]_vars PROVE PaymentInv'
  OBVIOUS
<1>1. RegistryInv'
  BY RegistryStep DEF PaymentInv
<1>2. ASSUME NEW w \in Worker, Notifier(w) PROVE AudienceIsServed' /\ AudienceIsAwaited'
  BY <1>2, PublishAudience, LookUpAudience, LoopEndsAudience, SendAudience DEF Notifier
<1>3. ASSUME UNCHANGED vars PROVE AudienceIsServed' /\ AudienceIsAwaited'
  BY <1>3, AudienceFrame DEF vars, sockets, worker, PaymentInv
<1>4. AudienceIsServed' /\ AudienceIsAwaited'
  BY <1>2, <1>3, PageAudience, HandlerAudience DEF Next
<1> QED
  BY <1>1, <1>4 DEF PaymentInv

\* When no worker has a payment any more, the till has it, or each socket that
\* should have heard it has closed, has been taken off or was on a worker that
\* no longer listens (ReachesWhoStays; WebSocketPubSub, ConnectionManager.send).
THEOREM PaymentReaches == Spec => []ReachesWhoStays
<1>1. Init => PaymentInv
  <2>1. Init => AudienceIsServed /\ AudienceIsAwaited
    BY DEF Init, AudienceIsServed, AudienceIsAwaited
  <2>2. Init => RegistryInv
    BY InitRegistry
  <2> QED
    BY <2>1, <2>2 DEF PaymentInv
<1>2. PaymentInv => ReachesWhoStays
  <2> SUFFICES ASSUME PaymentInv, NEW e \in published \ received, ~InFlight(e),
                      NEW s \in audience[e], client[s] = "open", s \notin robbed,
                      at[s] \in listening
               PROVE  FALSE
    BY DEF ReachesWhoStays
  <2>1. OnItsWay(e, s)
    BY DEF PaymentInv, AudienceIsAwaited, StillHears
  <2>2. at[s] \in Worker
    BY DEF PaymentInv, RegistryInv, ServingInv, TypeInv, TypeOK
  <2> QED
    BY <2>1, <2>2 DEF OnItsWay, InFlight
<1> QED
  BY <1>1, <1>2, PaymentStep, PTL DEF Spec

-----------------------------------------------------------------------------
(* The page *)

\* A run of connect() that has not ended.
UnderWay == \E s \in Socket : client[s] \in {"ticket", "opening", "closing"}

\* connect() begins a run or finds one that will come to its onclose or onopen.
LEMMA StartsUnderWay ==
    ASSUME TypeOK, GuardIsHeld, NEW s \in Socket, NEW cl \in [Socket -> ClientStates],
           Starts(s, cl),
           \A q \in Socket : cl[q] = client[q] \/ cl[q] = "closing"
    PROVE  UnderWay'
BY DEF GuardIsHeld, Starts, UnderWay

LEMMA UnderWayIsFine == UnderWay => NeverStuck
BY DEF UnderWay, NeverStuck, KeepsTrying, GuardIsHeld

LEMMA StuckStep == TypeInv /\ NeverStuck /\ [Next]_vars => NeverStuck'
<1> SUFFICES ASSUME TypeOK, NeverStuck, [Next]_vars PROVE NeverStuck'
  BY DEF TypeInv
<1> USE DEF sockets, page, worker, ghosts, bounds
<1>1. ASSUME UnderWay' PROVE NeverStuck'
  BY <1>1, UnderWayIsFine DEF UnderWay, NeverStuck, KeepsTrying, GuardIsHeld
<1>2. ASSUME NEW s \in Socket, Fire(s) PROVE NeverStuck'
  <2>1. Starts(s, client) /\ client \in [Socket -> ClientStates]
    BY <1>2 DEF Fire, TypeOK, ClientStates
  <2> QED
    BY <1>1, <2>1, StartsUnderWay DEF NeverStuck
<1>3. ASSUME NEW s \in Socket, Render(s) PROVE NeverStuck'
  <2> DEFINE cl == Closed({current})
  <2>1. /\ cl \in [Socket -> ClientStates]
        /\ \A q \in Socket : cl[q] = client[q] \/ cl[q] = "closing"
    BY ClosedType DEF TypeOK, ClientStates
  <2>2. Starts(s, cl)
    BY <1>3 DEF Render
  <2> HIDE DEF cl
  <2> QED
    BY <1>1, <2>1, <2>2, StartsUnderWay DEF NeverStuck
<1>4. ASSUME NEW s \in Socket, GetTicket(s) PROVE NeverStuck'
  BY <1>1, <1>4 DEF GetTicket, UnderWay, TypeOK
<1>5. ASSUME NEW s \in Socket, OnClose(s) PROVE NeverStuck'
  <2>1. ~connecting' /\ (timers' = 0 => retries' = MaxRetries)
    BY <1>5 DEF OnClose, TypeOK
  <2> QED
    BY <2>1 DEF NeverStuck, KeepsTrying, GuardIsHeld
<1>6. ASSUME NEW s \in Socket, Break(s) PROVE NeverStuck'
  BY <1>1, <1>6 DEF Break, UnderWay, TypeOK
<1>7. ASSUME NEW s \in Socket, NEW w \in Worker, Accept(s, w) PROVE NeverStuck'
  BY <1>7 DEF Accept, NeverStuck, KeepsTrying, GuardIsHeld, TypeOK
<1>8. ASSUME NEW s \in Socket, NEW w \in Worker, Refuse(s, w) PROVE NeverStuck'
  BY <1>1, <1>8 DEF Refuse, UnderWay, TypeOK
<1>9. ASSUME UNCHANGED page, UNCHANGED client \/ \E x : client' = Closed(x)
      PROVE  NeverStuck'
  BY <1>9, ClosedType DEF NeverStuck, KeepsTrying, GuardIsHeld
<1>10. ASSUME NEW s \in Socket, Replace(s) \/ Register(s) \/ HandlerEnds(s) \/ Disconnect(s)
       PROVE  NeverStuck'
  BY <1>9, <1>10 DEF Replace, Register, HandlerEnds, Disconnect
<1>11. ASSUME NEW w \in Worker, Notifier(w) PROVE NeverStuck'
  BY <1>9, <1>11 DEF Notifier, Publish, LookUp, LoopEnds, Send, Pop
<1>12. CASE UNCHANGED vars
  BY <1>9, <1>12 DEF vars
<1> QED
  BY <1>2, <1>3, <1>4, <1>5, <1>6, <1>7, <1>8, <1>10, <1>11, <1>12
     DEF Next, Page, Handler

\* The page neither stops trying before its limit nor locks itself out: while
\* its guard is up a run of connect() is on its way, and without a socket and a
\* timer the retries are used up (NeverStuck; useMpesaSocket).
THEOREM PageNeverStuck == Spec => []NeverStuck
<1>1. Init => NeverStuck
  BY DEF Init, NeverStuck, KeepsTrying, GuardIsHeld
<1> QED
  BY <1>1, StuckStep, TypeInvariant, PTL DEF Spec
=============================================================================
