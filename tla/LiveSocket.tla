------------------------------ MODULE LiveSocket ------------------------------
(***************************************************************************)
(* The live updates: hooks/useWebSocket.ts in the browser, mounted with    *)
(* AppLayout, and the clients of the gateway.                              *)
(*                                                                         *)
(* A layout is one mounting of AppLayout: a signed-out user is led away    *)
(* from it and back to it after the login.  Each has refs of its own;      *)
(* what its sockets and timers do later they do with these.  This is the   *)
(* production build: StrictMode, which runs effects twice, does so in      *)
(* development only.                                                       *)
(***************************************************************************)
EXTENDS Integers

CONSTANTS
    Layouts,        \* mountings of AppLayout, one after the other
    Sockets,        \* connections; one that is over may be used for the next
    MaxRetries,     \* MAX_RETRIES
    MaxGatewayOutages, \* bound: how often the gateway goes away
    NoSocket        \* the ref holds none

ASSUME ReconnectsAreCounted == MaxRetries \in Nat \ {0}
ASSUME GatewayOutagesAreCounted == MaxGatewayOutages \in Nat
ASSUME NoSocketIsNone    == NoSocket \notin Sockets \cup Layouts

VARIABLES
    \* --- in the browser
    mounted,        \* mountedRef: "on", "off", and "never" before the mounting
    retries,        \* retriesRef
    connected,      \* the state of that name
    wsRef, timerRef,
    sock,           \* readyState of each socket; a connecting one is
                    \* "accepted" when the gateway has it
    owner,          \* the layout whose connect() made it
    timers,         \* sockets whose onclose has a reconnect pending
    \* --- the gateway
    serving,        \* it runs
    clients,        \* its set of that name
    gatewayOutages  \* bound: how often it has gone away

refVars  == <<mounted, retries, connected, wsRef, timerRef>>
gateVars == <<serving, clients, gatewayOutages>>
liveVars == <<refVars, sock, owner, timers, gateVars>>

LiveInit ==
    /\ mounted = [l \in Layouts |-> "never"]
    /\ retries = [l \in Layouts |-> 0]
    /\ connected = [l \in Layouts |-> FALSE]
    /\ wsRef = [l \in Layouts |-> NoSocket]
    /\ timerRef = [l \in Layouts |-> NoSocket]
    /\ sock = [s \in Sockets |-> "closed"]
    /\ owner = [s \in Sockets |-> NoSocket]
    /\ timers = {}
    /\ serving = TRUE
    /\ clients = {}
    /\ gatewayOutages = 0

Alive == {"connecting", "accepted", "open"}

-----------------------------------------------------------------------------
(* The hook                                                                *)

Unused(s) == sock[s] = "closed" /\ s \notin timers \cup clients

\* new WebSocket(wsUrl): an address that is none is not modelled.
Connect(l, s) ==
    /\ Unused(s)
    /\ sock' = [sock EXCEPT ![s] = "connecting"]
    /\ owner' = [owner EXCEPT ![s] = l]
    /\ wsRef' = [wsRef EXCEPT ![l] = s]

\* The effect.
Mount(l) ==
    /\ mounted[l] = "never"
    /\ \A m \in Layouts : mounted[m] # "on"
    /\ mounted' = [mounted EXCEPT ![l] = "on"]
    /\ retries' = [retries EXCEPT ![l] = 0]
    /\ \E s \in Sockets : Connect(l, s)
    /\ UNCHANGED <<connected, timerRef, timers, gateVars>>

\* Its cleanup: clearTimeout, and close() of the socket the ref holds.
Unmount(l) ==
    /\ mounted[l] = "on"
    /\ mounted' = [mounted EXCEPT ![l] = "off"]
    /\ timers' = timers \ {timerRef[l]}
    /\ timerRef' = [timerRef EXCEPT ![l] = NoSocket]
    /\ sock' = [s \in Sockets |-> IF s = wsRef[l] /\ sock[s] # "closed"
                                  THEN "closing" ELSE sock[s]]
    /\ wsRef' = [wsRef EXCEPT ![l] = NoSocket]
    /\ UNCHANGED <<retries, connected, owner, gateVars>>

\* ws.onopen
OnOpen(s) ==
    /\ sock[s] = "accepted" /\ s \in clients
    /\ \/ /\ mounted[owner[s]] # "on"
          /\ sock' = [sock EXCEPT ![s] = "closing"]
          /\ UNCHANGED <<retries, connected>>
       \/ /\ mounted[owner[s]] = "on"
          /\ sock' = [sock EXCEPT ![s] = "open"]
          /\ retries' = [retries EXCEPT ![owner[s]] = 0]
          /\ connected' = [connected EXCEPT ![owner[s]] = TRUE]
    /\ UNCHANGED <<mounted, wsRef, timerRef, owner, timers, gateVars>>

\* It was closed from here, was refused, or broke with the gateway.
Ends(s) ==
    \/ sock[s] = "closing"
    \/ sock[s] = "connecting" /\ ~serving
    \/ sock[s] \in {"accepted", "open"} /\ s \notin clients

\* setTimeout(connect, delay), unless these were retries enough.
Reschedule(l, s) ==
    /\ retries' = [retries EXCEPT ![l] = @ + 1]
    /\ IF retries[l] + 1 >= MaxRetries
         THEN UNCHANGED <<timers, timerRef>>
         ELSE /\ timers' = timers \cup {s}
              /\ timerRef' = [timerRef EXCEPT ![l] = s]

\* mutant: onclose does not ask whether the layout is still there
AlwaysReconnect(s) ==
    /\ Ends(s)
    /\ sock' = [sock EXCEPT ![s] = "closed"]
    /\ connected' = [connected EXCEPT ![owner[s]] = FALSE]
    /\ Reschedule(owner[s], s)
    /\ UNCHANGED <<mounted, wsRef, owner, gateVars>>

\* mutant: onclose does not say that the connection is gone
SilentClose(s) ==
    /\ Ends(s)
    /\ sock' = [sock EXCEPT ![s] = "closed"]
    /\ \/ mounted[owner[s]] = "on" /\ Reschedule(owner[s], s)
       \/ mounted[owner[s]] # "on" /\ UNCHANGED <<retries, timers, timerRef>>
    /\ UNCHANGED <<mounted, connected, wsRef, owner, gateVars>>

\* ws.onclose
OnClose(s) ==
    /\ Ends(s)
    /\ sock' = [sock EXCEPT ![s] = "closed"]
    /\ connected' = [connected EXCEPT ![owner[s]] = FALSE]
    /\ \/ mounted[owner[s]] = "on" /\ Reschedule(owner[s], s)
       \/ mounted[owner[s]] # "on" /\ UNCHANGED <<retries, timers, timerRef>>
    /\ UNCHANGED <<mounted, wsRef, owner, gateVars>>

\* mutant: one retry too few
LastRetryLost(l) == mounted[l] = "on" /\ retries[l] + 1 < MaxRetries

\* connect() bails out otherwise.
MayConnect(l) == mounted[l] = "on" /\ retries[l] < MaxRetries

\* The timeout is over.
TimerFires(s) ==
    /\ s \in timers
    /\ timers' = timers \ {s}
    /\ timerRef' = [timerRef EXCEPT ![owner[s]] = IF @ = s THEN NoSocket ELSE @]
    /\ \/ MayConnect(owner[s]) /\ \E t \in Sockets : Connect(owner[s], t)
       \/ ~MayConnect(owner[s]) /\ UNCHANGED <<sock, owner, wsRef>>
    /\ UNCHANGED <<mounted, retries, connected, gateVars>>

-----------------------------------------------------------------------------
(* The gateway                                                             *)

\* wss.on("connection"): the client is added and welcomed.
Accept(s) ==
    /\ serving
    /\ sock[s] = "connecting"
    /\ sock' = [sock EXCEPT ![s] = "accepted"]
    /\ clients' = clients \cup {s}
    /\ UNCHANGED <<refVars, owner, timers, serving, gatewayOutages>>

\* ws.on("close") and ws.on("error")
ClientGone(s) ==
    /\ s \in clients
    /\ sock[s] \in {"closing", "closed"}
    /\ clients' = clients \ {s}
    /\ UNCHANGED <<refVars, sock, owner, timers, serving, gatewayOutages>>

GoDown ==
    /\ serving
    /\ gatewayOutages < MaxGatewayOutages
    /\ serving' = FALSE
    /\ clients' = {}
    /\ gatewayOutages' = gatewayOutages + 1
    /\ UNCHANGED <<refVars, sock, owner, timers>>

ComeUp ==
    /\ ~serving
    /\ serving' = TRUE
    /\ UNCHANGED <<refVars, sock, owner, timers, clients, gatewayOutages>>

-----------------------------------------------------------------------------

SocketStep(s) ==
    \/ OnOpen(s) \/ OnClose(s) \/ TimerFires(s)
    \/ Accept(s) \/ ClientGone(s)

LiveNext ==
    \/ \E l \in Layouts : Mount(l) \/ Unmount(l)
    \/ \E s \in Sockets : SocketStep(s)
    \/ GoDown \/ ComeUp

LiveSpec == LiveInit /\ [][LiveNext]_liveVars

\* Browser and gateway go on with what has happened, and the gateway is
\* restarted.  The user may stay on a page for ever.
LiveFairness ==
    /\ \A s \in Sockets : WF_liveVars(SocketStep(s))
    /\ WF_liveVars(ComeUp)

LiveFairSpec == LiveSpec /\ LiveFairness

-----------------------------------------------------------------------------
(* Properties                                                              *)

\* Types; one layout is mounted at a time.
LiveTypeOK ==
    /\ mounted \in [Layouts -> {"never", "on", "off"}]
    /\ retries \in [Layouts -> Nat]
    /\ connected \in [Layouts -> BOOLEAN]
    /\ wsRef \in [Layouts -> Sockets \cup {NoSocket}]
    /\ timerRef \in [Layouts -> Sockets \cup {NoSocket}]
    /\ sock \in [Sockets -> {"closed", "closing"} \cup Alive]
    /\ owner \in [Sockets -> Layouts \cup {NoSocket}]
    /\ timers \subseteq Sockets
    /\ serving \in BOOLEAN
    /\ clients \subseteq Sockets
    /\ gatewayOutages \in 0 .. MaxGatewayOutages
    /\ \A l, m \in Layouts : mounted[l] = "on" /\ mounted[m] = "on" => l = m

Live(l)    == {s \in Sockets : owner[s] = l /\ sock[s] \in Alive}
Pending(l) == {s \in timers : owner[s] = l}
GaveUp(l)  == retries[l] >= MaxRetries

\* A mounted layout has one live connection, or one reconnect pending, or has
\* given up, and never two of these or none; one that is not mounted has
\* neither, whatever closes late (useWebSocket.ts 75-86, 96-105).
OneWayBack ==
    \A l \in Layouts :
        IF mounted[l] # "on" THEN Live(l) = {} /\ Pending(l) = {}
        ELSE \/ Live(l) = {wsRef[l]} /\ Pending(l) = {}
             \/ Live(l) = {} /\ Pending(l) = {timerRef[l]} /\ ~GaveUp(l)
             \/ Live(l) = {} /\ Pending(l) = {} /\ GaveUp(l)

\* What the hook returns as connected is so: the socket in the ref is open,
\* although sockets of before may open or close at any time.
ConnectedIsTrue ==
    \A l \in Layouts : mounted[l] = "on" =>
        (connected[l] <=> \E s \in Sockets : s = wsRef[l] /\ sock[s] = "open")

\* When the outages are over, a layout that is still mounted is connected for
\* good or has given up: no interleaving of closes, timers and mountings
\* leaves it without both.
ConnectedInTheEnd ==
    \A l \in Layouts : <>[](mounted[l] = "on" => connected[l] \/ GaveUp(l))

=============================================================================
