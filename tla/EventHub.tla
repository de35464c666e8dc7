------------------------------ MODULE EventHub ------------------------------
(***************************************************************************)
(* The server-sent-event hub (sse/hub.go), the handler that streams it to  *)
(* one browser (handler_sse.go) and the goroutines that broadcast into it  *)
(* (watcher.go broadcastState).  The hub's last state is an atomic         *)
(* pointer; the client table has a mutex of its own.  Every line between   *)
(* two of those synchronisation points is a step of its own here.          *)
(***************************************************************************)
EXTENDS Integers, Sequences, FiniteSets

CONSTANTS
    Client,           \* browsers
    Caster,           \* goroutines calling broadcastState
    MaxSSEClients,    \* config.MaxSSEClients
    SSEChannelBuffer, \* config.SSEChannelBuffer
    MaxWorld          \* bound: how often the Tailscale state changes

VARIABLES
    world,      \* s.state, the Tailscale state the snapshots are taken of
    hubState,   \* Hub.state, 0 while nothing was stored
    clients,    \* Hub.clients
    channel,    \* each client's buffered channel
    handlerPc,  \* where each client's handleSSE is
    shown,      \* the last state message the client's browser received
    lagging,    \* history: the last state message for the client was dropped
    casterPc,   \* where each broadcaster is
    snapshot,   \* what each broadcaster marshalled
    lastSent,   \* history: the last state message sent to the table
    order       \* history: "raced" once two broadcasters overlapped, "healing"
                \* while the next one works alone, "kept" when it has sent

hubVars == <<world, hubState, clients, channel, handlerPc, shown, lagging,
             casterPc, snapshot, lastSent, order>>

Health == 0   \* a BroadcastNamed message; state messages are positive

HubTypeOK ==
    /\ world \in 1..MaxWorld
    /\ hubState \in 0..MaxWorld
    /\ clients \subseteq Client
    /\ \A c \in Client : /\ channel[c] \in Seq(0..MaxWorld)
                         /\ Len(channel[c]) <= SSEChannelBuffer
    /\ handlerPc \in [Client -> {"off", "subscribed", "loop"}]
    /\ shown \in [Client -> 0..MaxWorld]
    /\ lagging \in [Client -> BOOLEAN]
    /\ casterPc \in [Caster -> {"idle", "compare", "store", "send"}]
    /\ snapshot \in [Caster -> 0..MaxWorld]
    /\ lastSent \in 0..MaxWorld
    /\ order \in {"kept", "healing", "raced"}

HubInit ==
    /\ world = 1
    /\ hubState = 0
    /\ clients = {}
    /\ channel = [c \in Client |-> <<>>]
    /\ handlerPc = [c \in Client |-> "off"]
    /\ shown = [c \in Client |-> 0]
    /\ lagging = [c \in Client |-> FALSE]
    /\ casterPc = [g \in Caster |-> "idle"]
    /\ snapshot = [g \in Caster |-> 0]
    /\ lastSent = 0 /\ order = "kept"

-----------------------------------------------------------------------------
(* The broadcasters. *)

\* Another goroutine changes the Tailscale state (updateStateFromNotify and
\* the other writers under s.state.mu).
StateChanges ==
    /\ world < MaxWorld
    /\ world' = world + 1
    /\ UNCHANGED <<hubState, clients, channel, handlerPc, shown, lagging,
                   casterPc, snapshot, lastSent, order>>

casterStep(g, from, to) == casterPc[g] = from /\ casterPc' = [casterPc EXCEPT ![g] = to]

\* broadcastState: the snapshot is taken and marshalled, then handed over.
broadcastState(g) ==
    /\ casterStep(g, "idle", "compare")
    /\ snapshot' = [snapshot EXCEPT ![g] = world]
    /\ order' = IF \E h \in Caster : casterPc[h] # "idle" THEN "raced"
                ELSE IF order = "raced" THEN "healing" ELSE order
    /\ UNCHANGED <<world, hubState, clients, channel, handlerPc, shown, lagging, lastSent>>

\* Mutant: the stored state is not consulted before a message is sent.
CompareForgotten(g) ==
    /\ casterStep(g, "compare", "store")
    /\ UNCHANGED <<world, hubState, clients, channel, handlerPc, shown, lagging,
                   snapshot, lastSent, order>>

\* BroadcastIfChanged: load the stored state; return when it is the same.
BroadcastIfChanged(g) ==
    /\ casterStep(g, "compare", IF hubState = snapshot[g] THEN "idle" ELSE "store")
    /\ order' = IF order = "healing" /\ hubState = snapshot[g] THEN "raced" ELSE order
    /\ UNCHANGED <<world, hubState, clients, channel, handlerPc, shown, lagging,
                   snapshot, lastSent>>

\* Mutant: Broadcast sends like BroadcastNamed and does not store the state.
StoreForgotten(g) ==
    /\ casterStep(g, "store", "send")
    /\ UNCHANGED <<world, hubState, clients, channel, handlerPc, shown, lagging,
                   snapshot, lastSent, order>>

\* Broadcast, first line: store the state, before the mutex is taken.
BroadcastStore(g) ==
    /\ casterStep(g, "store", "send")
    /\ hubState' = snapshot[g]
    /\ UNCHANGED <<world, clients, channel, handlerPc, shown, lagging, snapshot, lastSent, order>>

hasRoom(c) == Len(channel[c]) < SSEChannelBuffer

\* The loop over the table under h.mu: a full channel drops the message.
deliver(m) ==
    channel' = [c \in Client |-> IF c \in clients /\ hasRoom(c)
                                 THEN Append(channel[c], m) ELSE channel[c]]

\* Broadcast, the rest: send to every client, under the mutex.
BroadcastSend(g) ==
    /\ casterStep(g, "send", "idle")
    /\ deliver(snapshot[g])
    /\ lagging' = [c \in Client |-> c \in clients /\ ~hasRoom(c)]
    /\ lastSent' = snapshot[g]
    /\ order' = IF order = "healing" THEN "kept" ELSE order
    /\ UNCHANGED <<world, hubState, clients, handlerPc, shown, snapshot>>

\* BroadcastNamed: a health or log event takes a place in every channel.
BroadcastNamed ==
    /\ \E c \in clients : hasRoom(c)
    /\ deliver(Health)
    /\ UNCHANGED <<world, hubState, clients, handlerPc, shown, lagging, casterPc,
                   snapshot, lastSent, order>>

-----------------------------------------------------------------------------
(* The handler of one client. *)

\* Subscribe: refused when the table is full, otherwise an empty channel.
Subscribe(c) ==
    /\ handlerPc[c] = "off"
    /\ Cardinality(clients) < MaxSSEClients
    /\ clients' = clients \cup {c}
    /\ channel' = [channel EXCEPT ![c] = <<>>]
    /\ lagging' = [lagging EXCEPT ![c] = FALSE]
    /\ handlerPc' = [handlerPc EXCEPT ![c] = "subscribed"]
    /\ UNCHANGED <<world, hubState, shown, casterPc, snapshot, lastSent, order>>

\* handleSSE writes CurrentState (nothing while it is nil) and enters its loop.
WriteCurrentState(c) ==
    /\ handlerPc[c] = "subscribed"
    /\ shown' = [shown EXCEPT ![c] = hubState]
    /\ handlerPc' = [handlerPc EXCEPT ![c] = "loop"]
    /\ UNCHANGED <<world, hubState, clients, channel, lagging, casterPc, snapshot, lastSent, order>>

\* Mutant: the current state is written before the client is in the table.
StartSwapped(c) ==
    \/ /\ handlerPc[c] = "off"
       /\ shown' = [shown EXCEPT ![c] = hubState]
       /\ handlerPc' = [handlerPc EXCEPT ![c] = "subscribed"]
       /\ UNCHANGED <<world, hubState, clients, channel, lagging, casterPc, snapshot, lastSent, order>>
    \/ /\ handlerPc[c] = "subscribed"
       /\ Cardinality(clients) < MaxSSEClients
       /\ clients' = clients \cup {c}
       /\ handlerPc' = [handlerPc EXCEPT ![c] = "loop"]
       /\ UNCHANGED <<world, hubState, channel, shown, lagging, casterPc, snapshot, lastSent, order>>

\* The beginning of handleSSE, in the order of its lines.
handleSSEStart(c) == Subscribe(c) \/ WriteCurrentState(c)

\* The loop of handleSSE: one message is written to the browser.
handleSSELoop(c) ==
    /\ handlerPc[c] = "loop"
    /\ channel[c] # <<>>
    /\ channel' = [channel EXCEPT ![c] = Tail(@)]
    /\ shown' = [shown EXCEPT ![c] = IF Head(channel[c]) = Health THEN @ ELSE Head(channel[c])]
    /\ UNCHANGED <<world, hubState, clients, handlerPc, lagging, casterPc, snapshot, lastSent, order>>

\* The request ends: unsubscribe deletes, closes and drains the channel.
unsubscribe(c) ==
    /\ handlerPc[c] = "loop"
    /\ clients' = clients \ {c}
    /\ channel' = [channel EXCEPT ![c] = <<>>]
    /\ lagging' = [lagging EXCEPT ![c] = FALSE]
    /\ shown' = [shown EXCEPT ![c] = 0]
    /\ handlerPc' = [handlerPc EXCEPT ![c] = "off"]
    /\ UNCHANGED <<world, hubState, casterPc, snapshot, lastSent, order>>

-----------------------------------------------------------------------------
casterNext(g) ==
    broadcastState(g) \/ BroadcastIfChanged(g) \/ BroadcastStore(g) \/ BroadcastSend(g)

HubNext ==
    \/ StateChanges
    \/ BroadcastNamed
    \/ \E g \in Caster : casterNext(g)
    \/ \E c \in Client : handleSSEStart(c) \/ handleSSELoop(c) \/ unsubscribe(c)

HubSpec == HubInit /\ [][HubNext]_hubVars

-----------------------------------------------------------------------------
\* What client c will have shown once its channel is drained.
willShow(c) ==
    LET states == {i \in 1..Len(channel[c]) : channel[c][i] # Health}
    IN  IF states = {} THEN shown[c]
        ELSE channel[c][CHOOSE i \in states : \A j \in states : j <= i]

\* When the broadcasters are at rest, a streaming client has, or has queued,
\* the state the hub stores, unless its own full channel dropped the last
\* one.  It rests on handleSSE subscribing before it reads CurrentState and on
\* Broadcast storing before it sends.  Two broadcasters that overlap may store
\* in one order and send in the other (sse/hub.go says the dedup is
\* "race-free"); what that leaves is mended by the next message sent alone.
NoStateMissed ==
    order = "kept" /\ (\A g \in Caster : casterPc[g] = "idle") =>
        \A c \in Client : handlerPc[c] = "loop" =>
            lagging[c] \/ willShow(c) = hubState

\* BroadcastIfChanged never sends the state that was sent last, again unless
\* two broadcasters overlapped and none has sent alone since.
NoRepeatedState ==
    [][\A g \in Caster :
           order = "kept" /\ BroadcastSend(g) => snapshot[g] # lastSent]_hubVars
=============================================================================
