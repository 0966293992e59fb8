------------------------------ MODULE EventBus ------------------------------
(***************************************************************************)
(* The events of the service, on one Redis pub/sub channel.  Each process  *)
(* imports its workers, which register their handlers, and then starts a   *)
(* consumer (consumers.py) that runs the handlers of an event and          *)
(* subscribes again when its connection drops.  Each WebSocket client has  *)
(* a listener (collaboration.py) that forwards the events of its           *)
(* organisation.  A message published while a subscriber has no            *)
(* subscription never reaches it.                                          *)
(***************************************************************************)
EXTENDS Naturals, Sequences, FiniteSets

CONSTANTS
    Procs,      \* uvicorn workers
    Clients,    \* WebSocket clients
    Orgs,
    OrgOf,      \* OrgOf[c]
    MaxEvents,  \* bound: how many events are published
    MaxDrops    \* bound: how often connections are lost

ASSUME BusAssumption ==
    /\ Procs \cap Clients = {}
    /\ OrgOf \in [Clients -> Orgs]
    /\ MaxEvents \in Nat /\ MaxDrops \in Nat

Types == {"upload_complete", "summary_requested", "updated"}
Handlers == {"embed", "summarise", "thumbnail"}
Subscribers == Procs \cup Clients
Event == [type : Types, org : Orgs]

VARIABLES
    up,       \* Redis can be reached
    drops,
    log,      \* the events Redis has taken, in order
    linked,   \* the subscribers Redis sends to
    box,      \* box[x]: what was sent to x and is not read yet: positions of the log
    loaded,   \* loaded[p]: how many workers p has imported
    handlers, \* handlers[p]: HANDLERS, what p has registered for each type
    consumer, \* consumer[p]: "off", "connecting", "listening" or "sleeping"
    taken,    \* taken[p]: the events the consumer of p has dispatched
    started,  \* started[p]: the handlers started in p: pairs of an event and a handler
    client,   \* client[c]: "new", "open" or "closed"
    listener, \* listener[c]: "none", "connecting", "listening" or "ended"
    got,      \* got[c]: the events sent to c, in order
    since     \* since[c]: how many events there were when c was told "connected"

workVars == <<loaded, handlers>>
hearVars == <<client, listener, got, since>>
busVars  == <<up, drops, log, linked, box, workVars, consumer, taken, started, hearVars>>

Positions == 1 .. MaxEvents

\* What the workers register, in the order in which _load_workers imports them.
Registrations ==
    << <<"upload_complete", "embed">>,
       <<"summary_requested", "summarise">>,
       <<"upload_complete", "thumbnail">> >>

BusTypeOK ==
    /\ up \in BOOLEAN /\ drops \in 0 .. MaxDrops
    /\ log \in Seq(Event) /\ Len(log) <= MaxEvents
    /\ linked \subseteq Subscribers
    /\ box \in [Subscribers -> Seq(Positions)]
    /\ loaded \in [Procs -> 0 .. Len(Registrations)]
    /\ handlers \in [Procs -> [Types -> Seq(Handlers)]]
    /\ consumer \in [Procs -> {"off", "connecting", "listening", "sleeping"}]
    /\ taken \in [Procs -> SUBSET Positions]
    /\ started \in [Procs -> SUBSET (Positions \X Handlers)]
    /\ client \in [Clients -> {"new", "open", "closed"}]
    /\ listener \in [Clients -> {"none", "connecting", "listening", "ended"}]
    /\ got \in [Clients -> Seq(Positions)]
    /\ since \in [Clients -> 0 .. MaxEvents]
    /\ \A p \in Procs : p \in linked => consumer[p] = "listening"
    /\ \A c \in Clients : /\ c \in linked => listener[c] = "listening"
                          /\ listener[c] \in {"connecting", "listening"} => client[c] = "open"

BusInit ==
    /\ up \in BOOLEAN /\ drops = 0
    /\ log = << >> /\ linked = {}
    /\ box = [x \in Subscribers |-> << >>]
    /\ loaded = [p \in Procs |-> 0]
    /\ handlers = [p \in Procs |-> [t \in Types |-> << >>]]
    /\ consumer = [p \in Procs |-> "off"]
    /\ taken = [p \in Procs |-> {}] /\ started = [p \in Procs |-> {}]
    /\ client = [c \in Clients |-> "new"] /\ listener = [c \in Clients |-> "none"]
    /\ got = [c \in Clients |-> << >>] /\ since = [c \in Clients |-> 0]

-----------------------------------------------------------------------------
(* Redis, and who publishes. *)

\* publish_event.  What it raises while Redis is down is logged, and the
\* caller goes on as if the event had been published.
Publish(e) ==
    /\ up /\ Len(log) < MaxEvents
    /\ log' = Append(log, e)
    /\ box' = [x \in Subscribers |->
                  IF x \in linked THEN Append(box[x], Len(log) + 1) ELSE box[x]]
    /\ UNCHANGED <<workVars, up, drops, linked, consumer, taken, started, hearVars>>

\* Redis goes away, or some connections to it do.  What was sent over one of
\* them may be read yet, or be lost with it.
Drop(S) ==
    /\ drops < MaxDrops /\ S # {}
    /\ drops' = drops + 1
    /\ linked' = linked \ S
    /\ up' \in IF S = linked THEN {up, FALSE} ELSE {up}
    /\ \E lost \in SUBSET S : box' = [x \in Subscribers |-> IF x \in lost THEN << >> ELSE box[x]]
    /\ UNCHANGED <<workVars, log, consumer, taken, started, hearVars>>

ComeUp ==
    /\ ~up /\ up' = TRUE
    /\ UNCHANGED <<workVars, drops, log, linked, box, consumer, taken, started, hearVars>>

-----------------------------------------------------------------------------
(* The consumer of a process. *)

\* Mutation: one place per type of event, which the last to register takes.
OnEventSlot(p) ==
    /\ consumer[p] = "off" /\ loaded[p] < Len(Registrations)
    /\ loaded' = [loaded EXCEPT ![p] = @ + 1]
    /\ LET r == Registrations[loaded[p] + 1]
       IN  handlers' = [handlers EXCEPT ![p][r[1]] = << r[2] >>]
    /\ UNCHANGED <<up, drops, log, linked, box, consumer, taken, started, hearVars>>

\* The import of the next worker, with its on_event.
OnEvent(p) ==
    /\ consumer[p] = "off" /\ loaded[p] < Len(Registrations)
    /\ loaded' = [loaded EXCEPT ![p] = @ + 1]
    /\ LET r == Registrations[loaded[p] + 1]
       IN  handlers' = [handlers EXCEPT ![p][r[1]] = Append(@, r[2])]
    /\ UNCHANGED <<up, drops, log, linked, box, consumer, taken, started, hearVars>>

\* All workers are loaded, or an import has raised: the others are not tried,
\* a warning is logged, and the consumer is started all the same.
StartConsumer(p) ==
    /\ consumer[p] = "off"
    /\ consumer' = [consumer EXCEPT ![p] = "connecting"]
    /\ UNCHANGED <<workVars, up, drops, log, linked, box, taken, started, hearVars>>

Subscribe(p) ==
    /\ consumer[p] = "connecting"
    /\ IF up
       THEN consumer' = [consumer EXCEPT ![p] = "listening"] /\ linked' = linked \cup {p}
       ELSE consumer' = [consumer EXCEPT ![p] = "sleeping"] /\ UNCHANGED linked
    /\ UNCHANGED <<workVars, up, drops, log, box, taken, started, hearVars>>

\* The handlers run as tasks of their own.
Dispatch(p) ==
    /\ consumer[p] = "listening" /\ box[p] # << >>
    /\ LET i  == Head(box[p])
           fs == handlers[p][log[i].type]
       IN  /\ taken' = [taken EXCEPT ![p] = @ \cup {i}]
           /\ started' = [started EXCEPT ![p] = @ \cup {<<i, fs[k]>> : k \in DOMAIN fs}]
    /\ box' = [box EXCEPT ![p] = Tail(@)]
    /\ UNCHANGED <<workVars, up, drops, log, linked, consumer, hearVars>>

\* Mutation: the loop goes back to a subscription that is gone.
NoticeNothing(p) ==
    /\ consumer[p] = "listening" /\ box[p] = << >> /\ p \notin linked
    /\ UNCHANGED busVars

\* listen raises: five seconds, and the loop begins again.
Notice(p) ==
    /\ consumer[p] = "listening" /\ box[p] = << >> /\ p \notin linked
    /\ consumer' = [consumer EXCEPT ![p] = "sleeping"]
    /\ UNCHANGED <<workVars, up, drops, log, linked, box, taken, started, hearVars>>

Wake(p) ==
    /\ consumer[p] = "sleeping"
    /\ consumer' = [consumer EXCEPT ![p] = "connecting"]
    /\ UNCHANGED <<workVars, up, drops, log, linked, box, taken, started, hearVars>>

-----------------------------------------------------------------------------
(* A WebSocket client and its listener. *)

\* "connected" is sent before the listener exists.
OpenClient(c) ==
    /\ client[c] = "new"
    /\ client' = [client EXCEPT ![c] = "open"]
    /\ listener' = [listener EXCEPT ![c] = "connecting"]
    /\ since' = [since EXCEPT ![c] = Len(log)]
    /\ UNCHANGED <<workVars, up, drops, log, linked, box, consumer, taken, started, got>>

Listen(c) ==
    /\ listener[c] = "connecting"
    /\ IF up
       THEN listener' = [listener EXCEPT ![c] = "listening"] /\ linked' = linked \cup {c}
       ELSE listener' = [listener EXCEPT ![c] = "ended"] /\ UNCHANGED linked
    /\ UNCHANGED <<workVars, up, drops, log, box, consumer, taken, started, client, got, since>>

Forwarded == {"upload_complete", "updated"}

\* Mutation: events of every organisation are forwarded.
ForClientOfType(e, c) == e.type \in Forwarded

ForClient(e, c) == e.type \in Forwarded /\ e.org = OrgOf[c]

Forward(c) ==
    /\ listener[c] = "listening" /\ box[c] # << >>
    /\ got' = IF ForClient(log[Head(box[c])], c)
              THEN [got EXCEPT ![c] = Append(@, Head(box[c]))] ELSE got
    /\ box' = [box EXCEPT ![c] = Tail(@)]
    /\ UNCHANGED <<workVars, up, drops, log, linked, consumer, taken, started, client, listener, since>>

\* listen raises, and the task is over: the error is logged.
EndListener(c) ==
    /\ listener[c] = "listening" /\ box[c] = << >> /\ c \notin linked
    /\ listener' = [listener EXCEPT ![c] = "ended"]
    /\ UNCHANGED <<workVars, up, drops, log, linked, box, consumer, taken, started, client, got, since>>

\* The client leaves and its listener is cancelled.
CloseClient(c) ==
    /\ client[c] = "open"
    /\ client' = [client EXCEPT ![c] = "closed"]
    /\ listener' = [listener EXCEPT ![c] = "ended"]
    /\ linked' = linked \ {c}
    /\ box' = [box EXCEPT ![c] = << >>]
    /\ UNCHANGED <<workVars, up, drops, log, consumer, taken, started, got, since>>

LoadStep(p) == OnEvent(p) \/ StartConsumer(p)
ConsumerStep(p) == Subscribe(p) \/ Dispatch(p) \/ Notice(p) \/ Wake(p)
ListenerStep(c) == Listen(c) \/ Forward(c) \/ EndListener(c)

BusNext ==
    \/ \E e \in Event : Publish(e)
    \/ \E S \in SUBSET linked : Drop(S)
    \/ ComeUp
    \/ \E p \in Procs : LoadStep(p) \/ ConsumerStep(p)
    \/ \E c \in Clients : OpenClient(c) \/ ListenerStep(c) \/ CloseClient(c)

BusSpec == BusInit /\ [][BusNext]_busVars

\* A process starts up and the event loops run; nothing makes Redis come back,
\* or a client come or go.
BusFairSpec ==
    /\ BusSpec
    /\ \A p \in Procs : WF_busVars(LoadStep(p)) /\ WF_busVars(ConsumerStep(p))
    /\ \A c \in Clients : WF_busVars(ListenerStep(c))

-----------------------------------------------------------------------------
\* An event that a process takes from the channel starts the handler of every
\* worker it has loaded for that type: none takes the place of another that was
\* loaded before it, and one that cannot be loaded takes none with it.
AllHandlersStart ==
    \A p \in Procs : \A i \in taken[p], k \in 1 .. loaded[p] :
        Registrations[k][1] = log[i].type => <<i, Registrations[k][2]>> \in started[p]

\* A client gets events of its own organisation only, each once, in their order,
\* and none from before it was connected.
ForwardedInOrder ==
    \A c \in Clients : \A j \in DOMAIN got[c] :
        /\ log[got[c][j]].org = OrgOf[c]
        /\ got[c][j] > since[c]
        /\ j > 1 => got[c][j] > got[c][j - 1]

\* "Auto-reconnects on connection drop": once Redis stays, so do the consumers.
ConsumerComesBack ==
    <>[]up => <>[](\A p \in Procs : consumer[p] = "listening" /\ p \in linked)

\* The endpoint's docstring: a connected client is sent the events of its
\* organisation.  One that is still there and has nothing left to be sent has
\* had them all.
ClientHearsAll ==
    \A c \in Clients :
        client[c] = "open" /\ box[c] = << >> /\ listener[c] # "connecting" =>
            \A i \in since[c] + 1 .. Len(log) :
                ForClient(log[i], c) => \E j \in DOMAIN got[c] : got[c][j] = i

=============================================================================
