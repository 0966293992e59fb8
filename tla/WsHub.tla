------------------------------- MODULE WsHub -------------------------------
(***************************************************************************)
(* The WebSocket hub of collaboration.py: the ConnectionManager of each    *)
(* server process, and one endpoint task per connection.                   *)
(*                                                                         *)
(* A process runs its tasks on one event loop: a task is interrupted only  *)
(* where a send or a receive has to wait.  A broadcast awaits a send per   *)
(* connection; when it has found connections dead it disconnects them, and *)
(* that broadcasts in turn: every task has a stack of broadcasts.          *)
(*                                                                         *)
(* A line is lost from the moment the server's protocol notices that the   *)
(* peer is gone: from then on sends to it raise.                           *)
(***************************************************************************)
EXTENDS Naturals, Sequences, FiniteSets

CONSTANTS
    Conns,       \* connections; each is made at most once
    Assets,      \* assets a client may watch
    Org,         \* Org[c]: the user's organization
    Proc,        \* Proc[c]: the server process that accepts the connection
    MaxMessages  \* bound on the number of message.broadcast

ASSUME HubAssumption ==
    /\ IsFiniteSet(Conns)
    /\ DOMAIN Org = Conns /\ DOMAIN Proc = Conns
    /\ MaxMessages \in Nat

VARIABLES
    line,     \* line[c]: "none", "open" or "lost"
    pc,       \* pc[c]: where the endpoint of c is
    conns,    \* org_connections of every process, by process and organization
    users,    \* the keys of ws_users, of all processes
    viewers,  \* viewers[a]: the connections in asset_viewers[a]
    running,  \* the tasks that have not come to an await (one per process)
    stack,    \* stack[c]: the broadcasts the task of c is in, innermost first
    lefts,    \* history: how often c was announced to have left
    said      \* history: of each message.broadcast, who is due it, who got it

vars == <<line, pc, conns, users, viewers, running, stack, lefts, said>>

Room(c) == <<Proc[c], Org[c]>>
Rooms == {Room(c) : c \in Conns}

Broadcast == [kind : {"joined", "left", "message"}, about : Conns,
              number : 0 .. MaxMessages, todo : SUBSET Conns, dead : SUBSET Conns]

TypeOK ==
    /\ line \in [Conns -> {"none", "open", "lost"}]
    /\ pc \in [Conns -> {"absent", "accepted", "greeting", "serving",
                         "leaving", "ended", "failed"}]
    /\ conns \in [Rooms -> SUBSET Conns]
    /\ users \subseteq Conns
    /\ viewers \in [Assets -> SUBSET Conns]
    /\ running \subseteq Conns
    /\ \A c, d \in running : Proc[c] = Proc[d] => c = d
    /\ \A c \in Conns : stack[c] \in Seq(Broadcast) /\ Len(stack[c]) <= Cardinality(Conns) + 1
    /\ lefts \in [Conns -> {0, 1}]
    /\ said \in Seq([due : SUBSET Conns, got : SUBSET Conns, done : BOOLEAN])

\* The event loop of c's process: some task may be resumed, or only c's go on.
Idle(c) == \A d \in running : Proc[d] # Proc[c]
MayGoOn(c) == c \in running \/ Idle(c)

Init ==
    /\ line    = [c \in Conns |-> "none"]
    /\ pc      = [c \in Conns |-> "absent"]
    /\ conns   = [r \in Rooms |-> {}]
    /\ users   = {}
    /\ viewers = [a \in Assets |-> {}]
    /\ running = {}
    /\ stack   = [c \in Conns |-> <<>>]
    /\ lefts   = [c \in Conns |-> 0]
    /\ said    = <<>>

-----------------------------------------------------------------------------
(* The lines. *)

\* ws.accept() is awaited before anything is registered.
Accept(c) ==
    /\ pc[c] = "absent" /\ Idle(c)
    /\ pc'   = [pc EXCEPT ![c] = "accepted"]
    /\ line' = [line EXCEPT ![c] = "open"]
    /\ UNCHANGED <<conns, users, viewers, running, stack, lefts, said>>

\* The client goes, at any time; nobody is due a message from then on.
Lose(c) ==
    /\ line[c] = "open" /\ Idle(c)
    /\ line'  = [line EXCEPT ![c] = "lost"]
    /\ said'  = [m \in DOMAIN said |-> [said[m] EXCEPT !.due = @ \ {c}]]
    /\ UNCHANGED <<pc, conns, users, viewers, running, stack, lefts>>

-----------------------------------------------------------------------------
(* ConnectionManager.disconnect, up to its broadcast. *)

BroadcastOf(kind, about, todo) ==
    [kind |-> kind, about |-> about, number |-> Len(said), todo |-> todo, dead |-> {}]

\* Mutation: the viewers are looked through only if the user is still there.
ForgetKnown(c, watching) ==
    /\ users'   = users \ {c}
    /\ conns'   = [conns EXCEPT ![Room(c)] = IF c \in users THEN @ \ {c} ELSE @]
    /\ viewers' = IF c \in users THEN [a \in Assets |-> watching[a] \ {c}] ELSE watching

\* The user is popped; only if it was there is the organization known.
\* watching is what asset_viewers has been made in the same step.
Forget(c, watching) ==
    /\ users'   = users \ {c}
    /\ conns'   = [conns EXCEPT ![Room(c)] = IF c \in users THEN @ \ {c} ELSE @]
    /\ viewers' = [a \in Assets |-> watching[a] \ {c}]

\* Mutation: the user is read, not popped, so every disconnect announces it.
FarewellAlways(c) ==
    <<BroadcastOf("left", c, conns'[Room(c)])>>

\* The broadcast that follows, if any, to those who are left.
Farewell(c) ==
    IF c \in users THEN <<BroadcastOf("left", c, conns'[Room(c)])>> ELSE <<>>

-----------------------------------------------------------------------------
(* ConnectionManager.connect. *)

\* Registered, then the welcome is sent.  If that raises, so does the endpoint,
\* whose try has not begun.
Connect(c) ==
    /\ pc[c] = "accepted" /\ Idle(c)
    /\ conns' = [conns EXCEPT ![Room(c)] = @ \cup {c}]
    /\ users' = users \cup {c}
    /\ pc'    = [pc EXCEPT ![c] = IF line[c] = "open" THEN "greeting" ELSE "failed"]
    /\ UNCHANGED <<line, viewers, running, stack, lefts, said>>

\* The welcome went out, and the others are told.
Greet(c) ==
    /\ pc[c] = "greeting" /\ Idle(c)
    /\ IF line[c] = "open"
       THEN /\ pc'      = [pc EXCEPT ![c] = "serving"]
            /\ running' = running \cup {c}
            /\ stack'   = [stack EXCEPT ![c] =
                              <<BroadcastOf("joined", c, conns[Room(c)] \ {c})>>]
       ELSE /\ pc' = [pc EXCEPT ![c] = "failed"]
            /\ UNCHANGED <<running, stack>>
    /\ UNCHANGED <<line, conns, users, viewers, lefts, said>>

-----------------------------------------------------------------------------
(* ConnectionManager.broadcast_to_org, in the task of c. *)

Current(c) == Head(stack[c])

\* Mutation: a failed send ends the broadcast.
DeliverUntilDead(c, d) ==
    /\ stack[c] # <<>> /\ MayGoOn(c)
    /\ d \in Current(c).todo
    /\ IF line[d] = "open"
       THEN /\ stack'   = [stack EXCEPT ![c][1].todo = @ \ {d}]
            /\ running' = running \ {c}
            /\ said'    = IF Current(c).kind = "message"
                          THEN [said EXCEPT ![Current(c).number].got = @ \cup {d}]
                          ELSE said
       ELSE /\ stack'   = [stack EXCEPT ![c][1].todo = {},
                                        ![c][1].dead = @ \cup {d}]
            /\ running' = running \cup {c}
            /\ UNCHANGED said
    /\ UNCHANGED <<line, pc, conns, users, viewers, lefts>>

\* What is left of a broadcast after a send to d.
Sent(b, d) ==
    [b EXCEPT !.todo = @ \ {d},
              !.dead = IF line[d] = "open" THEN @ ELSE @ \cup {d}]

\* One send of the loop: it waits, or raises at once.
Deliver(c, d) ==
    /\ stack[c] # <<>> /\ MayGoOn(c)
    /\ d \in Current(c).todo
    /\ stack' = [stack EXCEPT ![c][1] = Sent(@, d)]
    /\ IF line[d] = "open"
       THEN /\ running' = running \ {c}
            /\ said'    = IF Current(c).kind = "message"
                          THEN [said EXCEPT ![Current(c).number].got = @ \cup {d}]
                          ELSE said
       ELSE /\ running' = running \cup {c}
            /\ UNCHANGED said
    /\ UNCHANGED <<line, pc, conns, users, viewers, lefts>>

\* After the loop: a connection that was found dead is disconnected.
Reap(c, d) ==
    /\ stack[c] # <<>> /\ MayGoOn(c)
    /\ Current(c).todo = {}
    /\ d \in Current(c).dead
    /\ Forget(d, viewers)
    /\ lefts' = [lefts EXCEPT ![d] = @ + Len(Farewell(d))]
    /\ stack' = [stack EXCEPT ![c] = Farewell(d) \o [stack[c] EXCEPT ![1].dead = @ \ {d}]]
    /\ running' = running \cup {c}
    /\ UNCHANGED <<line, pc, said>>

\* The caller goes on: with a broadcast around this one, to its end, or to
\* receive_text.
EndBroadcast(c) ==
    /\ stack[c] # <<>> /\ MayGoOn(c)
    /\ Current(c).todo = {} /\ Current(c).dead = {}
    /\ stack'   = [stack EXCEPT ![c] = Tail(@)]
    /\ running' = IF Len(stack[c]) = 1 /\ pc[c] = "serving"
                  THEN running \ {c} ELSE running \cup {c}
    /\ said'    = IF Current(c).kind = "message"
                  THEN [said EXCEPT ![Current(c).number].done = TRUE]
                  ELSE said
    /\ UNCHANGED <<line, pc, conns, users, viewers, lefts>>

-----------------------------------------------------------------------------
(* handle_message, and the endpoint's finally. *)

Serving(c) == pc[c] = "serving" /\ stack[c] = <<>> /\ Idle(c)

\* The finally of the endpoint, in the step that raised.
Leave(c, watching) ==
    /\ Forget(c, watching)
    /\ lefts' = [lefts EXCEPT ![c] = @ + Len(Farewell(c))]
    /\ stack' = [stack EXCEPT ![c] = Farewell(c)]
    /\ pc'    = [pc EXCEPT ![c] = "leaving"]
    /\ running' = running \cup {c}
    /\ UNCHANGED <<line, said>>

\* Mutation: an endpoint whose receive_text raises goes on receiving.
StopIfOpen(c) ==
    /\ Serving(c) /\ line[c] = "open"
    /\ Leave(c, viewers)

\* receive_text or a reply raises, or the message is no object.
Stop(c) ==
    /\ Serving(c)
    /\ Leave(c, viewers)

\* The reply to a change of asset_viewers raises if the line is lost.
SetViewers(c, watching) ==
    IF line[c] = "open"
    THEN /\ viewers' = watching
         /\ UNCHANGED <<line, pc, conns, users, running, stack, lefts, said>>
    ELSE Leave(c, watching)

\* asset.watch: what arrived before the line was lost is handled after it.
Watch(c, a) ==
    /\ Serving(c)
    /\ SetViewers(c, [viewers EXCEPT ![a] = @ \cup {c}])

\* asset.unwatch
Unwatch(c, a) ==
    /\ Serving(c)
    /\ SetViewers(c, [viewers EXCEPT ![a] = @ \ {c}])

\* message.broadcast goes to the organization's connections in this process,
\* the sender's included.
Say(c) ==
    /\ Serving(c)
    /\ Len(said) < MaxMessages
    /\ said'  = Append(said, [due  |-> {d \in users : Org[d] = Org[c] /\ line[d] = "open"},
                              got  |-> {}, done |-> FALSE])
    /\ stack' = [stack EXCEPT ![c] =
                    <<[BroadcastOf("message", c, conns[Room(c)]) EXCEPT !.number = @ + 1]>>]
    /\ running' = running \cup {c}
    /\ UNCHANGED <<line, pc, conns, users, viewers, lefts>>

\* The endpoint returns and the server closes what is left of the line.
End(c) ==
    /\ pc[c] = "leaving" /\ stack[c] = <<>>
    /\ pc'      = [pc EXCEPT ![c] = "ended"]
    /\ running' = running \ {c}
    /\ line'    = [line EXCEPT ![c] = "lost"]
    /\ said'    = [m \in DOMAIN said |-> [said[m] EXCEPT !.due = @ \ {c}]]
    /\ UNCHANGED <<conns, users, viewers, stack, lefts>>

-----------------------------------------------------------------------------
\* What the event loop runs once it can.
Task(c) ==
    \/ Connect(c) \/ Greet(c)
    \/ \E d \in Conns : Deliver(c, d) \/ Reap(c, d)
    \/ EndBroadcast(c)
    \/ End(c)
    \/ line[c] = "lost" /\ Stop(c)

Client(c) ==
    \/ Accept(c) \/ Lose(c) \/ Stop(c)
    \/ \E a \in Assets : Watch(c, a) \/ Unwatch(c, a)
    \/ Say(c)

Next == \E c \in Conns : Task(c) \/ Client(c)

Spec == Init /\ [][Next]_vars

-----------------------------------------------------------------------------
\* Nothing of a connection stays behind once its endpoint has ended, however
\* many tasks disconnected it and whatever it handled after the first did.
EndedIsForgotten ==
    \A c \in Conns : pc[c] = "ended" =>
        /\ c \notin users
        /\ \A r \in Rooms : c \notin conns[r]
        /\ \A a \in Assets : c \notin viewers[a]

\* A connection is announced to have left exactly once, whether its own task
\* or another's broadcast was first to notice.
LeftOnce ==
    \A c \in Conns : lefts[c] =
        IF c \in users \/ pc[c] \in {"absent", "accepted"} THEN 0 ELSE 1

\* A finished message.broadcast has reached every connection of the
\* organization that was there from its beginning to its end.
BroadcastReachesOrg ==
    \A m \in DOMAIN said : said[m].done => said[m].due \subseteq said[m].got

\* The event loops have nothing left to run.
CanRun(c) == ENABLED Task(c)
AtRest == \A c \in Conns : ~CanRun(c)

\* At rest every broadcast is over, and no connection that was being served
\* when its line was lost is still in the manager: no task waits for ever for
\* another, whoever was first to notice.
ServedIsForgotten ==
    AtRest => \A c \in Conns :
        /\ stack[c] = <<>>
        /\ line[c] = "lost" /\ pc[c] # "failed" => c \notin conns[Room(c)]

-----------------------------------------------------------------------------
(* What a test says, and the code does not do. *)

\* test_disconnection_cleanup asserts "org_id not in manager.org_connections"
\* after the client is gone.
LostIsForgotten ==
    AtRest => \A c \in Conns : line[c] = "lost" => c \notin conns[Room(c)]

=============================================================================
