--------------------------- MODULE RealTimeProofs ---------------------------
(***************************************************************************)
(* Proofs about what reaches a WebSocket client: WsHub, for any            *)
(* connections, organizations, processes and assets, any number of         *)
(* messages, and any nesting of broadcasts; and EventBus, for any          *)
(* processes, clients and organisations, any number of events and any      *)
(* number of lost connections.                                             *)
(***************************************************************************)
EXTENDS WsHub, EventBus, SequenceTheorems, FiniteSetTheorems, TLAPS

-----------------------------------------------------------------------------
(* WsHub. *)

PCs == {"absent", "accepted", "greeting", "serving", "leaving", "ended", "failed"}

\* What the manager holds, and where the endpoints are.
Manager ==
    /\ pc \in [Conns -> PCs]
    /\ conns \in [Rooms -> SUBSET Conns]
    /\ users \subseteq Conns
    /\ viewers \in [Assets -> SUBSET Conns]
    /\ lefts \in [Conns -> Nat]

(***************************************************************************)
(* The manager finds the organization of a connection through ws_users     *)
(* only.  So a connection must never be left in an organization when it is *)
(* no longer there, and nothing may be added for one that is leaving.      *)
(***************************************************************************)
ConnInv(c) ==
    /\ \A r \in Rooms : c \in conns[r] <=> r = Room(c) /\ c \in users
    /\ pc[c] \in {"absent", "accepted"} => c \notin users
    /\ pc[c] \in {"leaving", "ended"} =>
          /\ c \notin users
          /\ \A a \in Assets : c \notin viewers[a]
    /\ lefts[c] = IF c \in users \/ pc[c] \in {"absent", "accepted"} THEN 0 ELSE 1

Inv == Manager /\ \A c \in Conns : ConnInv(c)

USE HubAssumption

-----------------------------------------------------------------------------
LEMMA RoomsOfConns == \A c \in Conns : Room(c) \in Rooms
BY DEF Rooms

\* A connection of which nothing changes.
LEMMA ConnKept ==
    ASSUME NEW c \in Conns, ConnInv(c),
           pc'[c] = pc[c], lefts'[c] = lefts[c], (c \in users') <=> (c \in users),
           \A r \in Rooms : c \in conns'[r] <=> c \in conns[r],
           \A a \in Assets : c \in viewers'[a] => c \in viewers[a]
    PROVE  ConnInv(c)'
BY DEF ConnInv, Room

\* Forgetting a connection takes it out of its organization, and announces it if
\* it was there.  Of another connection nothing is touched.
LEMMA ForgetEffect ==
    ASSUME Inv, NEW d \in Conns, NEW watching \in [Assets -> SUBSET Conns],
           Forget(d, watching), lefts' = [lefts EXCEPT ![d] = @ + Len(Farewell(d))]
    PROVE  /\ conns' \in [Rooms -> SUBSET Conns] /\ users' \subseteq Conns
           /\ viewers' \in [Assets -> SUBSET Conns] /\ lefts' \in [Conns -> Nat]
           /\ d \notin users' /\ \A r \in Rooms : d \notin conns'[r]
           /\ \A a \in Assets : d \notin viewers'[a]
           /\ lefts'[d] = IF d \in users THEN lefts[d] + 1 ELSE lefts[d]
           /\ \A c \in Conns \ {d} : /\ (c \in users') <=> (c \in users)
                                     /\ lefts'[c] = lefts[c]
                                     /\ \A r \in Rooms : c \in conns'[r] <=> c \in conns[r]
                                     /\ \A a \in Assets : c \in viewers'[a] => c \in watching[a]
<1>0. Manager /\ ConnInv(d)
  BY DEF Inv
<1>1. Len(Farewell(d)) = IF d \in users THEN 1 ELSE 0
  BY DEF Farewell
<1>2. /\ users' = users \ {d}
      /\ conns' = [conns EXCEPT ![Room(d)] = IF d \in users THEN @ \ {d} ELSE @]
      /\ viewers' = [a \in Assets |-> watching[a] \ {d}]
  BY DEF Forget
<1>3. /\ conns' \in [Rooms -> SUBSET Conns]
      /\ \A r \in Rooms : conns'[r] \in {conns[r], conns[r] \ {d}}
  BY <1>0, <1>2, RoomsOfConns DEF Manager
<1>4. \A r \in Rooms : d \notin conns'[r]
  <2>1. ASSUME NEW r \in Rooms, d \in conns[r] PROVE d \notin conns'[r]
    <3>1. r = Room(d) /\ d \in users
      BY <1>0, <2>1 DEF ConnInv
    <3>2. QED
      BY <1>0, <1>2, <2>1, <3>1 DEF Manager
  <2>2. QED
    BY <1>3, <2>1
<1>5. \A a \in Assets : viewers'[a] = watching[a] \ {d}
  BY <1>2
<1>6. /\ lefts' \in [Conns -> Nat] /\ \A c \in Conns \ {d} : lefts'[c] = lefts[c]
      /\ lefts'[d] = IF d \in users THEN lefts[d] + 1 ELSE lefts[d]
  BY <1>0, <1>1 DEF Manager
<1>7. viewers' \in [Assets -> SUBSET Conns] /\ users' \subseteq Conns
  BY <1>0, <1>2 DEF Manager
<1>8. QED
  BY <1>2, <1>3, <1>4, <1>5, <1>6, <1>7

-----------------------------------------------------------------------------
LEMMA InvInit == Init => Inv
BY DEF Init, Inv, Manager, ConnInv, PCs

\* Steps that touch only the lines, the loops and the broadcasts.
LEMMA InvQuiet ==
    ASSUME Inv, UNCHANGED <<pc, conns, users, viewers, lefts>>
    PROVE  Inv'
BY DEF Inv, Manager, ConnInv, Room, Rooms

\* A step of the endpoint of c, which registers nothing.
LEMMA InvGoto ==
    ASSUME Inv, NEW c \in Conns, NEW to \in PCs, pc' = [pc EXCEPT ![c] = to],
           UNCHANGED <<conns, users, viewers, lefts>>,
           \/ pc[c] \in {"absent"} /\ to = "accepted"
           \/ pc[c] = "greeting" /\ to \in {"serving", "failed"}
           \/ pc[c] = "leaving" /\ to = "ended"
    PROVE  Inv'
<1>1. /\ pc' \in [Conns -> PCs] /\ pc'[c] = to
      /\ \A d \in Conns \ {c} : pc'[d] = pc[d]
  BY DEF Inv, Manager
<1>2. ConnInv(c)'
  BY <1>1 DEF Inv, ConnInv, Room, Rooms
<1>3. \A d \in Conns \ {c} : ConnInv(d)'
  BY <1>1, ConnKept DEF Inv
<1>4. QED
  BY <1>1, <1>2, <1>3 DEF Inv, Manager, Rooms, Room

LEMMA InvConnect ==
    ASSUME Inv, NEW c \in Conns, Connect(c)
    PROVE  Inv'
<1>0. Manager /\ ConnInv(c) /\ pc[c] = "accepted"
  BY DEF Inv, Connect
<1>1. /\ conns' = [conns EXCEPT ![Room(c)] = @ \cup {c}] /\ users' = users \cup {c}
      /\ pc' = [pc EXCEPT ![c] = IF line[c] = "open" THEN "greeting" ELSE "failed"]
      /\ UNCHANGED <<viewers, lefts>>
  BY DEF Connect
<1>2. conns' \in [Rooms -> SUBSET Conns]
  BY <1>0, <1>1, RoomsOfConns DEF Manager
<1>3. /\ pc' \in [Conns -> PCs] /\ pc'[c] \in {"greeting", "failed"}
      /\ \A d \in Conns \ {c} : pc'[d] = pc[d]
  BY <1>0, <1>1 DEF Manager, PCs
<1>4. /\ \A r \in Rooms : c \in conns'[r] <=> r = Room(c)
      /\ \A d \in Conns \ {c} : \A r \in Rooms : d \in conns'[r] <=> d \in conns[r]
  BY <1>0, <1>1, RoomsOfConns DEF Manager, ConnInv
<1>5. ConnInv(c)'
  BY <1>0, <1>1, <1>3, <1>4 DEF ConnInv, Room, Rooms
<1>6. \A d \in Conns \ {c} : ConnInv(d)'
  BY <1>1, <1>3, <1>4, ConnKept DEF Inv
<1>7. Manager'
  BY <1>0, <1>1, <1>2, <1>3 DEF Manager, Rooms, Room
<1>8. QED
  BY <1>5, <1>6, <1>7 DEF Inv

LEMMA InvReap ==
    ASSUME Inv, NEW c \in Conns, NEW d \in Conns, Reap(c, d)
    PROVE  Inv'
<1>0. Manager /\ ConnInv(d) /\ UNCHANGED pc
  BY DEF Inv, Reap
<1>1. /\ conns' \in [Rooms -> SUBSET Conns] /\ users' \subseteq Conns
      /\ viewers' \in [Assets -> SUBSET Conns] /\ lefts' \in [Conns -> Nat]
      /\ d \notin users' /\ \A r \in Rooms : d \notin conns'[r]
      /\ \A a \in Assets : d \notin viewers'[a]
      /\ lefts'[d] = IF d \in users THEN lefts[d] + 1 ELSE lefts[d]
      /\ \A e \in Conns \ {d} : /\ (e \in users') <=> (e \in users)
                                /\ lefts'[e] = lefts[e]
                                /\ \A r \in Rooms : e \in conns'[r] <=> e \in conns[r]
                                /\ \A a \in Assets : e \in viewers'[a] => e \in viewers[a]
  BY <1>0, ForgetEffect DEF Reap, Manager
<1>2. ConnInv(d)'
  BY <1>0, <1>1 DEF ConnInv, Room, Rooms
<1>3. \A e \in Conns \ {d} : ConnInv(e)'
  BY <1>0, <1>1, ConnKept DEF Inv
<1>4. QED
  BY <1>0, <1>1, <1>2, <1>3 DEF Inv, Manager, Rooms, Room

\* The finally of an endpoint that was being served.
LEMMA InvLeave ==
    ASSUME Inv, NEW c \in Conns, pc[c] = "serving",
           NEW watching \in [Assets -> SUBSET Conns], Leave(c, watching),
           \A e \in Conns \ {c} : \A a \in Assets : e \in watching[a] => e \in viewers[a]
    PROVE  Inv'
<1>0. Manager /\ ConnInv(c)
  BY DEF Inv
<1>1. /\ conns' \in [Rooms -> SUBSET Conns] /\ users' \subseteq Conns
      /\ viewers' \in [Assets -> SUBSET Conns] /\ lefts' \in [Conns -> Nat]
      /\ c \notin users' /\ \A r \in Rooms : c \notin conns'[r]
      /\ \A a \in Assets : c \notin viewers'[a]
      /\ lefts'[c] = IF c \in users THEN lefts[c] + 1 ELSE lefts[c]
      /\ \A e \in Conns \ {c} : /\ (e \in users') <=> (e \in users)
                                /\ lefts'[e] = lefts[e]
                                /\ \A r \in Rooms : e \in conns'[r] <=> e \in conns[r]
                                /\ \A a \in Assets : e \in viewers'[a] => e \in watching[a]
  BY <1>0, ForgetEffect DEF Leave
<1>2. /\ pc' \in [Conns -> PCs] /\ pc'[c] = "leaving"
      /\ \A e \in Conns \ {c} : pc'[e] = pc[e]
  BY <1>0 DEF Leave, Manager, PCs
<1>3. ConnInv(c)'
  BY <1>0, <1>1, <1>2 DEF ConnInv, Room, Rooms
<1>4. \A e \in Conns \ {c} : ConnInv(e)'
  BY <1>1, <1>2, ConnKept DEF Inv
<1>5. QED
  BY <1>1, <1>2, <1>3, <1>4 DEF Inv, Manager, Rooms, Room

LEMMA InvSetViewers ==
    ASSUME Inv, NEW c \in Conns, pc[c] = "serving",
           NEW watching \in [Assets -> SUBSET Conns], SetViewers(c, watching),
           \A e \in Conns \ {c} : \A a \in Assets : e \in watching[a] => e \in viewers[a]
    PROVE  Inv'
<1>1. CASE line[c] = "open"
  <2>1. viewers' = watching /\ UNCHANGED <<pc, conns, users, lefts>>
    BY <1>1 DEF SetViewers
  <2>2. ConnInv(c)'
    BY <2>1 DEF Inv, ConnInv, Room, Rooms
  <2>3. \A e \in Conns \ {c} : ConnInv(e)'
    BY <2>1, ConnKept DEF Inv
  <2>4. QED
    BY <2>1, <2>2, <2>3 DEF Inv, Manager, Rooms, Room
<1>2. CASE line[c] # "open"
  BY <1>2, InvLeave DEF SetViewers
<1>3. QED
  BY <1>1, <1>2

LEMMA InvStep == Inv /\ [Next]_vars => Inv'
<1> SUFFICES ASSUME Inv, [Next]_vars PROVE Inv'
  OBVIOUS
<1>0. Manager
  BY DEF Inv
<1>1. CASE UNCHANGED vars
  BY <1>1, InvQuiet DEF vars
<1>2. ASSUME NEW c \in Conns, Task(c) \/ Client(c) PROVE Inv'
  <2>1. CASE Accept(c) \/ Greet(c) \/ End(c)
    BY <2>1, InvGoto DEF Accept, Greet, End, PCs
  <2>2. CASE Connect(c)
    BY <2>2, InvConnect
  <2>3. CASE EndBroadcast(c) \/ Lose(c) \/ Say(c) \/ \E d \in Conns : Deliver(c, d)
    BY <2>3, InvQuiet DEF EndBroadcast, Lose, Say, Deliver
  <2>4. ASSUME NEW d \in Conns, Reap(c, d) PROVE Inv'
    BY <2>4, InvReap
  <2>5. CASE Stop(c)
    BY <1>0, <2>5, InvLeave DEF Stop, Serving, Manager
  <2>6. ASSUME NEW a \in Assets, Watch(c, a) \/ Unwatch(c, a) PROVE Inv'
    <3>1. CASE Watch(c, a)
      <4>1. /\ [viewers EXCEPT ![a] = @ \cup {c}] \in [Assets -> SUBSET Conns]
            /\ \A e \in Conns \ {c} : \A b \in Assets :
                  e \in [viewers EXCEPT ![a] = @ \cup {c}][b] => e \in viewers[b]
        BY <1>0 DEF Manager
      <4>2. pc[c] = "serving" /\ SetViewers(c, [viewers EXCEPT ![a] = @ \cup {c}])
        BY <3>1 DEF Watch, Serving
      <4>3. QED
        BY <4>1, <4>2, InvSetViewers
    <3>2. CASE Unwatch(c, a)
      <4>1. /\ [viewers EXCEPT ![a] = @ \ {c}] \in [Assets -> SUBSET Conns]
            /\ \A e \in Conns \ {c} : \A b \in Assets :
                  e \in [viewers EXCEPT ![a] = @ \ {c}][b] => e \in viewers[b]
        BY <1>0 DEF Manager
      <4>2. pc[c] = "serving" /\ SetViewers(c, [viewers EXCEPT ![a] = @ \ {c}])
        BY <3>2 DEF Unwatch, Serving
      <4>3. QED
        BY <4>1, <4>2, InvSetViewers
    <3>3. QED
      BY <2>6, <3>1, <3>2
  <2>7. QED
    BY <1>2, <2>1, <2>2, <2>3, <2>4, <2>5, <2>6 DEF Task, Client
<1>3. QED
  BY <1>1, <1>2 DEF Next

LEMMA InvAlways == Spec => []Inv
<1>1. QED
  BY InvInit, InvStep, PTL DEF Spec

\* disconnect: nothing of a connection stays in the manager once its endpoint has
\* ended, whichever task disconnected it first, how deep in broadcasts it was, and
\* whatever the endpoint handled afterwards.
THEOREM EndedStaysForgotten == Spec => []EndedIsForgotten
<1>1. Inv => EndedIsForgotten
  BY DEF Inv, ConnInv, EndedIsForgotten
<1>2. QED
  BY <1>1, InvAlways, PTL

\* disconnect: a connection is announced to have left once, whoever notices first.
THEOREM LeavesOnce == Spec => []LeftOnce
<1>1. Inv => LeftOnce
  BY DEF Inv, ConnInv, LeftOnce
<1>2. QED
  BY <1>1, InvAlways, PTL

-----------------------------------------------------------------------------
(***************************************************************************)
(* A message.broadcast has yet to send to whom it has not reached: those   *)
(* it is due to are those it reached and those its loop still has before   *)
(* it, however many other broadcasts the loop comes to in between.         *)
(***************************************************************************)
Covers(b, messages) ==
    b.kind = "message" =>
        /\ b.number \in 1 .. Len(messages)
        /\ messages[b.number].due \subseteq messages[b.number].got \cup b.todo

StacksCover(stacks, messages) ==
    /\ stacks \in [Conns -> Seq(Broadcast)]
    /\ \A c \in Conns : \A i \in 1 .. Len(stacks[c]) : Covers(stacks[c][i], messages)

Message == [due : SUBSET Conns, got : SUBSET Conns, done : BOOLEAN]
Messages == Seq(Message)

\* Nothing is due over a lost line.
Reached(messages, lines) ==
    /\ messages \in Messages /\ Len(messages) <= MaxMessages
    /\ \A m \in 1 .. Len(messages) :
          /\ messages[m].done => messages[m].due \subseteq messages[m].got
          /\ \A d \in messages[m].due : lines[d] = "open"

SaidInv == StacksCover(stack, said) /\ Reached(said, line)

OneProcess == \A c, d \in Conns : Proc[c] = Proc[d]

\* More messages, which have reached more connections and are due to fewer.
MoreSaid(old, new) ==
    /\ old \in Messages /\ new \in Messages /\ Len(old) <= Len(new)
    /\ \A m \in 1 .. Len(old) : new[m].due \subseteq old[m].due /\ old[m].got \subseteq new[m].got

LEMMA CoversMore ==
    ASSUME NEW b, NEW old, NEW new, MoreSaid(old, new), Covers(b, old)
    PROVE  Covers(b, new)
<1>1. Len(old) \in Nat /\ Len(new) \in Nat
  BY DEF MoreSaid, Messages
<1>2. QED
  BY <1>1 DEF Covers, MoreSaid

LEMMA StacksCoverMore ==
    ASSUME NEW stacks, NEW old, NEW new, MoreSaid(old, new), StacksCover(stacks, old)
    PROVE  StacksCover(stacks, new)
<1>1. ASSUME NEW c \in Conns, NEW i \in 1 .. Len(stacks[c]) PROVE Covers(stacks[c][i], new)
  <2>1. Covers(stacks[c][i], old)
    BY DEF StacksCover
  <2>2. QED
    BY <2>1, CoversMore
<1>2. QED
  BY <1>1 DEF StacksCover

\* A task goes on to another broadcast, or leaves one.
LEMMA StackReplaced ==
    ASSUME NEW stacks, NEW messages, StacksCover(stacks, messages),
           NEW c \in Conns, NEW s \in Seq(Broadcast),
           \A i \in 1 .. Len(s) : Covers(s[i], messages)
    PROVE  StacksCover([stacks EXCEPT ![c] = s], messages)
<1> DEFINE new == [stacks EXCEPT ![c] = s]
<1>1. new \in [Conns -> Seq(Broadcast)] /\ new[c] = s /\ \A d \in Conns \ {c} : new[d] = stacks[d]
  BY DEF StacksCover
<1>2. ASSUME NEW d \in Conns, NEW i \in 1 .. Len(new[d]) PROVE Covers(new[d][i], messages)
  <2>1. CASE d = c
    BY <1>1, <1>2, <2>1
  <2>2. CASE d # c
    <3>1. new[d] = stacks[d]
      BY <1>1, <2>2
    <3>2. QED
      BY <1>2, <3>1 DEF StacksCover
  <2>3. QED
    BY <2>1, <2>2
<1>3. QED
  BY <1>1, <1>2 DEF StacksCover

\* The innermost broadcast of a task.
LEMMA Innermost ==
    ASSUME NEW s \in Seq(Broadcast), s # << >>, NEW messages,
           \A i \in 1 .. Len(s) : Covers(s[i], messages)
    PROVE  /\ Head(s) = s[1] /\ 1 \in 1 .. Len(s) /\ Len(s) \in Nat
           /\ Head(s) \in Broadcast /\ Covers(Head(s), messages)
           /\ Tail(s) \in Seq(Broadcast)
           /\ \A i \in 1 .. Len(Tail(s)) : Covers(Tail(s)[i], messages)
<1>1. /\ Head(s) \in Broadcast /\ Tail(s) \in Seq(Broadcast) /\ Len(Tail(s)) = Len(s) - 1
      /\ \A i \in 1 .. Len(Tail(s)) : Tail(s)[i] = s[i + 1]
  BY HeadTailProperties
<1>2. Len(s) \in Nat \ {0} /\ Head(s) = s[1]
  OBVIOUS
<1>3. 1 \in 1 .. Len(s) /\ \A i \in 1 .. Len(Tail(s)) : i + 1 \in 1 .. Len(s)
  BY <1>1, <1>2
<1>4. QED
  BY <1>1, <1>2, <1>3

\* What a broadcast sets out with, before or above the others of its task.
LEMMA Pushed ==
    ASSUME NEW s \in Seq(Broadcast), NEW b \in Broadcast, NEW messages, Covers(b, messages),
           \A i \in 1 .. Len(s) : Covers(s[i], messages)
    PROVE  /\ <<b>> \o s \in Seq(Broadcast)
           /\ \A i \in 1 .. Len(<<b>> \o s) : Covers((<<b>> \o s)[i], messages)
<1>1. <<b>> \in Seq(Broadcast) /\ Len(<<b>>) = 1 /\ <<b>>[1] = b
  OBVIOUS
<1>2. /\ <<b>> \o s \in Seq(Broadcast) /\ Len(<<b>> \o s) = 1 + Len(s)
      /\ \A i \in 1 .. Len(<<b>>) + Len(s) : (<<b>> \o s)[i] =
            IF i <= Len(<<b>>) THEN <<b>>[i] ELSE s[i - Len(<<b>>)]
  BY <1>1, ConcatProperties
<1>3. Len(s) \in Nat
  OBVIOUS
<1>4. ASSUME NEW i \in 1 .. 1 + Len(s) PROVE Covers((<<b>> \o s)[i], messages)
  <2>1. CASE i = 1
    <3>1. (<<b>> \o s)[i] = b
      BY <1>1, <1>2, <1>3, <2>1
    <3>2. QED
      BY <3>1
  <2>2. CASE i # 1
    <3>1. (<<b>> \o s)[i] = s[i - 1] /\ i - 1 \in 1 .. Len(s)
      BY <1>1, <1>2, <1>3, <1>4, <2>2
    <3>2. QED
      BY <3>1
  <2>3. QED
    BY <2>1, <2>2
<1>5. QED
  BY <1>2, <1>4

\* One message is changed.
LEMMA MessageReplaced ==
    ASSUME NEW messages \in Messages, NEW n \in 1 .. Len(messages),
           NEW x \in Message,
           x.due \subseteq messages[n].due, messages[n].got \subseteq x.got
    PROVE  /\ MoreSaid(messages, [messages EXCEPT ![n] = x])
           /\ Len([messages EXCEPT ![n] = x]) = Len(messages)
           /\ [messages EXCEPT ![n] = x][n] = x
           /\ \A m \in 1 .. Len(messages) : m # n => [messages EXCEPT ![n] = x][m] = messages[m]
<1> DEFINE new == [messages EXCEPT ![n] = x]
<1>1. /\ new \in Messages /\ Len(new) = Len(messages)
      /\ \A m \in 1 .. Len(messages) : new[m] = IF m = n THEN x ELSE messages[m]
  BY ExceptSeq DEF Messages
<1>2. Len(messages) \in Nat
  BY DEF Messages
<1> HIDE DEF new
<1>3. MoreSaid(messages, new)
  BY <1>1, <1>2 DEF MoreSaid
<1>4. QED
  BY <1>1, <1>3 DEF new

-----------------------------------------------------------------------------
\* A line is lost, or closed: its connection is due nothing any more.
LEMMA SaidLost ==
    ASSUME SaidInv, NEW c \in Conns,
           said' = [m \in DOMAIN said |-> [said[m] EXCEPT !.due = @ \ {c}]],
           \A d \in Conns \ {c} : line'[d] = line[d],
           UNCHANGED stack
    PROVE  SaidInv'
<1>1. /\ said \in Messages /\ Len(said) \in Nat /\ DOMAIN said = 1 .. Len(said)
      /\ \A m \in 1 .. Len(said) : said[m] \in Message
  <2>1. said \in Seq(Message)
    BY DEF SaidInv, Reached, Messages
  <2>2. QED
    BY <2>1, ElementOfSeq, LenProperties DEF Messages
<1>2. \A m \in 1 .. Len(said) :
         /\ said'[m] \in Message
         /\ said'[m].due = said[m].due \ {c}
         /\ said'[m].got = said[m].got /\ said'[m].done = said[m].done
  BY <1>1 DEF Message
<1>3. said' = [m \in 1 .. Len(said) |-> said'[m]]
  BY <1>1
<1>4. said' \in Messages /\ Len(said') = Len(said)
  <2>1. [m \in 1 .. Len(said) |-> said'[m]] \in Messages
    <3>1. \A m \in 1 .. Len(said) : said'[m] \in Message
      BY <1>2
    <3>2. [m \in 1 .. Len(said) |-> said'[m]] \in Seq(Message)
      BY <1>1, <3>1, IsASeq
    <3>3. QED
      BY <3>2 DEF Messages
  <2>2. Len([m \in 1 .. Len(said) |-> said'[m]]) = Len(said)
    BY <1>1
  <2>3. QED
    BY <1>3, <2>1, <2>2
<1>5. MoreSaid(said, said')
  BY <1>1, <1>2, <1>4 DEF MoreSaid
<1>6. StacksCover(stack', said')
  BY <1>5, StacksCoverMore DEF SaidInv
<1>7. Reached(said', line')
  <2>1. Reached(said, line)
    BY DEF SaidInv
  <2>2. ASSUME NEW m \in 1 .. Len(said)
        PROVE  /\ said'[m].done => said'[m].due \subseteq said'[m].got
               /\ \A e \in said'[m].due : line'[e] = "open"
    <3>1. said[m].due \subseteq Conns
      BY <1>1 DEF Message
    <3>2. /\ said[m].done => said[m].due \subseteq said[m].got
          /\ \A e \in said[m].due : line[e] = "open"
      BY <2>1 DEF Reached
    <3>3. QED
      BY <1>2, <3>1, <3>2
  <2>3. QED
    BY <1>4, <2>1, <2>2 DEF Reached
<1>8. QED
  BY <1>6, <1>7 DEF SaidInv

LEMMA SaidDeliver ==
    ASSUME SaidInv, NEW c \in Conns, NEW d \in Conns, Deliver(c, d)
    PROVE  SaidInv'
<1> DEFINE s == stack[c]
           b == Head(s)
           n == b.number
<1>1. /\ s \in Seq(Broadcast) /\ s # << >> /\ d \in b.todo /\ UNCHANGED line
      /\ \A i \in 1 .. Len(s) : Covers(s[i], said)
  BY DEF SaidInv, StacksCover, Deliver, Current
<1>2. b = s[1] /\ 1 \in 1 .. Len(s) /\ b \in Broadcast /\ Covers(b, said) /\ Len(s) \in Nat
  BY <1>1, Innermost
<1>3. PICK x \in Broadcast :
         /\ stack' = [stack EXCEPT ![c] = [s EXCEPT ![1] = x]]
         /\ x.kind = b.kind /\ x.number = n /\ x.todo = b.todo \ {d}
  <2>1. Sent(b, d) \in Broadcast
    BY <1>2 DEF Sent, Broadcast
  <2>2. /\ Sent(b, d).kind = b.kind /\ Sent(b, d).number = n
        /\ Sent(b, d).todo = b.todo \ {d}
    BY <1>2 DEF Sent, Broadcast
  <2>3. stack' = [stack EXCEPT ![c] = [s EXCEPT ![1] = Sent(b, d)]]
    BY <1>2 DEF Deliver
  <2>4. QED
    BY <2>1, <2>2, <2>3
<1> DEFINE t == [s EXCEPT ![1] = x]
<1>4. /\ t \in Seq(Broadcast) /\ Len(t) = Len(s)
      /\ \A i \in 1 .. Len(s) : t[i] = IF i = 1 THEN x ELSE s[i]
  BY <1>1, <1>2, ExceptSeq
<1>5. MoreSaid(said, said') /\ Covers(x, said') /\ Reached(said', line')
  <2>0. said \in Messages /\ Reached(said, line)
    BY DEF SaidInv, Reached
  <2>1. CASE line[d] = "open" /\ b.kind = "message"
    <3>1. n \in 1 .. Len(said) /\ said[n].due \subseteq said[n].got \cup b.todo
      BY <1>2, <2>1 DEF Covers
    <3>2. said[n] \in Message
      BY <2>0, <3>1, ElementOfSeq DEF Messages
    <3> DEFINE y == [said[n] EXCEPT !.got = @ \cup {d}]
    <3>3. /\ y \in Message
          /\ y.due = said[n].due /\ y.done = said[n].done /\ y.got = said[n].got \cup {d}
      BY <3>2 DEF Message
    <3>4. said' = [said EXCEPT ![n] = y]
      BY <2>1 DEF Deliver, Current
    <3> HIDE DEF y
    <3>5. /\ MoreSaid(said, said') /\ Len(said') = Len(said) /\ said'[n] = y
          /\ \A m \in 1 .. Len(said) : m # n => said'[m] = said[m]
      <4>1. y.due \subseteq said[n].due /\ said[n].got \subseteq y.got /\ y \in Message
        BY <3>3
      <4>2. /\ MoreSaid(said, [said EXCEPT ![n] = y])
            /\ Len([said EXCEPT ![n] = y]) = Len(said) /\ [said EXCEPT ![n] = y][n] = y
            /\ \A m \in 1 .. Len(said) : m # n => [said EXCEPT ![n] = y][m] = said[m]
        BY <2>0, <3>1, <4>1, MessageReplaced
      <4>3. QED
        BY <3>4, <4>2
    <3>6. Covers(x, said')
      BY <1>3, <3>1, <3>3, <3>5 DEF Covers
    <3>7. said' \in Messages
      BY <3>5 DEF MoreSaid
    <3>8. ASSUME NEW m \in 1 .. Len(said')
          PROVE  /\ said'[m].done => said'[m].due \subseteq said'[m].got
                 /\ \A e \in said'[m].due : line'[e] = "open"
      BY <1>1, <2>0, <3>1, <3>3, <3>5 DEF Reached
    <3>9. QED
      BY <2>0, <3>5, <3>6, <3>7, <3>8 DEF Reached
  <2>2. CASE line[d] # "open" \/ b.kind # "message"
    <3>1. UNCHANGED said
      BY <2>2 DEF Deliver, Current
    <3>2. MoreSaid(said, said)
      <4>1. Len(said) \in Nat
        BY <2>0 DEF Messages
      <4>2. QED
        BY <2>0, <4>1 DEF MoreSaid
    <3>3. Covers(x, said)
      BY <1>2, <1>3, <2>0, <2>2 DEF Covers, Reached
    <3>4. QED
      BY <1>1, <2>0, <3>1, <3>2, <3>3
  <2>3. QED
    BY <2>1, <2>2
<1>6. ASSUME NEW i \in 1 .. Len(t) PROVE Covers(t[i], said')
  <2>1. CASE i = 1
    BY <1>2, <1>4, <1>5, <2>1
  <2>2. CASE i # 1
    <3>1. t[i] = s[i] /\ Covers(s[i], said)
      BY <1>1, <1>4, <1>6, <2>2
    <3>2. QED
      BY <1>5, <3>1, CoversMore
  <2>3. QED
    BY <2>1, <2>2
<1> HIDE DEF t
<1>7. StacksCover(stack, said')
  BY <1>5, StacksCoverMore DEF SaidInv
<1>8. StacksCover([stack EXCEPT ![c] = t], said')
  BY <1>4, <1>6, <1>7, StackReplaced
<1>9. stack' = [stack EXCEPT ![c] = t]
  BY <1>3 DEF t
<1>10. QED
  BY <1>5, <1>8, <1>9 DEF SaidInv

LEMMA SaidEnd ==
    ASSUME SaidInv, NEW c \in Conns, EndBroadcast(c)
    PROVE  SaidInv'
<1> DEFINE s == stack[c]
           b == Head(s)
           n == b.number
<1>1. /\ s \in Seq(Broadcast) /\ s # << >> /\ b.todo = {} /\ UNCHANGED line
      /\ \A i \in 1 .. Len(s) : Covers(s[i], said)
      /\ stack' = [stack EXCEPT ![c] = Tail(s)]
  BY DEF SaidInv, StacksCover, EndBroadcast, Current
<1>2. /\ Covers(b, said) /\ Tail(s) \in Seq(Broadcast)
      /\ \A i \in 1 .. Len(Tail(s)) : Covers(Tail(s)[i], said)
  BY <1>1, Innermost
<1>3. StacksCover(stack', said)
  BY <1>1, <1>2, StackReplaced DEF SaidInv
<1>4. said \in Messages /\ Reached(said, line)
  BY DEF SaidInv, Reached
<1>5. CASE b.kind # "message"
  <2>1. UNCHANGED said
    BY <1>5 DEF EndBroadcast, Current
  <2>2. QED
    BY <1>1, <1>3, <1>4, <2>1 DEF SaidInv
<1>6. CASE b.kind = "message"
  <2>1. n \in 1 .. Len(said) /\ said[n].due \subseteq said[n].got
    BY <1>1, <1>2, <1>6 DEF Covers
  <2>2. said[n] \in Message
    BY <1>4, <2>1, ElementOfSeq DEF Messages
  <2> DEFINE y == [said[n] EXCEPT !.done = TRUE]
  <2>3. /\ y \in Message
        /\ y.due = said[n].due /\ y.got = said[n].got
    BY <2>2 DEF Message
  <2>4. said' = [said EXCEPT ![n] = y]
    BY <1>6 DEF EndBroadcast, Current
  <2> HIDE DEF y
  <2>5. /\ MoreSaid(said, said') /\ Len(said') = Len(said) /\ said'[n] = y
        /\ \A m \in 1 .. Len(said) : m # n => said'[m] = said[m]
    <3>1. y.due \subseteq said[n].due /\ said[n].got \subseteq y.got /\ y \in Message
      BY <2>3
    <3>2. /\ MoreSaid(said, [said EXCEPT ![n] = y])
          /\ Len([said EXCEPT ![n] = y]) = Len(said) /\ [said EXCEPT ![n] = y][n] = y
          /\ \A m \in 1 .. Len(said) : m # n => [said EXCEPT ![n] = y][m] = said[m]
      BY <1>4, <2>1, <3>1, MessageReplaced
    <3>3. QED
      BY <2>4, <3>2
  <2>6. said' \in Messages
    BY <2>5 DEF MoreSaid
  <2>7. ASSUME NEW m \in 1 .. Len(said')
        PROVE  /\ said'[m].done => said'[m].due \subseteq said'[m].got
               /\ \A e \in said'[m].due : line'[e] = "open"
    BY <1>1, <1>4, <2>1, <2>3, <2>5 DEF Reached
  <2>8. Reached(said', line')
    BY <1>4, <2>5, <2>6, <2>7 DEF Reached
  <2>9. StacksCover(stack', said')
    BY <1>3, <2>5, StacksCoverMore
  <2>10. QED
    BY <2>8, <2>9 DEF SaidInv
<1>7. QED
  BY <1>5, <1>6

LEMMA BroadcastTypes ==
    ASSUME SaidInv, NEW kind \in {"joined", "left", "message"}, NEW c \in Conns,
           NEW todo \in SUBSET Conns
    PROVE  /\ BroadcastOf(kind, c, todo) \in Broadcast
           /\ kind # "message" => \A messages : Covers(BroadcastOf(kind, c, todo), messages)
<1>1. Len(said) \in 0 .. MaxMessages
  BY DEF SaidInv, Reached, Messages
<1>2. QED
  BY <1>1 DEF BroadcastOf, Broadcast, Covers

\* Steps that change no message and no line but for the better.
LEMMA SaidSame ==
    ASSUME SaidInv, UNCHANGED said, \A d \in Conns : line[d] = "open" => line'[d] = "open",
           StacksCover(stack', said)
    PROVE  SaidInv'
<1>1. Reached(said, line)
  BY DEF SaidInv
<1>2. \A m \in 1 .. Len(said) : said[m].due \subseteq Conns
  <2>1. ASSUME NEW m \in 1 .. Len(said) PROVE said[m] \in Message
    BY <1>1, ElementOfSeq DEF Reached, Messages
  <2>2. QED
    BY <2>1 DEF Message
<1>3. Reached(said, line')
  BY <1>1, <1>2 DEF Reached
<1>4. QED
  BY <1>3 DEF SaidInv

\* disconnect, of a connection of another task or of its own.
LEMMA FarewellCovers ==
    ASSUME SaidInv, NEW d \in Conns, conns'[Room(d)] \subseteq Conns
    PROVE  Farewell(d) = << >> \/ \E b \in Broadcast :
              Farewell(d) = <<b>> /\ \A messages : Covers(b, messages)
<1>1. CASE d \in users
  <2>1. /\ BroadcastOf("left", d, conns'[Room(d)]) \in Broadcast
        /\ \A messages : Covers(BroadcastOf("left", d, conns'[Room(d)]), messages)
    BY BroadcastTypes
  <2>2. QED
    BY <1>1, <2>1 DEF Farewell
<1>2. CASE d \notin users
  BY <1>2 DEF Farewell
<1>3. QED
  BY <1>1, <1>2

LEMMA SaidReap ==
    ASSUME SaidInv, Inv', NEW c \in Conns, NEW d \in Conns, Reap(c, d)
    PROVE  SaidInv'
<1> DEFINE s == stack[c]
           x == [Head(s) EXCEPT !.dead = @ \ {d}]
           t == [s EXCEPT ![1] = x]
<1>1. /\ s \in Seq(Broadcast) /\ s # << >> /\ UNCHANGED <<line, said>>
      /\ \A i \in 1 .. Len(s) : Covers(s[i], said)
  BY DEF SaidInv, StacksCover, Reap
<1>2. Head(s) = s[1] /\ 1 \in 1 .. Len(s) /\ Head(s) \in Broadcast /\ Covers(Head(s), said)
  BY <1>1, Innermost
<1>3. stack' = [stack EXCEPT ![c] = Farewell(d) \o t]
  BY <1>2 DEF Reap
<1>4. x \in Broadcast /\ x.kind = Head(s).kind /\ x.number = Head(s).number /\ x.todo = Head(s).todo
  BY <1>2 DEF Broadcast
<1>5. Covers(x, said)
  BY <1>2, <1>4 DEF Covers
<1>6. /\ t \in Seq(Broadcast) /\ Len(t) = Len(s)
      /\ \A i \in 1 .. Len(s) : t[i] = IF i = 1 THEN x ELSE s[i]
  BY <1>1, <1>2, <1>4, ExceptSeq
<1>7. \A i \in 1 .. Len(t) : Covers(t[i], said)
  BY <1>1, <1>5, <1>6
<1> HIDE DEF t
<1>8. /\ Farewell(d) \o t \in Seq(Broadcast)
      /\ \A i \in 1 .. Len(Farewell(d) \o t) : Covers((Farewell(d) \o t)[i], said)
  <2>1. conns'[Room(d)] \subseteq Conns
    BY RoomsOfConns DEF Inv, Manager, Rooms, Room
  <2>2. CASE Farewell(d) = << >>
    <3>1. Farewell(d) \o t = t
      BY <1>6, <2>2, ConcatEmptySeq
    <3>2. QED
      BY <1>6, <1>7, <3>1
  <2>3. ASSUME NEW b \in Broadcast, Farewell(d) = <<b>>, Covers(b, said)
        PROVE  /\ Farewell(d) \o t \in Seq(Broadcast)
               /\ \A i \in 1 .. Len(Farewell(d) \o t) : Covers((Farewell(d) \o t)[i], said)
    BY <1>6, <1>7, <2>3, Pushed
  <2>4. QED
    BY <2>1, <2>2, <2>3, FarewellCovers
<1>9. StacksCover(stack', said)
  BY <1>3, <1>8, StackReplaced DEF SaidInv
<1>10. QED
  BY <1>1, <1>9, SaidSame

\* A task that was in no broadcast comes to be in one.
LEMMA SaidFirst ==
    ASSUME SaidInv, NEW c \in Conns, NEW b \in Broadcast, NEW messages,
           StacksCover(stack, messages), Covers(b, messages)
    PROVE  StacksCover([stack EXCEPT ![c] = <<b>>], messages)
<1>1. <<b>> \in Seq(Broadcast) /\ \A i \in 1 .. Len(<<b>>) : Covers(<<b>>[i], messages)
  OBVIOUS
<1>2. QED
  BY <1>1, StackReplaced

LEMMA SaidLeave ==
    ASSUME SaidInv, Inv', NEW c \in Conns, NEW watching, Leave(c, watching)
    PROVE  SaidInv'
<1>1. stack' = [stack EXCEPT ![c] = Farewell(c)] /\ UNCHANGED <<line, said>>
  BY DEF Leave
<1>2. conns'[Room(c)] \subseteq Conns
  BY RoomsOfConns DEF Inv, Manager, Rooms, Room
<1>3. StacksCover(stack', said)
  <2>1. CASE Farewell(c) = << >>
    <3>1. << >> \in Seq(Broadcast) /\ \A i \in 1 .. Len(<< >>) : Covers(<< >>[i], said)
      OBVIOUS
    <3>2. QED
      BY <1>1, <2>1, <3>1, StackReplaced DEF SaidInv
  <2>2. ASSUME NEW b \in Broadcast, Farewell(c) = <<b>>, Covers(b, said)
        PROVE  StacksCover(stack', said)
    BY <1>1, <2>2, SaidFirst DEF SaidInv
  <2>3. QED
    BY <1>2, <2>1, <2>2, FarewellCovers
<1>4. QED
  BY <1>1, <1>3, SaidSame

LEMMA SaidGreet ==
    ASSUME Inv, SaidInv, NEW c \in Conns, Greet(c)
    PROVE  SaidInv'
<1>1. UNCHANGED <<line, said>>
  BY DEF Greet
<1>2. CASE line[c] = "open"
  <2> DEFINE b == BroadcastOf("joined", c, conns[Room(c)] \ {c})
  <2>1. stack' = [stack EXCEPT ![c] = <<b>>]
    BY <1>2 DEF Greet
  <2>2. conns[Room(c)] \ {c} \in SUBSET Conns
    BY RoomsOfConns DEF Inv, Manager
  <2>3. b \in Broadcast /\ Covers(b, said)
    BY <2>2, BroadcastTypes
  <2> HIDE DEF b
  <2>4. StacksCover(stack', said)
    BY <2>1, <2>3, SaidFirst DEF SaidInv
  <2>5. QED
    BY <1>1, <2>4, SaidSame
<1>3. CASE line[c] # "open"
  BY <1>1, <1>3, SaidSame DEF Greet, SaidInv
<1>4. QED
  BY <1>2, <1>3

\* In one process the connections of an organization that are due a message are
\* those its loop begins with.
LEMMA SaidSay ==
    ASSUME OneProcess, Inv, SaidInv, NEW c \in Conns, Say(c)
    PROVE  SaidInv'
<1> DEFINE x == [due  |-> {d \in users : Org[d] = Org[c] /\ line[d] = "open"},
                 got  |-> {}, done |-> FALSE]
           o == BroadcastOf("message", c, conns[Room(c)])
           b == [o EXCEPT !.number = @ + 1]
<1>0. said \in Seq(Message) /\ Len(said) \in Nat /\ Len(said) < MaxMessages /\ Reached(said, line)
  BY DEF SaidInv, Reached, Messages, Say
<1>1. said' = Append(said, x) /\ stack' = [stack EXCEPT ![c] = <<b>>] /\ UNCHANGED line
  BY DEF Say
<1>2. x \in Message /\ x.got = {} /\ x.done = FALSE
  BY DEF Message, Inv, Manager
<1>3. x.due \subseteq conns[Room(c)] /\ \A d \in x.due : line[d] = "open"
  <2>1. ASSUME NEW d \in users, Org[d] = Org[c] PROVE d \in conns[Room(c)]
    <3>1. d \in Conns /\ Room(d) = Room(c)
      BY <2>1 DEF OneProcess, Room, Inv, Manager
    <3>2. QED
      BY <2>1, <3>1, RoomsOfConns DEF Inv, ConnInv
  <2>2. QED
    BY <2>1
<1>4. conns[Room(c)] \in SUBSET Conns
  BY RoomsOfConns DEF Inv, Manager
<1>5. b \in Broadcast /\ b.number = Len(said) + 1 /\ b.todo = conns[Room(c)]
  BY <1>0, <1>4 DEF BroadcastOf, Broadcast
<1> HIDE DEF x, b
<1>6. /\ said' \in Seq(Message) /\ Len(said') = Len(said) + 1 /\ said'[Len(said) + 1] = x
      /\ \A m \in 1 .. Len(said) : said'[m] = said[m]
  BY <1>0, <1>1, <1>2, AppendProperties
<1>7. MoreSaid(said, said')
  BY <1>0, <1>6 DEF MoreSaid, Messages
<1>8. Covers(b, said')
  BY <1>0, <1>3, <1>5, <1>6 DEF Covers
<1>9. StacksCover(stack', said')
  BY <1>1, <1>5, <1>7, <1>8, StacksCoverMore, SaidFirst DEF SaidInv
<1>10. Reached(said', line')
  <2>1. ASSUME NEW m \in 1 .. Len(said')
        PROVE  /\ said'[m].done => said'[m].due \subseteq said'[m].got
               /\ \A e \in said'[m].due : line'[e] = "open"
    <3>1. CASE m \in 1 .. Len(said)
      BY <1>0, <1>1, <1>6, <3>1 DEF Reached
    <3>2. CASE m = Len(said) + 1
      BY <1>1, <1>2, <1>3, <1>6, <3>2
    <3>3. QED
      BY <1>0, <1>6, <2>1, <3>1, <3>2
  <2>2. QED
    BY <1>0, <1>6, <2>1 DEF Reached, Messages
<1>11. QED
  BY <1>9, <1>10 DEF SaidInv

LEMMA SaidInit == Init => SaidInv
<1> SUFFICES ASSUME Init PROVE SaidInv
  OBVIOUS
<1>1. << >> \in Seq(Broadcast) /\ << >> \in Seq(Message) /\ Len(<< >>) = 0
  OBVIOUS
<1>2. StacksCover(stack, said)
  BY <1>1 DEF Init, StacksCover
<1>3. Reached(said, line)
  BY <1>1 DEF Init, Reached, Messages
<1>4. QED
  BY <1>2, <1>3 DEF SaidInv

LEMMA SaidStep == OneProcess /\ Inv /\ Inv' /\ SaidInv /\ [Next]_vars => SaidInv'
<1> SUFFICES ASSUME OneProcess, Inv, Inv', SaidInv, [Next]_vars PROVE SaidInv'
  OBVIOUS
<1>1. CASE UNCHANGED vars
  BY <1>1 DEF vars, SaidInv
<1>2. ASSUME NEW c \in Conns, Task(c) \/ Client(c) PROVE SaidInv'
  <2>1. CASE Accept(c)
    <3>1. UNCHANGED <<stack, said>> /\ line' = [line EXCEPT ![c] = "open"]
      BY <2>1 DEF Accept
    <3>2. \A m \in 1 .. Len(said) : \A d \in said[m].due : line'[d] = "open"
      <4>1. \A d : line[d] = "open" => line'[d] = "open"
        BY <3>1
      <4>2. QED
        BY <4>1 DEF SaidInv, Reached
    <3>3. QED
      BY <3>1, <3>2 DEF SaidInv, Reached
  <2>2. CASE Lose(c) \/ End(c)
    <3>1. /\ said' = [m \in DOMAIN said |-> [said[m] EXCEPT !.due = @ \ {c}]]
          /\ line' = [line EXCEPT ![c] = "lost"] /\ UNCHANGED stack
      BY <2>2 DEF Lose, End
    <3>2. \A d \in Conns \ {c} : line'[d] = line[d]
      BY <3>1
    <3>3. QED
      BY <3>1, <3>2, SaidLost
  <2>3. CASE Connect(c)
    BY <2>3 DEF Connect, SaidInv
  <2>4. CASE Greet(c)
    BY <2>4, SaidGreet
  <2>5. ASSUME NEW d \in Conns, Deliver(c, d) \/ Reap(c, d) PROVE SaidInv'
    BY <2>5, SaidDeliver, SaidReap
  <2>6. CASE EndBroadcast(c)
    BY <2>6, SaidEnd
  <2>7. CASE Stop(c)
    BY <2>7, SaidLeave DEF Stop
  <2>8. ASSUME NEW watching, SetViewers(c, watching) PROVE SaidInv'
    <3>1. CASE line[c] = "open"
      BY <2>8, <3>1 DEF SetViewers, SaidInv
    <3>2. CASE line[c] # "open"
      BY <2>8, <3>2, SaidLeave DEF SetViewers
    <3>3. QED
      BY <3>1, <3>2
  <2>9. CASE Say(c)
    BY <2>9, SaidSay
  <2>10. QED
    BY <1>2, <2>1, <2>2, <2>3, <2>4, <2>5, <2>6, <2>7, <2>8, <2>9 DEF Task, Client, Watch, Unwatch
<1>3. QED
  BY <1>1, <1>2 DEF Next

\* broadcast_to_org: with one process, a message.broadcast that is over has reached
\* every connection of the organization that was there from its beginning to its
\* end, however many were found dead on the way.
THEOREM BroadcastsReach == OneProcess => (Spec => []BroadcastReachesOrg)
<1> SUFFICES ASSUME OneProcess PROVE Spec => []BroadcastReachesOrg
  OBVIOUS
<1>1. SaidInv => BroadcastReachesOrg
  <2>1. ASSUME SaidInv, NEW m \in DOMAIN said PROVE said[m].done => said[m].due \subseteq said[m].got
    BY <2>1 DEF SaidInv, Reached, Messages
  <2>2. QED
    BY <2>1 DEF BroadcastReachesOrg
<1>2. Inv /\ Inv' /\ SaidInv /\ [Next]_vars => SaidInv'
  BY SaidStep
<1>3. QED
  BY <1>1, <1>2, SaidInit, InvAlways, PTL DEF Spec

-----------------------------------------------------------------------------
(***************************************************************************)
(* No task waits for ever for another.  What the event loop of a process   *)
(* is in the middle of is a broadcast or the end of an endpoint, both of   *)
(* which go on; so when nothing can, every broadcast is over.              *)
(***************************************************************************)
IsStack(s) == \E S : s \in Seq(S)

LoopInv ==
    /\ stack = [c \in Conns |-> stack[c]] /\ running \subseteq Conns
    /\ \A c \in Conns :
          /\ IsStack(stack[c])
          /\ stack[c] # << >> => pc[c] \in {"serving", "leaving"}
          /\ c \in running => stack[c] # << >> \/ pc[c] = "leaving"

\* The guards of a task, one for each action in Task: what the event loop may run.
Ready(c) ==
    \/ pc[c] \in {"accepted", "greeting"} /\ Idle(c)
    \/ stack[c] # << >> /\ MayGoOn(c)
    \/ pc[c] = "leaving" /\ stack[c] = << >>
    \/ line[c] = "lost" /\ Serving(c)

LEMMA StackFacts ==
    ASSUME NEW s, IsStack(s)
    PROVE  /\ Len(s) \in Nat /\ (s # << >> <=> Len(s) # 0)
           /\ s # << >> => /\ IsStack(Tail(s)) /\ Len(Tail(s)) = Len(s) - 1
                           /\ \A x : IsStack([s EXCEPT ![1] = x]) /\ [s EXCEPT ![1] = x] # << >>
<1>1. PICK S : s \in Seq(S)
  BY DEF IsStack
<1>2. Len(s) \in Nat /\ (s # << >> <=> Len(s) # 0)
  BY <1>1, EmptySeq, LenProperties
<1>3. ASSUME s # << >> PROVE Tail(s) \in Seq(S) /\ Len(Tail(s)) = Len(s) - 1
  BY <1>1, <1>3, HeadTailProperties
<1>4. ASSUME s # << >>, NEW x
      PROVE  [s EXCEPT ![1] = x] \in Seq(S \cup {x}) /\ [s EXCEPT ![1] = x] # << >>
  <2>1. s \in Seq(S \cup {x}) /\ 1 \in 1 .. Len(s)
    BY <1>1, <1>2, <1>4
  <2>2. [s EXCEPT ![1] = x] \in Seq(S \cup {x}) /\ Len([s EXCEPT ![1] = x]) = Len(s)
    BY <2>1, ExceptSeq
  <2>3. QED
    BY <1>2, <1>4, <2>2
<1>5. QED
  BY <1>2, <1>3, <1>4 DEF IsStack

LEMMA StackPushed ==
    ASSUME NEW b, NEW s, IsStack(s)
    PROVE  IsStack(<<b>> \o s) /\ <<b>> \o s # << >> /\ IsStack(<<b>>) /\ <<b>> # << >> /\ << >> \o s = s
<1>1. PICK S : s \in Seq(S)
  BY DEF IsStack
<1>2. s \in Seq(S \cup {b}) /\ <<b>> \in Seq(S \cup {b}) /\ Len(<<b>>) = 1 /\ Len(s) \in Nat
  BY <1>1
<1>3. <<b>> \o s \in Seq(S \cup {b}) /\ Len(<<b>> \o s) = 1 + Len(s)
  BY <1>2, ConcatProperties
<1>4. <<b>> \o s # << >>
  BY <1>2, <1>3
<1>5. << >> \o s = s
  BY <1>1, ConcatEmptySeq
<1>6. QED
  BY <1>2, <1>3, <1>4, <1>5 DEF IsStack

\* A step of one task.
LEMMA LoopOf ==
    ASSUME LoopInv, NEW c \in Conns, NEW s, IsStack(s), stack' = [stack EXCEPT ![c] = s],
           \A d \in Conns \ {c} : pc'[d] = pc[d],
           running' \in {running, running \ {c}, running \cup {c}},
           s # << >> => pc'[c] \in {"serving", "leaving"},
           c \in running' => s # << >> \/ pc'[c] = "leaving"
    PROVE  LoopInv'
<1>1. stack' = [d \in Conns |-> stack'[d]] /\ stack'[c] = s /\ \A d \in Conns \ {c} : stack'[d] = stack[d]
  BY DEF LoopInv
<1>2. running' \subseteq Conns /\ \A d \in Conns \ {c} : d \in running' <=> d \in running
  BY DEF LoopInv
<1>3. ASSUME NEW d \in Conns
      PROVE  /\ IsStack(stack'[d])
             /\ stack'[d] # << >> => pc'[d] \in {"serving", "leaving"}
             /\ d \in running' => stack'[d] # << >> \/ pc'[d] = "leaving"
  <2>1. CASE d = c
    BY <1>1, <2>1
  <2>2. CASE d # c
    <3>1. stack'[d] = stack[d] /\ pc'[d] = pc[d] /\ (d \in running' <=> d \in running)
      BY <1>1, <1>2, <2>2
    <3>2. QED
      BY <3>1 DEF LoopInv
  <2>3. QED
    BY <2>1, <2>2
<1>4. QED
  BY <1>1, <1>2, <1>3 DEF LoopInv

LEMMA LoopInit == Init => LoopInv
<1>1. IsStack(<< >>)
  <2>1. << >> \in Seq({})
    OBVIOUS
  <2>2. QED
    BY <2>1 DEF IsStack
<1>2. QED
  BY <1>1 DEF Init, LoopInv

LEMMA LoopLeave ==
    ASSUME Inv, LoopInv, NEW c \in Conns, NEW watching, Leave(c, watching)
    PROVE  LoopInv'
<1>1. /\ stack' = [stack EXCEPT ![c] = Farewell(c)] /\ running' = running \cup {c}
      /\ pc'[c] = "leaving" /\ \A d \in Conns \ {c} : pc'[d] = pc[d]
  BY DEF Leave, Inv, Manager
<1>2. IsStack(Farewell(c))
  <2>1. IsStack(<< >>)
    <3>1. << >> \in Seq({})
      OBVIOUS
    <3>2. QED
      BY <3>1 DEF IsStack
  <2>2. QED
    BY <2>1, StackPushed DEF Farewell
<1>3. QED
  BY <1>1, <1>2, LoopOf

LEMMA LoopStep == Inv /\ LoopInv /\ [Next]_vars => LoopInv'
<1> SUFFICES ASSUME Inv, LoopInv, [Next]_vars PROVE LoopInv'
  OBVIOUS
<1>1. CASE UNCHANGED vars
  BY <1>1 DEF vars, LoopInv
<1>2. ASSUME NEW c \in Conns, Task(c) \/ Client(c) PROVE LoopInv'
  <2>0. /\ IsStack(stack[c]) /\ stack = [stack EXCEPT ![c] = stack[c]]
        /\ stack[c] # << >> => pc[c] \in {"serving", "leaving"}
        /\ c \in running => stack[c] # << >> \/ pc[c] = "leaving"
        /\ pc \in [Conns -> PCs]
    BY DEF LoopInv, Inv, Manager
  <2>1. CASE Accept(c) \/ Lose(c) \/ Connect(c)
    <3>1. UNCHANGED <<stack, running>>
      BY <2>1 DEF Accept, Lose, Connect
    <3>2. /\ \A d \in Conns \ {c} : pc'[d] = pc[d]
          /\ pc'[c] = pc[c] \/ pc[c] \in {"absent", "accepted"}
      BY <2>0, <2>1 DEF Accept, Lose, Connect
    <3>3. stack[c] # << >> \/ c \in running => pc'[c] = pc[c]
      BY <2>0, <3>2
    <3>4. QED
      BY <2>0, <3>1, <3>2, <3>3, LoopOf
  <2>2. CASE Greet(c)
    <3>1. \A d \in Conns \ {c} : pc'[d] = pc[d]
      BY <2>0, <2>2 DEF Greet
    <3>2. pc[c] = "greeting" /\ stack[c] = << >> /\ c \notin running
      BY <2>0, <2>2 DEF Greet
    <3>3. CASE line[c] = "open"
      <4>1. PICK b : /\ stack' = [stack EXCEPT ![c] = <<b>>] /\ running' = running \cup {c}
                     /\ pc'[c] = "serving"
        BY <2>0, <2>2, <3>3 DEF Greet
      <4>2. IsStack(<<b>>) /\ <<b>> # << >>
        BY <2>0, StackPushed
      <4>3. QED
        BY <3>1, <4>1, <4>2, LoopOf
    <3>4. CASE line[c] # "open"
      <4>1. UNCHANGED <<running, stack>>
        BY <2>2, <3>4 DEF Greet
      <4>2. QED
        BY <2>0, <3>1, <3>2, <4>1, LoopOf
    <3>5. QED
      BY <3>3, <3>4
  <2>3. ASSUME NEW d \in Conns, Deliver(c, d) PROVE LoopInv'
    <3>1. stack[c] # << >> /\ UNCHANGED pc /\ running' \in {running \ {c}, running \cup {c}}
      BY <2>3 DEF Deliver
    <3>2. PICK x : stack' = [stack EXCEPT ![c] = [stack[c] EXCEPT ![1] = x]]
      BY <2>3 DEF Deliver
    <3>3. IsStack([stack[c] EXCEPT ![1] = x]) /\ [stack[c] EXCEPT ![1] = x] # << >>
      BY <2>0, <3>1, StackFacts
    <3>4. QED
      BY <2>0, <3>1, <3>2, <3>3, LoopOf
  <2>4. ASSUME NEW d \in Conns, Reap(c, d) PROVE LoopInv'
    <3>1. stack[c] # << >> /\ UNCHANGED pc /\ running' = running \cup {c}
      BY <2>4 DEF Reap
    <3>2. PICK x : stack' = [stack EXCEPT ![c] = Farewell(d) \o [stack[c] EXCEPT ![1] = x]]
      BY <2>4 DEF Reap
    <3> DEFINE s == [stack[c] EXCEPT ![1] = x]
    <3>3. IsStack(s) /\ s # << >>
      BY <2>0, <3>1, StackFacts
    <3> HIDE DEF s
    <3>4. IsStack(Farewell(d) \o s) /\ Farewell(d) \o s # << >>
      <4>1. Farewell(d) = << >> \/ \E b : Farewell(d) = <<b>>
        BY DEF Farewell
      <4>2. QED
        BY <3>3, <4>1, StackPushed
    <3>5. stack' = [stack EXCEPT ![c] = Farewell(d) \o s]
      BY <3>2 DEF s
    <3>6. QED
      BY <2>0, <3>1, <3>4, <3>5, LoopOf
  <2>5. CASE EndBroadcast(c)
    <3>1. /\ stack[c] # << >> /\ UNCHANGED pc /\ stack' = [stack EXCEPT ![c] = Tail(stack[c])]
          /\ running' = IF Len(stack[c]) = 1 /\ pc[c] = "serving" THEN running \ {c} ELSE running \cup {c}
      BY <2>5 DEF EndBroadcast
    <3>2. /\ IsStack(Tail(stack[c])) /\ Len(stack[c]) \in Nat \ {0}
          /\ Len(Tail(stack[c])) = Len(stack[c]) - 1
      BY <2>0, <3>1, StackFacts
    <3>3. Tail(stack[c]) = << >> => Len(stack[c]) = 1
      <4>1. Tail(stack[c]) = << >> => Len(Tail(stack[c])) = 0
        BY <3>2, StackFacts
      <4>2. QED
        BY <3>2, <4>1
    <3>4. c \in running' => Tail(stack[c]) # << >> \/ pc[c] = "leaving"
      BY <2>0, <3>1, <3>3
    <3>5. QED
      BY <2>0, <3>1, <3>2, <3>4, LoopOf
  <2>6. CASE Stop(c)
    BY <2>6, LoopLeave DEF Stop
  <2>7. ASSUME NEW watching, SetViewers(c, watching) PROVE LoopInv'
    <3>1. CASE line[c] = "open"
      BY <2>7, <3>1 DEF SetViewers, LoopInv
    <3>2. CASE line[c] # "open"
      BY <2>7, <3>2, LoopLeave DEF SetViewers
    <3>3. QED
      BY <3>1, <3>2
  <2>8. CASE Say(c)
    <3>1. PICK b : stack' = [stack EXCEPT ![c] = <<b>>]
      BY <2>8 DEF Say
    <3>2. pc[c] = "serving" /\ UNCHANGED pc /\ running' = running \cup {c}
      BY <2>8 DEF Say, Serving
    <3>3. IsStack(<<b>>) /\ <<b>> # << >>
      BY <2>0, StackPushed
    <3>4. QED
      BY <3>1, <3>2, <3>3, LoopOf
  <2>9. CASE End(c)
    <3>1. /\ stack[c] = << >> /\ UNCHANGED stack /\ running' = running \ {c}
          /\ \A d \in Conns \ {c} : pc'[d] = pc[d]
      BY <2>0, <2>9 DEF End
    <3>2. QED
      BY <2>0, <3>1, LoopOf
  <2>10. QED
    BY <1>2, <2>1, <2>2, <2>3, <2>4, <2>5, <2>6, <2>7, <2>8, <2>9 DEF Task, Client, Watch, Unwatch
<1>3. QED
  BY <1>1, <1>2 DEF Next

\* broadcast_to_org and disconnect: as long as a broadcast is under way, or a
\* connection that was being served and lost is still in the manager, some task can
\* go on, however deep the broadcasts nest.
THEOREM BroadcastsGoOn ==
    Spec => [](\/ \E c \in Conns : Ready(c)
               \/ \A c \in Conns :
                     /\ stack[c] = << >>
                     /\ line[c] = "lost" /\ pc[c] # "failed" => c \notin conns[Room(c)])
<1>1. ASSUME Inv, LoopInv, \A c \in Conns : ~Ready(c), NEW c \in Conns
      PROVE  /\ stack[c] = << >>
             /\ line[c] = "lost" /\ pc[c] # "failed" => c \notin conns[Room(c)]
  <2>1. running = {}
    <3>1. ASSUME NEW d \in running PROVE FALSE
      <4>1. d \in Conns /\ (stack[d] # << >> \/ pc[d] = "leaving")
        BY <1>1 DEF LoopInv
      <4>2. MayGoOn(d)
        BY DEF MayGoOn
      <4>3. QED
        BY <1>1, <4>1, <4>2 DEF Ready
    <3>2. QED
      BY <3>1
  <2>2. Idle(c) /\ MayGoOn(c)
    BY <2>1 DEF Idle, MayGoOn
  <2>3. stack[c] = << >>
    BY <1>1, <2>2 DEF Ready
  <2>4. ASSUME line[c] = "lost", pc[c] # "failed" PROVE c \notin conns[Room(c)]
    <3>1. pc[c] \in PCs /\ ConnInv(c)
      BY <1>1 DEF Inv, Manager
    <3>2. pc[c] \notin {"accepted", "greeting", "leaving", "serving"}
      BY <1>1, <2>2, <2>3, <2>4 DEF Ready, Serving
    <3>3. c \notin users
      BY <2>4, <3>1, <3>2 DEF PCs, ConnInv
    <3>4. QED
      BY <3>1, <3>3, RoomsOfConns DEF ConnInv
  <2>5. QED
    BY <2>3, <2>4
<1>2. Inv /\ LoopInv => \/ \E c \in Conns : Ready(c)
                        \/ \A c \in Conns :
                              /\ stack[c] = << >>
                              /\ line[c] = "lost" /\ pc[c] # "failed" => c \notin conns[Room(c)]
  BY <1>1
<1>3. QED
  BY <1>2, LoopInit, LoopStep, InvAlways, PTL DEF Spec

\* What the prover is not told of ENABLED: the guards of a task's actions are all
\* that they need, so that what is ready can run.
ReadyCanRun == \A c \in Conns : Ready(c) => CanRun(c)

\* Once the event loops are at rest every broadcast is over, and no connection that
\* was being served when its line was lost is still in the manager.
THEOREM ServedStaysForgotten == Spec /\ []ReadyCanRun => []ServedIsForgotten
<1>1. ReadyCanRun /\ (\/ \E c \in Conns : Ready(c)
                      \/ \A c \in Conns :
                            /\ stack[c] = << >>
                            /\ line[c] = "lost" /\ pc[c] # "failed" => c \notin conns[Room(c)])
        => ServedIsForgotten
  BY DEF ReadyCanRun, ServedIsForgotten, AtRest
<1>2. QED
  BY <1>1, BroadcastsGoOn, PTL

-----------------------------------------------------------------------------
(***************************************************************************)
(* disconnect broadcasts, and a broadcast disconnects: what bounds the     *)
(* nesting is that each broadcast inside another announces a connection of *)
(* its own, which has left.                                                *)
(***************************************************************************)
Gone == {d \in Conns : d \notin users /\ pc[d] \notin {"absent", "accepted"}}

Nested(s, gone, n) ==
    /\ \A k \in 1 .. Len(s) :
          /\ k < Len(s) => s[k].kind = "left"
          /\ s[k].kind = "left" => s[k].about \in gone
          /\ s[k].kind = "message" => s[k].number \in 1 .. n
    /\ \A j, k \in 1 .. Len(s) :
          j < k /\ s[j].kind = "left" /\ s[k].kind = "left" => s[j].about # s[k].about

NestInv ==
    /\ line \in [Conns -> {"none", "open", "lost"}]
    /\ running \subseteq Conns
    /\ \A c, d \in running : Proc[c] = Proc[d] => c = d
    /\ said \in Messages /\ Len(said) <= MaxMessages
    /\ stack \in [Conns -> Seq(Broadcast)]
    /\ \A c \in Conns : Nested(stack[c], Gone, Len(said))

LEMMA DepthBounded ==
    ASSUME NEW s \in Seq(Broadcast), NEW n, Nested(s, Gone, n)
    PROVE  Len(s) <= Cardinality(Conns) + 1
<1>1. Len(s) \in Nat /\ Cardinality(Conns) \in Nat
  BY FS_CardinalityType
<1>2. SUFFICES ASSUME Cardinality(Conns) + 1 < Len(s) PROVE FALSE
  BY <1>1
<1> DEFINE S == 1 .. Len(s) - 1
           f == [k \in S |-> s[k].about]
<1>3. IsFiniteSet(S) /\ Cardinality(S) = Len(s) - 1
  <2>1. Len(s) - 1 \in Int /\ 1 \in Int /\ ~(1 > Len(s) - 1) /\ (Len(s) - 1) - 1 + 1 = Len(s) - 1
    BY <1>1, <1>2
  <2>2. QED
    BY <2>1, FS_Interval
<1>4. \A k \in S : k \in 1 .. Len(s) /\ k < Len(s)
  BY <1>1
<1>5. \A k \in S : s[k].kind = "left" /\ s[k].about \in Conns
  BY <1>4 DEF Nested, Gone
<1>6. f \in [S -> Conns]
  BY <1>5
<1>7. Cardinality(Conns) < Cardinality(S)
  BY <1>1, <1>2, <1>3
<1> HIDE DEF f
<1>8. PICK j, k \in S : j # k /\ f[j] = f[k]
  BY <1>3, <1>6, <1>7, FS_PigeonHole
<1>9. s[j].about = s[k].about
  BY <1>8 DEF f
<1>10. j < k \/ k < j
  BY <1>1, <1>8
<1>11. QED
  BY <1>4, <1>5, <1>9, <1>10 DEF Nested

LEMMA NestedMore ==
    ASSUME NEW s, NEW g, NEW h, NEW m \in Nat, NEW n \in Nat, g \subseteq h, m <= n, Nested(s, g, m)
    PROVE  Nested(s, h, n)
<1>1. \A x \in 1 .. m : x \in 1 .. n
  OBVIOUS
<1>2. QED
  BY <1>1 DEF Nested

\* The innermost broadcast goes on, and stays the one it is.
LEMMA NestedOn ==
    ASSUME NEW s \in Seq(Broadcast), s # << >>, NEW b \in Broadcast,
           b.kind = s[1].kind, b.about = s[1].about, b.number = s[1].number,
           NEW g, NEW n, Nested(s, g, n)
    PROVE  [s EXCEPT ![1] = b] \in Seq(Broadcast) /\ Nested([s EXCEPT ![1] = b], g, n)
<1> DEFINE t == [s EXCEPT ![1] = b]
<1>1. 1 \in 1 .. Len(s) /\ Len(s) \in Nat
  OBVIOUS
<1>2. t \in Seq(Broadcast) /\ Len(t) = Len(s) /\ \A k \in 1 .. Len(s) : t[k] = IF k = 1 THEN b ELSE s[k]
  BY <1>1, ExceptSeq
<1> HIDE DEF t
<1>3. \A k \in 1 .. Len(s) : t[k].kind = s[k].kind /\ t[k].about = s[k].about /\ t[k].number = s[k].number
  BY <1>2
<1>4. Nested(t, g, n)
  BY <1>2, <1>3 DEF Nested
<1>5. QED
  BY <1>2, <1>4 DEF t

LEMMA NestedTail ==
    ASSUME NEW s \in Seq(Broadcast), s # << >>, NEW g, NEW n, Nested(s, g, n)
    PROVE  Tail(s) \in Seq(Broadcast) /\ Nested(Tail(s), g, n)
<1>1. /\ Tail(s) \in Seq(Broadcast) /\ Len(Tail(s)) = Len(s) - 1
      /\ \A k \in 1 .. Len(Tail(s)) : Tail(s)[k] = s[k + 1]
  BY HeadTailProperties
<1>2. Len(s) \in Nat
  OBVIOUS
<1>3. \A k \in 1 .. Len(Tail(s)) : k \in Nat /\ k + 1 \in 1 .. Len(s) /\ (k < Len(Tail(s)) => k + 1 < Len(s))
  BY <1>1, <1>2
<1>4. \A j, k \in 1 .. Len(Tail(s)) : j < k => j + 1 < k + 1
  BY <1>3
<1>5. QED
  BY <1>1, <1>3, <1>4 DEF Nested

\* A connection that had not left yet is announced on top of what there is.
LEMMA NestedPushed ==
    ASSUME NEW s \in Seq(Broadcast), NEW b \in Broadcast, NEW g, NEW h, NEW n, Nested(s, g, n),
           b.kind = "left", b.about \in h, b.about \notin g, g \subseteq h
    PROVE  <<b>> \o s \in Seq(Broadcast) /\ Nested(<<b>> \o s, h, n)
<1> DEFINE t == <<b>> \o s
<1>1. <<b>> \in Seq(Broadcast) /\ Len(<<b>>) = 1 /\ <<b>>[1] = b
  OBVIOUS
<1>2. /\ t \in Seq(Broadcast) /\ Len(t) = 1 + Len(s)
      /\ \A i \in 1 .. Len(<<b>>) + Len(s) : t[i] =
            IF i <= Len(<<b>>) THEN <<b>>[i] ELSE s[i - Len(<<b>>)]
  BY <1>1, ConcatProperties
<1>3. Len(s) \in Nat
  OBVIOUS
<1> HIDE DEF t
<1>4. t[1] = b
  BY <1>1, <1>2, <1>3
<1>5. \A k \in 2 .. Len(t) : t[k] = s[k - 1] /\ k - 1 \in 1 .. Len(s) /\ (k < Len(t) => k - 1 < Len(s))
  BY <1>1, <1>2, <1>3
<1>6. \A k \in 1 .. Len(t) : k = 1 \/ k \in 2 .. Len(t)
  BY <1>2, <1>3
<1>7. ASSUME NEW k \in 1 .. Len(t)
      PROVE  /\ k < Len(t) => t[k].kind = "left"
             /\ t[k].kind = "left" => t[k].about \in h
             /\ t[k].kind = "message" => t[k].number \in 1 .. n
  <2>1. CASE k = 1
    BY <1>4, <2>1
  <2>2. CASE k \in 2 .. Len(t)
    <3>1. t[k] = s[k - 1] /\ k - 1 \in 1 .. Len(s) /\ (k < Len(t) => k - 1 < Len(s))
      BY <1>5, <2>2
    <3>2. QED
      BY <3>1 DEF Nested
  <2>3. QED
    BY <1>6, <2>1, <2>2
<1>8. ASSUME NEW j \in 1 .. Len(t), NEW k \in 1 .. Len(t), j < k, t[j].kind = "left", t[k].kind = "left"
      PROVE  t[j].about # t[k].about
  <2>1. k \in 2 .. Len(t)
    BY <1>2, <1>3, <1>8
  <2>2. t[k] = s[k - 1] /\ k - 1 \in 1 .. Len(s)
    BY <1>5, <2>1
  <2>3. CASE j = 1
    <3>1. t[k].about \in g
      BY <1>8, <2>2 DEF Nested
    <3>2. QED
      BY <1>4, <2>3, <3>1
  <2>4. CASE j \in 2 .. Len(t)
    <3>1. t[j] = s[j - 1] /\ j - 1 \in 1 .. Len(s)
      BY <1>5, <2>4
    <3>2. j - 1 < k - 1
      BY <1>8, <2>1, <2>4
    <3>3. QED
      BY <1>8, <2>2, <3>1, <3>2 DEF Nested
  <2>5. QED
    BY <1>6, <2>3, <2>4
<1>9. Nested(t, h, n)
  BY <1>7, <1>8 DEF Nested
<1>10. QED
  BY <1>2, <1>9 DEF t

\* A task's first broadcast.
LEMMA NestedAlone ==
    ASSUME NEW b \in Broadcast, NEW g, NEW n,
           b.kind = "left" => b.about \in g, b.kind = "message" => b.number \in 1 .. n
    PROVE  <<b>> \in Seq(Broadcast) /\ Nested(<<b>>, g, n)
BY DEF Nested

LEMMA NestedNone == \A g, n : << >> \in Seq(Broadcast) /\ Nested(<< >>, g, n)
BY DEF Nested

\* A step of one task, which takes its stack to s.
LEMMA NestOf ==
    ASSUME NestInv, NEW c \in Conns, NEW s \in Seq(Broadcast), stack' = [stack EXCEPT ![c] = s],
           Nested(s, Gone', Len(said')), Gone \subseteq Gone',
           said' \in Messages, Len(said') = Len(said) \/ Len(said') \in Len(said) .. MaxMessages,
           line' \in [Conns -> {"none", "open", "lost"}],
           running' \in {running, running \ {c}, running \cup {c}},
           running' = running \cup {c} => MayGoOn(c)
    PROVE  NestInv'
<1>1. Len(said) \in Nat /\ Len(said') \in Nat /\ Len(said) <= Len(said') /\ Len(said') <= MaxMessages
  <2>1. Len(said) \in Nat /\ Len(said') \in Nat /\ Len(said) <= MaxMessages
    BY DEF NestInv, Messages
  <2>2. QED
    BY <2>1
<1>2. /\ stack' \in [Conns -> Seq(Broadcast)] /\ stack'[c] = s
      /\ \A d \in Conns \ {c} : stack'[d] = stack[d]
  BY DEF NestInv
<1>3. ASSUME NEW d \in Conns PROVE Nested(stack'[d], Gone', Len(said'))
  <2>1. CASE d = c
    BY <1>2, <2>1
  <2>2. CASE d # c
    <3>1. stack'[d] = stack[d] /\ Nested(stack[d], Gone, Len(said))
      BY <1>2, <2>2 DEF NestInv
    <3>2. QED
      BY <1>1, <3>1, NestedMore
  <2>3. QED
    BY <2>1, <2>2
<1>4. running' \subseteq Conns /\ \A d, e \in running' : Proc[d] = Proc[e] => d = e
  <2>1. CASE running' = running \cup {c}
    BY <2>1 DEF NestInv, MayGoOn, Idle
  <2>2. CASE running' \subseteq running
    BY <2>2 DEF NestInv
  <2>3. QED
    BY <2>1, <2>2
<1>5. QED
  BY <1>1, <1>2, <1>3, <1>4 DEF NestInv

\* A farewell is to be said to one that is in the manager, and so has not left yet.
LEMMA FarewellFacts ==
    ASSUME Inv, said \in Messages, Len(said) <= MaxMessages, NEW d \in Conns, NEW watching, Forget(d, watching)
    PROVE  \/ d \in users /\ d \notin Gone
              /\ \E b \in Broadcast : Farewell(d) = <<b>> /\ b.kind = "left" /\ b.about = d
           \/ Farewell(d) = << >>
<1>1. conns'[Room(d)] \in SUBSET Conns
  BY RoomsOfConns DEF Forget, Inv, Manager
<1>2. Len(said) \in 0 .. MaxMessages
  <2>1. Len(said) \in Nat
    BY DEF Messages
  <2>2. QED
    BY <2>1
<1>3. BroadcastOf("left", d, conns'[Room(d)]) \in Broadcast
  BY <1>1, <1>2 DEF BroadcastOf, Broadcast
<1>4. BroadcastOf("left", d, conns'[Room(d)]).kind = "left" /\ BroadcastOf("left", d, conns'[Room(d)]).about = d
  BY DEF BroadcastOf
<1>5. QED
  BY <1>3, <1>4 DEF Farewell, Gone

LEMMA NestInit == Init => NestInv
<1> SUFFICES ASSUME Init PROVE NestInv
  OBVIOUS
<1>1. said \in Messages /\ Len(said) = 0 /\ Len(said) <= MaxMessages
  BY DEF Init, Messages
<1>2. stack \in [Conns -> Seq(Broadcast)] /\ \A c \in Conns : stack[c] = << >>
  BY NestedNone DEF Init
<1>3. QED
  BY <1>1, <1>2, NestedNone DEF Init, NestInv

LEMMA NestLeave ==
    ASSUME Inv, NestInv, NEW c \in Conns, NEW watching, Leave(c, watching), Serving(c)
    PROVE  NestInv'
<1>1. /\ stack' = [stack EXCEPT ![c] = Farewell(c)] /\ running' = running \cup {c}
      /\ UNCHANGED <<line, said>> /\ Forget(c, watching) /\ MayGoOn(c)
  BY DEF Leave, Serving, MayGoOn
<1>2. Gone \subseteq Gone' /\ c \in Gone'
  BY DEF Leave, Forget, Gone, Inv, Manager
<1>3. Farewell(c) \in Seq(Broadcast) /\ Nested(Farewell(c), Gone', Len(said'))
  <2>1. CASE Farewell(c) = << >>
    BY <2>1, NestedNone
  <2>2. CASE Farewell(c) # << >>
    <3>1. PICK b \in Broadcast : Farewell(c) = <<b>> /\ b.kind = "left" /\ b.about = c
      BY <1>1, <2>2, FarewellFacts DEF NestInv
    <3>2. <<b>> \in Seq(Broadcast) /\ Nested(<<b>>, Gone', Len(said'))
      BY <1>2, <3>1, NestedAlone
    <3>3. QED
      BY <3>1, <3>2
  <2>3. QED
    BY <2>1, <2>2
<1>4. Len(said) \in Nat
  BY DEF NestInv, Messages
<1>5. /\ said' \in Messages /\ Len(said') = Len(said)
      /\ line' \in [Conns -> {"none", "open", "lost"}]
  BY <1>1, <1>4 DEF NestInv
<1>6. QED
  BY <1>1, <1>2, <1>3, <1>5, NestOf

\* A message is due no more to one that is lost.
LEMMA DueFacts ==
    ASSUME NEW messages \in Messages, NEW c \in Conns
    PROVE  LET new == [m \in DOMAIN messages |-> [messages[m] EXCEPT !.due = @ \ {c}]]
           IN  new \in Messages /\ Len(new) = Len(messages)
<1> DEFINE new == [m \in DOMAIN messages |-> [messages[m] EXCEPT !.due = @ \ {c}]]
<1>1. Len(messages) \in Nat /\ DOMAIN messages = 1 .. Len(messages)
  BY DEF Messages
<1>2. ASSUME NEW m \in 1 .. Len(messages) PROVE [messages[m] EXCEPT !.due = @ \ {c}] \in Message
  <2>1. messages[m] \in Message
    BY DEF Messages
  <2>2. QED
    BY <2>1 DEF Message
<1>3. new \in [1 .. Len(messages) -> Message]
  BY <1>1, <1>2
<1> HIDE DEF new
<1>4. new \in Seq(Message) /\ Len(new) = Len(messages)
  BY <1>1, <1>3
<1>5. QED
  BY <1>4 DEF Messages, new

LEMMA NestStep == Inv /\ NestInv /\ [Next]_vars => NestInv'
<1> SUFFICES ASSUME Inv, NestInv, [Next]_vars PROVE NestInv'
  OBVIOUS
<1>0. /\ pc \in [Conns -> PCs] /\ said \in Messages /\ Len(said) \in Nat /\ Len(said) <= MaxMessages
      /\ MaxMessages \in Nat /\ line \in [Conns -> {"none", "open", "lost"}]
  BY DEF Inv, Manager, NestInv, Messages
<1>1. CASE UNCHANGED vars
  BY <1>1 DEF vars, NestInv, Gone
<1>2. ASSUME NEW c \in Conns, Task(c) \/ Client(c) PROVE NestInv'
  <2>0. /\ stack[c] \in Seq(Broadcast) /\ stack = [stack EXCEPT ![c] = stack[c]]
        /\ Nested(stack[c], Gone, Len(said))
    BY DEF NestInv
  <2>1. CASE Accept(c) \/ Lose(c) \/ Connect(c)
    <3>1. UNCHANGED <<stack, running>> /\ line' \in [Conns -> {"none", "open", "lost"}]
      BY <1>0, <2>1 DEF Accept, Lose, Connect
    <3>2. said' \in Messages /\ Len(said') = Len(said)
      BY <1>0, <2>1, DueFacts DEF Accept, Lose, Connect
    <3>3. Gone \subseteq Gone'
      BY <1>0, <2>1 DEF Accept, Lose, Connect, Gone
    <3>4. Nested(stack[c], Gone', Len(said'))
      BY <1>0, <2>0, <3>2, <3>3, NestedMore
    <3>5. QED
      BY <1>0, <2>0, <3>1, <3>2, <3>3, <3>4, NestOf DEF MayGoOn
  <2>2. CASE Greet(c)
    <3>1. Gone \subseteq Gone' /\ UNCHANGED <<line, said>> /\ MayGoOn(c)
      BY <1>0, <2>2 DEF Greet, Gone, MayGoOn
    <3>2. CASE line[c] = "open"
      <4> DEFINE b == BroadcastOf("joined", c, conns[Room(c)] \ {c})
      <4>1. stack' = [stack EXCEPT ![c] = <<b>>] /\ running' = running \cup {c}
        BY <2>2, <3>2 DEF Greet
      <4>2. b \in Broadcast /\ b.kind = "joined"
        <5>1. conns[Room(c)] \ {c} \in SUBSET Conns /\ Len(said) \in 0 .. MaxMessages
          BY <1>0, RoomsOfConns DEF Inv, Manager
        <5>2. QED
          BY <5>1 DEF BroadcastOf, Broadcast
      <4> HIDE DEF b
      <4>3. <<b>> \in Seq(Broadcast) /\ Nested(<<b>>, Gone', Len(said'))
        BY <4>2, NestedAlone
      <4>4. QED
        BY <1>0, <3>1, <4>1, <4>3, NestOf
    <3>3. CASE line[c] # "open"
      <4>1. UNCHANGED <<running, stack>>
        BY <2>2, <3>3 DEF Greet
      <4>2. Nested(stack[c], Gone', Len(said'))
        BY <1>0, <2>0, <3>1, NestedMore
      <4>3. QED
        BY <1>0, <2>0, <3>1, <4>1, <4>2, NestOf
    <3>4. QED
      BY <3>2, <3>3
  <2>3. ASSUME NEW d \in Conns, Deliver(c, d) PROVE NestInv'
    <3> DEFINE b == Sent(stack[c][1], d)
    <3>1. /\ stack[c] # << >> /\ MayGoOn(c) /\ UNCHANGED <<line, pc, users>>
          /\ stack' = [stack EXCEPT ![c] = [stack[c] EXCEPT ![1] = b]]
          /\ running' \in {running \ {c}, running \cup {c}}
      BY <2>3 DEF Deliver
    <3>2. stack[c][1] \in Broadcast /\ 1 \in 1 .. Len(stack[c]) /\ Current(c) = stack[c][1]
      BY <2>0, <3>1 DEF Current
    <3>3. b \in Broadcast /\ b.kind = stack[c][1].kind /\ b.about = stack[c][1].about /\ b.number = stack[c][1].number
      BY <3>2 DEF Sent, Broadcast
    <3> HIDE DEF b
    <3>4. /\ [stack[c] EXCEPT ![1] = b] \in Seq(Broadcast)
          /\ Nested([stack[c] EXCEPT ![1] = b], Gone, Len(said))
      BY <2>0, <3>1, <3>3, NestedOn
    <3>5. said' \in Messages /\ Len(said') = Len(said)
      <4>1. \/ UNCHANGED said
            \/ stack[c][1].kind = "message" /\ said' = [said EXCEPT ![stack[c][1].number].got = @ \cup {d}]
        BY <2>3, <3>2 DEF Deliver
      <4>2. ASSUME NEW n \in 1 .. Len(said), said' = [said EXCEPT ![n].got = @ \cup {d}]
            PROVE  said' \in Messages /\ Len(said') = Len(said)
        <5>1. said \in Seq(Message) /\ [said[n] EXCEPT !.got = @ \cup {d}] \in Message
          <6>1. said \in Seq(Message)
            BY <1>0 DEF Messages
          <6>2. said[n] \in Message
            BY <6>1
          <6>3. QED
            BY <6>1, <6>2 DEF Message
        <5>2. said' = [said EXCEPT ![n] = [said[n] EXCEPT !.got = @ \cup {d}]]
          BY <4>2
        <5>3. QED
          BY <5>1, <5>2, ExceptSeq DEF Messages
      <4>3. stack[c][1].kind = "message" => stack[c][1].number \in 1 .. Len(said)
        BY <2>0, <3>2 DEF Nested
      <4>4. QED
        BY <1>0, <4>1, <4>2, <4>3
    <3>6. Gone' = Gone
      BY <3>1 DEF Gone
    <3>7. QED
      BY <1>0, <3>1, <3>4, <3>5, <3>6, NestOf
  <2>4. ASSUME NEW d \in Conns, Reap(c, d) PROVE NestInv'
    <3> DEFINE b == [stack[c][1] EXCEPT !.dead = @ \ {d}]
               s == [stack[c] EXCEPT ![1] = b]
    <3>1. /\ stack[c] # << >> /\ MayGoOn(c) /\ UNCHANGED <<line, pc, said>> /\ Forget(d, viewers)
          /\ stack' = [stack EXCEPT ![c] = Farewell(d) \o s]
          /\ running' = running \cup {c}
      BY <2>4 DEF Reap
    <3>2. stack[c][1] \in Broadcast
      BY <2>0, <3>1
    <3>3. b \in Broadcast /\ b.kind = stack[c][1].kind /\ b.about = stack[c][1].about /\ b.number = stack[c][1].number
      BY <3>2 DEF Broadcast
    <3> HIDE DEF b
    <3>4. s \in Seq(Broadcast) /\ Nested(s, Gone, Len(said))
      BY <2>0, <3>1, <3>3, NestedOn
    <3> HIDE DEF s
    <3>5. Gone \subseteq Gone' /\ (d \in users => d \in Gone')
      BY <3>1 DEF Gone, Forget, Inv, ConnInv
    <3>6. Farewell(d) \o s \in Seq(Broadcast) /\ Nested(Farewell(d) \o s, Gone', Len(said'))
      <4>1. CASE Farewell(d) = << >>
        <5>1. << >> \o s = s
          BY <3>4, ConcatEmptySeq
        <5>2. Nested(s, Gone', Len(said'))
          BY <1>0, <3>1, <3>4, <3>5, NestedMore
        <5>3. QED
          BY <3>4, <4>1, <5>1, <5>2
      <4>2. CASE Farewell(d) # << >>
        <5>1. /\ d \in users /\ d \notin Gone
              /\ \E x \in Broadcast : Farewell(d) = <<x>> /\ x.kind = "left" /\ x.about = d
          BY <1>0, <3>1, <4>2, FarewellFacts
        <5>2. PICK x \in Broadcast : Farewell(d) = <<x>> /\ x.kind = "left" /\ x.about = d
          BY <5>1
        <5>3. <<x>> \o s \in Seq(Broadcast) /\ Nested(<<x>> \o s, Gone', Len(said))
          BY <3>4, <3>5, <5>1, <5>2, NestedPushed
        <5>4. QED
          BY <3>1, <5>2, <5>3
      <4>3. QED
        BY <4>1, <4>2
    <3>7. QED
      BY <1>0, <3>1, <3>5, <3>6, NestOf
  <2>5. CASE EndBroadcast(c)
    <3>1. /\ stack[c] # << >> /\ MayGoOn(c) /\ UNCHANGED <<line, pc, users>>
          /\ stack' = [stack EXCEPT ![c] = Tail(stack[c])]
          /\ running' \in {running \ {c}, running \cup {c}}
      BY <2>5 DEF EndBroadcast
    <3>2. Tail(stack[c]) \in Seq(Broadcast) /\ Nested(Tail(stack[c]), Gone, Len(said))
      BY <2>0, <3>1, NestedTail
    <3>3. said' \in Messages /\ Len(said') = Len(said)
      <4>1. 1 \in 1 .. Len(stack[c]) /\ Current(c) = stack[c][1]
        BY <2>0, <3>1 DEF Current
      <4>2. \/ UNCHANGED said
            \/ stack[c][1].kind = "message" /\ said' = [said EXCEPT ![stack[c][1].number].done = TRUE]
        BY <2>5, <4>1 DEF EndBroadcast
      <4>3. ASSUME NEW n \in 1 .. Len(said), said' = [said EXCEPT ![n].done = TRUE]
            PROVE  said' \in Messages /\ Len(said') = Len(said)
        <5>1. said \in Seq(Message) /\ [said[n] EXCEPT !.done = TRUE] \in Message
          <6>1. said \in Seq(Message)
            BY <1>0 DEF Messages
          <6>2. said[n] \in Message
            BY <6>1
          <6>3. QED
            BY <6>1, <6>2 DEF Message
        <5>2. said' = [said EXCEPT ![n] = [said[n] EXCEPT !.done = TRUE]]
          BY <4>3
        <5>3. QED
          BY <5>1, <5>2, ExceptSeq DEF Messages
      <4>4. stack[c][1].kind = "message" => stack[c][1].number \in 1 .. Len(said)
        BY <2>0, <4>1 DEF Nested
      <4>5. QED
        BY <1>0, <4>2, <4>3, <4>4
    <3>4. Gone' = Gone
      BY <3>1 DEF Gone
    <3>5. QED
      BY <1>0, <3>1, <3>2, <3>3, <3>4, NestOf
  <2>6. CASE Stop(c)
    BY <2>6, NestLeave DEF Stop
  <2>7. ASSUME NEW watching, SetViewers(c, watching), Serving(c) PROVE NestInv'
    <3>1. CASE line[c] = "open"
      BY <2>7, <3>1 DEF SetViewers, NestInv, Gone
    <3>2. CASE line[c] # "open"
      BY <2>7, <3>2, NestLeave DEF SetViewers
    <3>3. QED
      BY <3>1, <3>2
  <2>8. CASE Say(c)
    <3> DEFINE b == [BroadcastOf("message", c, conns[Room(c)]) EXCEPT !.number = @ + 1]
               x == [due |-> {d \in users : Org[d] = Org[c] /\ line[d] = "open"}, got |-> {}, done |-> FALSE]
    <3>1. /\ Len(said) < MaxMessages /\ said' = Append(said, x) /\ stack' = [stack EXCEPT ![c] = <<b>>]
          /\ running' = running \cup {c} /\ MayGoOn(c) /\ UNCHANGED <<line, pc, users>>
      BY <2>8 DEF Say, Serving, MayGoOn
    <3>2. x \in Message
      BY DEF Message, Inv, Manager
    <3> HIDE DEF x
    <3>3. said' \in Messages /\ Len(said') = Len(said) + 1
      BY <1>0, <3>1, <3>2, AppendProperties DEF Messages
    <3>4. b \in Broadcast /\ b.kind = "message" /\ b.number = Len(said) + 1
      <4>1. conns[Room(c)] \in SUBSET Conns /\ Len(said) + 1 \in 0 .. MaxMessages
        BY <1>0, <3>1, RoomsOfConns DEF Inv, Manager
      <4>2. QED
        BY <4>1 DEF BroadcastOf, Broadcast
    <3> HIDE DEF b
    <3>5. b.number \in 1 .. Len(said')
      BY <1>0, <3>3, <3>4
    <3>6. Gone' = Gone
      BY <3>1 DEF Gone
    <3>7. <<b>> \in Seq(Broadcast) /\ Nested(<<b>>, Gone', Len(said'))
      BY <3>4, <3>5, NestedAlone
    <3>8. Len(said') \in Len(said) .. MaxMessages
      BY <1>0, <3>1, <3>3
    <3>9. QED
      BY <1>0, <3>1, <3>3, <3>6, <3>7, <3>8, NestOf
  <2>9. CASE End(c)
    <3>1. /\ UNCHANGED <<stack, users>> /\ running' = running \ {c} /\ pc[c] = "leaving"
          /\ line' \in [Conns -> {"none", "open", "lost"}]
          /\ \A d \in Conns : pc'[d] = IF d = c THEN "ended" ELSE pc[d]
      BY <1>0, <2>9 DEF End
    <3>2. said' \in Messages /\ Len(said') = Len(said)
      BY <1>0, <2>9, DueFacts DEF End
    <3>3. Gone \subseteq Gone'
      BY <3>1 DEF Gone
    <3>4. Nested(stack[c], Gone', Len(said'))
      BY <1>0, <2>0, <3>2, <3>3, NestedMore
    <3>5. QED
      BY <1>0, <2>0, <3>1, <3>2, <3>3, <3>4, NestOf
  <2>10. QED
    BY <1>2, <2>1, <2>2, <2>3, <2>4, <2>5, <2>6, <2>7, <2>8, <2>9 DEF Task, Client, Watch, Unwatch
<1>3. QED
  BY <1>1, <1>2 DEF Next

\* The manager and the tasks keep their types; disconnect and broadcast_to_org call
\* each other no deeper than there are connections to leave.
THEOREM NestingIsBounded == Spec => []TypeOK
<1>1. ASSUME Inv, NestInv PROVE TypeOK
  <2>1. lefts \in [Conns -> {0, 1}]
    BY <1>1 DEF Inv, Manager, ConnInv
  <2>2. \A c \in Conns : stack[c] \in Seq(Broadcast) /\ Len(stack[c]) <= Cardinality(Conns) + 1
    BY <1>1, DepthBounded DEF NestInv
  <2>3. QED
    BY <1>1, <2>1, <2>2 DEF TypeOK, Inv, Manager, NestInv, PCs, Messages, Message
<1>2. QED
  BY <1>1, NestInit, NestStep, InvAlways, PTL DEF Spec

-----------------------------------------------------------------------------
(* EventBus. *)

Increasing(s) == \A i, j \in 1 .. Len(s) : i < j => s[i] < s[j]

\* What is under way to a subscriber is in the order of the log.
BoxInv(x) ==
    /\ \A i \in 1 .. Len(box[x]) : box[x][i] \in 1 .. Len(log)
    /\ Increasing(box[x])

\* What a process has taken had all of its list started, which has had every
\* worker that was loaded since the consumer runs.
ProcInv(p) ==
    /\ \A i \in taken[p] :
          /\ i \in 1 .. Len(log)
          /\ \A k \in DOMAIN handlers[p][log[i].type] : <<i, handlers[p][log[i].type][k]>> \in started[p]
    /\ \A n \in 1 .. loaded[p] :
          \E k \in DOMAIN handlers[p][Registrations[n][1]] :
              handlers[p][Registrations[n][1]][k] = Registrations[n][2]
    /\ consumer[p] = "off" => taken[p] = {}

(***************************************************************************)
(* What a client was sent comes before what is under way to it, and both   *)
(* come after what there was when it was told "connected".                 *)
(***************************************************************************)
ClientInv(c) ==
    /\ client[c] = "new" => box[c] = << >> /\ got[c] = << >>
    /\ since[c] <= Len(log)
    /\ \A i \in 1 .. Len(box[c]) : since[c] < box[c][i]
    /\ Increasing(got[c])
    /\ \A j \in 1 .. Len(got[c]) :
          /\ got[c][j] \in since[c] + 1 .. Len(log)
          /\ log[got[c][j]].org = OrgOf[c]
          /\ \A i \in 1 .. Len(box[c]) : got[c][j] < box[c][i]

BusInv ==
    /\ BusTypeOK
    /\ \A x \in Subscribers : BoxInv(x)
    /\ \A p \in Procs : ProcInv(p)
    /\ \A c \in Clients : ClientInv(c)

HIDE HubAssumption
USE BusAssumption

-----------------------------------------------------------------------------
(* Sequences of positions. *)

LEMMA AppendIncreasing ==
    ASSUME NEW s \in Seq(Nat), NEW n \in Nat, Increasing(s), \A i \in 1 .. Len(s) : s[i] < n
    PROVE  Increasing(Append(s, n))
<1>1. /\ Len(Append(s, n)) = Len(s) + 1
      /\ \A i \in 1 .. Len(s) : Append(s, n)[i] = s[i]
      /\ Append(s, n)[Len(s) + 1] = n
  BY AppendProperties
<1>2. SUFFICES ASSUME NEW i \in 1 .. Len(s) + 1, NEW j \in 1 .. Len(s) + 1, i < j
               PROVE  Append(s, n)[i] < Append(s, n)[j]
  BY <1>1 DEF Increasing
<1>3. Len(s) \in Nat /\ i \in 1 .. Len(s)
  BY <1>2
<1>4. CASE j = Len(s) + 1
  BY <1>1, <1>3, <1>4
<1>5. CASE j \in 1 .. Len(s)
  BY <1>1, <1>2, <1>3, <1>5 DEF Increasing
<1>6. QED
  BY <1>2, <1>3, <1>4, <1>5

LEMMA TailIncreasing ==
    ASSUME NEW s \in Seq(Nat), s # << >>, Increasing(s)
    PROVE  /\ Increasing(Tail(s))
           /\ Head(s) = s[1] /\ 1 \in 1 .. Len(s)
           /\ \A i \in 1 .. Len(Tail(s)) : /\ i + 1 \in 1 .. Len(s)
                                           /\ Tail(s)[i] = s[i + 1]
                                           /\ Head(s) < Tail(s)[i]
<1>1. /\ Len(s) \in Nat \ {0} /\ Len(Tail(s)) = Len(s) - 1 /\ Head(s) = s[1]
      /\ \A i \in 1 .. Len(Tail(s)) : Tail(s)[i] = s[i + 1]
  BY HeadTailProperties
<1>2. \A i \in 1 .. Len(Tail(s)) : i + 1 \in 1 .. Len(s) /\ 1 < i + 1
  BY <1>1
<1>3. QED
  BY <1>1, <1>2 DEF Increasing

-----------------------------------------------------------------------------
LEMMA ThreeWorkers ==
    /\ Len(Registrations) = 3
    /\ \A n \in 1 .. 3 : Registrations[n][1] \in Types /\ Registrations[n][2] \in Handlers
BY DEF Registrations, Types, Handlers

LEMMA BusTypeInit == BusInit => BusTypeOK
<1> SUFFICES ASSUME BusInit PROVE BusTypeOK
  OBVIOUS
<1>1. << >> \in Seq(Event) /\ << >> \in Seq(Positions) /\ Len(<< >>) = 0
  OBVIOUS
<1>2. /\ box \in [Subscribers -> Seq(Positions)] /\ got \in [Clients -> Seq(Positions)]
      /\ log \in Seq(Event) /\ Len(log) <= MaxEvents
  BY <1>1 DEF BusInit
<1>3. handlers \in [Procs -> [Types -> Seq(Handlers)]] /\ loaded \in [Procs -> 0 .. Len(Registrations)]
  BY ThreeWorkers DEF BusInit
<1>4. QED
  BY <1>2, <1>3 DEF BusInit, BusTypeOK

LEMMA BusTypePublish ==
    ASSUME BusTypeOK, NEW e \in Event, Publish(e)
    PROVE  /\ BusTypeOK'
           /\ Len(log') = Len(log) + 1
           /\ \A i \in 1 .. Len(log) : log'[i] = log[i]
           /\ \A x \in Subscribers : box'[x] \in {box[x], Append(box[x], Len(log) + 1)}
           /\ \A x \in Subscribers \ linked : box'[x] = box[x]
<1>1. /\ log' = Append(log, e) /\ log \in Seq(Event) /\ Len(log) \in Nat /\ Len(log) < MaxEvents
      /\ \A x \in Subscribers : box[x] \in Seq(Positions)
  BY DEF Publish, BusTypeOK
<1>2. /\ log' \in Seq(Event) /\ Len(log') = Len(log) + 1
      /\ \A i \in 1 .. Len(log) : log'[i] = log[i]
  BY <1>1, AppendProperties
<1>3. Len(log) + 1 \in Positions
  BY <1>1 DEF Positions
<1>4. \A x \in Subscribers : Append(box[x], Len(log) + 1) \in Seq(Positions)
  BY <1>1, <1>3, AppendProperties
<1>5. box' \in [Subscribers -> Seq(Positions)]
  BY <1>1, <1>4 DEF Publish
<1>6. BusTypeOK'
  BY <1>1, <1>2, <1>5 DEF Publish, BusTypeOK, workVars, hearVars
<1>7. QED
  BY <1>2, <1>6 DEF Publish

LEMMA BusTypeWorld ==
    ASSUME BusTypeOK, ComeUp \/ \E S \in SUBSET linked : Drop(S)
    PROVE  BusTypeOK'
<1> USE DEF workVars, hearVars
<1>1. CASE ComeUp
  BY <1>1 DEF ComeUp, BusTypeOK
<1>2. ASSUME NEW S \in SUBSET linked, Drop(S) PROVE BusTypeOK'
  <2>1. << >> \in Seq(Positions)
    OBVIOUS
  <2>2. box' \in [Subscribers -> Seq(Positions)]
    BY <1>2, <2>1 DEF Drop, BusTypeOK
  <2>3. drops' \in 0 .. MaxDrops /\ linked' \subseteq linked
    BY <1>2 DEF Drop, BusTypeOK
  <2>4. up' \in BOOLEAN
    <3>1. up \in BOOLEAN /\ (up' = up \/ up' = FALSE)
      BY <1>2 DEF Drop, BusTypeOK
    <3>2. QED
      BY <3>1
  <2>5. QED
    BY <1>2, <2>2, <2>3, <2>4 DEF Drop, BusTypeOK
<1>3. QED
  BY <1>1, <1>2

LEMMA BusTypeConsumer ==
    ASSUME BusTypeOK, NEW p \in Procs, BoxInv(p), ConsumerStep(p)
    PROVE  BusTypeOK'
<1> USE DEF workVars, hearVars
<1>0. p \in Subscribers /\ p \notin Clients
  BY DEF Subscribers
<1>1. CASE Subscribe(p)
  <2>1. CASE up
    <3>1. consumer' = [consumer EXCEPT ![p] = "listening"] /\ linked' = linked \cup {p}
      BY <1>1, <2>1 DEF Subscribe
    <3>2. QED
      BY <1>0, <1>1, <3>1 DEF Subscribe, BusTypeOK
  <2>2. CASE ~up
    <3>1. consumer' = [consumer EXCEPT ![p] = "sleeping"] /\ UNCHANGED linked
      BY <1>1, <2>2 DEF Subscribe
    <3>2. p \notin linked
      BY <1>1 DEF Subscribe, BusTypeOK
    <3>3. QED
      BY <1>0, <1>1, <3>1, <3>2 DEF Subscribe, BusTypeOK
  <2>3. QED
    BY <2>1, <2>2
<1>2. CASE Dispatch(p)
  <2>1. box[p] \in Seq(Positions) /\ box[p] # << >>
    BY <1>0, <1>2 DEF Dispatch, BusTypeOK
  <2>2. Head(box[p]) \in Positions /\ Tail(box[p]) \in Seq(Positions)
    BY <2>1, HeadTailProperties
  <2> DEFINE fs == handlers[p][log[Head(box[p])].type]
             new == {<<Head(box[p]), fs[k]>> : k \in DOMAIN fs}
  <2>3. log[Head(box[p])].type \in Types
    <3>1. Head(box[p]) \in 1 .. Len(log)
      BY <1>2, <2>1, HeadTailProperties DEF BoxInv
    <3>2. log[Head(box[p])] \in Event
      BY <3>1 DEF BusTypeOK
    <3>3. QED
      BY <3>2 DEF Event
  <2>4. new \in SUBSET (Positions \X Handlers)
    <3>1. fs \in Seq(Handlers)
      BY <2>3 DEF BusTypeOK
    <3>2. \A k \in DOMAIN fs : fs[k] \in Handlers
      BY <3>1
    <3>3. QED
      BY <2>2, <3>2
  <2>5. /\ taken' = [taken EXCEPT ![p] = @ \cup {Head(box[p])}]
        /\ started' = [started EXCEPT ![p] = @ \cup new]
        /\ box' = [box EXCEPT ![p] = Tail(@)]
    BY <1>2 DEF Dispatch
  <2> HIDE DEF new, fs
  <2>6. taken' \in [Procs -> SUBSET Positions]
    BY <2>2, <2>5 DEF BusTypeOK
  <2>7. started' \in [Procs -> SUBSET (Positions \X Handlers)]
    BY <2>4, <2>5 DEF BusTypeOK
  <2>8. box' \in [Subscribers -> Seq(Positions)]
    BY <2>2, <2>5 DEF BusTypeOK
  <2>9. QED
    BY <1>2, <2>6, <2>7, <2>8 DEF Dispatch, BusTypeOK
<1>3. CASE Notice(p) \/ Wake(p)
  BY <1>0, <1>3 DEF Notice, Wake, BusTypeOK
<1>4. QED
  BY <1>1, <1>2, <1>3 DEF ConsumerStep

LEMMA BusTypeClient ==
    ASSUME BusTypeOK, NEW c \in Clients, OpenClient(c) \/ ListenerStep(c) \/ CloseClient(c)
    PROVE  BusTypeOK'
<1> USE DEF workVars
<1>0. c \in Subscribers /\ c \notin Procs
  BY DEF Subscribers
<1>1. CASE OpenClient(c)
  BY <1>0, <1>1 DEF OpenClient, BusTypeOK
<1>2. CASE Listen(c) \/ EndListener(c)
  <2>0. /\ listener \in [Clients -> {"none", "connecting", "listening", "ended"}]
        /\ c \in linked => listener[c] = "listening"
    BY DEF BusTypeOK
  <2>1. /\ listener' \in [Clients -> {"none", "connecting", "listening", "ended"}]
        /\ linked' \subseteq linked \cup {c}
        /\ \A d \in Clients \ {c} : listener'[d] = listener[d]
        /\ c \in linked' => listener'[c] = "listening"
        /\ listener[c] \in {"connecting", "listening"}
    BY <1>2, <2>0 DEF Listen, EndListener
  <2>2. UNCHANGED <<up, drops, log, box, loaded, handlers, consumer, taken, started, client, got, since>>
    BY <1>2 DEF Listen, EndListener
  <2>3. QED
    BY <1>0, <2>1, <2>2 DEF BusTypeOK
<1>3. CASE Forward(c)
  <2>1. box[c] \in Seq(Positions) /\ box[c] # << >> /\ got[c] \in Seq(Positions)
    BY <1>0, <1>3 DEF Forward, BusTypeOK
  <2>2. Head(box[c]) \in Positions /\ Tail(box[c]) \in Seq(Positions)
    BY <2>1, HeadTailProperties
  <2>3. Append(got[c], Head(box[c])) \in Seq(Positions)
    BY <2>1, <2>2, AppendProperties
  <2>4. got' \in [Clients -> Seq(Positions)]
    BY <1>3, <2>3 DEF Forward, BusTypeOK
  <2>5. box' \in [Subscribers -> Seq(Positions)]
    BY <1>3, <2>2 DEF Forward, BusTypeOK
  <2>6. QED
    BY <1>3, <2>4, <2>5 DEF Forward, BusTypeOK
<1>4. CASE CloseClient(c)
  <2>1. << >> \in Seq(Positions)
    OBVIOUS
  <2>2. box' \in [Subscribers -> Seq(Positions)]
    BY <1>4, <2>1 DEF CloseClient, BusTypeOK
  <2>3. QED
    BY <1>0, <1>4, <2>2 DEF CloseClient, BusTypeOK
<1>5. QED
  BY <1>1, <1>2, <1>3, <1>4 DEF ListenerStep

\* The import of one more worker appends to the list of its type.
LEMMA LoadEffect ==
    ASSUME BusTypeOK, NEW p \in Procs, OnEvent(p)
    PROVE  /\ consumer[p] = "off" /\ loaded[p] + 1 \in 1 .. 3
           /\ loaded' = [loaded EXCEPT ![p] = loaded[p] + 1]
           /\ \A q \in Procs \ {p} : handlers'[q] = handlers[q]
           /\ handlers'[p] = [handlers[p] EXCEPT ![Registrations[loaded[p] + 1][1]] =
                                  Append(handlers[p][Registrations[loaded[p] + 1][1]],
                                         Registrations[loaded[p] + 1][2])]
           /\ handlers' \in [Procs -> [Types -> Seq(Handlers)]]
<1> DEFINE r == Registrations[loaded[p] + 1]
<1>1. consumer[p] = "off" /\ loaded[p] \in 0 .. 3 /\ loaded[p] < 3
  BY ThreeWorkers DEF OnEvent, BusTypeOK
<1>2. loaded[p] + 1 \in 1 .. 3
  BY <1>1
<1>3. r[1] \in Types /\ r[2] \in Handlers
  BY <1>2, ThreeWorkers
<1>4. handlers' = [handlers EXCEPT ![p][r[1]] = Append(handlers[p][r[1]], r[2])]
  BY DEF OnEvent
<1>5. handlers[p] \in [Types -> Seq(Handlers)]
  BY DEF BusTypeOK
<1> HIDE DEF r
<1>6. Append(handlers[p][r[1]], r[2]) \in Seq(Handlers)
  BY <1>3, <1>5, AppendProperties
<1>7. handlers'[p] = [handlers[p] EXCEPT ![r[1]] = Append(handlers[p][r[1]], r[2])]
  BY <1>4 DEF BusTypeOK
<1>8. handlers'[p] \in [Types -> Seq(Handlers)]
  BY <1>5, <1>6, <1>7
<1>9. /\ \A q \in Procs \ {p} : handlers'[q] = handlers[q]
      /\ handlers' \in [Procs -> [Types -> Seq(Handlers)]]
  BY <1>4, <1>8 DEF BusTypeOK
<1>10. loaded' = [loaded EXCEPT ![p] = loaded[p] + 1]
  BY DEF OnEvent
<1>11. QED
  BY <1>1, <1>2, <1>7, <1>9, <1>10 DEF r

LEMMA BusTypeLoad ==
    ASSUME BusTypeOK, NEW p \in Procs, LoadStep(p)
    PROVE  BusTypeOK'
<1>1. CASE OnEvent(p)
  <2>0. loaded' = [loaded EXCEPT ![p] = loaded[p] + 1] /\ loaded[p] + 1 \in 1 .. 3
        /\ handlers' \in [Procs -> [Types -> Seq(Handlers)]]
    BY <1>1, LoadEffect
  <2>1. loaded' \in [Procs -> 0 .. Len(Registrations)]
    BY <2>0, ThreeWorkers DEF BusTypeOK
  <2>2. UNCHANGED <<up, drops, log, linked, box, consumer, taken, started, client, listener, got, since>>
    BY <1>1 DEF OnEvent, hearVars
  <2>3. QED
    BY <2>0, <2>1, <2>2 DEF BusTypeOK
<1>2. CASE StartConsumer(p)
  <2>1. p \notin linked /\ consumer' = [consumer EXCEPT ![p] = "connecting"]
    BY <1>2 DEF StartConsumer, BusTypeOK
  <2>2. QED
    BY <1>2, <2>1 DEF StartConsumer, BusTypeOK, workVars, hearVars
<1>3. QED
  BY <1>1, <1>2 DEF LoadStep

LEMMA BusTypeStep ==
    ASSUME BusTypeOK, \A x \in Subscribers : BoxInv(x), [BusNext]_busVars
    PROVE  BusTypeOK'
<1>1. CASE UNCHANGED busVars
  BY <1>1 DEF busVars, workVars, hearVars, BusTypeOK
<1>2. CASE BusNext
  BY <1>2, BusTypePublish, BusTypeWorld, BusTypeLoad, BusTypeConsumer, BusTypeClient DEF BusNext, Subscribers
<1>3. QED
  BY <1>1, <1>2

-----------------------------------------------------------------------------
(* What stays when a subscriber is not concerned. *)

LEMMA BoxKept ==
    ASSUME NEW x \in Subscribers, BoxInv(x), box'[x] \in {box[x], << >>}, UNCHANGED log
    PROVE  BoxInv(x)'
BY DEF BoxInv, Increasing

LEMMA ProcKept ==
    ASSUME NEW p \in Procs, ProcInv(p), taken'[p] = taken[p], started[p] \subseteq started'[p],
           UNCHANGED <<log, workVars>>, consumer'[p] = "off" => consumer[p] = "off"
    PROVE  ProcInv(p)'
BY DEF ProcInv, workVars

LEMMA ClientKept ==
    ASSUME NEW c \in Clients, ClientInv(c), box'[c] \in {box[c], << >>},
           client'[c] = client[c] \/ client'[c] # "new",
           since'[c] = since[c], got'[c] = got[c], UNCHANGED log
    PROVE  ClientInv(c)'
<1>1. CASE box'[c] = box[c]
  BY <1>1 DEF ClientInv, Increasing
<1>2. CASE box'[c] = << >>
  BY <1>2 DEF ClientInv, Increasing
<1>3. QED
  BY <1>1, <1>2

\* What Dispatch and Forward leave in a box.
LEMMA BoxRead ==
    ASSUME BusTypeOK, NEW x \in Subscribers, BoxInv(x), box[x] # << >>,
           box'[x] = Tail(box[x]), UNCHANGED log
    PROVE  BoxInv(x)' /\ Head(box[x]) \in 1 .. Len(log)
<1>1. box[x] \in Seq(Nat) /\ Increasing(box[x])
  BY DEF BusTypeOK, Positions, BoxInv
<1>2. /\ Increasing(Tail(box[x])) /\ Head(box[x]) = box[x][1] /\ 1 \in 1 .. Len(box[x])
      /\ \A i \in 1 .. Len(Tail(box[x])) : /\ i + 1 \in 1 .. Len(box[x])
                                           /\ Tail(box[x])[i] = box[x][i + 1]
  BY <1>1, TailIncreasing
<1>3. QED
  BY <1>2 DEF BoxInv, Increasing

-----------------------------------------------------------------------------
LEMMA BusInvInit == BusInit => BusInv
<1> SUFFICES ASSUME BusInit PROVE BusInv
  OBVIOUS
<1>1. BusTypeOK
  BY BusTypeInit
<1>2. \A x \in Subscribers : BoxInv(x)
  BY DEF BusInit, BoxInv, Increasing
<1>3. \A p \in Procs : ProcInv(p)
  <2>1. \A p \in Procs : taken[p] = {} /\ 1 .. loaded[p] = {}
    BY DEF BusInit
  <2>2. QED
    BY <2>1 DEF ProcInv
<1>4. \A c \in Clients : ClientInv(c)
  <2>1. \A c \in Clients : box[c] = << >> /\ got[c] = << >> /\ since[c] = 0
    BY DEF BusInit, Subscribers
  <2>2. Len(log) = 0 /\ Len(<< >>) = 0
    BY DEF BusInit
  <2>3. QED
    BY <2>1, <2>2 DEF ClientInv, Increasing
<1>5. QED
  BY <1>1, <1>2, <1>3, <1>4 DEF BusInv

LEMMA BusInvPublish ==
    ASSUME BusInv, NEW e \in Event, Publish(e)
    PROVE  BusInv'
<1>0. BusTypeOK
  BY DEF BusInv
<1>1. /\ BusTypeOK' /\ Len(log') = Len(log) + 1 /\ Len(log) \in Nat
      /\ \A i \in 1 .. Len(log) : log'[i] = log[i]
      /\ \A x \in Subscribers : box'[x] \in {box[x], Append(box[x], Len(log) + 1)}
      /\ \A x \in Subscribers \ linked : box'[x] = box[x]
  BY <1>0, BusTypePublish DEF BusTypeOK
<1>2. UNCHANGED <<workVars, consumer, taken, started, client, got, since>>
  BY DEF Publish, hearVars
<1>3. ASSUME NEW x \in Subscribers, box'[x] # box[x]
      PROVE  /\ box[x] \in Seq(Nat) /\ Len(box'[x]) = Len(box[x]) + 1
             /\ \A i \in 1 .. Len(box[x]) : box'[x][i] = box[x][i]
             /\ box'[x][Len(box[x]) + 1] = Len(log) + 1
             /\ box'[x] = Append(box[x], Len(log) + 1)
  <2>1. box[x] \in Seq(Nat) /\ box'[x] = Append(box[x], Len(log) + 1)
    BY <1>0, <1>1, <1>3 DEF BusTypeOK, Positions
  <2>2. QED
    BY <1>1, <2>1, AppendProperties
<1>4. ASSUME NEW x \in Subscribers PROVE BoxInv(x)'
  <2>1. BoxInv(x) /\ box[x] \in Seq(Nat)
    BY <1>0 DEF BusInv, BusTypeOK, Positions
  <2>2. CASE box'[x] = box[x]
    <3>1. 1 .. Len(log) \subseteq 1 .. Len(log')
      BY <1>1
    <3>2. \A i \in 1 .. Len(box[x]) : box[x][i] \in 1 .. Len(log')
      BY <2>1, <3>1 DEF BoxInv
    <3>3. Increasing(box[x])
      BY <2>1 DEF BoxInv
    <3>4. QED
      BY <2>2, <3>2, <3>3 DEF BoxInv, Increasing
  <2>3. CASE box'[x] # box[x]
    <3>1. Increasing(box'[x])
      <4>1. \A i \in 1 .. Len(box[x]) : box[x][i] < Len(log) + 1
        BY <1>1, <2>1 DEF BoxInv
      <4>2. Increasing(box[x]) /\ Len(log) + 1 \in Nat
        BY <1>1, <2>1 DEF BoxInv
      <4>3. QED
        BY <1>3, <2>1, <2>3, <4>1, <4>2, AppendIncreasing
    <3>2. \A i \in 1 .. Len(box'[x]) : box'[x][i] \in 1 .. Len(log')
      <4>1. ASSUME NEW i \in 1 .. Len(box'[x]) PROVE box'[x][i] \in 1 .. Len(log) + 1
        <5>1. CASE i \in 1 .. Len(box[x])
          <6>1. box'[x][i] = box[x][i] /\ box[x][i] \in 1 .. Len(log)
            BY <1>3, <2>1, <2>3, <5>1 DEF BoxInv
          <6>2. QED
            BY <1>1, <6>1
        <5>2. CASE i = Len(box[x]) + 1
          BY <1>1, <1>3, <2>3, <5>2
        <5>3. Len(box'[x]) = Len(box[x]) + 1 /\ Len(box[x]) \in Nat
          BY <1>3, <2>1, <2>3
        <5>4. i \in 1 .. Len(box[x]) \/ i = Len(box[x]) + 1
          BY <4>1, <5>3
        <5>5. QED
          BY <5>1, <5>2, <5>4
      <4>2. QED
        BY <1>1, <4>1
    <3>3. QED
      BY <3>1, <3>2 DEF BoxInv, Increasing
  <2>4. QED
    BY <2>2, <2>3
<1>5. ASSUME NEW p \in Procs PROVE ProcInv(p)'
  <2>1. ProcInv(p) /\ UNCHANGED <<loaded, handlers, consumer, taken, started>>
    BY <1>2 DEF BusInv, workVars
  <2>2. \A i \in taken[p] : i \in 1 .. Len(log) /\ i \in 1 .. Len(log') /\ log'[i] = log[i]
    BY <1>1, <2>1 DEF ProcInv
  <2>3. QED
    BY <2>1, <2>2 DEF ProcInv
<1>6. ASSUME NEW c \in Clients PROVE ClientInv(c)'
  <2>1. ClientInv(c) /\ c \in Subscribers /\ box[c] \in Seq(Nat) /\ since[c] \in Nat
        /\ got[c] \in Seq(Nat)
    BY <1>0 DEF BusInv, BusTypeOK, Positions, Subscribers
  <2>2. client[c] = "new" => c \notin linked
    BY <1>0 DEF BusTypeOK
  <2>3. client[c] = "new" => box'[c] = << >> /\ got[c] = << >>
    BY <1>1, <2>1, <2>2 DEF ClientInv
  <2>4. \A i \in 1 .. Len(box'[c]) : box'[c][i] = Len(log) + 1 \/ (i \in 1 .. Len(box[c]) /\ box'[c][i] = box[c][i])
    <3>1. CASE box'[c] = box[c]
      BY <3>1
    <3>2. CASE box'[c] # box[c]
      <4>1. Len(box[c]) \in Nat
        BY <2>1
      <4>2. QED
        BY <1>3, <2>1, <3>2, <4>1
    <3>3. QED
      BY <3>1, <3>2
  <2>5. ASSUME NEW i \in 1 .. Len(box'[c]) PROVE since[c] < box'[c][i]
    <3>1. since[c] <= Len(log) /\ \A k \in 1 .. Len(box[c]) : since[c] < box[c][k]
      BY <2>1 DEF ClientInv
    <3>2. CASE box'[c][i] = Len(log) + 1
      BY <1>1, <2>1, <3>1, <3>2
    <3>3. CASE i \in 1 .. Len(box[c]) /\ box'[c][i] = box[c][i]
      BY <3>1, <3>3
    <3>4. QED
      BY <2>4, <2>5, <3>2, <3>3
  <2>6. ASSUME NEW j \in 1 .. Len(got[c])
        PROVE  /\ got[c][j] \in since[c] + 1 .. Len(log) + 1
               /\ log'[got[c][j]].org = OrgOf[c]
               /\ \A i \in 1 .. Len(box'[c]) : got[c][j] < box'[c][i]
    <3>1. /\ got[c][j] \in since[c] + 1 .. Len(log) /\ log[got[c][j]].org = OrgOf[c]
          /\ \A i \in 1 .. Len(box[c]) : got[c][j] < box[c][i]
      BY <2>1 DEF ClientInv
    <3>2. got[c][j] \in 1 .. Len(log)
      BY <1>1, <2>1, <3>1
    <3>3. got[c][j] \in since[c] + 1 .. Len(log) + 1 /\ log'[got[c][j]].org = OrgOf[c]
      BY <1>1, <2>1, <3>1, <3>2
    <3>4. ASSUME NEW i \in 1 .. Len(box'[c]) PROVE got[c][j] < box'[c][i]
      <4>1. CASE box'[c][i] = Len(log) + 1
        BY <1>1, <3>2, <4>1
      <4>2. CASE i \in 1 .. Len(box[c]) /\ box'[c][i] = box[c][i]
        BY <3>1, <4>2
      <4>3. QED
        BY <2>4, <3>4, <4>1, <4>2
    <3>5. QED
      BY <3>3, <3>4
  <2>7. /\ UNCHANGED <<client, got, since>> /\ Increasing(got[c])
        /\ since[c] <= Len(log')
    BY <1>1, <1>2, <2>1 DEF ClientInv
  <2>8. QED
    BY <1>1, <2>3, <2>5, <2>6, <2>7 DEF ClientInv, Increasing
<1>7. QED
  BY <1>1, <1>4, <1>5, <1>6 DEF BusInv

LEMMA BusInvDispatch ==
    ASSUME BusInv, NEW p \in Procs, Dispatch(p)
    PROVE  BusInv'
<1>0. BusTypeOK /\ p \in Subscribers /\ p \notin Clients
  BY DEF BusInv, Subscribers
<1>1. BusTypeOK'
  BY <1>0, BusTypeConsumer DEF ConsumerStep, BusInv
<1>2. DEFINE h == Head(box[p])
     fs == handlers[p][log[h].type]
<1>3. /\ box[p] # << >> /\ UNCHANGED <<log, workVars, consumer, client, got, since>>
      /\ consumer[p] # "off"
      /\ box'[p] = Tail(box[p]) /\ \A x \in Subscribers \ {p} : box'[x] = box[x]
      /\ taken'[p] = taken[p] \cup {h}
      /\ started'[p] = started[p] \cup {<<h, fs[k]>> : k \in DOMAIN fs}
      /\ \A q \in Procs \ {p} : taken'[q] = taken[q] /\ started'[q] = started[q]
  BY <1>0 DEF Dispatch, BusTypeOK, hearVars
<1>4. BoxInv(p)' /\ h \in 1 .. Len(log)
  BY <1>0, <1>3, BoxRead DEF BusInv
<1>5. \A x \in Subscribers : BoxInv(x)'
  BY <1>3, <1>4, BoxKept DEF BusInv
<1>6. ProcInv(p)'
  <2>1. ProcInv(p)
    BY DEF BusInv
  <2>2. ASSUME NEW i \in taken'[p]
        PROVE  /\ i \in 1 .. Len(log)
               /\ \A k \in DOMAIN handlers[p][log[i].type] :
                      <<i, handlers[p][log[i].type][k]>> \in started'[p]
    <3>1. CASE i \in taken[p]
      BY <1>3, <2>1, <3>1 DEF ProcInv
    <3>2. CASE i = h
      BY <1>3, <1>4, <3>2
    <3>3. QED
      BY <1>3, <2>2, <3>1, <3>2
  <2>3. QED
    BY <1>3, <2>1, <2>2 DEF ProcInv, workVars
<1>7. \A q \in Procs : ProcInv(q)'
  BY <1>3, <1>6, ProcKept DEF BusInv
<1>8. \A c \in Clients : ClientInv(c)'
  <2>1. \A c \in Clients : c \in Subscribers \ {p}
    BY <1>0 DEF Subscribers
  <2>2. QED
    BY <1>3, <2>1, ClientKept DEF BusInv
<1>9. QED
  BY <1>1, <1>5, <1>7, <1>8 DEF BusInv

LEMMA BusInvForward ==
    ASSUME BusInv, NEW c \in Clients, Forward(c)
    PROVE  BusInv'
<1>0. BusTypeOK /\ c \in Subscribers /\ c \notin Procs
  BY DEF BusInv, Subscribers
<1>1. BusTypeOK'
  BY <1>0, BusTypeClient DEF ListenerStep
<1>2. DEFINE h == Head(box[c])
<1>3. /\ box[c] # << >> /\ UNCHANGED <<log, workVars, consumer, client, since, taken, started>>
      /\ box'[c] = Tail(box[c]) /\ \A x \in Subscribers \ {c} : box'[x] = box[x]
      /\ \A d \in Clients \ {c} : got'[d] = got[d]
      /\ got'[c] = IF ForClient(log[h], c) THEN Append(got[c], h) ELSE got[c]
  BY <1>0 DEF Forward, BusTypeOK
<1>4. BoxInv(c) /\ ClientInv(c) /\ box[c] \in Seq(Nat) /\ got[c] \in Seq(Nat) /\ since[c] \in Nat
      /\ Len(log) \in Nat
  BY <1>0 DEF BusInv, BusTypeOK, Positions
<1>5. BoxInv(c)' /\ h \in 1 .. Len(log)
  BY <1>0, <1>3, <1>4, BoxRead
<1>6. /\ h = box[c][1] /\ 1 \in 1 .. Len(box[c])
      /\ \A i \in 1 .. Len(Tail(box[c])) : /\ i + 1 \in 1 .. Len(box[c])
                                           /\ Tail(box[c])[i] = box[c][i + 1]
                                           /\ h < Tail(box[c])[i]
  BY <1>3, <1>4, TailIncreasing DEF BoxInv
<1>7. since[c] < h /\ \A j \in 1 .. Len(got[c]) : got[c][j] < h
  BY <1>4, <1>6 DEF ClientInv
<1>8. ClientInv(c)'
  <2>1. client[c] # "new"
    BY <1>3, <1>4 DEF ClientInv
  <2>2. \A i \in 1 .. Len(Tail(box[c])) : since[c] < Tail(box[c])[i]
    BY <1>4, <1>6 DEF ClientInv
  <2>3. \A j \in 1 .. Len(got[c]) :
           /\ got[c][j] \in since[c] + 1 .. Len(log) /\ log[got[c][j]].org = OrgOf[c]
           /\ \A i \in 1 .. Len(Tail(box[c])) : got[c][j] < Tail(box[c])[i]
    BY <1>4, <1>6 DEF ClientInv
  <2>4. CASE got'[c] = got[c]
    BY <1>3, <1>4, <2>1, <2>2, <2>3, <2>4 DEF ClientInv, Increasing
  <2>5. CASE ForClient(log[h], c) /\ got'[c] = Append(got[c], h)
    <3>1. h \in Nat /\ log[h].org = OrgOf[c] /\ h \in since[c] + 1 .. Len(log)
      BY <1>4, <1>5, <1>7, <2>5 DEF ForClient
    <3>2. Increasing(got'[c])
      BY <1>4, <1>7, <2>5, <3>1, AppendIncreasing DEF ClientInv
    <3>3. /\ Len(got'[c]) = Len(got[c]) + 1 /\ got'[c][Len(got[c]) + 1] = h
          /\ \A j \in 1 .. Len(got[c]) : got'[c][j] = got[c][j]
      BY <1>4, <2>5, <3>1, AppendProperties
    <3>4. ASSUME NEW j \in 1 .. Len(got'[c])
          PROVE  /\ got'[c][j] \in since[c] + 1 .. Len(log) /\ log[got'[c][j]].org = OrgOf[c]
                 /\ \A i \in 1 .. Len(Tail(box[c])) : got'[c][j] < Tail(box[c])[i]
      <4>1. CASE j \in 1 .. Len(got[c])
        BY <2>3, <3>3, <4>1
      <4>2. CASE j = Len(got[c]) + 1
        BY <1>6, <3>1, <3>3, <4>2
      <4>3. Len(got[c]) \in Nat
        BY <1>4
      <4>4. j \in 1 .. Len(got[c]) \/ j = Len(got[c]) + 1
        BY <3>3, <3>4, <4>3
      <4>5. QED
        BY <4>1, <4>2, <4>4
    <3>5. since[c] <= Len(log)
      BY <1>4 DEF ClientInv
    <3>6. QED
      BY <1>3, <2>1, <2>2, <3>2, <3>4, <3>5 DEF ClientInv, Increasing
  <2>6. QED
    BY <1>3, <2>4, <2>5
<1>9. \A x \in Subscribers : BoxInv(x)'
  BY <1>3, <1>5, BoxKept DEF BusInv
<1>10. \A p \in Procs : ProcInv(p)'
  BY <1>3, ProcKept DEF BusInv
<1>11. \A d \in Clients : ClientInv(d)'
  <2>1. \A d \in Clients : d \in Subscribers
    BY DEF Subscribers
  <2>2. QED
    BY <1>3, <1>8, <2>1, ClientKept DEF BusInv
<1>12. QED
  BY <1>1, <1>9, <1>10, <1>11 DEF BusInv

LEMMA BusInvOpenClient ==
    ASSUME BusInv, NEW c \in Clients, OpenClient(c)
    PROVE  BusInv'
<1>0. BusTypeOK /\ ClientInv(c)
  BY DEF BusInv
<1>1. BusTypeOK'
  BY <1>0, BusTypeClient
<1>2. /\ client[c] = "new" /\ client'[c] = "open" /\ since'[c] = Len(log) /\ Len(log) \in Nat
      /\ \A d \in Clients \ {c} : client'[d] = client[d] /\ since'[d] = since[d]
      /\ UNCHANGED <<log, workVars, consumer, box, taken, started, got>>
  BY <1>0 DEF OpenClient, BusTypeOK
<1>3. ClientInv(c)'
  <2>1. box[c] = << >> /\ got[c] = << >>
    BY <1>0, <1>2 DEF ClientInv
  <2>2. QED
    BY <1>2, <2>1 DEF ClientInv, Increasing
<1>4. \A d \in Clients : ClientInv(d)'
  BY <1>2, <1>3, ClientKept DEF BusInv
<1>5. /\ \A x \in Subscribers : BoxInv(x)'
      /\ \A p \in Procs : ProcInv(p)'
  BY <1>2, BoxKept, ProcKept DEF BusInv
<1>6. QED
  BY <1>1, <1>4, <1>5 DEF BusInv

\* Steps that send nothing and read nothing.
LEMMA BusInvQuiet ==
    ASSUME BusInv, BusTypeOK', UNCHANGED <<log, workVars, taken, started, got, since>>,
           \A p \in Procs : consumer'[p] = "off" => consumer[p] = "off",
           \A x \in Subscribers : box'[x] \in {box[x], << >>},
           \A c \in Clients : client'[c] = client[c] \/ client'[c] # "new"
    PROVE  BusInv'
<1>1. \A c \in Clients : c \in Subscribers
  BY DEF Subscribers
<1>2. QED
  BY <1>1, BoxKept, ProcKept, ClientKept DEF BusInv

\* One more worker is loaded: its handler is appended, and the others keep their place.
LEMMA BusInvOnEvent ==
    ASSUME BusInv, NEW p \in Procs, OnEvent(p)
    PROVE  BusInv'
<1>0. BusTypeOK
  BY DEF BusInv
<1>1. BusTypeOK'
  BY <1>0, BusTypeLoad DEF LoadStep
<1>2. UNCHANGED <<log, box, consumer, taken, started, client, got, since>>
  BY DEF OnEvent, hearVars
<1> DEFINE n == loaded[p] + 1
           t == Registrations[n][1]
           f == Registrations[n][2]
           fs == handlers[p][t]
<1>3. /\ consumer[p] = "off" /\ n \in 1 .. 3 /\ loaded' = [loaded EXCEPT ![p] = n]
      /\ \A q \in Procs \ {p} : handlers'[q] = handlers[q]
      /\ handlers'[p] = [handlers[p] EXCEPT ![t] = Append(fs, f)]
  BY <1>0, LoadEffect
<1>4. t \in Types /\ f \in Handlers
  BY <1>3, ThreeWorkers
<1>5. t = Registrations[n][1] /\ f = Registrations[n][2] /\ fs = handlers[p][t]
  OBVIOUS
<1> HIDE DEF t, f, fs
<1>6. /\ consumer[p] = "off" /\ n \in 1 .. 3 /\ loaded'[p] = n /\ loaded[p] \in Nat
      /\ \A q \in Procs \ {p} : handlers'[q] = handlers[q] /\ loaded'[q] = loaded[q]
      /\ handlers'[p] = [handlers[p] EXCEPT ![t] = Append(fs, f)]
      /\ t \in Types /\ f \in Handlers /\ handlers[p] \in [Types -> Seq(Handlers)]
  <2>1. loaded \in [Procs -> 0 .. 3] /\ handlers[p] \in [Types -> Seq(Handlers)]
    BY <1>0, ThreeWorkers DEF BusTypeOK
  <2>2. QED
    BY <1>3, <1>4, <2>1
<1>7. ProcInv(p)'
  <2>1. ProcInv(p) /\ taken[p] = {}
    BY <1>6 DEF BusInv, ProcInv
  <2>2. /\ Len(fs) \in Nat /\ DOMAIN fs = 1 .. Len(fs) /\ fs \in Seq(Handlers)
        /\ DOMAIN Append(fs, f) = 1 .. Len(fs) + 1
        /\ \A k \in 1 .. Len(fs) : Append(fs, f)[k] = fs[k]
        /\ Append(fs, f)[Len(fs) + 1] = f
    <3>1. fs \in Seq(Handlers) /\ f \in Handlers
      BY <1>6, <1>5
    <3>2. QED
      BY <3>1, AppendProperties, LenProperties
  <2>3. handlers'[p][t] = Append(fs, f) /\ \A u \in Types \ {t} : handlers'[p][u] = handlers[p][u]
    BY <1>6
  <2>4. ASSUME NEW m \in 1 .. loaded'[p]
        PROVE  \E k \in DOMAIN handlers'[p][Registrations[m][1]] :
                   handlers'[p][Registrations[m][1]][k] = Registrations[m][2]
    <3>1. CASE m = n
      <4>1. Len(fs) + 1 \in DOMAIN Append(fs, f)
        BY <2>2
      <4>2. QED
        BY <1>5, <2>2, <2>3, <3>1, <4>1
    <3>2. CASE m # n
      <4>1. m \in 1 .. loaded[p] /\ Registrations[m][1] \in Types
        BY <1>6, <2>4, <3>2, ThreeWorkers
      <4>2. PICK k \in DOMAIN handlers[p][Registrations[m][1]] :
                handlers[p][Registrations[m][1]][k] = Registrations[m][2]
        BY <2>1, <4>1 DEF ProcInv
      <4>3. CASE Registrations[m][1] = t
        <5>1. k \in 1 .. Len(fs) /\ fs[k] = Registrations[m][2]
          BY <1>5, <2>2, <4>2, <4>3
        <5>2. k \in DOMAIN Append(fs, f) /\ Append(fs, f)[k] = fs[k]
          BY <2>2, <5>1
        <5>3. QED
          BY <1>5, <2>3, <4>2, <4>3, <5>1, <5>2
      <4>4. CASE Registrations[m][1] # t
        BY <2>3, <4>1, <4>2, <4>4
      <4>5. QED
        BY <4>3, <4>4
    <3>3. QED
      BY <3>1, <3>2
  <2>5. QED
    BY <1>2, <2>1, <2>4 DEF ProcInv
<1>8. ASSUME NEW q \in Procs \ {p} PROVE ProcInv(q)'
  <2>1. ProcInv(q) /\ handlers'[q] = handlers[q] /\ loaded'[q] = loaded[q]
    BY <1>6 DEF BusInv
  <2>2. QED
    BY <1>2, <2>1 DEF ProcInv
<1>9. /\ \A x \in Subscribers : BoxInv(x)'
      /\ \A c \in Clients : ClientInv(c)'
  <2>1. \A c \in Clients : c \in Subscribers
    BY DEF Subscribers
  <2>2. QED
    BY <1>2, <2>1, BoxKept, ClientKept DEF BusInv
<1>10. QED
  BY <1>1, <1>7, <1>8, <1>9 DEF BusInv

LEMMA BusInvStep == BusInv /\ [BusNext]_busVars => BusInv'
<1> SUFFICES ASSUME BusInv, [BusNext]_busVars PROVE BusInv'
  OBVIOUS
<1>0. BusTypeOK /\ BusTypeOK'
  BY BusTypeStep DEF BusInv
<1>1. CASE UNCHANGED busVars
  BY <1>0, <1>1, BusInvQuiet DEF busVars, workVars, hearVars
<1>2. ASSUME NEW e \in Event, Publish(e) PROVE BusInv'
  BY <1>2, BusInvPublish
<1>3. CASE ComeUp \/ \E S \in SUBSET linked : Drop(S)
  BY <1>0, <1>3, BusInvQuiet DEF ComeUp, Drop, hearVars
<1>4. ASSUME NEW p \in Procs, ConsumerStep(p) PROVE BusInv'
  <2>1. CASE Dispatch(p)
    BY <2>1, BusInvDispatch
  <2>2. CASE Subscribe(p) \/ Notice(p) \/ Wake(p)
    <3>1. \A q \in Procs : consumer'[q] = "off" => consumer[q] = "off"
      BY <1>0, <2>2 DEF Subscribe, Notice, Wake, BusTypeOK
    <3>2. UNCHANGED <<log, workVars, box, taken, started, client, got, since>>
      BY <2>2 DEF Subscribe, Notice, Wake, hearVars
    <3>3. QED
      BY <1>0, <3>1, <3>2, BusInvQuiet
  <2>3. QED
    BY <1>4, <2>1, <2>2 DEF ConsumerStep
<1>5. ASSUME NEW c \in Clients, OpenClient(c) \/ ListenerStep(c) \/ CloseClient(c) PROVE BusInv'
  <2>1. CASE OpenClient(c)
    BY <2>1, BusInvOpenClient
  <2>2. CASE Forward(c)
    BY <2>2, BusInvForward
  <2>3. CASE Listen(c) \/ EndListener(c)
    BY <1>0, <2>3, BusInvQuiet DEF Listen, EndListener
  <2>4. CASE CloseClient(c)
    <3>1. /\ UNCHANGED <<log, workVars, consumer, taken, started, got, since>>
          /\ \A x \in Subscribers : box'[x] \in {box[x], << >>}
          /\ \A d \in Clients : client'[d] = client[d] \/ client'[d] # "new"
      BY <1>0, <2>4 DEF CloseClient, BusTypeOK
    <3>2. QED
      BY <1>0, <3>1, BusInvQuiet
  <2>5. QED
    BY <1>5, <2>1, <2>2, <2>3, <2>4 DEF ListenerStep
<1>6. ASSUME NEW p \in Procs, LoadStep(p) PROVE BusInv'
  <2>1. CASE OnEvent(p)
    BY <2>1, BusInvOnEvent
  <2>2. CASE StartConsumer(p)
    <3>1. \A q \in Procs : consumer'[q] = "off" => consumer[q] = "off"
      BY <1>0, <2>2 DEF StartConsumer, BusTypeOK
    <3>2. UNCHANGED <<log, workVars, box, taken, started, client, got, since>>
      BY <2>2 DEF StartConsumer, hearVars
    <3>3. QED
      BY <1>0, <3>1, <3>2, BusInvQuiet
  <2>3. QED
    BY <1>6, <2>1, <2>2 DEF LoadStep
<1>7. QED
  BY <1>1, <1>2, <1>3, <1>4, <1>5, <1>6 DEF BusNext

LEMMA BusInvAlways == BusSpec => []BusInv
<1>1. QED
  BY BusInvInit, BusInvStep, PTL DEF BusSpec

\* The variables keep their types, and a subscription is held by who listens.
THEOREM BusTypeCorrect == BusSpec => []BusTypeOK
<1>1. BusInv => BusTypeOK
  BY DEF BusInv
<1>2. QED
  BY <1>1, BusInvAlways, PTL

\* on_event and start_consumer: an event that a process takes starts the handler of
\* every worker it has loaded for that type, also where a later import has failed.
THEOREM HandlersAreStarted == BusSpec => []AllHandlersStart
<1>1. ASSUME BusInv, NEW p \in Procs, NEW i \in taken[p], NEW n \in 1 .. loaded[p],
             Registrations[n][1] = log[i].type
      PROVE  <<i, Registrations[n][2]>> \in started[p]
  <2>1. ProcInv(p)
    BY <1>1 DEF BusInv
  <2>2. PICK k \in DOMAIN handlers[p][log[i].type] : handlers[p][log[i].type][k] = Registrations[n][2]
    BY <1>1, <2>1 DEF ProcInv
  <2>3. QED
    BY <2>1, <2>2 DEF ProcInv
<1>2. BusInv => AllHandlersStart
  BY <1>1 DEF AllHandlersStart
<1>3. QED
  BY <1>2, BusInvAlways, PTL

\* The listener of a client forwards events of its organisation, each once, in the
\* order of the channel, and none from before the client was connected.
THEOREM ForwardingKeepsOrder == BusSpec => []ForwardedInOrder
<1>1. ASSUME BusInv PROVE ForwardedInOrder
  <2>1. ASSUME NEW c \in Clients, NEW j \in DOMAIN got[c]
        PROVE  /\ log[got[c][j]].org = OrgOf[c]
               /\ got[c][j] > since[c]
               /\ j > 1 => got[c][j] > got[c][j - 1]
    <3>1. got[c] \in Seq(Nat) /\ since[c] \in Nat /\ ClientInv(c) /\ Len(log) \in Nat
      BY <1>1 DEF BusInv, BusTypeOK, Positions
    <3>2. j \in 1 .. Len(got[c])
      BY <2>1, <3>1, LenProperties
    <3>3. log[got[c][j]].org = OrgOf[c] /\ got[c][j] \in since[c] + 1 .. Len(log)
      BY <3>1, <3>2 DEF ClientInv
    <3>4. ASSUME j > 1 PROVE got[c][j - 1] < got[c][j]
      <4>1. j - 1 \in 1 .. Len(got[c]) /\ j - 1 < j
        BY <3>1, <3>2, <3>4
      <4>2. QED
        BY <3>1, <3>2, <4>1 DEF ClientInv, Increasing
    <3>5. /\ got[c][j] \in Nat /\ got[c][j] > since[c]
          /\ j > 1 => got[c][j - 1] \in Nat
      BY <3>1, <3>2, <3>3
    <3>6. QED
      BY <3>3, <3>4, <3>5
  <2>2. QED
    BY <2>1 DEF ForwardedInOrder
<1>2. QED
  BY <1>1, BusInvAlways, PTL

-----------------------------------------------------------------------------
(***************************************************************************)
(* A process that starts loads its workers; a consumer that lost its       *)
(* connection reads what is left in its box, notices and sleeps.  Both     *)
(* subscribe then: so many steps lie before them.                          *)
(***************************************************************************)
StepsAway(p) ==
    IF p \in linked THEN 0
    ELSE IF consumer[p] = "listening" THEN 3 + Len(box[p])
    ELSE IF consumer[p] = "sleeping" THEN 2
    ELSE IF consumer[p] = "off" THEN 5 - loaded[p]
    ELSE 1

ProcStep(p) == LoadStep(p) \/ ConsumerStep(p)

\* Nothing is sent to a consumer that does not listen.
QuietInv ==
    /\ BusInv
    /\ \A p \in Procs : consumer[p] # "listening" => box[p] = << >>

LEMMA StepsAwayIsNat ==
    ASSUME BusTypeOK, NEW p \in Procs
    PROVE  StepsAway(p) \in Nat
<1>1. Len(box[p]) \in Nat /\ loaded[p] \in 0 .. 3
  BY ThreeWorkers DEF BusTypeOK, Subscribers
<1>2. QED
  BY <1>1 DEF StepsAway

\* What leaves p's connection and consumer alone leaves p where it is, unless it adds
\* to the box of one who has no connection.
LEMMA StaysAway ==
    ASSUME BusTypeOK, NEW p \in Procs, consumer'[p] = consumer[p], loaded'[p] = loaded[p], (p \in linked') <=> (p \in linked),
           p \in linked \/ box'[p] = box[p]
    PROVE  StepsAway(p)' = StepsAway(p)
BY DEF StepsAway

LEMMA ConsumerAdvances ==
    ASSUME QuietInv, NEW p \in Procs, ProcStep(p)
    PROVE  /\ QuietInv'
           /\ up => StepsAway(p)' < StepsAway(p) \/ (p \in linked /\ p \in linked')
           /\ \A q \in Procs \ {p} : StepsAway(q)' = StepsAway(q)
<1>0. /\ BusTypeOK /\ BusTypeOK' /\ BusInv' /\ p \in Subscribers
  BY BusInvStep DEF QuietInv, BusNext, ProcStep, Subscribers, BusInv
<1>1. CASE Subscribe(p)
  <2>1. /\ consumer[p] = "connecting" /\ p \notin linked /\ UNCHANGED <<box, loaded>>
        /\ consumer'[p] \in {"listening", "sleeping"} /\ linked \subseteq linked' /\ linked' \subseteq linked \cup {p}
        /\ up => p \in linked'
        /\ \A q \in Procs \ {p} : consumer'[q] = consumer[q]
    BY <1>0, <1>1 DEF Subscribe, BusTypeOK, workVars
  <2>2. StepsAway(p) = 1
    BY <2>1 DEF StepsAway
  <2>3. up => StepsAway(p)' = 0
    BY <2>1 DEF StepsAway
  <2>4. \A q \in Procs \ {p} : StepsAway(q)' = StepsAway(q)
    BY <1>0, <2>1, StaysAway
  <2>5. QuietInv'
    BY <1>0, <2>1 DEF QuietInv
  <2>6. QED
    BY <2>2, <2>3, <2>4, <2>5
<1>2. CASE Dispatch(p)
  <2>1. /\ consumer[p] = "listening" /\ UNCHANGED <<consumer, linked, loaded>>
        /\ box[p] \in Seq(Positions) /\ box[p] # << >> /\ box'[p] = Tail(box[p])
        /\ \A q \in Procs \ {p} : box'[q] = box[q]
    BY <1>0, <1>2 DEF Dispatch, BusTypeOK, Subscribers, workVars
  <2>2. Len(box[p]) \in Nat /\ Len(box'[p]) = Len(box[p]) - 1
    BY <2>1, HeadTailProperties
  <2>3. p \notin linked => StepsAway(p)' = 3 + Len(box'[p]) /\ StepsAway(p) = 3 + Len(box[p])
    BY <2>1 DEF StepsAway
  <2>4. \A q \in Procs \ {p} : StepsAway(q)' = StepsAway(q)
    BY <1>0, <2>1, StaysAway
  <2>5. QuietInv'
    BY <1>0, <2>1 DEF QuietInv
  <2>6. QED
    BY <2>1, <2>2, <2>3, <2>4, <2>5
<1>3. CASE Notice(p) \/ Wake(p)
  <2>1. /\ UNCHANGED <<box, linked, loaded>> /\ p \notin linked
        /\ \/ consumer[p] = "listening" /\ consumer'[p] = "sleeping" /\ box[p] = << >>
           \/ consumer[p] = "sleeping" /\ consumer'[p] = "connecting"
        /\ \A q \in Procs \ {p} : consumer'[q] = consumer[q]
    BY <1>0, <1>3 DEF Notice, Wake, BusTypeOK, workVars
  <2>2. StepsAway(p)' < StepsAway(p)
    <3>1. CASE consumer[p] = "listening" /\ consumer'[p] = "sleeping" /\ box[p] = << >>
      <4>1. StepsAway(p) = 3 + Len(<< >>) /\ StepsAway(p)' = 2
        BY <2>1, <3>1 DEF StepsAway
      <4>2. QED
        BY <4>1
    <3>2. CASE consumer[p] = "sleeping" /\ consumer'[p] = "connecting"
      <4>1. StepsAway(p) = 2 /\ StepsAway(p)' = 1
        BY <2>1, <3>2 DEF StepsAway
      <4>2. QED
        BY <4>1
    <3>3. QED
      BY <2>1, <3>1, <3>2
  <2>3. \A q \in Procs \ {p} : StepsAway(q)' = StepsAway(q)
    BY <1>0, <2>1, StaysAway
  <2>4. QuietInv'
    BY <1>0, <2>1 DEF QuietInv
  <2>5. QED
    BY <2>2, <2>3, <2>4
<1>4. CASE LoadStep(p)
  <2>1. /\ UNCHANGED <<box, linked>> /\ p \notin linked /\ consumer[p] = "off" /\ loaded[p] \in 0 .. 3
        /\ \/ consumer'[p] = "connecting" /\ loaded'[p] = loaded[p]
           \/ consumer'[p] = "off" /\ loaded'[p] = loaded[p] + 1
        /\ \A q \in Procs \ {p} : consumer'[q] = consumer[q] /\ loaded'[q] = loaded[q]
    <3>1. CASE OnEvent(p)
      <4>1. consumer[p] = "off" /\ loaded' = [loaded EXCEPT ![p] = loaded[p] + 1]
        BY <1>0, <3>1, LoadEffect
      <4>2. UNCHANGED <<box, linked, consumer>>
        BY <3>1 DEF OnEvent
      <4>3. loaded \in [Procs -> 0 .. 3] /\ (p \in linked => consumer[p] = "listening")
        BY <1>0, ThreeWorkers DEF BusTypeOK
      <4>4. QED
        BY <4>1, <4>2, <4>3
    <3>2. CASE StartConsumer(p)
      BY <1>0, <3>2, ThreeWorkers DEF StartConsumer, BusTypeOK, workVars
    <3>3. QED
      BY <1>4, <3>1, <3>2 DEF LoadStep
  <2>2. StepsAway(p) = 5 - loaded[p] /\ StepsAway(p)' \in {1, 4 - loaded[p]}
    BY <2>1 DEF StepsAway
  <2>3. \A q \in Procs \ {p} : StepsAway(q)' = StepsAway(q)
    BY <1>0, <2>1, StaysAway
  <2>4. QuietInv'
    BY <1>0, <2>1 DEF QuietInv
  <2>5. QED
    BY <2>1, <2>2, <2>3, <2>4
<1>5. QED
  BY <1>1, <1>2, <1>3, <1>4 DEF ProcStep, ConsumerStep

\* Nobody else takes a consumer further from its subscription while no connection drops.
LEMMA OthersLeaveConsumers ==
    ASSUME QuietInv, [BusNext]_busVars, ~\E p \in Procs : ProcStep(p)
    PROVE  /\ QuietInv'
           /\ drops' = drops => \A q \in Procs : StepsAway(q)' = StepsAway(q)
<1>0. BusTypeOK /\ BusTypeOK' /\ BusInv' /\ Procs \subseteq Subscribers /\ Procs \cap Clients = {}
  BY BusInvStep DEF QuietInv, Subscribers, BusInv
<1>1. CASE UNCHANGED busVars
  BY <1>0, <1>1, StaysAway DEF busVars, workVars, QuietInv
<1>2. ASSUME NEW e \in Event, Publish(e)
      PROVE  QuietInv' /\ \A q \in Procs : StepsAway(q)' = StepsAway(q)
  <2>1. UNCHANGED <<consumer, loaded, linked>> /\ \A q \in Procs : q \in linked \/ box'[q] = box[q]
    BY <1>0, <1>2 DEF Publish, workVars
  <2>2. QuietInv'
    BY <1>0, <2>1 DEF QuietInv, BusTypeOK
  <2>3. QED
    BY <1>0, <2>1, <2>2, StaysAway
<1>3. ASSUME NEW S \in SUBSET linked, Drop(S)
      PROVE  QuietInv' /\ drops' # drops
  <2>1. UNCHANGED consumer /\ \A q \in Procs : box'[q] \in {box[q], << >>}
    BY <1>0, <1>3 DEF Drop
  <2>2. drops' = drops + 1 /\ drops \in Nat
    BY <1>0, <1>3 DEF Drop, BusTypeOK
  <2>3. QuietInv'
    BY <1>0, <2>1 DEF QuietInv
  <2>4. QED
    BY <2>2, <2>3
<1>4. CASE ComeUp
  BY <1>0, <1>4, StaysAway DEF ComeUp, workVars, QuietInv
<1>5. ASSUME NEW c \in Clients, OpenClient(c) \/ ListenerStep(c) \/ CloseClient(c)
      PROVE  QuietInv' /\ \A q \in Procs : StepsAway(q)' = StepsAway(q)
  <2>1. /\ UNCHANGED <<consumer, loaded>>
        /\ \A q \in Procs : box'[q] = box[q] /\ (q \in linked' <=> q \in linked)
    BY <1>0, <1>5 DEF OpenClient, ListenerStep, CloseClient, Listen, Forward, EndListener, BusTypeOK, workVars
  <2>2. QuietInv'
    BY <1>0, <2>1 DEF QuietInv
  <2>3. QED
    BY <1>0, <2>1, <2>2, StaysAway
<1>6. QED
  BY <1>1, <1>2, <1>3, <1>4, <1>5 DEF BusNext, ProcStep

\* start_consumer: while Redis is up and no connection drops, each step of a process
\* that starts, or has lost its subscription, brings it nearer to a new one, however many events
\* it still has to read, and nothing that others do takes it further from it, or the
\* subscription it has.
THEOREM ConsumersGetBack ==
    BusSpec =>
        [][up /\ drops' = drops =>
              \A p \in Procs :
                  /\ StepsAway(p)' <= StepsAway(p)
                  /\ ProcStep(p) /\ p \notin linked => StepsAway(p)' < StepsAway(p)]_busVars
<1> DEFINE Nearer == up /\ drops' = drops =>
                        \A p \in Procs :
                            /\ StepsAway(p)' <= StepsAway(p)
                            /\ ProcStep(p) /\ p \notin linked => StepsAway(p)' < StepsAway(p)
<1>1. BusInit => QuietInv
  BY BusInvInit DEF BusInit, QuietInv, Subscribers
<1>2. ASSUME QuietInv, [BusNext]_busVars
      PROVE  QuietInv' /\ Nearer
  <2>1. \A p \in Procs : StepsAway(p) \in Nat /\ StepsAway(p)' \in Nat
    <3>1. BusTypeOK /\ BusTypeOK'
      BY <1>2, BusInvStep DEF QuietInv, BusInv
    <3>2. \A p \in Procs : Len(box'[p]) \in Nat /\ loaded'[p] \in 0 .. 3
      BY <3>1, ThreeWorkers DEF BusTypeOK, Subscribers
    <3>3. \A p \in Procs : StepsAway(p)' \in Nat
      BY <3>2 DEF StepsAway
    <3>4. QED
      BY <3>1, <3>3, StepsAwayIsNat
  <2>2. ASSUME NEW q \in Procs, ProcStep(q) PROVE QuietInv' /\ Nearer
    <3>1. ASSUME up, NEW p \in Procs
          PROVE  /\ StepsAway(p)' <= StepsAway(p)
                 /\ ProcStep(p) /\ p \notin linked => StepsAway(p)' < StepsAway(p)
      <4>1. CASE ProcStep(p)
        <5>1. StepsAway(p)' < StepsAway(p) \/ (p \in linked /\ p \in linked')
          BY <1>2, <3>1, <4>1, ConsumerAdvances
        <5>2. p \in linked /\ p \in linked' => StepsAway(p)' = StepsAway(p)
          BY DEF StepsAway
        <5>3. QED
          BY <2>1, <5>1, <5>2
      <4>2. CASE ~ProcStep(p)
        <5>1. StepsAway(p)' = StepsAway(p)
          BY <1>2, <2>2, <4>2, ConsumerAdvances
        <5>2. QED
          BY <2>1, <4>2, <5>1
      <4>3. QED
        BY <4>1, <4>2
    <3>2. QED
      BY <1>2, <2>2, <3>1, ConsumerAdvances
  <2>3. CASE ~\E q \in Procs : ProcStep(q)
    BY <1>2, <2>1, <2>3, OthersLeaveConsumers
  <2>4. QED
    BY <2>2, <2>3
<1>3. QuietInv /\ [BusNext]_busVars => QuietInv' /\ [Nearer]_busVars
  BY <1>2
<1>4. QED
  BY <1>1, <1>3, PTL DEF BusSpec
=============================================================================
