-------------------------------- MODULE WsRust --------------------------------
(***************************************************************************)
(* The Rust WebSocket transport and its subscriptions,                     *)
(* packages/rust/src/subscriptions.rs.                                     *)
(*                                                                         *)
(* A call is a future some task polls.  Each connection has two tasks of   *)
(* its own: a writer, fed by an unbounded channel, and a reader.  Both end *)
(* by draining the pending map, which all connections of the transport     *)
(* share.  Each action is what one task does under one lock, or one        *)
(* operation on a channel or a socket.  Notifications go to every          *)
(* subscription through one bounded broadcast channel.                     *)
(***************************************************************************)
EXTENDS Naturals, Sequences, FiniteSets, Delivery

CONSTANTS Raws,          \* calls of raw
          Subscribes,    \* calls of subscribe / raw_subscribe
          Unsubscribes,  \* calls of RpcSubscription::unsubscribe
          Conns,         \* connections: bounds the dials
          Keys,          \* subscription ids a peer hands out
          MaxId,         \* bound on the calls begun, so on next_id
          BufferCap,     \* capacity of the broadcast channel (256 in the code)
          MaxNotes,      \* bound on the notifications of a subscription
          MaxCloses,     \* bound on the calls of close()
          Impatient,     \* calls whose future may be dropped before it is done
          NoConn, NoCall, NoKey, NoMsg

Calls == Raws \cup Subscribes \cup Unsubscribes
Ids == 1..MaxId
CloseFrame == "close"

ASSUME KindsDisjoint ==
  /\ Raws \cap Subscribes = {}
  /\ Raws \cap Unsubscribes = {}
  /\ Subscribes \cap Unsubscribes = {}
ASSUME ImpatientAreCalls == Impatient \subseteq Calls
ASSUME BoundsAreNatural ==
  /\ MaxId \in Nat /\ MaxNotes \in Nat /\ MaxCloses \in Nat
  /\ BufferCap \in Nat \ {0}
ASSUME NullsAreOutside ==
  /\ NoConn \notin Conns /\ NoCall \notin Calls /\ NoKey \notin Keys
  /\ CloseFrame \notin Calls

\* What a peer sends.  A response carries the id of its request, a notification
\* (id 0) the key of its subscription and its number in it.  No action of the
\* client reads "of", the call that caused the message.
Msg == [id : 0..MaxId, of : Calls, key : Keys \cup {NoKey},
        verdict : {"ok", "refused", "note"}, seq : Nat]

VARIABLES
  outbound,     \* the connection whose sender self.outbound holds
  dialer,       \* the call that holds the lock of self.outbound across its dial
  pending,      \* self.pending: id -> the call whose oneshot sender it holds
  nextId,       \* self.next_id
  pc,           \* where each call is, or how its future ended
  use,          \* the connection whose sender it has a clone of
  id,           \* its request id
  target,       \* the subscription an unsubscribe works on
  reply,        \* its oneshot channel: none, full (with answer) or closed
  answer,       \* what was sent in it
  key,          \* RpcSubscription.id
  unsubscribed, \* RpcSubscription.closed
  queue,        \* what the broadcast receiver of a subscribe has not received
  lagged,       \* its next recv() reports that it lagged
  got,          \* history: what next() has returned
  skipped,      \* history: receivers that lost notifications
  chan,         \* the writer's channel: calls whose request it is to send, or CloseFrame
  writer,       \* none, running, drained (the channel not yet dropped) or done
  reader,       \* none, reading or done
  sock,         \* unused, open, closing (a Close frame was sent) or broken
  wire,         \* messages on their way to the client, in order
  inbox,        \* requests the peer has received and not answered
  served,       \* history: calls the peer has answered
  granted,      \* the subscribe a peer gave a key to, per connection
  active,       \* keys the peer still emits for
  emitted,      \* notifications emitted for a subscribe
  closes        \* calls of close() so far

shared  == <<outbound, dialer, pending, nextId>>
locals  == <<use, id, target, key, unsubscribed>>
replies == <<reply, answer>>
streams == <<queue, lagged, got, skipped>>
tasks   == <<chan, writer, reader>>
peer    == <<inbox, served, granted, active, emitted>>
vars    == <<shared, pc, locals, replies, streams, tasks, sock, wire, peer, closes>>

Waiting == {"send", "wait"}
Holding == {"enroll"} \cup Waiting  \* a clone of the sender lives that long
InFlight == {"connecting", "dialing"} \cup Holding
Ended == {"answered", "refused", "closed", "expired", "unsent", "dropped"}

TypeOK ==
  /\ outbound \in Conns \cup {NoConn}
  /\ dialer \in Calls \cup {NoCall}
  /\ pending \in [Ids -> Calls \cup {NoCall}]
  /\ nextId \in 0..MaxId
  /\ pc \in [Calls -> {"idle"} \cup InFlight \cup Ended]
  /\ use \in [Calls -> Conns \cup {NoConn}]
  /\ id \in [Calls -> 0..MaxId]
  /\ target \in [Unsubscribes -> Subscribes \cup {NoCall}]
  /\ reply \in [Calls -> {"none", "full", "closed"}]
  /\ answer \in [Calls -> Msg \cup {NoMsg}]
  /\ key \in [Subscribes -> Keys \cup {NoKey}]
  /\ unsubscribed \in [Subscribes -> BOOLEAN]
  /\ queue \in [Subscribes -> Seq(Msg)]
  /\ \A s \in Subscribes : Len(queue[s]) <= BufferCap
  /\ lagged \subseteq Subscribes
  /\ got \in [Subscribes -> Seq(Msg)]
  /\ skipped \subseteq Subscribes
  /\ chan \in [Conns -> Seq(Calls \cup {CloseFrame})]
  /\ writer \in [Conns -> {"none", "running", "drained", "done"}]
  /\ reader \in [Conns -> {"none", "reading", "done"}]
  /\ sock \in [Conns -> {"unused", "open", "closing", "broken"}]
  /\ wire \in [Conns -> Seq(Msg)]
  /\ inbox \in [Conns -> SUBSET Calls]
  /\ served \subseteq Calls
  /\ granted \in [Conns -> [Keys -> Subscribes \cup {NoCall}]]
  /\ active \in [Conns -> SUBSET Keys]
  /\ emitted \in [Subscribes -> 0..MaxNotes]
  /\ closes \in 0..MaxCloses

Init ==
  /\ outbound = NoConn
  /\ dialer = NoCall
  /\ pending = [i \in Ids |-> NoCall]
  /\ nextId = 0
  /\ pc = [c \in Calls |-> "idle"]
  /\ use = [c \in Calls |-> NoConn]
  /\ id = [c \in Calls |-> 0]
  /\ target = [c \in Unsubscribes |-> NoCall]
  /\ reply = [c \in Calls |-> "none"]
  /\ answer = [c \in Calls |-> NoMsg]
  /\ key = [s \in Subscribes |-> NoKey]
  /\ unsubscribed = [s \in Subscribes |-> FALSE]
  /\ queue = [s \in Subscribes |-> <<>>]
  /\ lagged = {}
  /\ got = [s \in Subscribes |-> <<>>]
  /\ skipped = {}
  /\ chan = [n \in Conns |-> <<>>]
  /\ writer = [n \in Conns |-> "none"]
  /\ reader = [n \in Conns |-> "none"]
  /\ sock = [n \in Conns |-> "unused"]
  /\ wire = [n \in Conns |-> <<>>]
  /\ inbox = [n \in Conns |-> {}]
  /\ served = {}
  /\ granted = [n \in Conns |-> [k \in Keys |-> NoCall]]
  /\ active = [n \in Conns |-> {}]
  /\ emitted = [s \in Subscribes |-> 0]
  /\ closes = 0

Goto(c, l) == pc' = [pc EXCEPT ![c] = l]
-------------------------------------------------------------------------------
(* One call: connect, request, and what follows its response.              *)

\* A subscribe has its receiver from here on, an unsubscribe returns at once
\* when its subscription is known to be closed.
Begin(c) ==
  /\ pc[c] = "idle"
  /\ Cardinality({d \in Calls : pc[d] # "idle"}) < MaxId
  /\ IF c \in Unsubscribes
       THEN \E s \in Subscribes :
              /\ pc[s] = "answered" /\ ~unsubscribed[s]
              /\ target' = [target EXCEPT ![c] = s]
       ELSE UNCHANGED target
  /\ Goto(c, "connecting")
  /\ UNCHANGED <<shared, use, id, key, unsubscribed, replies, streams, tasks,
                 sock, wire, peer, closes>>

\* The channel's receiver lives until the writer task is over.
ChanOpen(n) == writer[n] \in {"running", "drained"}
Usable == outbound # NoConn /\ ChanOpen(outbound)

UseExisting(c) ==
  /\ pc[c] = "connecting" /\ dialer = NoCall
  /\ Usable
  /\ use' = [use EXCEPT ![c] = outbound]
  /\ Goto(c, "enroll")
  /\ UNCHANGED <<shared, id, target, key, unsubscribed, replies, streams, tasks,
                 sock, wire, peer, closes>>

\* The dial runs under the lock: nobody else connects or closes meanwhile.
StartDial(c) ==
  /\ pc[c] = "connecting" /\ dialer = NoCall
  /\ ~Usable
  /\ dialer' = c
  /\ Goto(c, "dialing")
  /\ UNCHANGED <<outbound, pending, nextId, locals, replies, streams, tasks, sock,
                 wire, peer, closes>>

Dial(c, n) ==
  /\ pc[c] = "dialing" /\ sock[n] = "unused"
  /\ sock' = [sock EXCEPT ![n] = "open"]
  /\ outbound' = n
  /\ dialer' = NoCall
  /\ use' = [use EXCEPT ![c] = n]
  /\ writer' = [writer EXCEPT ![n] = "running"]
  /\ reader' = [reader EXCEPT ![n] = "reading"]
  /\ Goto(c, "enroll")
  /\ UNCHANGED <<pending, nextId, id, target, key, unsubscribed, replies, streams,
                 chan, wire, peer, closes>>

DialFail(c) ==
  /\ pc[c] = "dialing"
  /\ dialer' = NoCall
  /\ Goto(c, "unsent")
  /\ UNCHANGED <<outbound, pending, nextId, locals, replies, streams, tasks, sock,
                 wire, peer, closes>>

\* Mutant: an increment that is lost, so two calls share an id.
FreshIdLost == IF nextId = 0 THEN 1 ELSE nextId

FreshId == nextId + 1

Enroll(c) ==
  /\ pc[c] = "enroll"
  /\ nextId' = FreshId
  /\ id' = [id EXCEPT ![c] = FreshId]
  /\ pending' = [pending EXCEPT ![FreshId] = c]
  /\ Goto(c, "send")
  /\ UNCHANGED <<outbound, dialer, use, target, key, unsubscribed, replies,
                 streams, tasks, sock, wire, peer, closes>>

\* Into the writer's channel, which accepts as long as its receiver exists.
Send(c) ==
  /\ pc[c] = "send" /\ ChanOpen(use[c])
  /\ chan' = [chan EXCEPT ![use[c]] = Append(@, c)]
  /\ Goto(c, "wait")
  /\ UNCHANGED <<shared, locals, replies, streams, writer, reader, sock, wire,
                 peer, closes>>

\* Mutant: pending.remove(&id) is forgotten.
WithoutPendingKept(i) == pending

WithoutPending(i) == [pending EXCEPT ![i] = NoCall]

SendFail(c) ==
  /\ pc[c] = "send" /\ ~ChanOpen(use[c])
  /\ pending' = WithoutPending(id[c])
  /\ Goto(c, "unsent")
  /\ UNCHANGED <<outbound, dialer, nextId, locals, replies, streams, tasks, sock,
                 wire, peer, closes>>

\* The response resolves the call; what subscribe and unsubscribe make of it.
Return(c) ==
  /\ pc[c] = "wait" /\ reply[c] = "full"
  /\ Goto(c, IF answer[c].verdict = "ok" THEN "answered" ELSE "refused")
  /\ key' = IF c \in Subscribes /\ answer[c].verdict = "ok"
              THEN [key EXCEPT ![c] = answer[c].key] ELSE key
  /\ unsubscribed' = IF c \in Unsubscribes /\ answer[c].verdict = "ok"
                       THEN [unsubscribed EXCEPT ![target[c]] = TRUE]
                       ELSE unsubscribed
  /\ UNCHANGED <<shared, use, id, target, replies, streams, tasks, sock, wire,
                 peer, closes>>

ReturnClosed(c) ==
  /\ pc[c] = "wait" /\ reply[c] = "closed"
  /\ Goto(c, "closed")
  /\ UNCHANGED <<shared, locals, replies, streams, tasks, sock, wire, peer, closes>>

\* The timeout, which looks at the response first.  The entry in pending stays.
Expire(c) ==
  /\ pc[c] = "wait" /\ reply[c] = "none"
  /\ Goto(c, "expired")
  /\ UNCHANGED <<shared, locals, replies, streams, tasks, sock, wire, peer, closes>>

\* The caller drops the future at one of its awaits, the lock with it.
Drop(c) ==
  /\ c \in Impatient /\ pc[c] \in {"connecting", "dialing", "enroll", "wait"}
  /\ dialer' = IF dialer = c THEN NoCall ELSE dialer
  /\ Goto(c, "dropped")
  /\ UNCHANGED <<outbound, pending, nextId, locals, replies, streams, tasks, sock,
                 wire, peer, closes>>

\* RpcSubscription::next, one recv() of it: an error after a lag, otherwise the
\* oldest notification, returned if it is of this subscription.
Receive(s) ==
  /\ pc[s] = "answered"
  /\ \/ /\ s \in lagged
        /\ lagged' = lagged \ {s}
        /\ UNCHANGED <<queue, got>>
     \/ /\ s \notin lagged /\ queue[s] # <<>>
        /\ queue' = [queue EXCEPT ![s] = Tail(@)]
        /\ got' = IF Head(queue[s]).key = key[s]
                    THEN [got EXCEPT ![s] = Append(@, Head(queue[s]))] ELSE got
        /\ UNCHANGED lagged
  /\ UNCHANGED <<shared, pc, locals, replies, skipped, tasks, sock, wire, peer, closes>>

\* close() forgets the sender and asks the writer for a Close frame.
Close ==
  /\ closes < MaxCloses /\ dialer = NoCall /\ outbound # NoConn
  /\ closes' = closes + 1
  /\ outbound' = NoConn
  /\ chan' = IF ChanOpen(outbound)
               THEN [chan EXCEPT ![outbound] = Append(@, CloseFrame)] ELSE chan
  /\ UNCHANGED <<dialer, pending, nextId, pc, locals, replies, streams, writer,
                 reader, sock, wire, peer>>
-------------------------------------------------------------------------------
(* The writer and the reader of connection n.                              *)

Enrolled(c) == \E i \in Ids : pending[i] = c

\* Every entry, whatever connection its request went to.
Drain ==
  /\ pending' = [i \in Ids |-> NoCall]
  /\ reply' = [c \in Calls |-> IF Enrolled(c) THEN "closed" ELSE reply[c]]

\* A request to an open socket reaches the peer.  To a socket the network broke
\* it may be written and reach nobody.
WriteRequest(n) ==
  /\ writer[n] = "running" /\ chan[n] # <<>> /\ Head(chan[n]) \in Calls
  /\ sock[n] \in {"open", "broken"}
  /\ chan' = [chan EXCEPT ![n] = Tail(@)]
  /\ inbox' = IF sock[n] = "open"
                THEN [inbox EXCEPT ![n] = @ \cup {Head(chan[n])}] ELSE inbox
  /\ UNCHANGED <<shared, pc, locals, replies, streams, writer, reader, sock, wire,
                 served, granted, active, emitted, closes>>

WriteClose(n) ==
  /\ writer[n] = "running" /\ chan[n] # <<>> /\ Head(chan[n]) = CloseFrame
  /\ chan' = [chan EXCEPT ![n] = Tail(@)]
  /\ sock' = [sock EXCEPT ![n] = IF @ = "open" THEN "closing" ELSE @]
  /\ UNCHANGED <<shared, pc, locals, replies, streams, writer, reader, wire, peer,
                 closes>>

\* The writer stops: a socket that is dead or past its Close frame refuses the
\* write, or every sender is gone.
WriterStop(n) ==
  /\ writer[n] = "running"
  /\ \/ chan[n] # <<>> /\ sock[n] \in {"closing", "broken"}
     \/ chan[n] = <<>> /\ outbound # n
        /\ \A c \in Calls : pc[c] \in Holding => use[c] # n
  /\ writer' = [writer EXCEPT ![n] = "drained"]
  /\ Drain
  /\ UNCHANGED <<outbound, dialer, nextId, pc, locals, answer, streams, chan,
                 reader, sock, wire, peer, closes>>

\* Only now is the channel closed: what was sent in between is lost.
WriterDrop(n) ==
  /\ writer[n] = "drained"
  /\ writer' = [writer EXCEPT ![n] = "done"]
  /\ chan' = [chan EXCEPT ![n] = <<>>]
  /\ UNCHANGED <<shared, pc, locals, replies, streams, reader, sock, wire, peer,
                 closes>>

IsNote(m) == m.verdict = "note"

Arriving(n) == reader[n] = "reading" /\ wire[n] # <<>>

\* dispatch of a response: out of pending, into the oneshot channel if its
\* caller is still there.
Respond(n) ==
  /\ Arriving(n)
  /\ LET m == Head(wire[n])
         c == pending[m.id]
     IN  /\ ~IsNote(m)
         /\ pending' = WithoutPending(m.id)
         /\ IF c # NoCall /\ pc[c] \in Waiting
              THEN /\ reply' = [reply EXCEPT ![c] = "full"]
                   /\ answer' = [answer EXCEPT ![c] = m]
              ELSE UNCHANGED replies
  /\ wire' = [wire EXCEPT ![n] = Tail(@)]
  /\ UNCHANGED <<outbound, dialer, nextId, pc, locals, streams, tasks, sock, peer,
                 closes>>

\* Mutant: subscribe_notifications() is called after the response.
ListeningLate(s) == pc[s] = "answered"

Listening(s) == pc[s] \in InFlight \cup {"answered"}

\* Mutant: a buffer without a bound.
PushUnbounded(q, m) == Append(q, m)

Push(q, m) == Append(IF Len(q) = BufferCap THEN Tail(q) ELSE q, m)

\* dispatch of a notification: to the receiver of every subscription, where it
\* pushes out the oldest of a full buffer.
Broadcast(n) ==
  /\ Arriving(n)
  /\ IsNote(Head(wire[n]))
  /\ wire' = [wire EXCEPT ![n] = Tail(@)]
  /\ LET full == {s \in Subscribes : Listening(s) /\ Len(queue[s]) = BufferCap}
     IN  /\ queue' = [s \in Subscribes |->
                        IF Listening(s) THEN Push(queue[s], Head(wire[n]))
                                        ELSE queue[s]]
         /\ lagged' = lagged \cup full
         /\ skipped' = skipped \cup full
  /\ UNCHANGED <<shared, pc, locals, replies, got, tasks, sock, peer, closes>>

\* The stream ends, or a frame cannot be read.
ReaderStop(n) ==
  /\ reader[n] = "reading" /\ sock[n] = "broken"
  /\ reader' = [reader EXCEPT ![n] = "done"]
  /\ Drain
  /\ UNCHANGED <<outbound, dialer, nextId, pc, locals, answer, streams, chan,
                 writer, sock, wire, peer, closes>>
-------------------------------------------------------------------------------
(* External: the peer and the network.  The peer answers in any order, may *)
(* notify before its response to the subscribe is out, and never gives a   *)
(* key twice on one connection.                                            *)

Response(c, verdict, k) ==
  [id |-> id[c], of |-> c, key |-> k, verdict |-> verdict, seq |-> 0]

Note(s, k, i) == [id |-> 0, of |-> s, key |-> k, verdict |-> "note", seq |-> i]

Put(n, m) == wire' = [wire EXCEPT ![n] = Append(@, m)]

Alive(n) == sock[n] \in {"open", "closing"}

Grant(n, c, k) ==
  /\ Alive(n) /\ c \in inbox[n] \cap Subscribes
  /\ granted[n][k] = NoCall
  /\ \A j \in Keys : granted[n][j] # c
  /\ granted' = [granted EXCEPT ![n][k] = c]
  /\ active' = [active EXCEPT ![n] = @ \cup {k}]
  /\ UNCHANGED <<shared, pc, locals, replies, streams, tasks, sock, wire, inbox,
                 served, emitted, closes>>

Verdict(n, c, verdict, k) ==
  \/ c \in Raws /\ verdict = "ok" /\ k = NoKey
  \/ /\ c \in Subscribes
     /\ \/ verdict = "ok" /\ k \in Keys /\ granted[n][k] = c
        \/ verdict = "refused" /\ k = NoKey /\ \A j \in Keys : granted[n][j] # c
  \/ /\ c \in Unsubscribes /\ k = NoKey
     /\ verdict = IF key[target[c]] \in active[n] THEN "ok" ELSE "refused"

Serve(n, c) ==
  /\ Alive(n) /\ c \in inbox[n]
  /\ inbox' = [inbox EXCEPT ![n] = @ \ {c}]
  /\ served' = served \cup {c}
  /\ \E verdict \in {"ok", "refused"}, k \in Keys \cup {NoKey} :
       Verdict(n, c, verdict, k) /\ Put(n, Response(c, verdict, k))
  /\ active' = IF c \in Unsubscribes
                 THEN [active EXCEPT ![n] = @ \ {key[target[c]]}] ELSE active
  /\ UNCHANGED <<shared, pc, locals, replies, streams, tasks, sock, granted,
                 emitted, closes>>

Notify(n, k) ==
  /\ Alive(n) /\ k \in active[n]
  /\ LET s == granted[n][k]
     IN  /\ emitted[s] < MaxNotes
         /\ emitted' = [emitted EXCEPT ![s] = @ + 1]
         /\ Put(n, Note(s, k, emitted[s] + 1))
  /\ UNCHANGED <<shared, pc, locals, replies, streams, tasks, sock, inbox, served,
                 granted, active, closes>>

\* The peer leaves or answers the Close frame, or the network fails.
Break(n) ==
  /\ Alive(n)
  /\ sock' = [sock EXCEPT ![n] = "broken"]
  /\ UNCHANGED <<shared, pc, locals, replies, streams, tasks, wire, peer, closes>>
-------------------------------------------------------------------------------
CallStep(c) ==
  \/ UseExisting(c) \/ StartDial(c) \/ DialFail(c)
  \/ \E n \in Conns : Dial(c, n)
  \/ Enroll(c) \/ Send(c) \/ SendFail(c)
  \/ Return(c) \/ ReturnClosed(c) \/ Expire(c)

TaskStep(n) ==
  \/ WriteRequest(n) \/ WriteClose(n) \/ WriterStop(n) \/ WriterDrop(n)
  \/ Respond(n) \/ Broadcast(n) \/ ReaderStop(n)

PeerStep(n) ==
  \/ \E c \in Calls : Serve(n, c) \/ \E k \in Keys : Grant(n, c, k)
  \/ \E k \in Keys : Notify(n, k)
  \/ Break(n)

Next ==
  \/ \E c \in Calls : Begin(c) \/ CallStep(c) \/ Drop(c)
  \/ \E s \in Subscribes : Receive(s)
  \/ Close
  \/ \E n \in Conns : TaskStep(n) \/ PeerStep(n)

Spec == Init /\ [][Next]_vars
-------------------------------------------------------------------------------
\* A call that waits either has its end in its channel or is in pending, where a
\* response or a drain will find it; and an entry is only ever left behind by a
\* call that timed out or was dropped.
PendingIsOwed ==
  /\ \A c \in Calls : pc[c] \in Waiting /\ reply[c] = "none" => Enrolled(c)
  /\ \A i \in Ids : pending[i] # NoCall =>
       reply[pending[i]] = "none" /\ pc[pending[i]] \in Waiting \cup {"expired", "dropped"}

\* While its connection is read, a subscription loses no notification and sees them
\* in order, whenever they arrive relative to its response, and also when another
\* connection uses its key; a receiver that lagged is the only exception.
NoNoteLost ==
  \A n \in Conns, k \in Keys :
    LET s == granted[n][k]
    IN  reader[n] = "reading" /\ s # NoCall =>
          \/ s \in skipped \/ ~Listening(s)
          \/ InOrder(s, got[s] \o queue[s] \o wire[n], emitted[s])

GivenUp(n) ==
  sock[n] \in {"closing", "broken"} \/ \E i \in 1..Len(chan[n]) : chan[n][i] = CloseFrame

\* A call told "ERPC WebSocket connection closed" was on a connection that was
\* lost or that close() was called for.
ClosedMeansClosed == \A c \in Calls : pc[c] = "closed" => GivenUp(use[c])

(* The contract of RpcSession, without isolation between connections.      *)
Life == [n \in Conns |-> CASE sock[n] = "unused"  -> "new"
                            [] sock[n] = "open"    -> "up"
                            [] sock[n] = "closing" -> "closing"
                            [] OTHER               -> "down"]

Link == [c \in Calls |-> IF id[c] # 0 THEN use[c] ELSE NoConn]

CallStatus ==
  [c \in Calls |->
     CASE pc[c] \in {"idle", "connecting", "dialing", "enroll"} -> "idle"
       [] pc[c] \in Waiting                                     -> "open"
       [] pc[c] \in {"closed", "expired", "unsent"}             -> pc[c]
       [] pc[c] = "dropped" -> IF id[c] # 0 THEN "expired" ELSE "unsent"
       [] OTHER -> IF answer[c].of = c THEN "answered" ELSE "misrouted"]

Session == INSTANCE RpcSession
  WITH status <- CallStatus, life <- Life, link <- Link

\* Every call ends once, and an answer is the answer to that very call.
ImplementsSharedSession == Session!SharedSpec
===============================================================================
