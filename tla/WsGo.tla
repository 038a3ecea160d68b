--------------------------------- MODULE WsGo ---------------------------------
(***************************************************************************)
(* The Go WebSocket transport and its subscriptions,                       *)
(* packages/go/subscriptions.go.                                           *)
(*                                                                         *)
(* The goroutines are: one per API call (Calls), one readLoop per          *)
(* connection, the callers of close(), and the peer with the network       *)
(* (external).  Each action is one section the code runs under t.mu, or    *)
(* one operation on a channel or a socket; what happens between two of     *)
(* them is where goroutines interleave.  A call is a goroutine that runs   *)
(* one of Raw, Subscribe or Unsubscribe, so the reply channel a call       *)
(* makes, and the notification channel a Subscribe makes, are named after  *)
(* the call.                                                               *)
(***************************************************************************)
EXTENDS Naturals, Sequences, Delivery

CONSTANTS Raws,          \* calls of Raw
          Subscribes,    \* calls of Subscribe / RawSubscribe
          Unsubscribes,  \* calls of Subscription.Unsubscribe
          Closers,       \* callers of close(), each again and again
          Conns,         \* connections: bounds the dials
          Keys,          \* subscription ids a peer hands out
          MaxId,         \* bound on t.nextID
          StreamCap,     \* capacity of a notification channel (256 in the code)
          MaxNotes,      \* bound on the notifications a peer emits
          NoConn, NoCall, NoKey, NoMsg

Calls == Raws \cup Subscribes \cup Unsubscribes
Ids == 1..MaxId

ASSUME KindsDisjoint ==
  /\ Raws \cap Subscribes = {}
  /\ Raws \cap Unsubscribes = {}
  /\ Subscribes \cap Unsubscribes = {}
ASSUME BoundsAreNatural ==
  MaxId \in Nat /\ StreamCap \in Nat \ {0} /\ MaxNotes \in Nat
ASSUME NullsAreOutside ==
  NoConn \notin Conns /\ NoCall \notin Calls /\ NoKey \notin Keys

\* What crosses the wire to the client.  A response carries the id of its
\* request; a notification has no id (0) but the key of its subscription and,
\* for the properties, its number in that subscription.  "of" is the call
\* that caused the message: no action of the client reads it.
Msg == [id : 0..MaxId, of : Calls, key : Keys \cup {NoKey},
        verdict : {"ok", "refused", "note"}, seq : Nat]

VARIABLES
  conn,          \* t.conn
  pending,       \* t.pending: id -> the call whose reply channel it holds
  subscriptions, \* t.subscriptions: key -> the subscribe whose channel it holds
  orphans,       \* t.orphans
  nextID,        \* t.nextID
  pc,            \* where each call's goroutine is, or how it ended
  target,        \* the subscription an Unsubscribe works on, and from unregister
                 \* on the channel it is about to close
  use,           \* the connection a call has dialled or was given
  id,            \* the request id of a call
  key,           \* Subscription.ID
  unsubscribed,  \* Subscription.closed
  reply,         \* the reply channel of a call: none, empty, full or closed
  answer,        \* what was put in it
  stream,        \* contents of a notification channel
  streamState,   \* none, open or closed
  got,           \* history: what Next has returned
  overflowed,    \* history: subscriptions that dropped a notification
  reader,        \* readLoop of a connection: none, reading, failed or done
  taken,         \* the reply channel dispatch took and has not sent to yet
  closer,        \* where each caller of close() is: idle, snapped or shut
  closing,       \* the connection it works on
  sock,          \* socket: unused, open, broken (by the network) or closed
  wire,          \* messages on their way to the client, in order
  inbox,         \* requests the peer has received and not answered
  served,        \* history: calls the peer has answered
  granted,       \* the subscribe a peer gave a key to, per connection
  active,        \* keys the peer still emits for
  emitted        \* notifications emitted for a subscribe

session == <<conn, pending, subscriptions, orphans, nextID>>
locals  == <<target, use, id, key, unsubscribed>>
replies == <<reply, answer>>
streams == <<stream, streamState, got, overflowed>>
readers == <<reader, taken>>
closers == <<closer, closing>>
peer    == <<inbox, served, granted, active, emitted>>
network == <<sock, wire>>
others  == <<readers, closers, network, peer>>
vars    == <<session, pc, locals, replies, streams, others>>

Waiting == {"write", "wait"}
Ended == {"answered", "closed", "expired", "unsent"}
Steps == {"idle", "dialing", "dialed", "enroll", "register", "unregister",
          "closing"} \cup Waiting \cup Ended

TypeOK ==
  /\ conn \in Conns \cup {NoConn}
  /\ pending \in [Ids -> Calls \cup {NoCall}]
  /\ subscriptions \in [Keys -> Subscribes \cup {NoCall}]
  /\ orphans \in [Keys -> Seq(Msg)]
  /\ nextID \in 0..MaxId
  /\ pc \in [Calls -> Steps]
  /\ target \in [Unsubscribes -> Subscribes \cup {NoCall}]
  /\ use \in [Calls -> Conns \cup {NoConn}]
  /\ id \in [Calls -> 0..MaxId]
  /\ key \in [Subscribes -> Keys \cup {NoKey}]
  /\ unsubscribed \in [Subscribes -> BOOLEAN]
  /\ reply \in [Calls -> {"none", "empty", "full", "closed"}]
  /\ answer \in [Calls -> Msg \cup {NoMsg}]
  /\ stream \in [Subscribes -> Seq(Msg)]
  /\ \A s \in Subscribes : Len(stream[s]) <= StreamCap
  /\ streamState \in [Subscribes -> {"none", "open", "closed"}]
  /\ got \in [Subscribes -> Seq(Msg)]
  /\ overflowed \subseteq Subscribes
  /\ reader \in [Conns -> {"none", "reading", "failed", "done"}]
  /\ taken \in [Conns -> Calls \cup {NoCall}]
  /\ closer \in [Closers -> {"idle", "snapped", "shut"}]
  /\ closing \in [Closers -> Conns \cup {NoConn}]
  /\ sock \in [Conns -> {"unused", "open", "broken", "closed"}]
  /\ wire \in [Conns -> Seq(Msg)]
  /\ inbox \in [Conns -> SUBSET Calls]
  /\ served \subseteq Calls
  /\ granted \in [Conns -> [Keys -> Subscribes \cup {NoCall}]]
  /\ active \in [Conns -> SUBSET Keys]
  /\ emitted \in [Subscribes -> 0..MaxNotes]

Init ==
  /\ conn = NoConn
  /\ pending = [i \in Ids |-> NoCall]
  /\ subscriptions = [k \in Keys |-> NoCall]
  /\ orphans = [k \in Keys |-> <<>>]
  /\ nextID = 0
  /\ pc = [c \in Calls |-> "idle"]
  /\ target = [c \in Unsubscribes |-> NoCall]
  /\ use = [c \in Calls |-> NoConn]
  /\ id = [c \in Calls |-> 0]
  /\ key = [s \in Subscribes |-> NoKey]
  /\ unsubscribed = [s \in Subscribes |-> FALSE]
  /\ reply = [c \in Calls |-> "none"]
  /\ answer = [c \in Calls |-> NoMsg]
  /\ stream = [s \in Subscribes |-> <<>>]
  /\ streamState = [s \in Subscribes |-> "none"]
  /\ got = [s \in Subscribes |-> <<>>]
  /\ overflowed = {}
  /\ reader = [n \in Conns |-> "none"]
  /\ taken = [n \in Conns |-> NoCall]
  /\ closer = [x \in Closers |-> "idle"]
  /\ closing = [x \in Closers |-> NoConn]
  /\ sock = [n \in Conns |-> "unused"]
  /\ wire = [n \in Conns |-> <<>>]
  /\ inbox = [n \in Conns |-> {}]
  /\ served = {}
  /\ granted = [n \in Conns |-> [k \in Keys |-> NoCall]]
  /\ active = [n \in Conns |-> {}]
  /\ emitted = [s \in Subscribes |-> 0]

Goto(c, l) == pc' = [pc EXCEPT ![c] = l]
-------------------------------------------------------------------------------
(* One call: ensureConnection, request, and what follows an answer.        *)

\* Unsubscribe of a subscription not yet known to be closed; of a closed one
\* it returns true at once and changes nothing.
MayStart(c) ==
  /\ pc[c] = "idle"
  /\ IF c \in Unsubscribes
       THEN \E s \in Subscribes :
              /\ pc[s] = "answered" /\ key[s] # NoKey /\ ~unsubscribed[s]
              /\ target' = [target EXCEPT ![c] = s]
       ELSE UNCHANGED target
  /\ UNCHANGED <<session, id, key, unsubscribed, replies, streams, others>>

\* ensureConnection, first look under t.mu.
UseExisting(c) ==
  /\ MayStart(c)
  /\ conn # NoConn
  /\ use' = [use EXCEPT ![c] = conn]
  /\ Goto(c, "enroll")

StartDial(c) ==
  /\ MayStart(c)
  /\ conn = NoConn
  /\ Goto(c, "dialing")
  /\ UNCHANGED use

\* DialContext runs without t.mu: several callers may dial at once.
Dial(c, n) ==
  /\ pc[c] = "dialing"
  /\ sock[n] = "unused"
  /\ sock' = [sock EXCEPT ![n] = "open"]
  /\ use' = [use EXCEPT ![c] = n]
  /\ Goto(c, "dialed")
  /\ UNCHANGED <<session, target, id, key, unsubscribed, replies, streams,
                 readers, closers, wire, peer>>

DialFail(c) ==
  /\ pc[c] = "dialing"
  /\ Goto(c, "unsent")
  /\ UNCHANGED <<session, locals, replies, streams, others>>

\* Second look under t.mu: the first to install its connection wins and starts
\* its readLoop, a later one closes its own and shares the winner's.
Install(c) ==
  /\ pc[c] = "dialed"
  /\ conn = NoConn
  /\ conn' = use[c]
  /\ reader' = [reader EXCEPT ![use[c]] = "reading"]
  /\ Goto(c, "enroll")
  /\ UNCHANGED <<pending, subscriptions, orphans, nextID, locals, replies,
                 streams, taken, closers, network, peer>>

Adopt(c) ==
  /\ pc[c] = "dialed"
  /\ conn # NoConn
  /\ use' = [use EXCEPT ![c] = conn]
  /\ sock' = [sock EXCEPT ![use[c]] = "closed"]
  /\ Goto(c, "enroll")
  /\ UNCHANGED <<session, target, id, key, unsubscribed, replies, streams,
                 readers, closers, wire, peer>>

\* Mutant: an increment that is lost, so two calls share an id.
FreshIdLost == IF nextID = 0 THEN 1 ELSE nextID

FreshId == nextID + 1

\* nextID.Add(1), then the reply channel goes into t.pending.
Enroll(c) ==
  /\ pc[c] = "enroll"
  /\ nextID < MaxId
  /\ nextID' = FreshId
  /\ id' = [id EXCEPT ![c] = FreshId]
  /\ pending' = [pending EXCEPT ![FreshId] = c]
  /\ reply' = [reply EXCEPT ![c] = "empty"]
  /\ Goto(c, "write")
  /\ UNCHANGED <<conn, subscriptions, orphans, target, use, key, unsubscribed,
                 answer, streams, others>>

\* A write to an open socket reaches the peer.  To a socket the network broke
\* it may succeed into the kernel's buffer and reach nobody.
Write(c) ==
  /\ pc[c] = "write"
  /\ sock[use[c]] \in {"open", "broken"}
  /\ inbox' = IF sock[use[c]] = "open"
                THEN [inbox EXCEPT ![use[c]] = @ \cup {c}] ELSE inbox
  /\ Goto(c, "wait")
  /\ UNCHANGED <<session, locals, replies, streams, readers, closers, network,
                 served, granted, active, emitted>>

\* Mutant: delete(t.pending, id) is forgotten.
WithoutPendingKept(i) == pending

WithoutPending(i) == [pending EXCEPT ![i] = NoCall]

\* It fails on a dead socket, and when the parameters do not encode.
WriteFail(c) ==
  /\ pc[c] = "write"
  /\ pending' = WithoutPending(id[c])
  /\ Goto(c, "unsent")
  /\ UNCHANGED <<conn, subscriptions, orphans, nextID, locals, replies, streams,
                 others>>

Replied(c) == pc[c] = "wait" /\ reply[c] = "full"

\* A raw call, or an rpc error or refusal, and the goroutine is done.
ReturnAnswer(c) ==
  /\ Replied(c)
  /\ c \in Raws \/ answer[c].verdict # "ok"
  /\ Goto(c, "answered")
  /\ UNCHANGED <<session, locals, replies, streams, others>>

ReturnSubscribed(c) ==
  /\ c \in Subscribes
  /\ Replied(c) /\ answer[c].verdict = "ok"
  /\ key' = [key EXCEPT ![c] = answer[c].key]
  /\ Goto(c, "register")
  /\ UNCHANGED <<session, target, use, id, unsubscribed, replies, streams, others>>

ReturnUnsubscribed(c) ==
  /\ c \in Unsubscribes
  /\ Replied(c) /\ answer[c].verdict = "ok"
  /\ unsubscribed' = [unsubscribed EXCEPT ![target[c]] = TRUE]
  /\ Goto(c, "unregister")
  /\ UNCHANGED <<session, target, use, id, key, replies, streams, others>>

\* Receiving from the reply channel connectionClosed closed.
ReturnClosed(c) ==
  /\ pc[c] = "wait" /\ reply[c] = "closed"
  /\ Goto(c, "closed")
  /\ UNCHANGED <<session, locals, replies, streams, others>>

\* Mutant: the wait has no timeout.
ExpireNever(c) == FALSE

\* The timeout or the caller's context ends the wait.
Expire(c) ==
  /\ pc[c] = "wait"
  /\ pending' = WithoutPending(id[c])
  /\ Goto(c, "expired")
  /\ UNCHANGED <<conn, subscriptions, orphans, nextID, locals, replies, streams,
                 others>>

\* Mutant: the buffer has no limit.
FillUnbounded(buffer, notes) == buffer \o notes

\* What a channel of StreamCap holds after non-blocking sends, and whether
\* one of them was dropped.
Fill(buffer, notes) ==
  LET all == buffer \o notes
  IN  IF Len(all) <= StreamCap THEN all ELSE SubSeq(all, 1, StreamCap)

NoteOverflow(s, buffer, notes) ==
  overflowed' = IF Len(buffer \o notes) > StreamCap
                  THEN overflowed \cup {s} ELSE overflowed

\* register: a new channel under the key, filled with the orphans.
Register(c) ==
  /\ c \in Subscribes
  /\ pc[c] = "register"
  /\ subscriptions' = [subscriptions EXCEPT ![key[c]] = c]
  /\ streamState' = [streamState EXCEPT ![c] = "open"]
  /\ stream' = [stream EXCEPT ![c] = Fill(<<>>, orphans[key[c]])]
  /\ NoteOverflow(c, <<>>, orphans[key[c]])
  /\ orphans' = [orphans EXCEPT ![key[c]] = <<>>]
  /\ Goto(c, "answered")
  /\ UNCHANGED <<conn, pending, nextID, locals, replies, got, others>>

\* Mutant: the channel is looked up but stays in t.subscriptions.
WithoutStreamKept(k) == subscriptions

WithoutStream(k) == [subscriptions EXCEPT ![k] = NoCall]

\* Mutant: unregister never closes the channel it took.
ClosesStreamNever(k) == FALSE

ClosesStream(k) == subscriptions[k] # NoCall

\* unregister under t.mu, then close(channel) outside it.
Unregister(c) ==
  /\ c \in Unsubscribes
  /\ pc[c] = "unregister"
  /\ LET k == key[target[c]]
     IN  /\ target' = [target EXCEPT ![c] = subscriptions[k]]
         /\ subscriptions' = WithoutStream(k)
         /\ orphans' = [orphans EXCEPT ![k] = <<>>]
         /\ Goto(c, IF ClosesStream(k) THEN "closing" ELSE "answered")
  /\ UNCHANGED <<conn, pending, nextID, use, id, key, unsubscribed, replies,
                 streams, others>>

CloseStream(c) ==
  /\ c \in Unsubscribes
  /\ pc[c] = "closing"
  /\ streamState' = [streamState EXCEPT ![target[c]] = "closed"]
  /\ Goto(c, "answered")
  /\ UNCHANGED <<session, locals, replies, stream, got, overflowed, others>>

\* Subscription.Next; a closed channel still yields what it holds.
Receive(s) ==
  /\ pc[s] = "answered" /\ stream[s] # <<>>
  /\ got' = [got EXCEPT ![s] = Append(@, Head(stream[s]))]
  /\ stream' = [stream EXCEPT ![s] = Tail(@)]
  /\ UNCHANGED <<session, pc, locals, replies, streamState, overflowed, others>>
-------------------------------------------------------------------------------
(* readLoop of connection n.  A response stays at the head of the wire     *)
(* until its reply channel has been sent to.                               *)

Arriving(n) == reader[n] = "reading" /\ taken[n] = NoCall /\ wire[n] # <<>>

IsNote(m) == m.verdict = "note"

\* dispatch of a response: take the reply channel out of t.pending under t.mu,
\* then send to it without the lock.
Take(n) ==
  /\ Arriving(n)
  /\ LET m == Head(wire[n])
     IN  /\ ~IsNote(m)
         /\ pending[m.id] # NoCall
         /\ taken' = [taken EXCEPT ![n] = pending[m.id]]
         /\ pending' = WithoutPending(m.id)
  /\ UNCHANGED <<conn, subscriptions, orphans, nextID, pc, locals, replies,
                 streams, reader, closers, network, peer>>

Deliver(n) ==
  /\ taken[n] # NoCall
  /\ reply' = [reply EXCEPT ![taken[n]] = "full"]
  /\ answer' = [answer EXCEPT ![taken[n]] = Head(wire[n])]
  /\ taken' = [taken EXCEPT ![n] = NoCall]
  /\ wire' = [wire EXCEPT ![n] = Tail(@)]
  /\ UNCHANGED <<session, pc, locals, streams, reader, closers, sock, peer>>

\* A response nobody waits for any more.
Ignore(n) ==
  /\ Arriving(n)
  /\ ~IsNote(Head(wire[n])) /\ pending[Head(wire[n]).id] = NoCall
  /\ wire' = [wire EXCEPT ![n] = Tail(@)]
  /\ UNCHANGED <<session, pc, locals, replies, streams, readers, closers, sock,
                 peer>>

\* Mutant: a notification nobody has registered for yet is thrown away.
WithOrphanDropped(m) == orphans

WithOrphan(m) == [orphans EXCEPT ![m.key] = Append(@, m)]

\* dispatch of a notification: to its channel if one is registered, where a
\* full channel drops it, and among the orphans otherwise.
Notice(n) ==
  /\ Arriving(n)
  /\ IsNote(Head(wire[n]))
  /\ wire' = [wire EXCEPT ![n] = Tail(@)]
  /\ LET m == Head(wire[n])
         s == subscriptions[m.key]
     IN  \/ /\ s = NoCall
            /\ orphans' = WithOrphan(m)
            /\ UNCHANGED <<stream, overflowed>>
         \/ /\ s # NoCall
            /\ stream' = [stream EXCEPT ![s] = Fill(@, <<m>>)]
            /\ NoteOverflow(s, stream[s], <<m>>)
            /\ UNCHANGED orphans
  /\ UNCHANGED <<conn, pending, subscriptions, nextID, pc, locals, replies,
                 streamState, got, readers, closers, sock, peer>>

\* ReadMessage fails once the socket is dead; frames already buffered may
\* still be read before it does.
ReadFail(n) ==
  /\ reader[n] = "reading" /\ taken[n] = NoCall
  /\ sock[n] \in {"broken", "closed"}
  /\ reader' = [reader EXCEPT ![n] = "failed"]
  /\ UNCHANGED <<session, pc, locals, replies, streams, taken, closers, network,
                 peer>>
-------------------------------------------------------------------------------
(* connectionClosed, and its two callers.                                  *)

\* Mutant: connectionClosed does not compare its connection with t.conn.
IsCurrentUnchecked(n) == TRUE

\* Only the current connection's end ends the session's calls and streams.
IsCurrent(n) == conn = n

ConnectionClosed(n) ==
  \/ /\ ~IsCurrent(n)
     /\ UNCHANGED <<session, reply, streamState>>
  \/ /\ IsCurrent(n)
     /\ conn' = NoConn
     /\ reply' = [c \in Calls |-> IF \E i \in Ids : pending[i] = c
                                    THEN "closed" ELSE reply[c]]
     /\ pending' = [i \in Ids |-> NoCall]
     /\ streamState' = [s \in Subscribes |->
                          IF \E k \in Keys : subscriptions[k] = s
                            THEN "closed" ELSE streamState[s]]
     /\ subscriptions' = [k \in Keys |-> NoCall]
     /\ orphans' = [k \in Keys |-> <<>>]
     /\ UNCHANGED nextID

ReaderExit(n) ==
  /\ reader[n] = "failed"
  /\ reader' = [reader EXCEPT ![n] = "done"]
  /\ ConnectionClosed(n)
  /\ UNCHANGED <<pc, locals, answer, stream, got, overflowed, taken, closers,
                 network, peer>>

\* close(): read t.conn, close that socket, then run connectionClosed, with
\* anything happening in between.
Snapshot(x) ==
  /\ closer[x] = "idle" /\ conn # NoConn
  /\ closer' = [closer EXCEPT ![x] = "snapped"]
  /\ closing' = [closing EXCEPT ![x] = conn]
  /\ UNCHANGED <<session, pc, locals, replies, streams, readers, network, peer>>

Shut(x) ==
  /\ closer[x] = "snapped"
  /\ closer' = [closer EXCEPT ![x] = "shut"]
  /\ sock' = [sock EXCEPT ![closing[x]] = "closed"]
  /\ UNCHANGED <<session, pc, locals, replies, streams, readers, closing, wire,
                 peer>>

FinishClose(x) ==
  /\ closer[x] = "shut"
  /\ closer' = [closer EXCEPT ![x] = "idle"]
  /\ closing' = [closing EXCEPT ![x] = NoConn]
  /\ ConnectionClosed(closing[x])
  /\ UNCHANGED <<pc, locals, answer, stream, got, overflowed, readers, network,
                 peer>>
-------------------------------------------------------------------------------
(* External: the peer and the network.  The peer answers in any order, may *)
(* notify before its response to the subscribe is out, and never gives a   *)
(* key twice on one connection; on another connection it may.              *)

Response(c, verdict, k) ==
  [id |-> id[c], of |-> c, key |-> k, verdict |-> verdict, seq |-> 0]

Note(s, k, i) == [id |-> 0, of |-> s, key |-> k, verdict |-> "note", seq |-> i]

Send(n, m) == wire' = [wire EXCEPT ![n] = Append(@, m)]

\* The peer gives a subscribe its key, and may notify, before it answers.
Grant(n, c, k) ==
  /\ sock[n] = "open" /\ c \in inbox[n] \cap Subscribes
  /\ granted[n][k] = NoCall
  /\ \A j \in Keys : granted[n][j] # c
  /\ granted' = [granted EXCEPT ![n][k] = c]
  /\ active' = [active EXCEPT ![n] = @ \cup {k}]
  /\ UNCHANGED <<session, pc, locals, replies, streams, readers, closers,
                 network, inbox, served, emitted>>

Verdict(n, c, verdict, k) ==
  \/ c \in Raws /\ verdict = "ok" /\ k = NoKey
  \/ /\ c \in Subscribes
     /\ \/ verdict = "ok" /\ k \in Keys /\ granted[n][k] = c
        \/ verdict = "refused" /\ k = NoKey /\ \A j \in Keys : granted[n][j] # c
  \/ /\ c \in Unsubscribes /\ k = NoKey
     /\ verdict = IF key[target[c]] \in active[n] THEN "ok" ELSE "refused"

Serve(n, c) ==
  /\ sock[n] = "open" /\ c \in inbox[n]
  /\ inbox' = [inbox EXCEPT ![n] = @ \ {c}]
  /\ served' = served \cup {c}
  /\ \E verdict \in {"ok", "refused"}, k \in Keys \cup {NoKey} :
       Verdict(n, c, verdict, k) /\ Send(n, Response(c, verdict, k))
  /\ active' = IF c \in Unsubscribes
                 THEN [active EXCEPT ![n] = @ \ {key[target[c]]}] ELSE active
  /\ UNCHANGED <<session, pc, locals, replies, streams, readers, closers, sock,
                 granted, emitted>>

Notify(n, k) ==
  /\ sock[n] = "open" /\ k \in active[n]
  /\ LET s == granted[n][k]
     IN  /\ emitted[s] < MaxNotes
         /\ emitted' = [emitted EXCEPT ![s] = @ + 1]
         /\ Send(n, Note(s, k, emitted[s] + 1))
  /\ UNCHANGED <<session, pc, locals, replies, streams, readers, closers, sock,
                 inbox, served, granted, active>>

Break(n) ==
  /\ sock[n] = "open"
  /\ sock' = [sock EXCEPT ![n] = "broken"]
  /\ UNCHANGED <<session, pc, locals, replies, streams, readers, closers, wire,
                 peer>>
-------------------------------------------------------------------------------
CallStep(c) ==
  \/ UseExisting(c) \/ StartDial(c) \/ DialFail(c)
  \/ \E n \in Conns : Dial(c, n)
  \/ Install(c) \/ Adopt(c) \/ Enroll(c) \/ Write(c) \/ WriteFail(c)
  \/ ReturnAnswer(c) \/ ReturnSubscribed(c) \/ ReturnUnsubscribed(c)
  \/ ReturnClosed(c) \/ Expire(c) \/ Register(c) \/ Unregister(c)
  \/ CloseStream(c)

ReadStep(n) ==
  Take(n) \/ Deliver(n) \/ Ignore(n) \/ Notice(n) \/ ReadFail(n) \/ ReaderExit(n)

CloseStep(x) == Snapshot(x) \/ Shut(x) \/ FinishClose(x)

PeerStep(n) ==
  \/ \E c \in Calls : Serve(n, c) \/ \E k \in Keys : Grant(n, c, k)
  \/ \E k \in Keys : Notify(n, k)
  \/ Break(n)

Next ==
  \/ \E c \in Calls : CallStep(c)
  \/ \E s \in Subscribes : Receive(s)
  \/ \E n \in Conns : ReadStep(n) \/ PeerStep(n)
  \/ \E x \in Closers : CloseStep(x)

Spec == Init /\ [][Next]_vars

(* Liveness: the scheduler runs every goroutine, and the timer of          *)
(* context.WithTimeout fires; a write to a socket returns, although the    *)
(* code sets no deadline for it.  The peer need not answer, nor the socket *)
(* fail.                                                                   *)
Fairness ==
  /\ \A c \in Calls : WF_vars(CallStep(c))
  /\ \A n \in Conns : WF_vars(ReadStep(n))
  /\ \A x \in Closers : WF_vars(CloseStep(x))

LiveSpec == Spec /\ Fairness
-------------------------------------------------------------------------------
(* Safety.                                                                 *)

\* A send on a closed channel, or a second close of one, is a panic that ends
\* the whole program; a send on a full channel blocks readLoop for ever.  A
\* reply channel dispatch has taken, outside the lock, is still open and empty
\* and no other reader has taken it (dispatch, connectionClosed).
NoReplyPanic ==
  /\ \A n \in Conns : taken[n] # NoCall => reply[taken[n]] = "empty"
  /\ \A n, m \in Conns : taken[n] # NoCall /\ taken[n] = taken[m] => n = m

\* The same for notification channels: one that dispatch or connectionClosed
\* can find in t.subscriptions is open, and the one unregister is about to
\* close outside the lock is open and out of everyone else's reach.
NoStreamPanic ==
  /\ \A k \in Keys :
       subscriptions[k] # NoCall => streamState[subscriptions[k]] = "open"
  /\ \A c \in Unsubscribes : pc[c] = "closing" =>
       /\ streamState[target[c]] = "open"
       /\ \A k \in Keys : subscriptions[k] # target[c]
       /\ \A d \in Unsubscribes \ {c} : pc[d] = "closing" => target[d] # target[c]

\* A call told "ERPC WebSocket connection closed" was on a connection that is
\* really down: the late end of an old connection fails nobody else's calls.
ClosedMeansClosed ==
  \A c \in Calls : pc[c] = "closed" => sock[use[c]] \in {"broken", "closed"}

\* t.pending holds a reply channel only while its caller waits for it: however
\* a call ends, nothing of it stays behind.
NoPendingLeak ==
  \A i \in Ids : pending[i] # NoCall => pc[pending[i]] \in Waiting

\* Key k of connection n was not given out by another connection as well.
Unshared(n, k) == \A m \in Conns \ {n} : granted[m][k] = NoCall

\* While its connection lasts, and until it is unsubscribed, a subscription
\* whose key is its own loses no notification and sees them in order, whenever
\* they arrive relative to the subscribe's response: each is returned, buffered
\* in its channel, kept among the orphans or still on the wire.  A full channel
\* is the only way to lose one.
NoNoteLost ==
  \A n \in Conns, k \in Keys :
    LET s == granted[n][k]
    IN  n = conn /\ s # NoCall =>
          \/ ~Unshared(n, k) \/ s \in overflowed \/ unsubscribed[s]
          \/ InOrder(s, got[s] \o stream[s] \o orphans[k] \o wire[n], emitted[s])

(* The contract every transport owes its callers.                          *)
Issued(c) == id[c] # 0

Life == [n \in Conns |-> CASE sock[n] = "unused" -> "new"
                            [] sock[n] = "open"   -> "up"
                            [] OTHER              -> "down"]

Link == [c \in Calls |-> IF Issued(c) THEN use[c] ELSE NoConn]

CallStatus ==
  [c \in Calls |->
     CASE pc[c] \in {"idle", "dialing", "dialed", "enroll"} -> "idle"
       [] pc[c] \in Waiting                                 -> "open"
       [] pc[c] \in {"closed", "expired", "unsent"}         -> pc[c]
       [] OTHER -> IF answer[c].of = c THEN "answered" ELSE "misrouted"]

Session == INSTANCE RpcSession
  WITH status <- CallStatus, life <- Life, link <- Link

\* Every call ends once, with the answer to that very call or for a reason of
\* its own connection.
ImplementsSession == Session!Spec

\* A caller always gets control back, even if the connection is lost between
\* ensureConnection and t.pending and nobody is left to answer or to fail it.
CallsReturn == \A c \in Calls : pc[c] # "idle" ~> pc[c] \in Ended

\* After a successful Unsubscribe, Next does not wait for ever: the channel is
\* closed.
UnsubscribedStreamsEnd ==
  \A s \in Subscribes : unsubscribed[s] ~> streamState[s] = "closed"
===============================================================================
