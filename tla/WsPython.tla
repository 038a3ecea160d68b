------------------------------- MODULE WsPython -------------------------------
(***************************************************************************)
(* The Python WebSocket transport, src/erpc_sdk/subscriptions.py, with the *)
(* subscribe and unsubscribe calls on top of it.                           *)
(*                                                                         *)
(* One event loop runs coroutines; what interleaves is what happens        *)
(* between two awaits.  Every action is a coroutine from the point where   *)
(* it wakes to its next await.  A future that is set wakes its caller only *)
(* later: the reader may take more messages first, the timer may run out,  *)
(* and close() has awaits of its own, at which a dial may still end.       *)
(*                                                                         *)
(* Ids come from itertools.count and never repeat, so a call stands for    *)
(* its id.  The consumer's side of a subscription is not here: its queue   *)
(* has no bound and only grows.  A raw call is a request like the others   *)
(* with nothing before or after it.                                        *)
(***************************************************************************)
EXTENDS Integers, Sequences, FiniteSets, FiniteSetsExt

CONSTANTS Subscribes,   \* calls of _subscribe
          Unsubscribes, \* calls of RpcSubscription.unsubscribe
          Conns,        \* connections: bounds the attempts to dial
          Sids,         \* subscription ids a peer gives out, per connection
          MaxNotes,     \* bound on the notifications sent
          NoConn, NoCall, NoSid

Calls == Subscribes \cup Unsubscribes

ASSUME KindsDisjoint == Subscribes \cap Unsubscribes = {}
ASSUME NullsAreOutside == NoConn \notin Conns /\ NoCall \notin Calls /\ NoSid \notin Sids
ASSUME BoundIsNatural == MaxNotes \in Nat

VARIABLES
  isClosed,   \* _closed
  connection, \* _connection
  holder,     \* the call that holds _connect_lock
  task,       \* _reader_task, named by its connection
  reader,     \* the reader of each connection: none, running, ended
  sock,       \* each connection: unused, dialing, open, clean or broken once over
  pc,         \* where each call is, or how it ended
  via,        \* the connection a request was given to
  pending,    \* _pending
  fut,        \* the future of a pending call: unset, answered, refused, cut, closed
  target,     \* the subscription an unsubscribe works on
  listeners,  \* _listeners, each named by its subscribe
  sid,        \* subscription_id of each subscribe, once its coroutine stored it
  queue,      \* the queue of each subscription
  ended,      \* subscriptions whose _closed is set
  closer,     \* the one close() that does anything: where it is, what it took
  inbox,      \* external: requests a peer has and has not answered
  wire,       \* external: what a peer has sent and no reader has taken
  granted,    \* external: the subscription of each id of a connection
  gave,       \* external: the id in the answer to each subscribe
  sent        \* external: notifications sent for each subscription

connecting == <<isClosed, connection, holder, task, reader, sock>>
calls == <<pc, via, pending, fut, target>>
subs == <<listeners, sid, queue, ended>>
peer == <<inbox, wire, granted, gave, sent>>
vars == <<connecting, calls, subs, closer, peer>>

Sent == {"sending", "waiting"}
InFlight == {"locking", "dialing"} \cup Sent
Outcomes == {"answered", "failed", "cancelled"}
Item == [sid : Sids, of : Subscribes, seq : Nat]

Init ==
  /\ isClosed = FALSE /\ connection = NoConn /\ holder = NoCall /\ task = NoConn
  /\ reader = [n \in Conns |-> "none"]
  /\ sock = [n \in Conns |-> "unused"]
  /\ pc = [c \in Calls |-> "idle"]
  /\ via = [c \in Calls |-> NoConn]
  /\ pending = {}
  /\ fut = [c \in Calls |-> "unset"]
  /\ target = [c \in Unsubscribes |-> NoCall]
  /\ listeners = {}
  /\ sid = [s \in Subscribes |-> NoSid]
  /\ queue = [s \in Subscribes |-> <<>>]
  /\ ended = {}
  /\ closer = [at |-> "none", conn |-> NoConn, task |-> NoConn]
  /\ inbox = [n \in Conns |-> {}]
  /\ wire = [n \in Conns |-> <<>>]
  /\ granted = [n \in Conns |-> [k \in Sids |-> NoCall]]
  /\ gave = [s \in Subscribes |-> NoSid]
  /\ sent = [s \in Subscribes |-> 0]
-------------------------------------------------------------------------------
(* request.                                                                *)

\* Mutant: _pending.pop is forgotten.
WithoutKept(c) == pending

Without(c) == pending \ {c}

\* Mutant: a failed subscribe forgets remove().
ListenersAfterKept(c, result) ==
  IF c \in Unsubscribes /\ result = "answered" THEN listeners \ {target[c]} ELSE listeners

\* What the coroutine that awaited a request does with the listeners.  A
\* subscribe catches Exception, which the cancellation of its task is not.
ListenersAfter(c, result) ==
  IF c \in Unsubscribes /\ result = "answered" THEN listeners \ {target[c]}
  ELSE IF result \in {"answered", "cancelled"} THEN listeners
  ELSE listeners \ {c}

\* A call ends, its future is dropped, and whoever awaits it goes on in the
\* same step.
Finish(c, result) ==
  /\ pc' = [pc EXCEPT ![c] = result]
  /\ fut' = [fut EXCEPT ![c] = "unset"]
  /\ pending' = Without(c)
  /\ listeners' = ListenersAfter(c, result)
  /\ ended' = IF c \in Unsubscribes /\ result = "answered" THEN ended \cup {target[c]} ELSE ended

\* An unsubscribe works on an open subscription; a subscribe listens first.
Call(c) ==
  /\ pc[c] = "idle"
  /\ IF c \in Unsubscribes
       THEN \E s \in Subscribes : /\ pc[s] = "answered" /\ s \notin ended
                                  /\ target' = [target EXCEPT ![c] = s]
       ELSE UNCHANGED target

\* Mutant: every call listens.
ListeningAlways(c) == listeners \cup {c}

Listening(c) == IF c \in Subscribes THEN listeners \cup {c} ELSE listeners

\* The request is registered and its send is started on connection n.
Register(c, n) ==
  /\ pc' = [pc EXCEPT ![c] = "sending"]
  /\ via' = [via EXCEPT ![c] = n]
  /\ pending' = pending \cup {c}

Idle == holder = NoCall /\ \A c \in Calls : pc[c] # "locking"

Dial(c, n) ==
  /\ sock[n] = "unused"
  /\ sock' = [sock EXCEPT ![n] = "dialing"]
  /\ holder' = c
  /\ pc' = [pc EXCEPT ![c] = "dialing"]
  /\ via' = [via EXCEPT ![c] = n]

\* A closed transport refuses; a subscribe takes its listener back at once.
BeginRefused(c) ==
  /\ Call(c) /\ isClosed
  /\ pc' = [pc EXCEPT ![c] = "failed"]
  /\ UNCHANGED <<connecting, via, pending, fut, subs, closer, peer>>

BeginConnected(c) ==
  /\ Call(c) /\ ~isClosed /\ connection # NoConn
  /\ Register(c, connection)
  /\ listeners' = Listening(c)
  /\ UNCHANGED <<connecting, fut, sid, queue, ended, closer, peer>>

BeginLocked(c) ==
  /\ Call(c) /\ ~isClosed /\ connection = NoConn /\ ~Idle
  /\ pc' = [pc EXCEPT ![c] = "locking"]
  /\ listeners' = Listening(c)
  /\ UNCHANGED <<connecting, via, pending, fut, sid, queue, ended, closer, peer>>

BeginDial(c, n) ==
  /\ Call(c) /\ ~isClosed /\ connection = NoConn /\ Idle
  /\ Dial(c, n)
  /\ listeners' = Listening(c)
  /\ UNCHANGED <<isClosed, connection, task, reader, pending, fut, sid, queue, ended, closer, peer>>

\* Mutant: the connection is not looked at again under the lock.
ConnectedUnderLockUnchecked == FALSE

\* Under the lock the connection is looked at again, _closed is not.
ConnectedUnderLock == connection # NoConn

AcquireConnected(c) ==
  /\ pc[c] = "locking" /\ holder = NoCall /\ ConnectedUnderLock
  /\ Register(c, connection)
  /\ UNCHANGED <<connecting, fut, target, subs, closer, peer>>

AcquireDial(c, n) ==
  /\ pc[c] = "locking" /\ holder = NoCall /\ ~ConnectedUnderLock
  /\ Dial(c, n)
  /\ UNCHANGED <<isClosed, connection, task, reader, pending, fut, target, subs, closer, peer>>

\* The dial succeeds: the connection is stored and read, whatever close() did
\* meanwhile, and the request goes out on it.
Dialed(c) ==
  LET n == via[c] IN
  /\ pc[c] = "dialing"
  /\ sock' = [sock EXCEPT ![n] = "open"]
  /\ connection' = n
  /\ task' = n
  /\ reader' = [reader EXCEPT ![n] = "running"]
  /\ holder' = NoCall
  /\ Register(c, n)
  /\ UNCHANGED <<isClosed, fut, target, subs, closer, peer>>

\* The dial fails or times out; a task may also be cancelled in it or before it.
NotDialed(c) ==
  /\ pc[c] \in {"locking", "dialing"}
  /\ sock' = IF pc[c] = "dialing" THEN [sock EXCEPT ![via[c]] = "broken"] ELSE sock
  /\ holder' = IF holder = c THEN NoCall ELSE holder
  /\ \/ pc[c] = "dialing" /\ Finish(c, "failed")
     \/ Finish(c, "cancelled")
  /\ via' = [via EXCEPT ![c] = NoConn]
  /\ UNCHANGED <<isClosed, connection, task, reader, target, sid, queue, closer, peer>>

SendDone(c) ==
  /\ pc[c] = "sending" /\ sock[via[c]] = "open"
  /\ pc' = [pc EXCEPT ![c] = "waiting"]
  /\ inbox' = [inbox EXCEPT ![via[c]] = @ \cup {c}]
  /\ UNCHANGED <<connecting, via, pending, fut, target, subs, closer, wire, granted, gave, sent>>

SendFailed(c) ==
  /\ pc[c] = "sending" /\ sock[via[c]] # "open"
  /\ Finish(c, "failed")
  /\ UNCHANGED <<connecting, via, target, sid, queue, closer, peer>>

\* The caller wakes with the outcome its future was given, and only now does a
\* subscribe store the id it was given.
Wake(c) ==
  /\ pc[c] = "waiting" /\ fut[c] # "unset"
  /\ Finish(c, IF fut[c] = "answered" THEN "answered" ELSE "failed")
  /\ sid' = IF c \in Subscribes /\ fut[c] = "answered" THEN [sid EXCEPT ![c] = gave[c]] ELSE sid
  /\ UNCHANGED <<connecting, via, target, queue, closer, peer>>

\* The timer of a send or a wait, which may win over an answer already set.
Expire(c) ==
  /\ pc[c] \in Sent
  /\ Finish(c, "failed")
  /\ UNCHANGED <<connecting, via, target, sid, queue, closer, peer>>

\* The caller's task is cancelled.
Cancel(c) ==
  /\ pc[c] \in Sent
  /\ Finish(c, "cancelled")
  /\ UNCHANGED <<connecting, via, target, sid, queue, closer, peer>>
-------------------------------------------------------------------------------
(* The reader of connection n.                                             *)

\* Mutant: a notification goes to every subscription.
MatchesAnything(s, k) == TRUE

\* A subscription whose id is not stored yet matches nothing.
Matches(s, k) == sid[s] = k

ReadResponse(n) ==
  LET m == Head(wire[n]) IN
  /\ reader[n] = "running" /\ wire[n] # <<>> /\ m.sid = NoSid
  /\ wire' = [wire EXCEPT ![n] = Tail(@)]
  /\ fut' = IF m.of \in pending /\ fut[m.of] = "unset"
              THEN [fut EXCEPT ![m.of] = m.result] ELSE fut
  /\ UNCHANGED <<connecting, pc, via, pending, target, subs, closer, inbox, granted, gave, sent>>

ReadNote(n) ==
  LET m == Head(wire[n]) IN
  /\ reader[n] = "running" /\ wire[n] # <<>> /\ m.sid # NoSid
  /\ wire' = [wire EXCEPT ![n] = Tail(@)]
  /\ queue' = [s \in Subscribes |-> IF s \in listeners /\ Matches(s, m.sid)
                                      THEN Append(queue[s], m) ELSE queue[s]]
  /\ UNCHANGED <<connecting, calls, listeners, sid, ended, closer, inbox, granted, gave, sent>>

\* Mutant: the reader leaves the connection in place.
ClearedNever(n) == connection

\* The finally of a reader.
Cleared(n) == IF connection = n THEN NoConn ELSE connection

Cut(S, how) == fut' = [c \in Calls |-> IF c \in S /\ fut[c] = "unset" THEN how ELSE fut[c]]

\* The iteration ends.  Only an error fails the pending calls, and it fails all.
ReadEnd(n) ==
  /\ reader[n] = "running" /\ wire[n] = <<>> /\ sock[n] \in {"clean", "broken"}
  /\ reader' = [reader EXCEPT ![n] = "ended"]
  /\ connection' = Cleared(n)
  /\ IF sock[n] = "broken" THEN Cut(pending, "cut") ELSE UNCHANGED fut
  /\ UNCHANGED <<isClosed, holder, task, sock, pc, via, pending, target, subs, closer, peer>>
-------------------------------------------------------------------------------
(* close().                                                                *)
Close ==
  /\ ~isClosed
  /\ isClosed' = TRUE
  /\ connection' = NoConn
  /\ task' = NoConn
  /\ closer' = [at |-> IF connection # NoConn THEN "handshake"
                       ELSE IF task # NoConn THEN "reader" ELSE "last",
                conn |-> connection, task |-> task]
  /\ UNCHANGED <<holder, reader, sock, calls, subs, peer>>

\* await connection.close(): the handshake ends, or the connection breaks.
CloseHandshake ==
  /\ closer.at = "handshake"
  /\ closer' = [closer EXCEPT !.at = "reader"]
  /\ IF sock[closer.conn] = "open"
       THEN \E how \in {"clean", "broken"} : sock' = [sock EXCEPT ![closer.conn] = how]
       ELSE UNCHANGED sock
  /\ UNCHANGED <<isClosed, connection, holder, task, reader, calls, subs, peer>>

\* The reader is cancelled and awaited.
CloseReader ==
  LET n == closer.task IN
  /\ closer.at = "reader"
  /\ closer' = [closer EXCEPT !.at = "last"]
  /\ IF reader[n] = "running"
       THEN reader' = [reader EXCEPT ![n] = "ended"] /\ connection' = Cleared(n)
       ELSE UNCHANGED <<reader, connection>>
  /\ UNCHANGED <<isClosed, holder, task, sock, calls, subs, peer>>

CloseLast ==
  /\ closer.at = "last"
  /\ closer' = [closer EXCEPT !.at = "done"]
  /\ Cut(pending, "closed")
  /\ pending' = {}
  /\ listeners' = {}
  /\ UNCHANGED <<connecting, pc, via, target, sid, queue, ended, peer>>
-------------------------------------------------------------------------------
(* External: the peers and the network.                                    *)
Response(c, result) == [sid |-> NoSid, of |-> c, result |-> result]

Message == [sid : {NoSid}, of : Calls, result : {"answered", "refused"}] \cup Item

Note(n, k) == [sid |-> k, of |-> granted[n][k], seq |-> sent'[granted[n][k]]]

Serve(n, c) ==
  /\ sock[n] = "open" /\ c \in inbox[n]
  /\ inbox' = [inbox EXCEPT ![n] = @ \ {c}]
  /\ \/ /\ wire' = [wire EXCEPT ![n] = Append(@, Response(c, "refused"))]
        /\ UNCHANGED <<granted, gave>>
     \/ /\ c \in Subscribes
        /\ \E k \in Sids : /\ granted[n][k] = NoCall
                           /\ granted' = [granted EXCEPT ![n][k] = c]
                           /\ gave' = [gave EXCEPT ![c] = k]
        /\ wire' = [wire EXCEPT ![n] = Append(@, Response(c, "answered"))]
     \/ /\ c \in Unsubscribes /\ granted[n][sid[target[c]]] # NoCall
        /\ granted' = [granted EXCEPT ![n][sid[target[c]]] = NoCall]
        /\ wire' = [wire EXCEPT ![n] = Append(@, Response(c, "answered"))]
        /\ UNCHANGED gave
  /\ UNCHANGED <<connecting, calls, subs, closer, sent>>

Notify(n, k) ==
  LET s == granted[n][k] IN
  /\ sock[n] = "open" /\ s # NoCall
  /\ MapThenSumSet(LAMBDA t : sent[t], Subscribes) < MaxNotes
  /\ sent' = [sent EXCEPT ![s] = @ + 1]
  /\ wire' = [wire EXCEPT ![n] = Append(@, Note(n, k))]
  /\ UNCHANGED <<connecting, calls, subs, closer, inbox, granted, gave>>

\* The peer closes the connection, or the network loses it and what is under way.
Leave(n) ==
  /\ sock[n] = "open"
  /\ \/ sock' = [sock EXCEPT ![n] = "clean"] /\ UNCHANGED wire
     \/ sock' = [sock EXCEPT ![n] = "broken"] /\ wire' \in {wire, [wire EXCEPT ![n] = <<>>]}
  /\ UNCHANGED <<isClosed, connection, holder, task, reader, calls, subs, closer, inbox, granted, gave, sent>>

Go(c) == SendDone(c) \/ SendFailed(c) \/ Wake(c)

Read(n) == ReadResponse(n) \/ ReadNote(n) \/ ReadEnd(n)

Next ==
  \/ \E c \in Calls :
       \/ BeginRefused(c) \/ BeginConnected(c) \/ BeginLocked(c) \/ AcquireConnected(c)
       \/ Dialed(c) \/ NotDialed(c) \/ Go(c) \/ Expire(c) \/ Cancel(c)
       \/ \E n \in Conns : BeginDial(c, n) \/ AcquireDial(c, n) \/ Serve(n, c)
  \/ \E n \in Conns : Read(n) \/ Leave(n) \/ \E k \in Sids : Notify(n, k)
  \/ Close \/ CloseHandshake \/ CloseReader \/ CloseLast

Spec == Init /\ [][Next]_vars
-------------------------------------------------------------------------------
TypeOK ==
  /\ isClosed \in BOOLEAN
  /\ connection \in Conns \cup {NoConn} /\ task \in Conns \cup {NoConn}
  /\ holder \in Calls \cup {NoCall}
  /\ reader \in [Conns -> {"none", "running", "ended"}]
  /\ sock \in [Conns -> {"unused", "dialing", "open", "clean", "broken"}]
  /\ pc \in [Calls -> {"idle"} \cup InFlight \cup Outcomes]
  /\ via \in [Calls -> Conns \cup {NoConn}]
  /\ pending \subseteq Calls
  /\ fut \in [Calls -> {"unset", "answered", "refused", "cut", "closed"}]
  /\ target \in [Unsubscribes -> Subscribes \cup {NoCall}]
  /\ listeners \subseteq Subscribes /\ ended \subseteq Subscribes
  /\ sid \in [Subscribes -> Sids \cup {NoSid}]
  /\ queue \in [Subscribes -> Seq(Item)]
  /\ closer \in [at : {"none", "handshake", "reader", "last", "done"},
                 conn : Conns \cup {NoConn}, task : Conns \cup {NoConn}]
  /\ inbox \in [Conns -> SUBSET Calls] /\ wire \in [Conns -> Seq(Message)]
  /\ granted \in [Conns -> [Sids -> Subscribes \cup {NoCall}]]
  /\ gave \in [Subscribes -> Sids \cup {NoSid}]
  /\ sent \in [Subscribes -> Nat]

\* _pending holds exactly the requests that are being sent or waited for until
\* close() empties it, also when a timer, a cancellation and an answer race.
PendingIsWaiting ==
  /\ pending \subseteq {c \in Calls : pc[c] \in Sent}
  /\ closer.at # "done" => pending = {c \in Calls : pc[c] \in Sent}

\* Until close() runs one connection is read at a time, however many calls found
\* none at once; a dial that close() overtook may add one.
OneReader == ~isClosed => Cardinality({n \in Conns : reader[n] = "running"}) <= 1

\* The connection in use is one that is being read: when a connection ends, the
\* next call dials, unless it is called before the reader has noticed.
ConnectionIsRead == connection # NoConn => reader[connection] = "running"

\* A call told "ERPC WebSocket connection closed" was on a connection that is
\* over, until close() runs: no other connection's reader can fail it.
CutMeansOver ==
  \A c \in Calls : (fut[c] = "cut" /\ ~isClosed) => sock[via[c]] \in {"clean", "broken"}

\* A listener belongs to a subscribe under way or to an open subscription, however
\* the subscribe ended; but that of a cancelled task stays until close().
ListenersAreLive ==
  closer.at # "done" =>
    listeners = {s \in Subscribes : \/ pc[s] \in InFlight \cup {"cancelled"}
                                    \/ pc[s] = "answered" /\ s \notin ended}

\* The positions of the subscription's own notifications in its queue.
Own(s) == {i \in DOMAIN queue[s] : queue[s][i].of = s}

\* A subscription's own notifications reach its queue in order and without a gap,
\* once the first did; another's only once its id may be given out again: after the
\* end of its own connection, or after the peer served its unsubscribe (or in
\* close(), which a dial may overtake: two connections are then read).
StreamsAreFaithful ==
  \A s \in Subscribes :
    /\ \A i, j \in Own(s) :
         i < j /\ (\A l \in Own(s) : l <= i \/ j <= l) => queue[s][j].seq = queue[s][i].seq + 1
    /\ Own(s) # DOMAIN queue[s] =>
         \/ isClosed
         \/ sid[s] \in Sids /\ (reader[via[s]] = "ended" \/ granted[via[s]][sid[s]] # s)
===============================================================================
