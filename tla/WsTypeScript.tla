----------------------------- MODULE WsTypeScript -----------------------------
(***************************************************************************)
(* The TypeScript WebSocket transport, src/transport/websocket.ts, with    *)
(* the calls of src/subscriptions.ts on top of it.                         *)
(*                                                                         *)
(* The program is one event loop.  A task (an event of a socket, a timer,  *)
(* a user's call) runs to its end, then the continuations of the promises  *)
(* it settled run, then the next task.  So what interleaves here is not    *)
(* the sections of a lock, as in WsGo, but the order of events: the close  *)
(* event of a socket comes long after socket.close(), and code that        *)
(* awaited a connection runs when the transport may have moved on.  Every  *)
(* action is one task or one continuation.                                 *)
(*                                                                         *)
(* Notifications themselves, batches and messages that arrive as a Blob    *)
(* are not here.  Ids are unique below 2^53, so a call stands for its id.  *)
(***************************************************************************)
EXTENDS Naturals, FiniteSets

CONSTANTS Raws,         \* calls of request
          Subscribes,   \* calls of subscribe
          Unsubscribes, \* calls of RpcSubscription.unsubscribe
          Conns,        \* sockets: bounds the attempts to connect
          MaxCloses,    \* bound on the calls of close()
          NoConn, NoCall

Calls == Raws \cup Subscribes \cup Unsubscribes

ASSUME KindsDisjoint ==
  /\ Raws \cap Subscribes = {}
  /\ Raws \cap Unsubscribes = {}
  /\ Subscribes \cap Unsubscribes = {}
ASSUME BoundsAreNatural == MaxCloses \in Nat
ASSUME NullsAreOutside == NoConn \notin Conns /\ NoCall \notin Calls

VARIABLES
  socket,    \* #socket
  promise,   \* #connectPromise, named by the socket of its attempt
  attempt,   \* that promise: none, pending (its timer armed), fulfilled, rejected
  sock,      \* WebSocket.readyState, with "failed" between error and close events
  pc,        \* where each call is, or how its promise settled
  at,        \* the attempt a call awaits
  via,       \* the socket its request went to
  pending,   \* #pending
  target,    \* the subscription an unsubscribe works on
  listeners, \* #listeners, each named by its subscribe
  closed,    \* subscriptions whose #closed is set
  inbox,     \* external: requests a peer has and has not answered
  wire,      \* external: responses on their way
  served,    \* history: calls answered by a peer
  closes     \* calls of close() so far

connection == <<socket, promise, attempt, sock>>
calls == <<pc, at, via, pending, target>>
subs == <<listeners, closed>>
peer == <<inbox, wire, served>>
vars == <<connection, calls, subs, peer, closes>>

InFlight == {"awaiting", "waiting"}
Ended == {"answered", "refused", "failed", "unsent", "closed", "expired", "aborted"}

TypeOK ==
  /\ socket \in Conns \cup {NoConn}
  /\ promise \in Conns \cup {NoConn}
  /\ attempt \in [Conns -> {"none", "pending", "fulfilled", "rejected"}]
  /\ sock \in [Conns -> {"unused", "connecting", "open", "closing", "failed", "closed"}]
  /\ pc \in [Calls -> {"idle"} \cup InFlight \cup Ended]
  /\ at \in [Calls -> Conns \cup {NoConn}]
  /\ via \in [Calls -> Conns \cup {NoConn}]
  /\ pending \subseteq Calls
  /\ target \in [Unsubscribes -> Subscribes \cup {NoCall}]
  /\ listeners \subseteq Subscribes
  /\ closed \subseteq Subscribes
  /\ inbox \in [Conns -> SUBSET Calls]
  /\ wire \in [Conns -> SUBSET [of : Calls, ok : BOOLEAN]]
  /\ served \subseteq Calls
  /\ closes \in 0..MaxCloses

Init ==
  /\ socket = NoConn
  /\ promise = NoConn
  /\ attempt = [n \in Conns |-> "none"]
  /\ sock = [n \in Conns |-> "unused"]
  /\ pc = [c \in Calls |-> "idle"]
  /\ at = [c \in Calls |-> NoConn]
  /\ via = [c \in Calls |-> NoConn]
  /\ pending = {}
  /\ target = [c \in Unsubscribes |-> NoCall]
  /\ listeners = {}
  /\ closed = {}
  /\ inbox = [n \in Conns |-> {}]
  /\ wire = [n \in Conns |-> {}]
  /\ served = {}
  /\ closes = 0
-------------------------------------------------------------------------------
(* A continuation is due when the attempt a call awaits has settled; the   *)
(* loop starts no other task before it has run.  The error and the close   *)
(* event of a failed socket are one task, though continuations may run     *)
(* between the two.                                                        *)
Due(c) == pc[c] = "awaiting" /\ attempt[at[c]] # "pending"

NextTask ==
  /\ \A c \in Calls : ~Due(c)
  /\ \A n \in Conns : sock[n] # "failed"

\* Mutant: a failed subscribe forgets removeListener().
ListenersAfterKept(c, result) ==
  IF c \in Unsubscribes /\ result = "answered" THEN listeners \ {target[c]}
  ELSE listeners

\* What the code that awaited a request does with the listeners.
ListenersAfter(c, result) ==
  IF c \in Unsubscribes /\ result = "answered" THEN listeners \ {target[c]}
  ELSE IF result = "answered" THEN listeners
  ELSE listeners \ {c}

\* Mutant: #pending.delete(id) is forgotten.
RemainingKept(c) == pending

Remaining(c) == pending \ {c}

\* The promise of one request settles, and its continuation runs.
Settle(c, result) ==
  /\ pc' = [pc EXCEPT ![c] = result]
  /\ pending' = Remaining(c)
  /\ listeners' = ListenersAfter(c, result)
  /\ closed' = IF c \in Unsubscribes /\ result = "answered"
                 THEN closed \cup {target[c]} ELSE closed

\* Mutant: whatever the call, onNotification is called.
ListenersAtBeginAlways(c) == listeners \cup {c}

ListenersAtBegin(c) == IF c \in Subscribes THEN listeners \cup {c} ELSE listeners

\* The call up to its first await.  Unsubscribing a closed subscription returns
\* true at once and changes nothing.
Begin(c) ==
  /\ pc[c] = "idle"
  /\ IF c \in Unsubscribes
       THEN \E s \in Subscribes : /\ pc[s] = "answered" /\ s \notin closed
                                  /\ target' = [target EXCEPT ![c] = s]
       ELSE UNCHANGED target
  /\ pc' = [pc EXCEPT ![c] = "awaiting"]
  /\ listeners' = ListenersAtBegin(c)
  /\ UNCHANGED <<via, pending, closed, peer, closes>>

SocketIs(state) == socket # NoConn /\ sock[socket] = state
Reusable == SocketIs("open")

\* connect(): an open socket, or the attempt under way, is shared.
BeginShared(c) ==
  /\ Begin(c)
  /\ \/ Reusable /\ at' = [at EXCEPT ![c] = socket]
     \/ ~Reusable /\ promise # NoConn /\ at' = [at EXCEPT ![c] = promise]
  /\ UNCHANGED connection

BeginConnect(c, n) ==
  /\ Begin(c)
  /\ ~Reusable /\ promise = NoConn /\ sock[n] = "unused"
  /\ socket' = n
  /\ promise' = n
  /\ sock' = [sock EXCEPT ![n] = "connecting"]
  /\ attempt' = [attempt EXCEPT ![n] = "pending"]
  /\ at' = [at EXCEPT ![c] = n]

\* The WebSocket constructor throws, and connect() rejects.
BeginFail(c) ==
  /\ pc[c] = "idle" /\ c \notin Unsubscribes
  /\ ~Reusable /\ promise = NoConn
  /\ pc' = [pc EXCEPT ![c] = "failed"]
  /\ UNCHANGED <<connection, at, via, pending, target, subs, peer, closes>>

\* request after its await: the request goes to whatever #socket is by now.
\* No socket, or one that is closing, drops it silently.
Proceed(c) ==
  /\ Due(c) /\ attempt[at[c]] = "fulfilled"
  /\ ~SocketIs("connecting")
  /\ pc' = [pc EXCEPT ![c] = "waiting"]
  /\ pending' = pending \cup {c}
  /\ via' = [via EXCEPT ![c] = socket]
  /\ inbox' = IF Reusable THEN [inbox EXCEPT ![socket] = @ \cup {c}] ELSE inbox
  /\ UNCHANGED <<connection, at, target, subs, wire, served, closes>>

\* send() throws on a socket that is still connecting.
ProceedThrow(c) ==
  /\ Due(c) /\ attempt[at[c]] = "fulfilled"
  /\ SocketIs("connecting")
  /\ Settle(c, "unsent")
  /\ UNCHANGED <<connection, at, via, target, peer, closes>>

ProceedFailed(c) ==
  /\ Due(c) /\ attempt[at[c]] = "rejected"
  /\ Settle(c, "failed")
  /\ UNCHANGED <<connection, at, via, target, peer, closes>>

\* Mutant: the wait has no timer.
ExpireNever(c) == FALSE

Expire(c) ==
  /\ pc[c] = "waiting" /\ NextTask
  /\ Settle(c, "expired")
  /\ UNCHANGED <<connection, at, via, target, peer, closes>>

\* Only request takes an AbortSignal.  A signal aborted before the call still
\* lets the request be sent: that is Proceed and this.
Abort(c) ==
  /\ c \in Raws /\ pc[c] = "waiting"
  /\ Settle(c, "aborted")
  /\ UNCHANGED <<connection, at, via, target, peer, closes>>

\* Mutant: close() keeps #connectPromise.
PromiseAfterCloseKept == promise

PromiseAfterClose == NoConn

\* close(): the socket starts to close; its close event comes later.
Close ==
  /\ closes < MaxCloses /\ socket # NoConn
  /\ closes' = closes + 1
  /\ sock' = [sock EXCEPT ![socket] =
                IF @ \in {"connecting", "open"} THEN "closing" ELSE @]
  /\ socket' = NoConn
  /\ promise' = PromiseAfterClose
  /\ UNCHANGED <<attempt, calls, subs, peer>>
-------------------------------------------------------------------------------
(* Tasks: the events of socket n and its timer.  None of them asks whether *)
(* n is still #socket.                                                     *)

OpenEvent(n) ==
  /\ NextTask /\ sock[n] = "connecting"
  /\ sock' = [sock EXCEPT ![n] = "open"]
  /\ attempt' = [attempt EXCEPT ![n] = "fulfilled"]
  /\ UNCHANGED <<socket, promise, calls, subs, peer, closes>>

\* The promise of attempt n rejects, and its catch forgets #connectPromise,
\* even when that is a later attempt by now.
Reject(n) ==
  /\ attempt[n] = "pending"
  /\ attempt' = [attempt EXCEPT ![n] = "rejected"]
  /\ promise' = NoConn

\* An attempt fails, or was closed before it opened: error, then close events.
ErrorEvent(n) ==
  /\ NextTask /\ sock[n] \in {"connecting", "closing"}
  /\ Reject(n)
  /\ sock' = [sock EXCEPT ![n] = "failed"]
  /\ UNCHANGED <<socket, calls, subs, peer, closes>>

ConnectTimeout(n) ==
  /\ NextTask
  /\ Reject(n)
  /\ sock' = [sock EXCEPT ![n] = "closing"]
  /\ UNCHANGED <<socket, calls, subs, peer, closes>>

CloseEvent(n) ==
  /\ sock[n] = "failed" \/ (NextTask /\ sock[n] \in {"open", "closing"})
  /\ attempt[n] # "pending"
  /\ sock' = [sock EXCEPT ![n] = "closed"]
  /\ socket' = NoConn
  /\ promise' = NoConn
  /\ pc' = [c \in Calls |-> IF c \in pending THEN "closed" ELSE pc[c]]
  /\ listeners' = listeners \ pending
  /\ pending' = {}
  /\ UNCHANGED <<attempt, at, via, target, closed, peer, closes>>

\* #onMessage and #dispatch of a response.  A browser drops what arrives once
\* close() was called, other implementations of WebSocket deliver it.
Message(n, m) ==
  /\ NextTask /\ sock[n] \in {"open", "closing"} /\ m \in wire[n]
  /\ wire' = [wire EXCEPT ![n] = @ \ {m}]
  /\ IF m.of \in pending
       THEN Settle(m.of, IF m.ok THEN "answered" ELSE "refused")
       ELSE UNCHANGED <<pc, pending, listeners, closed>>
  /\ UNCHANGED <<connection, at, via, target, inbox, served, closes>>
-------------------------------------------------------------------------------
(* External: the peers.                                                    *)
Serve(n, c) ==
  /\ sock[n] \in {"open", "closing"} /\ c \in inbox[n]
  /\ inbox' = [inbox EXCEPT ![n] = @ \ {c}]
  /\ served' = served \cup {c}
  /\ \E ok \in BOOLEAN : wire' = [wire EXCEPT ![n] = @ \cup {[of |-> c, ok |-> ok]}]
  /\ UNCHANGED <<connection, calls, subs, closes>>

\* The peer starts the closing handshake.
Leave(n) ==
  /\ sock[n] = "open"
  /\ sock' = [sock EXCEPT ![n] = "closing"]
  /\ UNCHANGED <<socket, promise, attempt, calls, subs, peer, closes>>

Continue(c) == Proceed(c) \/ ProceedThrow(c) \/ ProceedFailed(c)

Next ==
  \/ \E c \in Calls :
       \/ BeginShared(c) \/ BeginFail(c) \/ Continue(c) \/ Expire(c) \/ Abort(c)
       \/ \E n \in Conns : BeginConnect(c, n) \/ Serve(n, c)
  \/ Close
  \/ \E n \in Conns :
       \/ OpenEvent(n) \/ ErrorEvent(n) \/ ConnectTimeout(n) \/ CloseEvent(n)
       \/ Leave(n) \/ \E m \in wire[n] : Message(n, m)

Spec == Init /\ [][Next]_vars

\* The event loop runs every continuation that is due, every timer that has run
\* out, and a task it has started to its end.  Nothing is assumed of the peers.
LiveSpec ==
  /\ Spec
  /\ \A c \in Calls : WF_vars(Continue(c)) /\ WF_vars(Expire(c))
  /\ \A n \in Conns : /\ WF_vars(ConnectTimeout(n))
                      /\ WF_vars(sock[n] = "failed" /\ CloseEvent(n))
-------------------------------------------------------------------------------
\* #pending holds exactly the requests that wait: none stays behind when its
\* caller is gone, and none waits without an entry an answer or a close event
\* would find.
PendingIsWaiting == pending = {c \in Calls : pc[c] = "waiting"}

\* The #connectPromise a caller may share is that of #socket, whatever the order
\* of close() and the events of older sockets: no caller awaits one socket and
\* sends on another while neither has changed.
PromiseIsOfSocket == promise # NoConn => promise = socket

\* A listener is registered while its subscribe is under way or its subscription
\* is open, however the subscribe ended.
ListenersAreLive ==
  listeners = {s \in Subscribes : pc[s] \in InFlight \/
                                  (pc[s] = "answered" /\ s \notin closed)}

\* A call told "ERPC WebSocket connection closed" whose request went out on some
\* connection finds that connection closed.
ClosedMeansClosed ==
  \A c \in Calls : pc[c] = "closed" => via[c] = NoConn \/ sock[via[c]] = "closed"

(* The contract of RpcSession, without isolation between connections.      *)
Life == [n \in Conns |-> CASE sock[n] = "unused" -> "new"
                            [] sock[n] = "closed" -> "down"
                            [] OTHER              -> "up"]

CallStatus ==
  [c \in Calls |-> CASE pc[c] \in {"idle", "awaiting"}      -> "idle"
                     [] pc[c] = "waiting"                   -> "open"
                     [] pc[c] \in {"answered", "refused"}   -> "answered"
                     [] pc[c] \in {"failed", "unsent"}      -> "unsent"
                     [] pc[c] \in {"expired", "aborted"}    -> "expired"
                     [] OTHER                               -> "closed"]

Session == INSTANCE RpcSession
  WITH status <- CallStatus, life <- Life, link <- via

\* Every call ends once, with an answer only if a peer gave it one.
ImplementsSharedSession == Session!SharedSpec

\* Every call settles, even one whose request was sent on no socket at all.
CallsSettle == \A c \in Calls : pc[c] \in InFlight ~> pc[c] \in Ended
===============================================================================
