------------------------- MODULE WsTypeScript_proofs -------------------------
(***************************************************************************)
(* Proofs about the TypeScript transport, for every number of calls,       *)
(* sockets and calls of close(): its invariants, and that it implements    *)
(* the contract of RpcSession without isolation between connections.       *)
(***************************************************************************)
EXTENDS WsTypeScript, TLAPS

\* A connect promise is pending while its socket may still open, and a socket
\* that is in use or was tried is not an unused one.
Attempts ==
  /\ \A n \in Conns : attempt[n] = "pending" => sock[n] \in {"connecting", "closing"}
  /\ \A n \in Conns : sock[n] = "unused" => attempt[n] = "none"
  /\ socket # NoConn => sock[socket] # "unused"

\* A request is on its way to one peer at most, and is answered once.
Requests ==
  /\ \A c \in Calls : pc[c] \in {"idle", "awaiting"} => via[c] = NoConn /\ c \notin served
  /\ \A n \in Conns : \A c \in inbox[n] : via[c] = n /\ c \notin served
  /\ \A n \in Conns : \A m \in wire[n] : m.of \in served

\* An unsubscribe works on a subscription, and only a subscription is closed.
Targets ==
  /\ \A c \in Unsubscribes : pc[c] # "idle" =>
       target[c] \in Subscribes /\ pc[target[c]] = "answered"
  /\ \A s \in closed : s \in Subscribes /\ pc[s] = "answered"

IInv ==
  /\ TypeOK /\ Attempts /\ Requests /\ Targets
  /\ PendingIsWaiting /\ PromiseIsOfSocket /\ ListenersAreLive

USE DEF connection, calls, subs, peer, vars, Calls, InFlight, Ended
-------------------------------------------------------------------------------

\* Every action keeps the types; only a subscription can be closed.
LEMMA TypeStep ==
  ASSUME TypeOK, Targets, PendingIsWaiting, Next
  PROVE  TypeOK'
<1> USE DEF TypeOK, Targets, PendingIsWaiting
<1>1. ASSUME NEW c \in Calls, BeginShared(c)
      PROVE  TypeOK'
  BY <1>1 DEF BeginShared, Begin, ListenersAtBegin, Reusable, SocketIs
<1>2. ASSUME NEW c \in Calls, NEW n \in Conns, BeginConnect(c, n)
      PROVE  TypeOK'
  BY <1>2 DEF BeginConnect, Begin, ListenersAtBegin, Reusable, SocketIs
<1>3. ASSUME NEW c \in Calls, BeginFail(c)
      PROVE  TypeOK'
  BY <1>3 DEF BeginFail, Reusable, SocketIs
<1>4. ASSUME NEW c \in Calls, Proceed(c)
      PROVE  TypeOK'
  BY <1>4 DEF Proceed, Due, Reusable, SocketIs
<1>5. ASSUME NEW c \in Calls, ProceedThrow(c)
      PROVE  TypeOK'
  BY <1>5 DEF ProceedThrow, Due, Settle, Remaining, ListenersAfter
<1>6. ASSUME NEW c \in Calls, ProceedFailed(c)
      PROVE  TypeOK'
  BY <1>6 DEF ProceedFailed, Due, Settle, Remaining, ListenersAfter
<1>7. ASSUME NEW c \in Calls, Expire(c)
      PROVE  TypeOK'
  BY <1>7 DEF Expire, Settle, Remaining, ListenersAfter
<1>8. ASSUME NEW c \in Calls, Abort(c)
      PROVE  TypeOK'
  BY <1>8 DEF Abort, Settle, Remaining, ListenersAfter
<1>9. ASSUME Close
      PROVE  TypeOK'
  <2> USE <1>9 DEF Close, PromiseAfterClose
  <2>1. closes' \in 0..MaxCloses
    BY BoundsAreNatural
  <2>2. sock' \in [Conns -> {"unused", "connecting", "open", "closing", "failed", "closed"}]
    OBVIOUS
  <2> QED
    BY <2>1, <2>2
<1>10. ASSUME NEW n \in Conns, OpenEvent(n)
       PROVE  TypeOK'
  BY <1>10 DEF OpenEvent
<1>11. ASSUME NEW n \in Conns, ErrorEvent(n)
       PROVE  TypeOK'
  BY <1>11 DEF ErrorEvent, Reject
<1>12. ASSUME NEW n \in Conns, ConnectTimeout(n)
       PROVE  TypeOK'
  BY <1>12 DEF ConnectTimeout, Reject
<1>13. ASSUME NEW n \in Conns, CloseEvent(n)
       PROVE  TypeOK'
  BY <1>13 DEF CloseEvent
<1>14. ASSUME NEW n \in Conns, NEW m \in wire[n], Message(n, m)
       PROVE  TypeOK'
  <2>1. m.of \in Calls /\ wire' \in [Conns -> SUBSET [of : Calls, ok : BOOLEAN]]
    BY <1>14 DEF Message
  <2>2. CASE m.of \in pending
    <3>1. Settle(m.of, IF m.ok THEN "answered" ELSE "refused")
      BY <1>14, <2>2 DEF Message
    <3>2. /\ pc' \in [Calls -> {"idle"} \cup InFlight \cup Ended]
          /\ pending' \subseteq Calls /\ listeners' \subseteq Subscribes
          /\ closed' \subseteq Subscribes
      BY <2>1, <2>2, <3>1 DEF Settle, Remaining, ListenersAfter
    <3> QED
      BY <1>14, <2>1, <3>2 DEF Message
  <2>3. CASE m.of \notin pending
    BY <1>14, <2>1, <2>3 DEF Message
  <2> QED
    BY <2>2, <2>3
<1>15. ASSUME NEW n \in Conns, NEW c \in Calls, Serve(n, c)
       PROVE  TypeOK'
  BY <1>15 DEF Serve
<1>16. ASSUME NEW n \in Conns, Leave(n)
       PROVE  TypeOK'
  BY <1>16 DEF Leave
<1> QED
  BY <1>1, <1>2, <1>3, <1>4, <1>5, <1>6, <1>7, <1>8, <1>9, <1>10, <1>11,
     <1>12, <1>13, <1>14, <1>15, <1>16 DEF Next, Continue

\* An attempt ends no later than its socket.
LEMMA AttemptsStep ==
  ASSUME TypeOK, Attempts, Next
  PROVE  Attempts'
<1> USE DEF TypeOK, Attempts
<1>1. ASSUME NEW c \in Calls, BeginShared(c)
      PROVE  Attempts'
  BY <1>1 DEF BeginShared, Begin, ListenersAtBegin, Reusable, SocketIs
<1>2. ASSUME NEW c \in Calls, NEW n \in Conns, BeginConnect(c, n)
      PROVE  Attempts'
  BY <1>2 DEF BeginConnect, Begin, ListenersAtBegin, Reusable, SocketIs
<1>3. ASSUME NEW c \in Calls, BeginFail(c)
      PROVE  Attempts'
  BY <1>3 DEF BeginFail, Reusable, SocketIs
<1>4. ASSUME NEW c \in Calls, Proceed(c)
      PROVE  Attempts'
  BY <1>4 DEF Proceed, Due, Reusable, SocketIs
<1>5. ASSUME NEW c \in Calls, ProceedThrow(c)
      PROVE  Attempts'
  BY <1>5 DEF ProceedThrow, Due, Settle, Remaining, ListenersAfter
<1>6. ASSUME NEW c \in Calls, ProceedFailed(c)
      PROVE  Attempts'
  BY <1>6 DEF ProceedFailed, Due, Settle, Remaining, ListenersAfter
<1>7. ASSUME NEW c \in Calls, Expire(c)
      PROVE  Attempts'
  BY <1>7 DEF Expire, Settle, Remaining, ListenersAfter
<1>8. ASSUME NEW c \in Calls, Abort(c)
      PROVE  Attempts'
  BY <1>8 DEF Abort, Settle, Remaining, ListenersAfter
<1>9. ASSUME Close
      PROVE  Attempts'
  BY <1>9 DEF Close, PromiseAfterClose
<1>10. ASSUME NEW n \in Conns, OpenEvent(n)
       PROVE  Attempts'
  BY <1>10 DEF OpenEvent
<1>11. ASSUME NEW n \in Conns, ErrorEvent(n)
       PROVE  Attempts'
  BY <1>11 DEF ErrorEvent, Reject
<1>12. ASSUME NEW n \in Conns, ConnectTimeout(n)
       PROVE  Attempts'
  BY <1>12 DEF ConnectTimeout, Reject
<1>13. ASSUME NEW n \in Conns, CloseEvent(n)
       PROVE  Attempts'
  BY <1>13 DEF CloseEvent
<1>14. ASSUME NEW n \in Conns, NEW m \in wire[n], Message(n, m)
       PROVE  Attempts'
  BY <1>14 DEF Message, Settle, Remaining, ListenersAfter
<1>15. ASSUME NEW n \in Conns, NEW c \in Calls, Serve(n, c)
       PROVE  Attempts'
  BY <1>15 DEF Serve
<1>16. ASSUME NEW n \in Conns, Leave(n)
       PROVE  Attempts'
  BY <1>16 DEF Leave
<1> QED
  BY <1>1, <1>2, <1>3, <1>4, <1>5, <1>6, <1>7, <1>8, <1>9, <1>10, <1>11,
     <1>12, <1>13, <1>14, <1>15, <1>16 DEF Next, Continue

\* A request goes out once, to one peer, which answers it once.
LEMMA RequestsStep ==
  ASSUME TypeOK, Attempts, Requests, Next
  PROVE  Requests'
<1> USE DEF TypeOK, Requests
<1>1. ASSUME NEW c \in Calls, BeginShared(c)
      PROVE  Requests'
  BY <1>1 DEF BeginShared, Begin, ListenersAtBegin, Reusable, SocketIs
<1>2. ASSUME NEW c \in Calls, NEW n \in Conns, BeginConnect(c, n)
      PROVE  Requests'
  BY <1>2 DEF BeginConnect, Begin, ListenersAtBegin, Reusable, SocketIs
<1>3. ASSUME NEW c \in Calls, BeginFail(c)
      PROVE  Requests'
  BY <1>3 DEF BeginFail, Reusable, SocketIs
<1>4. ASSUME NEW c \in Calls, Proceed(c)
      PROVE  Requests'
  <2> USE <1>4, NullsAreOutside DEF Proceed, Due, Reusable, SocketIs
  <2>1. /\ via[c] = NoConn /\ c \notin served /\ pc[c] = "awaiting"
        /\ pc' = [pc EXCEPT ![c] = "waiting"] /\ via' = [via EXCEPT ![c] = socket]
        /\ UNCHANGED <<wire, served>>
    OBVIOUS
  <2>2. \A n \in Conns : c \notin inbox[n]
    BY <2>1
  <2>3. \A n \in Conns : \A d \in inbox'[n] : d \in inbox[n] \/ (d = c /\ n = socket)
    OBVIOUS
  <2>4. \A n \in Conns : \A d \in inbox'[n] : via'[d] = n /\ d \notin served'
    BY <2>1, <2>2, <2>3
  <2> QED
    BY <2>1, <2>4
<1>5. ASSUME NEW c \in Calls, ProceedThrow(c)
      PROVE  Requests'
  BY <1>5 DEF ProceedThrow, Due, Settle, Remaining, ListenersAfter
<1>6. ASSUME NEW c \in Calls, ProceedFailed(c)
      PROVE  Requests'
  BY <1>6 DEF ProceedFailed, Due, Settle, Remaining, ListenersAfter
<1>7. ASSUME NEW c \in Calls, Expire(c)
      PROVE  Requests'
  BY <1>7 DEF Expire, Settle, Remaining, ListenersAfter
<1>8. ASSUME NEW c \in Calls, Abort(c)
      PROVE  Requests'
  BY <1>8 DEF Abort, Settle, Remaining, ListenersAfter
<1>9. ASSUME Close
      PROVE  Requests'
  BY <1>9 DEF Close, PromiseAfterClose
<1>10. ASSUME NEW n \in Conns, OpenEvent(n)
       PROVE  Requests'
  BY <1>10 DEF OpenEvent
<1>11. ASSUME NEW n \in Conns, ErrorEvent(n)
       PROVE  Requests'
  BY <1>11 DEF ErrorEvent, Reject
<1>12. ASSUME NEW n \in Conns, ConnectTimeout(n)
       PROVE  Requests'
  BY <1>12 DEF ConnectTimeout, Reject
<1>13. ASSUME NEW n \in Conns, CloseEvent(n)
       PROVE  Requests'
  BY <1>13 DEF CloseEvent
<1>14. ASSUME NEW n \in Conns, NEW m \in wire[n], Message(n, m)
       PROVE  Requests'
  BY <1>14 DEF Message, Settle, Remaining, ListenersAfter
<1>15. ASSUME NEW n \in Conns, NEW c \in Calls, Serve(n, c)
       PROVE  Requests'
  <2>1. /\ c \in inbox[n] /\ via[c] = n /\ c \notin served
        /\ inbox' = [inbox EXCEPT ![n] = @ \ {c}] /\ served' = served \cup {c}
        /\ UNCHANGED <<pc, via>>
    BY <1>15 DEF Serve
  <2>2. \A k \in Conns : \A m \in wire'[k] : m \in wire[k] \/ m.of = c
    <3>1. PICK ok \in BOOLEAN : wire' = [wire EXCEPT ![n] = @ \cup {[of |-> c, ok |-> ok]}]
      BY <1>15 DEF Serve
    <3> QED
      BY <3>1
  <2>3. \A k \in Conns : \A m \in wire'[k] : m.of \in served'
    BY <2>1, <2>2
  <2>4. pc[c] \notin {"idle", "awaiting"}
    BY <2>1, NullsAreOutside
  <2>5. \A k \in Conns : \A d \in inbox'[k] : via'[d] = k /\ d \notin served'
    BY <2>1
  <2> QED
    BY <2>1, <2>3, <2>4, <2>5
<1>16. ASSUME NEW n \in Conns, Leave(n)
       PROVE  Requests'
  BY <1>16 DEF Leave
<1> QED
  BY <1>1, <1>2, <1>3, <1>4, <1>5, <1>6, <1>7, <1>8, <1>9, <1>10, <1>11,
     <1>12, <1>13, <1>14, <1>15, <1>16 DEF Next, Continue

\* A call that is answered stays so.
LEMMA TargetsStep ==
  ASSUME TypeOK, Targets, PendingIsWaiting, Next
  PROVE  Targets'
<1> USE DEF TypeOK, Targets, PendingIsWaiting
<1>1. ASSUME NEW c \in Calls, BeginShared(c)
      PROVE  Targets'
  BY <1>1 DEF BeginShared, Begin, ListenersAtBegin, Reusable, SocketIs
<1>2. ASSUME NEW c \in Calls, NEW n \in Conns, BeginConnect(c, n)
      PROVE  Targets'
  BY <1>2 DEF BeginConnect, Begin, ListenersAtBegin, Reusable, SocketIs
<1>3. ASSUME NEW c \in Calls, BeginFail(c)
      PROVE  Targets'
  BY <1>3 DEF BeginFail, Reusable, SocketIs
<1>4. ASSUME NEW c \in Calls, Proceed(c)
      PROVE  Targets'
  BY <1>4 DEF Proceed, Due, Reusable, SocketIs
<1>5. ASSUME NEW c \in Calls, ProceedThrow(c)
      PROVE  Targets'
  BY <1>5 DEF ProceedThrow, Due, Settle, Remaining, ListenersAfter
<1>6. ASSUME NEW c \in Calls, ProceedFailed(c)
      PROVE  Targets'
  BY <1>6 DEF ProceedFailed, Due, Settle, Remaining, ListenersAfter
<1>7. ASSUME NEW c \in Calls, Expire(c)
      PROVE  Targets'
  BY <1>7 DEF Expire, Settle, Remaining, ListenersAfter
<1>8. ASSUME NEW c \in Calls, Abort(c)
      PROVE  Targets'
  BY <1>8 DEF Abort, Settle, Remaining, ListenersAfter
<1>9. ASSUME Close
      PROVE  Targets'
  BY <1>9 DEF Close, PromiseAfterClose
<1>10. ASSUME NEW n \in Conns, OpenEvent(n)
       PROVE  Targets'
  BY <1>10 DEF OpenEvent
<1>11. ASSUME NEW n \in Conns, ErrorEvent(n)
       PROVE  Targets'
  BY <1>11 DEF ErrorEvent, Reject
<1>12. ASSUME NEW n \in Conns, ConnectTimeout(n)
       PROVE  Targets'
  BY <1>12 DEF ConnectTimeout, Reject
<1>13. ASSUME NEW n \in Conns, CloseEvent(n)
       PROVE  Targets'
  BY <1>13 DEF CloseEvent
<1>14. ASSUME NEW n \in Conns, NEW m \in wire[n], Message(n, m)
       PROVE  Targets'
  BY <1>14 DEF Message, Settle, Remaining, ListenersAfter
<1>15. ASSUME NEW n \in Conns, NEW c \in Calls, Serve(n, c)
       PROVE  Targets'
  BY <1>15 DEF Serve
<1>16. ASSUME NEW n \in Conns, Leave(n)
       PROVE  Targets'
  BY <1>16 DEF Leave
<1> QED
  BY <1>1, <1>2, <1>3, <1>4, <1>5, <1>6, <1>7, <1>8, <1>9, <1>10, <1>11,
     <1>12, <1>13, <1>14, <1>15, <1>16 DEF Next, Continue

\* Every way a call ends takes it out of #pending.
LEMMA PendingStep ==
  ASSUME TypeOK, PendingIsWaiting, Next
  PROVE  PendingIsWaiting'
<1> USE DEF TypeOK, PendingIsWaiting
<1>1. ASSUME NEW c \in Calls, BeginShared(c)
      PROVE  PendingIsWaiting'
  BY <1>1 DEF BeginShared, Begin, ListenersAtBegin, Reusable, SocketIs
<1>2. ASSUME NEW c \in Calls, NEW n \in Conns, BeginConnect(c, n)
      PROVE  PendingIsWaiting'
  BY <1>2 DEF BeginConnect, Begin, ListenersAtBegin, Reusable, SocketIs
<1>3. ASSUME NEW c \in Calls, BeginFail(c)
      PROVE  PendingIsWaiting'
  BY <1>3 DEF BeginFail, Reusable, SocketIs
<1>4. ASSUME NEW c \in Calls, Proceed(c)
      PROVE  PendingIsWaiting'
  BY <1>4 DEF Proceed, Due, Reusable, SocketIs
<1>5. ASSUME NEW c \in Calls, ProceedThrow(c)
      PROVE  PendingIsWaiting'
  BY <1>5 DEF ProceedThrow, Due, Settle, Remaining, ListenersAfter
<1>6. ASSUME NEW c \in Calls, ProceedFailed(c)
      PROVE  PendingIsWaiting'
  BY <1>6 DEF ProceedFailed, Due, Settle, Remaining, ListenersAfter
<1>7. ASSUME NEW c \in Calls, Expire(c)
      PROVE  PendingIsWaiting'
  BY <1>7 DEF Expire, Settle, Remaining, ListenersAfter
<1>8. ASSUME NEW c \in Calls, Abort(c)
      PROVE  PendingIsWaiting'
  BY <1>8 DEF Abort, Settle, Remaining, ListenersAfter
<1>9. ASSUME Close
      PROVE  PendingIsWaiting'
  BY <1>9 DEF Close, PromiseAfterClose
<1>10. ASSUME NEW n \in Conns, OpenEvent(n)
       PROVE  PendingIsWaiting'
  BY <1>10 DEF OpenEvent
<1>11. ASSUME NEW n \in Conns, ErrorEvent(n)
       PROVE  PendingIsWaiting'
  BY <1>11 DEF ErrorEvent, Reject
<1>12. ASSUME NEW n \in Conns, ConnectTimeout(n)
       PROVE  PendingIsWaiting'
  BY <1>12 DEF ConnectTimeout, Reject
<1>13. ASSUME NEW n \in Conns, CloseEvent(n)
       PROVE  PendingIsWaiting'
  BY <1>13 DEF CloseEvent
<1>14. ASSUME NEW n \in Conns, NEW m \in wire[n], Message(n, m)
       PROVE  PendingIsWaiting'
  BY <1>14 DEF Message, Settle, Remaining, ListenersAfter
<1>15. ASSUME NEW n \in Conns, NEW c \in Calls, Serve(n, c)
       PROVE  PendingIsWaiting'
  BY <1>15 DEF Serve
<1>16. ASSUME NEW n \in Conns, Leave(n)
       PROVE  PendingIsWaiting'
  BY <1>16 DEF Leave
<1> QED
  BY <1>1, <1>2, <1>3, <1>4, <1>5, <1>6, <1>7, <1>8, <1>9, <1>10, <1>11,
     <1>12, <1>13, <1>14, <1>15, <1>16 DEF Next, Continue

\* #connectPromise is forgotten whenever #socket changes.
LEMMA PromiseStep ==
  ASSUME TypeOK, PromiseIsOfSocket, Next
  PROVE  PromiseIsOfSocket'
<1> USE DEF TypeOK, PromiseIsOfSocket
<1>1. ASSUME NEW c \in Calls,
             \/ BeginShared(c) \/ BeginFail(c) \/ Proceed(c) \/ ProceedThrow(c)
             \/ ProceedFailed(c) \/ Expire(c) \/ Abort(c)
      PROVE  PromiseIsOfSocket'
  BY <1>1 DEF BeginShared, Begin, ListenersAtBegin, Reusable, SocketIs, BeginFail,
       Proceed, Due, ProceedThrow, Settle, Remaining, ListenersAfter, ProceedFailed,
       Expire, Abort
<1>2. ASSUME NEW c \in Calls, NEW n \in Conns, BeginConnect(c, n)
      PROVE  PromiseIsOfSocket'
  BY <1>2 DEF BeginConnect, Begin, ListenersAtBegin, Reusable, SocketIs
<1>3. ASSUME Close
      PROVE  PromiseIsOfSocket'
  BY <1>3 DEF Close, PromiseAfterClose
<1>4. ASSUME NEW n \in Conns,
             OpenEvent(n) \/ ErrorEvent(n) \/ ConnectTimeout(n) \/ Leave(n)
      PROVE  PromiseIsOfSocket'
  BY <1>4 DEF OpenEvent, ErrorEvent, Reject, ConnectTimeout, Leave
<1>5. ASSUME NEW n \in Conns, CloseEvent(n)
      PROVE  PromiseIsOfSocket'
  BY <1>5 DEF CloseEvent
<1>6. ASSUME NEW n \in Conns, NEW m \in wire[n], Message(n, m)
      PROVE  PromiseIsOfSocket'
  BY <1>6 DEF Message, Settle, Remaining, ListenersAfter
<1>7. ASSUME NEW n \in Conns, NEW c \in Calls, Serve(n, c)
      PROVE  PromiseIsOfSocket'
  BY <1>7 DEF Serve
<1> QED
  BY <1>1, <1>2, <1>3, <1>4, <1>5, <1>6, <1>7 DEF Next, Continue

\* A subscribe listens while it is under way and keeps its listener until the
\* subscription ends.
LEMMA ListenersStep ==
  ASSUME TypeOK, Targets, PendingIsWaiting, ListenersAreLive, Next
  PROVE  ListenersAreLive'
<1> USE DEF TypeOK, Targets, PendingIsWaiting, ListenersAreLive
<1>1. ASSUME NEW c \in Calls, BeginShared(c)
      PROVE  ListenersAreLive'
  BY <1>1 DEF BeginShared, Begin, ListenersAtBegin, Reusable, SocketIs
<1>2. ASSUME NEW c \in Calls, NEW n \in Conns, BeginConnect(c, n)
      PROVE  ListenersAreLive'
  BY <1>2 DEF BeginConnect, Begin, ListenersAtBegin, Reusable, SocketIs
<1>3. ASSUME NEW c \in Calls, BeginFail(c)
      PROVE  ListenersAreLive'
  BY <1>3 DEF BeginFail, Reusable, SocketIs
<1>4. ASSUME NEW c \in Calls, Proceed(c)
      PROVE  ListenersAreLive'
  BY <1>4 DEF Proceed, Due, Reusable, SocketIs
<1>5. ASSUME NEW c \in Calls, ProceedThrow(c)
      PROVE  ListenersAreLive'
  BY <1>5 DEF ProceedThrow, Due, Settle, Remaining, ListenersAfter
<1>6. ASSUME NEW c \in Calls, ProceedFailed(c)
      PROVE  ListenersAreLive'
  BY <1>6 DEF ProceedFailed, Due, Settle, Remaining, ListenersAfter
<1>7. ASSUME NEW c \in Calls, Expire(c)
      PROVE  ListenersAreLive'
  BY <1>7 DEF Expire, Settle, Remaining, ListenersAfter
<1>8. ASSUME NEW c \in Calls, Abort(c)
      PROVE  ListenersAreLive'
  BY <1>8 DEF Abort, Settle, Remaining, ListenersAfter
<1>9. ASSUME Close
      PROVE  ListenersAreLive'
  BY <1>9 DEF Close, PromiseAfterClose
<1>10. ASSUME NEW n \in Conns, OpenEvent(n)
       PROVE  ListenersAreLive'
  BY <1>10 DEF OpenEvent
<1>11. ASSUME NEW n \in Conns, ErrorEvent(n)
       PROVE  ListenersAreLive'
  BY <1>11 DEF ErrorEvent, Reject
<1>12. ASSUME NEW n \in Conns, ConnectTimeout(n)
       PROVE  ListenersAreLive'
  BY <1>12 DEF ConnectTimeout, Reject
<1>13. ASSUME NEW n \in Conns, CloseEvent(n)
       PROVE  ListenersAreLive'
  BY <1>13 DEF CloseEvent
<1>14. ASSUME NEW n \in Conns, NEW m \in wire[n], Message(n, m)
       PROVE  ListenersAreLive'
  BY <1>14 DEF Message, Settle, Remaining, ListenersAfter
<1>15. ASSUME NEW n \in Conns, NEW c \in Calls, Serve(n, c)
       PROVE  ListenersAreLive'
  BY <1>15 DEF Serve
<1>16. ASSUME NEW n \in Conns, Leave(n)
       PROVE  ListenersAreLive'
  BY <1>16 DEF Leave
<1> QED
  BY <1>1, <1>2, <1>3, <1>4, <1>5, <1>6, <1>7, <1>8, <1>9, <1>10, <1>11,
     <1>12, <1>13, <1>14, <1>15, <1>16 DEF Next, Continue

-------------------------------------------------------------------------------
\* The invariant holds before the first call.
LEMMA InitIInv == Init => IInv
<1> SUFFICES ASSUME Init PROVE IInv
  OBVIOUS
<1>1. TypeOK
  BY BoundsAreNatural DEF Init, TypeOK
<1>2. Attempts /\ Requests /\ Targets /\ PromiseIsOfSocket
  BY DEF Init, Attempts, Requests, Targets, PromiseIsOfSocket
<1>3. PendingIsWaiting /\ ListenersAreLive
  BY DEF Init, PendingIsWaiting, ListenersAreLive
<1> QED
  BY <1>1, <1>2, <1>3 DEF IInv

\* No step breaks the invariant.
LEMMA NextIInv == IInv /\ [Next]_vars => IInv'
<1> SUFFICES ASSUME IInv, [Next]_vars PROVE IInv'
  OBVIOUS
<1>1. CASE Next
  BY <1>1, TypeStep, AttemptsStep, RequestsStep, TargetsStep, PendingStep, PromiseStep,
     ListenersStep DEF IInv
<1>2. CASE UNCHANGED vars
  BY <1>2 DEF IInv, TypeOK, Attempts, Requests, Targets, PendingIsWaiting,
     PromiseIsOfSocket, ListenersAreLive
<1> QED
  BY <1>1, <1>2

\* The inductive invariant holds in every state the transport reaches.
THEOREM Invariance == Spec => []IInv
<1> QED
  BY InitIInv, NextIInv, PTL DEF Spec

\* Every variable keeps its type.
THEOREM TypeCorrect == Spec => []TypeOK
<1>1. IInv => TypeOK
  BY DEF IInv
<1> QED
  BY <1>1, Invariance, PTL

\* #pending holds the requests that wait and no other, however calls and sockets end.
THEOREM PendingIsExact == Spec => []PendingIsWaiting
<1>1. IInv => PendingIsWaiting
  BY DEF IInv
<1> QED
  BY <1>1, Invariance, PTL

\* The promise a caller may share is that of the current socket.
THEOREM PromiseIsCurrent == Spec => []PromiseIsOfSocket
<1>1. IInv => PromiseIsOfSocket
  BY DEF IInv
<1> QED
  BY <1>1, Invariance, PTL

\* #listeners keeps nothing of a subscribe that failed or a subscription that ended.
THEOREM ListenersAreExact == Spec => []ListenersAreLive
<1>1. IInv => ListenersAreLive
  BY DEF IInv
<1> QED
  BY <1>1, Invariance, PTL

-------------------------------------------------------------------------------
(* The transport implements the contract of RpcSession without isolation.  *)

\* When the code of one call runs, the contract sees at most that call change.
LEMMA StatusBecomes ==
  ASSUME TypeOK, NEW c \in Calls, NEW l \in {"idle"} \cup InFlight \cup Ended,
         pc' = [pc EXCEPT ![c] = l]
  PROVE  CallStatus' = [CallStatus EXCEPT ![c] = CallStatus'[c]]
<1>1. \A d \in Calls \ {c} : CallStatus'[d] = CallStatus[d]
  BY DEF CallStatus, TypeOK
<1> QED
  BY <1>1 DEF CallStatus

\* A connection is the same to the contract from its first event to its last.
LEMMA LifeKept ==
  ASSUME TypeOK, NEW n \in Conns, NEW s \in {"connecting", "open", "closing", "failed"},
         sock[n] \in {"connecting", "open", "closing", "failed"},
         sock' = [sock EXCEPT ![n] = s]
  PROVE  Life' = Life
<1>1. \A k \in Conns : Life'[k] = Life[k]
  BY DEF Life, TypeOK
<1> QED
  BY <1>1 DEF Life

\* Connections do not change with the calls.
LEMMA LifeUnchanged ==
  ASSUME sock' = sock
  PROVE  Life' = Life
BY DEF Life

\* Every step of the transport is a step of the contract, or none.
LEMMA StepRefines ==
  ASSUME IInv, Next
  PROVE  [Session!SharedNext]_(Session!vars)
<1> DEFINE Refined == [Session!SharedNext]_(Session!vars)
<1> USE DEF IInv
<1>1. ASSUME NEW c \in Calls, BeginShared(c) PROVE Refined
  <2>1. pc[c] = "idle" /\ pc' = [pc EXCEPT ![c] = "awaiting"]
    BY <1>1 DEF BeginShared, Begin
  <2>2. CallStatus' = CallStatus
    BY <2>1, StatusBecomes DEF CallStatus, TypeOK
  <2>3. UNCHANGED <<CallStatus, via, Life, served>>
    BY <1>1, <2>2, LifeUnchanged DEF BeginShared, Begin
  <2> QED
    BY <2>3 DEF Session!vars
<1>2. ASSUME NEW c \in Calls, NEW n \in Conns, BeginConnect(c, n) PROVE Refined
  <2>1. /\ pc[c] = "idle" /\ pc' = [pc EXCEPT ![c] = "awaiting"]
        /\ sock[n] = "unused" /\ sock' = [sock EXCEPT ![n] = "connecting"]
        /\ UNCHANGED <<via, served>>
    BY <1>2 DEF BeginConnect, Begin
  <2>2. CallStatus' = CallStatus
    BY <2>1, StatusBecomes DEF CallStatus, TypeOK
  <2>3. Life[n] = "new" /\ Life' = [Life EXCEPT ![n] = "up"]
    BY <2>1 DEF Life, TypeOK
  <2>4. Session!Connect(n)
    BY <2>1, <2>2, <2>3 DEF Session!Connect
  <2> QED
    BY <2>4 DEF Session!SharedNext, Session!Next
<1>3. ASSUME NEW c \in Calls, BeginFail(c) \/ ProceedThrow(c) \/ ProceedFailed(c)
      PROVE  Refined
  <2>1. /\ CallStatus[c] = "idle"
        /\ \E l \in {"failed", "unsent"} : pc' = [pc EXCEPT ![c] = l]
        /\ UNCHANGED <<via, served, sock>>
    BY <1>3 DEF BeginFail, ProceedThrow, ProceedFailed, Due, Settle, CallStatus
  <2>2. CallStatus'[c] = "unsent"
    BY <2>1 DEF CallStatus, TypeOK
  <2>3. CallStatus' = [CallStatus EXCEPT ![c] = "unsent"]
    BY <2>1, <2>2, StatusBecomes
  <2>4. Session!Refuse(c)
    BY <2>1, <2>3, LifeUnchanged DEF Session!Refuse, Session!Become
  <2> QED
    BY <2>4 DEF Session!SharedNext, Session!Next
<1>4. ASSUME NEW c \in Calls, Proceed(c) PROVE Refined
  <2>1. /\ pc[c] = "awaiting" /\ pc' = [pc EXCEPT ![c] = "waiting"]
        /\ via' = [via EXCEPT ![c] = socket] /\ via[c] = NoConn
        /\ UNCHANGED <<served, sock>>
    BY <1>4 DEF Proceed, Due, Requests
  <2>2. CallStatus[c] = "idle" /\ CallStatus'[c] = "open"
    BY <2>1 DEF CallStatus, TypeOK
  <2>3. CallStatus' = [CallStatus EXCEPT ![c] = "open"]
    BY <2>1, <2>2, StatusBecomes
  <2>4. CASE socket = NoConn
    <3>1. via' = via
      BY <2>1, <2>4 DEF TypeOK
    <3>2. Session!IssueNowhere(c)
      BY <2>1, <2>2, <2>3, <3>1, LifeUnchanged DEF Session!IssueNowhere, Session!Become
    <3> QED
      BY <3>2 DEF Session!SharedNext
  <2>5. CASE socket # NoConn
    <3>1. socket \in Conns /\ Life[socket] # "new"
      BY <2>5 DEF TypeOK, Attempts, Life
    <3>2. Session!Issue(c, socket)
      BY <2>1, <2>2, <2>3, <3>1, LifeUnchanged DEF Session!Issue, Session!Become
    <3> QED
      BY <3>1, <3>2 DEF Session!SharedNext, Session!Next
  <2> QED
    BY <2>4, <2>5
<1>5. ASSUME NEW c \in Calls, Expire(c) \/ Abort(c) PROVE Refined
  <2>1. /\ CallStatus[c] = "open"
        /\ \E l \in {"expired", "aborted"} : pc' = [pc EXCEPT ![c] = l]
        /\ UNCHANGED <<via, served, sock>>
    BY <1>5 DEF Expire, Abort, Settle, CallStatus
  <2>2. CallStatus'[c] = "expired"
    BY <2>1 DEF CallStatus, TypeOK
  <2>3. CallStatus' = [CallStatus EXCEPT ![c] = "expired"]
    BY <2>1, <2>2, StatusBecomes
  <2>4. Session!Expire(c)
    BY <2>1, <2>3, LifeUnchanged DEF Session!Expire, Session!Become
  <2> QED
    BY <2>4 DEF Session!SharedNext, Session!Next
<1>6. ASSUME Close PROVE Refined
  <2>1. /\ socket \in Conns /\ sock[socket] # "unused"
        /\ UNCHANGED <<pc, via, served>>
        /\ sock' = [sock EXCEPT ![socket] =
                      IF @ \in {"connecting", "open"} THEN "closing" ELSE @]
    BY <1>6 DEF Close, TypeOK, Attempts
  <2>2. Life' = Life
    BY <2>1 DEF Life, TypeOK
  <2> QED
    BY <2>1, <2>2 DEF CallStatus, Session!vars
<1>7. ASSUME NEW n \in Conns,
             OpenEvent(n) \/ ErrorEvent(n) \/ ConnectTimeout(n) \/ Leave(n)
      PROVE  Refined
  <2>1. /\ sock[n] \in {"connecting", "open", "closing", "failed"}
        /\ \E s \in {"open", "failed", "closing"} : sock' = [sock EXCEPT ![n] = s]
    BY <1>7 DEF OpenEvent, ErrorEvent, ConnectTimeout, Reject, Leave, Attempts
  <2>2. UNCHANGED <<pc, via, served>>
    BY <1>7 DEF OpenEvent, ErrorEvent, ConnectTimeout, Leave
  <2>3. Life' = Life
    BY <2>1, LifeKept
  <2> QED
    BY <2>2, <2>3 DEF CallStatus, Session!vars
<1>8. ASSUME NEW n \in Conns, CloseEvent(n) PROVE Refined
  <2>1. /\ sock[n] \in {"failed", "open", "closing"}
        /\ sock' = [sock EXCEPT ![n] = "closed"]
        /\ pc' = [c \in Calls |-> IF c \in pending THEN "closed" ELSE pc[c]]
        /\ UNCHANGED <<via, served>>
    BY <1>8 DEF CloseEvent
  <2>2. Life' = [Life EXCEPT ![n] = "down"]
    BY <2>1 DEF Life, TypeOK
  <2>3. \A c \in pending : CallStatus[c] = "open"
    BY DEF CallStatus, PendingIsWaiting
  <2>4. CallStatus' = [c \in Calls |-> IF c \in pending THEN "closed" ELSE CallStatus[c]]
    <3>1. \A c \in Calls :
            CallStatus'[c] = IF c \in pending THEN "closed" ELSE CallStatus[c]
      BY <2>1 DEF CallStatus
    <3> QED
      BY <3>1 DEF CallStatus
  <2>5. /\ \E k \in Conns : Life'[k] \in {"closing", "down"}
        /\ \A k \in Conns : Life'[k] \in {Life[k], "down"}
    BY <2>2 DEF Life
  <2>6. Session!CutAll(pending)
    BY <2>1, <2>3, <2>4, <2>5 DEF Session!CutAll
  <2> QED
    BY <2>6 DEF Session!SharedNext, TypeOK
<1>9. ASSUME NEW n \in Conns, NEW m \in wire[n], Message(n, m) PROVE Refined
  <2>1. m.of \in served /\ m.of \in Calls /\ UNCHANGED <<via, served, sock>>
    BY <1>9 DEF Message, Requests, TypeOK
  <2>2. CASE m.of \in pending
    <3>1. /\ CallStatus[m.of] = "open"
          /\ \E l \in {"answered", "refused"} : pc' = [pc EXCEPT ![m.of] = l]
      BY <1>9, <2>1, <2>2 DEF Message, Settle, CallStatus, PendingIsWaiting
    <3>2. CallStatus'[m.of] = "answered"
      BY <2>1, <3>1 DEF CallStatus, TypeOK
    <3>3. CallStatus' = [CallStatus EXCEPT ![m.of] = "answered"]
      BY <2>1, <3>1, <3>2, StatusBecomes
    <3>4. Session!Answer(m.of)
      BY <2>1, <3>1, <3>3, LifeUnchanged DEF Session!Answer, Session!Become
    <3> QED
      BY <2>1, <3>4 DEF Session!SharedNext, Session!Next
  <2>3. CASE m.of \notin pending
    <3>1. pc' = pc
      BY <1>9, <2>3 DEF Message
    <3> QED
      BY <2>1, <3>1, LifeUnchanged DEF CallStatus, Session!vars
  <2> QED
    BY <2>2, <2>3
<1>10. ASSUME NEW n \in Conns, NEW c \in Calls, Serve(n, c) PROVE Refined
  <2>1. /\ via[c] = n /\ c \notin served /\ served' = served \cup {c}
        /\ sock[n] \in {"open", "closing"} /\ UNCHANGED <<pc, via, sock>>
    BY <1>10 DEF Serve, Requests
  <2>2. Life[n] = "up" /\ n # NoConn
    BY <2>1, NullsAreOutside DEF Life
  <2>3. CallStatus' = CallStatus
    BY <2>1 DEF CallStatus
  <2>4. Session!Serve(c)
    BY <2>1, <2>2, <2>3, LifeUnchanged DEF Session!Serve
  <2> QED
    BY <2>4 DEF Session!SharedNext, Session!Next
<1> QED
  BY <1>1, <1>2, <1>3, <1>4, <1>5, <1>6, <1>7, <1>8, <1>9, <1>10 DEF Next, Continue

\* Every call ends once, with an answer only if a peer gave it one, whatever the
\* order of close() and the events of older sockets.
THEOREM SharedRefinement == Spec => ImplementsSharedSession
<1>1. Init => Session!Init
  BY DEF Init, Session!Init, CallStatus, Life
<1>2. IInv /\ [Next]_vars => [Session!SharedNext]_(Session!vars)
  <2> SUFFICES ASSUME IInv, [Next]_vars PROVE [Session!SharedNext]_(Session!vars)
    OBVIOUS
  <2>1. CASE Next
    BY <2>1, StepRefines
  <2>2. CASE UNCHANGED vars
    BY <2>2 DEF Session!vars, CallStatus, Life
  <2> QED
    BY <2>1, <2>2
<1> QED
  BY <1>1, <1>2, Invariance, PTL DEF Spec, ImplementsSharedSession, Session!SharedSpec
===============================================================================
