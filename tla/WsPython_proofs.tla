--------------------------- MODULE WsPython_proofs ---------------------------
(***************************************************************************)
(* Proofs about the Python transport, for every number of calls,           *)
(* connections, ids and notifications.                                     *)
(***************************************************************************)
EXTENDS WsPython, TLAPS, FiniteSetTheorems

Over(n) == sock[n] \in {"clean", "broken"}

\* _connect_lock is held by the one call that dials, and only while there is no
\* connection.
Locked ==
  /\ \A c \in Calls : pc[c] = "dialing" <=> holder = c
  /\ holder # NoCall => connection = NoConn
  /\ \A c \in Calls : pc[c] = "dialing" => via[c] \in Conns /\ sock[via[c]] = "dialing"

\* Until close() runs only the connection in use is read, and close() runs once.
Readers ==
  /\ ~isClosed => /\ \A n \in Conns : reader[n] = "running" => connection = n
                  /\ closer.at = "none"
  /\ ConnectionIsRead

\* Only a request under way has a future that is set.
Futures == \A c \in Calls : fut[c] # "unset" => pc[c] \in Sent

\* Until close() runs a request is on the connection in use or on one that is over.
Placed ==
  ~isClosed => \A c \in Calls : pc[c] \in Sent =>
                 via[c] \in Conns /\ (via[c] = connection \/ Over(via[c]))

\* An unsubscribe works on a subscription, and only a subscription ends.
Targets ==
  /\ \A c \in Unsubscribes : pc[c] # "idle" =>
       target[c] \in Subscribes /\ pc[target[c]] = "answered"
  /\ \A s \in ended : s \in Subscribes /\ pc[s] = "answered"

IInv ==
  /\ TypeOK /\ Locked /\ Readers /\ Futures /\ PendingIsWaiting
  /\ Placed /\ CutMeansOver /\ Targets /\ ListenersAreLive

USE DEF connecting, calls, subs, peer, vars, Calls, Sent, InFlight, Outcomes
-------------------------------------------------------------------------------

\* What the coroutine that ends leaves behind is typed.
LEMMA FinishTypes ==
  ASSUME TypeOK, Targets, NEW c \in Calls, NEW r \in Outcomes, Finish(c, r),
         r = "answered" => pc[c] = "waiting"
  PROVE  /\ pc' \in [Calls -> {"idle"} \cup InFlight \cup Outcomes]
         /\ fut' \in [Calls -> {"unset", "answered", "refused", "cut", "closed"}]
         /\ pending' \subseteq Calls /\ listeners' \subseteq Subscribes
         /\ ended' \subseteq Subscribes
<1>1. c \in Unsubscribes /\ r = "answered" => target[c] \in Subscribes
  BY DEF Targets
<1> QED
  BY <1>1 DEF TypeOK, Finish, Without, ListenersAfter

\* A wire gives its messages from its head.
LEMMA HeadOfWire ==
  ASSUME TypeOK, NEW n \in Conns, wire[n] # <<>>
  PROVE  Head(wire[n]) \in Message /\ Tail(wire[n]) \in Seq(Message)
<1>1. wire[n] \in Seq(Message)
  BY DEF TypeOK
<1> QED
  BY <1>1

\* Every action keeps the types; only a subscription can be ended.
LEMMA TypeStep ==
  ASSUME TypeOK, Targets, Next
  PROVE  TypeOK'
<1> USE DEF TypeOK
<1>1. ASSUME NEW c \in Calls, BeginRefused(c)
      PROVE  TypeOK'
  BY <1>1 DEF BeginRefused, Call
<1>2. ASSUME NEW c \in Calls, BeginConnected(c)
      PROVE  TypeOK'
  BY <1>2 DEF BeginConnected, Call, Register, Listening
<1>3. ASSUME NEW c \in Calls, BeginLocked(c)
      PROVE  TypeOK'
  BY <1>3 DEF BeginLocked, Call, Listening
<1>4. ASSUME NEW c \in Calls, NEW n \in Conns, BeginDial(c, n)
      PROVE  TypeOK'
  BY <1>4 DEF BeginDial, Call, Dial, Idle, Listening
<1>5. ASSUME NEW c \in Calls, AcquireConnected(c)
      PROVE  TypeOK'
  BY <1>5 DEF AcquireConnected, Register, ConnectedUnderLock
<1>6. ASSUME NEW c \in Calls, NEW n \in Conns, AcquireDial(c, n)
      PROVE  TypeOK'
  BY <1>6 DEF AcquireDial, Dial, ConnectedUnderLock
<1>7. ASSUME NEW c \in Calls, Dialed(c)
      PROVE  TypeOK'
  BY <1>7 DEF Dialed, Register
<1>8. ASSUME NEW c \in Calls, NotDialed(c)
      PROVE  TypeOK'
  <2>1. PICK r \in Outcomes : Finish(c, r) /\ (r = "answered" => pc[c] = "waiting")
    BY <1>8 DEF NotDialed
  <2>2. /\ pc' \in [Calls -> {"idle"} \cup InFlight \cup Outcomes]
        /\ fut' \in [Calls -> {"unset", "answered", "refused", "cut", "closed"}]
        /\ pending' \subseteq Calls
        /\ listeners' \subseteq Subscribes /\ ended' \subseteq Subscribes
    BY <2>1, FinishTypes
  <2>3. sock' \in [Conns -> {"unused", "dialing", "open", "clean", "broken"}]
    BY <1>8 DEF NotDialed
  <2>4. holder' \in Calls \cup {NoCall} /\ via' \in [Calls -> Conns \cup {NoConn}]
    BY <1>8 DEF NotDialed
  <2>5. UNCHANGED <<isClosed, connection, task, reader, target, sid, queue, closer, peer>>
    BY <1>8 DEF NotDialed
  <2> QED
    BY <2>2, <2>3, <2>4, <2>5
<1>9. ASSUME NEW c \in Calls, SendDone(c)
      PROVE  TypeOK'
  BY <1>9 DEF SendDone
<1>10. ASSUME NEW c \in Calls, SendFailed(c)
       PROVE  TypeOK'
  BY <1>10 DEF SendFailed, Finish, Without, ListenersAfter
<1>11. ASSUME NEW c \in Calls, Wake(c)
       PROVE  TypeOK'
  <2>1. PICK r \in Outcomes : Finish(c, r) /\ (r = "answered" => pc[c] = "waiting")
    BY <1>11 DEF Wake
  <2>2. /\ pc' \in [Calls -> {"idle"} \cup InFlight \cup Outcomes]
        /\ fut' \in [Calls -> {"unset", "answered", "refused", "cut", "closed"}]
        /\ pending' \subseteq Calls
        /\ listeners' \subseteq Subscribes /\ ended' \subseteq Subscribes
    BY <2>1, FinishTypes
  <2>3. sid' \in [Subscribes -> Sids \cup {NoSid}]
    BY <1>11 DEF Wake
  <2>4. UNCHANGED <<connecting, via, target, queue, closer, peer>>
    BY <1>11 DEF Wake
  <2> QED
    BY <2>2, <2>3, <2>4
<1>12. ASSUME NEW c \in Calls, Expire(c)
       PROVE  TypeOK'
  BY <1>12 DEF Expire, Finish, Without, ListenersAfter
<1>13. ASSUME NEW c \in Calls, Cancel(c)
       PROVE  TypeOK'
  BY <1>13 DEF Cancel, Finish, Without, ListenersAfter
<1>14. ASSUME NEW n \in Conns, ReadResponse(n)
       PROVE  TypeOK'
  <2>1. Head(wire[n]) \in Message /\ Tail(wire[n]) \in Seq(Message)
    BY <1>14, HeadOfWire DEF ReadResponse
  <2>2. Head(wire[n]).of \in Calls /\ Head(wire[n]).result \in {"answered", "refused"}
    BY <2>1, <1>14, NullsAreOutside DEF ReadResponse, Message, Item
  <2>3. fut' \in [Calls -> {"unset", "answered", "refused", "cut", "closed"}]
    BY <2>2, <1>14 DEF ReadResponse
  <2>4. wire' \in [Conns -> Seq(Message)]
    BY <2>1, <1>14 DEF ReadResponse
  <2>5. UNCHANGED <<connecting, pc, via, pending, target, subs, closer, inbox, granted,
                    gave, sent>>
    BY <1>14 DEF ReadResponse
  <2> QED
    BY <2>3, <2>4, <2>5
<1>15. ASSUME NEW n \in Conns, ReadNote(n)
       PROVE  TypeOK'
  <2>1. Head(wire[n]) \in Message /\ Tail(wire[n]) \in Seq(Message)
    BY <1>15, HeadOfWire DEF ReadNote
  <2>2. Head(wire[n]) \in Item
    BY <2>1, <1>15 DEF ReadNote, Message
  <2>3. ASSUME NEW s \in Subscribes PROVE Append(queue[s], Head(wire[n])) \in Seq(Item)
    BY <2>2
  <2>4. queue' \in [Subscribes -> Seq(Item)]
    BY <2>3, <1>15 DEF ReadNote
  <2>5. wire' \in [Conns -> Seq(Message)]
    BY <2>1, <1>15 DEF ReadNote
  <2>6. UNCHANGED <<connecting, calls, listeners, sid, ended, closer, inbox, granted,
                    gave, sent>>
    BY <1>15 DEF ReadNote
  <2> QED
    BY <2>4, <2>5, <2>6
<1>16. ASSUME NEW n \in Conns, ReadEnd(n)
       PROVE  TypeOK'
  BY <1>16 DEF ReadEnd, Cleared, Cut
<1>17. ASSUME Close
       PROVE  TypeOK'
  BY <1>17 DEF Close
<1>18. ASSUME CloseHandshake
       PROVE  TypeOK'
  <2>1. sock' \in [Conns -> {"unused", "dialing", "open", "clean", "broken"}]
    <3>1. \/ sock' = sock
          \/ \E how \in {"clean", "broken"} : sock' = [sock EXCEPT ![closer.conn] = how]
      BY <1>18 DEF CloseHandshake
    <3> QED
      BY <3>1
  <2>2. closer' = [closer EXCEPT !.at = "reader"]
    BY <1>18 DEF CloseHandshake
  <2>3. UNCHANGED <<isClosed, connection, holder, task, reader, calls, subs, peer>>
    BY <1>18 DEF CloseHandshake
  <2> QED
    BY <2>1, <2>2, <2>3
<1>19. ASSUME CloseReader
       PROVE  TypeOK'
  BY <1>19 DEF CloseReader, Cleared
<1>20. ASSUME CloseLast
       PROVE  TypeOK'
  BY <1>20 DEF CloseLast, Cut
<1>21. ASSUME NEW n \in Conns, NEW c \in Calls, Serve(n, c)
       PROVE  TypeOK'
  <2>1. inbox' \in [Conns -> SUBSET Calls]
    BY <1>21 DEF Serve
  <2>2. granted' \in [Conns -> [Sids -> Subscribes \cup {NoCall}]]
    <3>1. \/ granted' = granted
          \/ \E k \in Sids : c \in Subscribes /\ granted' = [granted EXCEPT ![n][k] = c]
          \/ granted' = [granted EXCEPT ![n][sid[target[c]]] = NoCall]
      BY <1>21 DEF Serve
    <3>2. granted[n] \in [Sids -> Subscribes \cup {NoCall}]
      OBVIOUS
    <3>3. ASSUME NEW f \in [Sids -> Subscribes \cup {NoCall}]
          PROVE  [granted EXCEPT ![n] = f] \in [Conns -> [Sids -> Subscribes \cup {NoCall}]]
      OBVIOUS
    <3>4. CASE \E k \in Sids : c \in Subscribes /\ granted' = [granted EXCEPT ![n][k] = c]
      <4>1. PICK k \in Sids : c \in Subscribes /\ granted' = [granted EXCEPT ![n][k] = c]
        BY <3>4
      <4>2. [granted[n] EXCEPT ![k] = c] \in [Sids -> Subscribes \cup {NoCall}]
        BY <3>2, <4>1
      <4> QED
        BY <3>3, <4>1, <4>2
    <3>5. CASE granted' = [granted EXCEPT ![n][sid[target[c]]] = NoCall]
      <4>1. [granted[n] EXCEPT ![sid[target[c]]] = NoCall] \in [Sids -> Subscribes \cup {NoCall}]
        BY <3>2
      <4> QED
        BY <3>3, <3>5, <4>1
    <3> QED
      BY <3>1, <3>4, <3>5
  <2>3. gave' \in [Subscribes -> Sids \cup {NoSid}]
    BY <1>21 DEF Serve
  <2>4. wire' \in [Conns -> Seq(Message)]
    <3>1. PICK r \in {"answered", "refused"} :
                 wire' = [wire EXCEPT ![n] = Append(wire[n], Response(c, r))]
      BY <1>21 DEF Serve
    <3>2. Response(c, r) \in Message
      BY DEF Response, Message
    <3>3. Append(wire[n], Response(c, r)) \in Seq(Message)
      BY <3>2
    <3> QED
      BY <3>1, <3>3
  <2>5. UNCHANGED <<connecting, calls, subs, closer, sent>>
    BY <1>21 DEF Serve
  <2> QED
    BY <2>1, <2>2, <2>3, <2>4, <2>5
<1>22. ASSUME NEW n \in Conns, NEW k \in Sids, Notify(n, k)
       PROVE  TypeOK'
  <2>1. granted[n][k] \in Subscribes
    <3>1. granted[n] \in [Sids -> Subscribes \cup {NoCall}]
      OBVIOUS
    <3> QED
      BY <3>1, <1>22 DEF Notify
  <2>2. sent' \in [Subscribes -> Nat]
    <3>1. sent' = [sent EXCEPT ![granted[n][k]] = sent[granted[n][k]] + 1]
      BY <1>22 DEF Notify
    <3> QED
      BY <2>1, <3>1
  <2>3. Note(n, k) \in Message
    BY <2>1, <2>2 DEF Note, Message, Item
  <2>4. wire' \in [Conns -> Seq(Message)]
    <3>1. wire' = [wire EXCEPT ![n] = Append(wire[n], Note(n, k))]
      BY <1>22 DEF Notify
    <3>2. Append(wire[n], Note(n, k)) \in Seq(Message)
      BY <2>3
    <3> QED
      BY <3>1, <3>2
  <2>5. UNCHANGED <<connecting, calls, subs, closer, inbox, granted, gave>>
    BY <1>22 DEF Notify
  <2> QED
    BY <2>2, <2>4, <2>5
<1>23. ASSUME NEW n \in Conns, Leave(n)
       PROVE  TypeOK'
  <2>1. sock' \in [Conns -> {"unused", "dialing", "open", "clean", "broken"}]
    <3>1. \E how \in {"clean", "broken"} : sock' = [sock EXCEPT ![n] = how]
      BY <1>23 DEF Leave
    <3> QED
      BY <3>1
  <2>2. wire' \in [Conns -> Seq(Message)]
    <3>1. wire' = wire \/ wire' = [wire EXCEPT ![n] = <<>>]
      BY <1>23 DEF Leave
    <3>2. <<>> \in Seq(Message)
      OBVIOUS
    <3> QED
      BY <3>1, <3>2
  <2>3. UNCHANGED <<isClosed, connection, holder, task, reader, calls, subs, closer, inbox,
                    granted, gave, sent>>
    BY <1>23 DEF Leave
  <2> QED
    BY <2>1, <2>2, <2>3
<1> QED
  BY <1>1, <1>2, <1>3, <1>4, <1>5, <1>6, <1>7, <1>8, <1>9, <1>10, <1>11, <1>12,
     <1>13, <1>14, <1>15, <1>16, <1>17, <1>18, <1>19, <1>20, <1>21, <1>22, <1>23 DEF Next, Go, Read

\* The lock passes from one dial to the next.
LEMMA LockedStep ==
  ASSUME TypeOK, Locked, Next
  PROVE  Locked'
<1> USE DEF TypeOK, Locked
<1>1. ASSUME NEW c \in Calls,
             BeginRefused(c) \/ BeginConnected(c) \/ BeginLocked(c)
             \/ AcquireConnected(c) \/ SendDone(c)
      PROVE  Locked'
  BY <1>1 DEF BeginRefused, Call, BeginConnected, Register, Listening, BeginLocked,
       AcquireConnected, ConnectedUnderLock, SendDone
<1>2. ASSUME NEW c \in Calls, NEW n \in Conns, BeginDial(c, n)
      PROVE  Locked'
  BY <1>2, NullsAreOutside DEF BeginDial, Call, Dial, Idle, Listening
<1>3. ASSUME NEW c \in Calls, NEW n \in Conns, AcquireDial(c, n)
      PROVE  Locked'
  BY <1>3, NullsAreOutside DEF AcquireDial, Dial, ConnectedUnderLock
<1>4. ASSUME NEW c \in Calls, Dialed(c)
      PROVE  Locked'
  BY <1>4, NullsAreOutside DEF Dialed, Register
<1>5. ASSUME NEW c \in Calls, NotDialed(c)
      PROVE  Locked'
  BY <1>5, NullsAreOutside DEF NotDialed, Finish, Without, ListenersAfter
<1>6. ASSUME NEW c \in Calls, SendFailed(c) \/ Wake(c) \/ Expire(c) \/ Cancel(c)
      PROVE  Locked'
  BY <1>6 DEF SendFailed, Finish, Without, ListenersAfter, Wake, Expire, Cancel
<1>7. ASSUME NEW n \in Conns, ReadResponse(n) \/ ReadNote(n) \/ ReadEnd(n) \/ Leave(n)
      PROVE  Locked'
  BY <1>7 DEF ReadResponse, ReadNote, ReadEnd, Cleared, Cut, Leave
<1>8. ASSUME Close \/ CloseHandshake \/ CloseReader \/ CloseLast
      PROVE  Locked'
  BY <1>8 DEF Close, CloseHandshake, CloseReader, Cleared, CloseLast, Cut
<1>9. ASSUME NEW n \in Conns, NEW c \in Calls, Serve(n, c)
      PROVE  Locked'
  BY <1>9 DEF Serve, Response
<1>10. ASSUME NEW n \in Conns, NEW k \in Sids, Notify(n, k)
       PROVE  Locked'
  BY <1>10 DEF Notify, Note
<1> QED
  BY <1>1, <1>2, <1>3, <1>4, <1>5, <1>6, <1>7, <1>8, <1>9, <1>10 DEF Next, Go, Read

\* A connection is stored only where there was none, so none was read.
LEMMA ReadersStep ==
  ASSUME TypeOK, Locked, Readers, Next
  PROVE  Readers'
<1> USE DEF TypeOK, Locked, Readers, ConnectionIsRead
<1>1. ASSUME NEW c \in Calls,
             BeginRefused(c) \/ BeginConnected(c) \/ BeginLocked(c)
             \/ AcquireConnected(c) \/ SendDone(c)
      PROVE  Readers'
  BY <1>1 DEF BeginRefused, Call, BeginConnected, Register, Listening, BeginLocked,
       AcquireConnected, ConnectedUnderLock, SendDone
<1>2. ASSUME NEW c \in Calls, NEW n \in Conns,
             BeginDial(c, n) \/ AcquireDial(c, n) \/ Serve(n, c)
      PROVE  Readers'
  BY <1>2 DEF BeginDial, Call, Dial, Idle, Listening, AcquireDial,
       ConnectedUnderLock, Serve, Response
<1>3. ASSUME NEW c \in Calls, Dialed(c)
      PROVE  Readers'
  BY <1>3, NullsAreOutside DEF Dialed, Register
<1>4. ASSUME NEW c \in Calls,
             NotDialed(c) \/ SendFailed(c) \/ Wake(c) \/ Expire(c) \/ Cancel(c)
      PROVE  Readers'
  BY <1>4 DEF NotDialed, Finish, Without, ListenersAfter, SendFailed, Wake, Expire,
       Cancel
<1>5. ASSUME NEW n \in Conns, ReadResponse(n) \/ ReadNote(n) \/ Leave(n)
      PROVE  Readers'
  BY <1>5 DEF ReadResponse, ReadNote, Leave
<1>6. ASSUME NEW n \in Conns, ReadEnd(n)
      PROVE  Readers'
  BY <1>6 DEF ReadEnd, Cleared, Cut
<1>7. ASSUME Close
      PROVE  Readers'
  BY <1>7 DEF Close
<1>8. ASSUME CloseHandshake \/ CloseLast
      PROVE  Readers'
  BY <1>8 DEF CloseHandshake, CloseLast, Cut
<1>9. ASSUME CloseReader
      PROVE  Readers'
  BY <1>9 DEF CloseReader, Cleared
<1>10. ASSUME NEW n \in Conns, NEW k \in Sids, Notify(n, k)
       PROVE  Readers'
  BY <1>10 DEF Notify, Note
<1> QED
  BY <1>1, <1>2, <1>3, <1>4, <1>5, <1>6, <1>7, <1>8, <1>9, <1>10 DEF Next, Go, Read

\* A future is set only while its call is pending, and dropped with it.
LEMMA FuturesStep ==
  ASSUME TypeOK, Futures, PendingIsWaiting, Next
  PROVE  Futures'
<1> USE DEF TypeOK, Futures, PendingIsWaiting
<1>1. ASSUME NEW c \in Calls, BeginRefused(c)
      PROVE  Futures'
  BY <1>1 DEF BeginRefused, Call
<1>2. ASSUME NEW c \in Calls, BeginConnected(c)
      PROVE  Futures'
  BY <1>2 DEF BeginConnected, Call, Register, Listening
<1>3. ASSUME NEW c \in Calls, BeginLocked(c)
      PROVE  Futures'
  BY <1>3 DEF BeginLocked, Call, Listening
<1>4. ASSUME NEW c \in Calls, NEW n \in Conns,
             BeginDial(c, n) \/ AcquireDial(c, n) \/ Serve(n, c)
      PROVE  Futures'
  BY <1>4 DEF BeginDial, Call, Dial, Idle, Listening, AcquireDial,
       ConnectedUnderLock, Serve, Response
<1>5. ASSUME NEW c \in Calls, AcquireConnected(c)
      PROVE  Futures'
  BY <1>5 DEF AcquireConnected, Register, ConnectedUnderLock
<1>6. ASSUME NEW c \in Calls, Dialed(c)
      PROVE  Futures'
  BY <1>6 DEF Dialed, Register
<1>7. ASSUME NEW c \in Calls, NotDialed(c)
      PROVE  Futures'
  <2>1. PICK r \in {"failed", "cancelled"} : Finish(c, r)
    BY <1>7 DEF NotDialed
  <2> QED
    BY <2>1 DEF Finish
<1>8. ASSUME NEW c \in Calls, SendDone(c)
      PROVE  Futures'
  BY <1>8 DEF SendDone
<1>9. ASSUME NEW c \in Calls, SendFailed(c)
      PROVE  Futures'
  BY <1>9 DEF SendFailed, Finish, Without, ListenersAfter
<1>10. ASSUME NEW c \in Calls, Wake(c)
       PROVE  Futures'
  BY <1>10 DEF Wake, Finish, Without, ListenersAfter
<1>11. ASSUME NEW c \in Calls, Expire(c)
       PROVE  Futures'
  BY <1>11 DEF Expire, Finish, Without, ListenersAfter
<1>12. ASSUME NEW c \in Calls, Cancel(c)
       PROVE  Futures'
  BY <1>12 DEF Cancel, Finish, Without, ListenersAfter
<1>13. ASSUME NEW n \in Conns, ReadResponse(n)
       PROVE  Futures'
  BY <1>13 DEF ReadResponse
<1>14. ASSUME NEW n \in Conns, ReadNote(n) \/ Leave(n)
       PROVE  Futures'
  BY <1>14 DEF ReadNote, Leave
<1>15. ASSUME NEW n \in Conns, ReadEnd(n)
       PROVE  Futures'
  BY <1>15 DEF ReadEnd, Cleared, Cut
<1>16. ASSUME Close \/ CloseHandshake \/ CloseReader
       PROVE  Futures'
  BY <1>16 DEF Close, CloseHandshake, CloseReader, Cleared
<1>17. ASSUME CloseLast
       PROVE  Futures'
  BY <1>17 DEF CloseLast, Cut
<1>18. ASSUME NEW n \in Conns, NEW k \in Sids, Notify(n, k)
       PROVE  Futures'
  BY <1>18 DEF Notify, Note
<1> QED
  BY <1>1, <1>2, <1>3, <1>4, <1>5, <1>6, <1>7, <1>8, <1>9, <1>10, <1>11, <1>12,
     <1>13, <1>14, <1>15, <1>16, <1>17, <1>18 DEF Next, Go, Read

\* Every way a call ends takes it out of _pending.
LEMMA PendingStep ==
  ASSUME TypeOK, Readers, PendingIsWaiting, Next
  PROVE  PendingIsWaiting'
<1> USE DEF TypeOK, Readers, PendingIsWaiting
<1>1. ASSUME NEW c \in Calls, BeginRefused(c)
      PROVE  PendingIsWaiting'
  BY <1>1 DEF BeginRefused, Call
<1>2. ASSUME NEW c \in Calls, BeginConnected(c)
      PROVE  PendingIsWaiting'
  BY <1>2 DEF BeginConnected, Call, Register, Listening
<1>3. ASSUME NEW c \in Calls, BeginLocked(c)
      PROVE  PendingIsWaiting'
  BY <1>3 DEF BeginLocked, Call, Listening
<1>4. ASSUME NEW c \in Calls, NEW n \in Conns,
             BeginDial(c, n) \/ AcquireDial(c, n) \/ Serve(n, c)
      PROVE  PendingIsWaiting'
  BY <1>4 DEF BeginDial, Call, Dial, Idle, Listening, AcquireDial,
       ConnectedUnderLock, Serve, Response
<1>5. ASSUME NEW c \in Calls, AcquireConnected(c)
      PROVE  PendingIsWaiting'
  BY <1>5 DEF AcquireConnected, Register, ConnectedUnderLock
<1>6. ASSUME NEW c \in Calls, Dialed(c)
      PROVE  PendingIsWaiting'
  BY <1>6 DEF Dialed, Register
<1>7. ASSUME NEW c \in Calls, NotDialed(c)
      PROVE  PendingIsWaiting'
  BY <1>7 DEF NotDialed, Finish, Without, ListenersAfter
<1>8. ASSUME NEW c \in Calls, SendDone(c)
      PROVE  PendingIsWaiting'
  BY <1>8 DEF SendDone
<1>9. ASSUME NEW c \in Calls, SendFailed(c)
      PROVE  PendingIsWaiting'
  BY <1>9 DEF SendFailed, Finish, Without, ListenersAfter
<1>10. ASSUME NEW c \in Calls, Wake(c)
       PROVE  PendingIsWaiting'
  BY <1>10 DEF Wake, Finish, Without, ListenersAfter
<1>11. ASSUME NEW c \in Calls, Expire(c)
       PROVE  PendingIsWaiting'
  BY <1>11 DEF Expire, Finish, Without, ListenersAfter
<1>12. ASSUME NEW c \in Calls, Cancel(c)
       PROVE  PendingIsWaiting'
  BY <1>12 DEF Cancel, Finish, Without, ListenersAfter
<1>13. ASSUME NEW n \in Conns, ReadResponse(n) \/ ReadNote(n) \/ ReadEnd(n) \/ Leave(n)
       PROVE  PendingIsWaiting'
  BY <1>13 DEF ReadResponse, ReadNote, ReadEnd, Cleared, Cut, Leave
<1>14. ASSUME Close \/ CloseHandshake \/ CloseReader \/ CloseLast
       PROVE  PendingIsWaiting'
  BY <1>14 DEF Close, CloseHandshake, CloseReader, Cleared, CloseLast, Cut
<1>15. ASSUME NEW n \in Conns, NEW k \in Sids, Notify(n, k)
       PROVE  PendingIsWaiting'
  BY <1>15 DEF Notify, Note
<1> QED
  BY <1>1, <1>2, <1>3, <1>4, <1>5, <1>6, <1>7, <1>8, <1>9, <1>10, <1>11, <1>12,
     <1>13, <1>14, <1>15 DEF Next, Go, Read

\* The connection in use changes only when it is over, or there was none.
LEMMA PlacedStep ==
  ASSUME TypeOK, Locked, Readers, Placed, Next
  PROVE  Placed'
<1> USE DEF TypeOK, Locked, Readers, Placed, Over
<1>1. ASSUME NEW c \in Calls, BeginRefused(c) \/ BeginLocked(c) \/ SendDone(c)
      PROVE  Placed'
  BY <1>1 DEF BeginRefused, Call, BeginLocked, Listening, SendDone
<1>2. ASSUME NEW c \in Calls, BeginConnected(c)
      PROVE  Placed'
  BY <1>2 DEF BeginConnected, Call, Register, Listening
<1>3. ASSUME NEW c \in Calls, NEW n \in Conns, BeginDial(c, n)
      PROVE  Placed'
  BY <1>3, NullsAreOutside DEF BeginDial, Call, Dial, Idle, Listening
<1>4. ASSUME NEW c \in Calls, AcquireConnected(c)
      PROVE  Placed'
  BY <1>4 DEF AcquireConnected, Register, ConnectedUnderLock
<1>5. ASSUME NEW c \in Calls, NEW n \in Conns, AcquireDial(c, n)
      PROVE  Placed'
  BY <1>5, NullsAreOutside DEF AcquireDial, Dial, ConnectedUnderLock
<1>6. ASSUME NEW c \in Calls, Dialed(c)
      PROVE  Placed'
  <2>1. /\ connection = NoConn /\ connection' = via[c]
        /\ via[c] \in Conns /\ sock[via[c]] = "dialing"
    BY <1>6, NullsAreOutside DEF Dialed
  <2>2. ASSUME ~isClosed', NEW d \in Calls, pc'[d] \in Sent
        PROVE  via'[d] \in Conns /\ (via'[d] = connection' \/ Over(via[d])')
    <3>1. CASE d = c
      BY <2>1, <3>1, <1>6 DEF Dialed, Register
    <3>2. CASE d # c
      <4>1. pc[d] \in Sent /\ via'[d] = via[d] /\ ~isClosed
        BY <2>2, <3>2, <1>6 DEF Dialed, Register
      <4>2. via[d] \in Conns /\ Over(via[d])
        BY <2>1, <4>1, NullsAreOutside
      <4> QED
        BY <2>1, <4>1, <4>2, <1>6 DEF Dialed
    <3> QED
      BY <3>1, <3>2
  <2> QED
    BY <2>2
<1>7. ASSUME NEW c \in Calls, NotDialed(c)
      PROVE  Placed'
  BY <1>7, NullsAreOutside DEF NotDialed, Finish, Without, ListenersAfter
<1>8. ASSUME NEW c \in Calls, SendFailed(c) \/ Wake(c) \/ Expire(c) \/ Cancel(c)
      PROVE  Placed'
  BY <1>8 DEF SendFailed, Finish, Without, ListenersAfter, Wake, Expire, Cancel
<1>9. ASSUME NEW n \in Conns, ReadResponse(n)
      PROVE  Placed'
  BY <1>9 DEF ReadResponse
<1>10. ASSUME NEW n \in Conns, ReadNote(n)
       PROVE  Placed'
  BY <1>10 DEF ReadNote
<1>11. ASSUME NEW n \in Conns, ReadEnd(n)
       PROVE  Placed'
  BY <1>11 DEF ReadEnd, Cleared, Cut
<1>12. ASSUME Close \/ CloseHandshake \/ CloseReader \/ CloseLast
       PROVE  Placed'
  BY <1>12 DEF Close, CloseHandshake, CloseReader, Cleared, CloseLast, Cut
<1>13. ASSUME NEW n \in Conns, NEW c \in Calls, Serve(n, c)
       PROVE  Placed'
  BY <1>13 DEF Serve, Response
<1>14. ASSUME NEW n \in Conns, NEW k \in Sids, Notify(n, k)
       PROVE  Placed'
  BY <1>14 DEF Notify, Note
<1>15. ASSUME NEW n \in Conns, Leave(n)
       PROVE  Placed'
  <2>1. UNCHANGED <<isClosed, connection, pc, via>>
    BY <1>15 DEF Leave
  <2>2. PICK how \in {"clean", "broken"} : sock[n] = "open" /\ sock' = [sock EXCEPT ![n] = how]
    BY <1>15 DEF Leave
  <2> QED
    BY <2>1, <2>2
<1> QED
  BY <1>1, <1>2, <1>3, <1>4, <1>5, <1>6, <1>7, <1>8, <1>9, <1>10, <1>11, <1>12,
     <1>13, <1>14, <1>15 DEF Next, Go, Read

\* A reader that fails the pending calls leaves a connection they were on, or one
\* after it: their own is over.
LEMMA CutStep ==
  ASSUME TypeOK, Locked, Readers,
         Futures, PendingIsWaiting, Placed, CutMeansOver, Next
  PROVE  CutMeansOver'
<1> USE DEF TypeOK, Locked, Readers, Futures, PendingIsWaiting, Placed, Over, CutMeansOver
<1>1. ASSUME NEW c \in Calls, BeginRefused(c)
      PROVE  CutMeansOver'
  BY <1>1 DEF BeginRefused, Call
<1>2. ASSUME NEW c \in Calls, BeginConnected(c)
      PROVE  CutMeansOver'
  BY <1>2 DEF BeginConnected, Call, Register, Listening
<1>3. ASSUME NEW c \in Calls, BeginLocked(c)
      PROVE  CutMeansOver'
  BY <1>3 DEF BeginLocked, Call, Listening
<1>4. ASSUME NEW c \in Calls, NEW n \in Conns, BeginDial(c, n)
      PROVE  CutMeansOver'
  BY <1>4 DEF BeginDial, Call, Dial, Idle, Listening
<1>5. ASSUME NEW c \in Calls, AcquireConnected(c)
      PROVE  CutMeansOver'
  BY <1>5 DEF AcquireConnected, Register, ConnectedUnderLock
<1>6. ASSUME NEW c \in Calls, NEW n \in Conns, AcquireDial(c, n)
      PROVE  CutMeansOver'
  BY <1>6 DEF AcquireDial, Dial, ConnectedUnderLock
<1>7. ASSUME NEW c \in Calls, Dialed(c)
      PROVE  CutMeansOver'
  BY <1>7 DEF Dialed, Register
<1>8. ASSUME NEW c \in Calls, NotDialed(c)
      PROVE  CutMeansOver'
  BY <1>8 DEF NotDialed, Finish, Without, ListenersAfter
<1>9. ASSUME NEW c \in Calls, SendDone(c)
      PROVE  CutMeansOver'
  BY <1>9 DEF SendDone
<1>10. ASSUME NEW c \in Calls, SendFailed(c)
       PROVE  CutMeansOver'
  BY <1>10 DEF SendFailed, Finish, Without, ListenersAfter
<1>11. ASSUME NEW c \in Calls, Wake(c)
       PROVE  CutMeansOver'
  BY <1>11 DEF Wake, Finish, Without, ListenersAfter
<1>12. ASSUME NEW c \in Calls, Expire(c)
       PROVE  CutMeansOver'
  BY <1>12 DEF Expire, Finish, Without, ListenersAfter
<1>13. ASSUME NEW c \in Calls, Cancel(c)
       PROVE  CutMeansOver'
  BY <1>13 DEF Cancel, Finish, Without, ListenersAfter
<1>14. ASSUME NEW n \in Conns, ReadResponse(n)
       PROVE  CutMeansOver'
  <2>1. fut' = fut \/ fut' = [fut EXCEPT ![Head(wire[n]).of] = Head(wire[n]).result]
    BY <1>14 DEF ReadResponse
  <2>2. Head(wire[n]) \in Message
    <3>1. wire[n] \in Seq(Message) /\ wire[n] # <<>>
      BY <1>14 DEF ReadResponse
    <3> QED
      BY <3>1
  <2>3. Head(wire[n]).result # "cut"
    BY <2>2, <1>14, NullsAreOutside DEF ReadResponse, Message, Item
  <2>4. UNCHANGED <<isClosed, sock, via>>
    BY <1>14 DEF ReadResponse
  <2> QED
    BY <2>1, <2>3, <2>4
<1>15. ASSUME NEW n \in Conns, ReadNote(n)
       PROVE  CutMeansOver'
  BY <1>15 DEF ReadNote
<1>16. ASSUME NEW n \in Conns, ReadEnd(n)
       PROVE  CutMeansOver'
  BY <1>16, NullsAreOutside DEF ReadEnd, Cleared, Cut
<1>17. ASSUME Close \/ CloseHandshake \/ CloseReader
       PROVE  CutMeansOver'
  BY <1>17 DEF Close, CloseHandshake, CloseReader, Cleared
<1>18. ASSUME CloseLast
       PROVE  CutMeansOver'
  BY <1>18 DEF CloseLast, Cut
<1>19. ASSUME NEW n \in Conns, NEW c \in Calls, Serve(n, c)
       PROVE  CutMeansOver'
  BY <1>19 DEF Serve, Response
<1>20. ASSUME NEW n \in Conns, NEW k \in Sids, Notify(n, k)
       PROVE  CutMeansOver'
  BY <1>20 DEF Notify, Note
<1>21. ASSUME NEW n \in Conns, Leave(n)
       PROVE  CutMeansOver'
  <2>1. UNCHANGED <<isClosed, via, fut>>
    BY <1>21 DEF Leave
  <2>2. PICK how \in {"clean", "broken"} : sock[n] = "open" /\ sock' = [sock EXCEPT ![n] = how]
    BY <1>21 DEF Leave
  <2> QED
    BY <2>1, <2>2
<1> QED
  BY <1>1, <1>2, <1>3, <1>4, <1>5, <1>6, <1>7, <1>8, <1>9, <1>10, <1>11, <1>12,
     <1>13, <1>14, <1>15, <1>16, <1>17, <1>18, <1>19, <1>20, <1>21 DEF Next, Go, Read

\* A call that is answered stays so.
LEMMA TargetsStep ==
  ASSUME TypeOK, Locked, Targets, Next
  PROVE  Targets'
<1> USE DEF TypeOK, Locked, Targets
<1>1. ASSUME NEW c \in Calls,
             BeginRefused(c) \/ BeginConnected(c) \/ BeginLocked(c)
             \/ AcquireConnected(c) \/ Dialed(c) \/ SendDone(c)
      PROVE  Targets'
  BY <1>1 DEF BeginRefused, Call, BeginConnected, Register, Listening, BeginLocked,
       AcquireConnected, ConnectedUnderLock, Dialed, SendDone
<1>2. ASSUME NEW c \in Calls, NEW n \in Conns, BeginDial(c, n)
      PROVE  Targets'
  BY <1>2 DEF BeginDial, Call, Dial, Idle, Listening
<1>3. ASSUME NEW c \in Calls, NEW n \in Conns, AcquireDial(c, n)
      PROVE  Targets'
  BY <1>3 DEF AcquireDial, Dial, ConnectedUnderLock
<1>4. ASSUME NEW c \in Calls,
             NotDialed(c) \/ SendFailed(c) \/ Wake(c) \/ Expire(c) \/ Cancel(c)
      PROVE  Targets'
  BY <1>4 DEF NotDialed, Finish, Without, ListenersAfter, SendFailed, Wake, Expire,
       Cancel
<1>5. ASSUME NEW n \in Conns, ReadResponse(n) \/ ReadNote(n) \/ ReadEnd(n) \/ Leave(n)
      PROVE  Targets'
  BY <1>5 DEF ReadResponse, ReadNote, ReadEnd, Cleared, Cut, Leave
<1>6. ASSUME Close \/ CloseHandshake \/ CloseReader \/ CloseLast
      PROVE  Targets'
  BY <1>6 DEF Close, CloseHandshake, CloseReader, Cleared, CloseLast, Cut
<1>7. ASSUME NEW n \in Conns, NEW c \in Calls, Serve(n, c)
      PROVE  Targets'
  BY <1>7 DEF Serve, Response
<1>8. ASSUME NEW n \in Conns, NEW k \in Sids, Notify(n, k)
      PROVE  Targets'
  BY <1>8 DEF Notify, Note
<1> QED
  BY <1>1, <1>2, <1>3, <1>4, <1>5, <1>6, <1>7, <1>8 DEF Next, Go, Read

\* A subscribe listens while it is under way and keeps its listener until the
\* subscription ends.
LEMMA ListenersStep ==
  ASSUME TypeOK, Readers, Targets, ListenersAreLive, Next
  PROVE  ListenersAreLive'
<1> USE DEF TypeOK, Readers, Targets, ListenersAreLive
<1>1. ASSUME NEW c \in Calls,
             BeginRefused(c) \/ BeginConnected(c) \/ BeginLocked(c)
             \/ AcquireConnected(c) \/ Dialed(c) \/ SendDone(c)
      PROVE  ListenersAreLive'
  BY <1>1 DEF BeginRefused, Call, BeginConnected, Register, Listening, BeginLocked,
       AcquireConnected, ConnectedUnderLock, Dialed, SendDone
<1>2. ASSUME NEW c \in Calls, NEW n \in Conns,
             BeginDial(c, n) \/ AcquireDial(c, n) \/ Serve(n, c)
      PROVE  ListenersAreLive'
  BY <1>2 DEF BeginDial, Call, Dial, Idle, Listening, AcquireDial,
       ConnectedUnderLock, Serve, Response
<1>3. ASSUME NEW c \in Calls, NotDialed(c)
      PROVE  ListenersAreLive'
  <2>1. PICK r \in {"failed", "cancelled"} : Finish(c, r)
    BY <1>3 DEF NotDialed
  <2>2. pc[c] \in {"locking", "dialing"} /\ closer' = closer
    BY <1>3 DEF NotDialed
  <2> QED
    BY <2>1, <2>2 DEF Finish, ListenersAfter
<1>4. ASSUME NEW c \in Calls, SendFailed(c)
      PROVE  ListenersAreLive'
  BY <1>4 DEF SendFailed, Finish, Without, ListenersAfter
<1>5. ASSUME NEW c \in Calls, Wake(c)
      PROVE  ListenersAreLive'
  BY <1>5 DEF Wake, Finish, Without, ListenersAfter
<1>6. ASSUME NEW c \in Calls, Expire(c)
      PROVE  ListenersAreLive'
  BY <1>6 DEF Expire, Finish, Without, ListenersAfter
<1>7. ASSUME NEW c \in Calls, Cancel(c)
      PROVE  ListenersAreLive'
  BY <1>7 DEF Cancel, Finish, Without, ListenersAfter
<1>8. ASSUME NEW n \in Conns, ReadResponse(n) \/ ReadNote(n) \/ ReadEnd(n) \/ Leave(n)
      PROVE  ListenersAreLive'
  BY <1>8 DEF ReadResponse, ReadNote, ReadEnd, Cleared, Cut, Leave
<1>9. ASSUME Close \/ CloseHandshake \/ CloseReader \/ CloseLast
      PROVE  ListenersAreLive'
  BY <1>9 DEF Close, CloseHandshake, CloseReader, Cleared, CloseLast, Cut
<1>10. ASSUME NEW n \in Conns, NEW k \in Sids, Notify(n, k)
       PROVE  ListenersAreLive'
  BY <1>10 DEF Notify, Note
<1> QED
  BY <1>1, <1>2, <1>3, <1>4, <1>5, <1>6, <1>7, <1>8, <1>9, <1>10 DEF Next, Go, Read

-------------------------------------------------------------------------------
\* The invariant holds before the first call.
LEMMA InitIInv == Init => IInv
<1> SUFFICES ASSUME Init PROVE IInv
  OBVIOUS
<1>1. TypeOK
  <2>1. queue \in [Subscribes -> Seq(Item)] /\ wire \in [Conns -> Seq(Message)]
    BY DEF Init
  <2>2. /\ granted \in [Conns -> [Sids -> Subscribes \cup {NoCall}]]
        /\ gave \in [Subscribes -> Sids \cup {NoSid}]
        /\ inbox \in [Conns -> SUBSET Calls] /\ sent \in [Subscribes -> Nat]
    BY DEF Init
  <2> QED
    BY <2>1, <2>2 DEF Init, TypeOK
<1>2. Locked /\ Readers /\ Futures /\ Placed /\ CutMeansOver /\ Targets
  BY NullsAreOutside DEF Init, Locked, Readers, ConnectionIsRead, Futures, Placed,
     CutMeansOver, Targets
<1>3. PendingIsWaiting /\ ListenersAreLive
  BY DEF Init, PendingIsWaiting, ListenersAreLive
<1> QED
  BY <1>1, <1>2, <1>3 DEF IInv

\* No step breaks the invariant.
LEMMA NextIInv == IInv /\ [Next]_vars => IInv'
<1> SUFFICES ASSUME IInv, [Next]_vars PROVE IInv'
  OBVIOUS
<1>1. CASE Next
  BY <1>1, TypeStep, LockedStep, ReadersStep, FuturesStep, PendingStep, PlacedStep,
     CutStep, TargetsStep, ListenersStep DEF IInv
<1>2. CASE UNCHANGED vars
  BY <1>2 DEF IInv, TypeOK, Locked, Readers, ConnectionIsRead, Futures, Placed, Over,
     PendingIsWaiting, CutMeansOver, Targets, ListenersAreLive
<1> QED
  BY <1>1, <1>2

\* The inductive invariant holds in every state the transport reaches.
THEOREM Invariance == Spec => []IInv
<1> QED
  BY InitIInv, NextIInv, PTL DEF Spec

\* Every variable keeps its type, the messages under way and queued included.
THEOREM TypeCorrect == Spec => []TypeOK
<1>1. IInv => TypeOK
  BY DEF IInv
<1> QED
  BY <1>1, Invariance, PTL

\* _pending holds the requests under way and no other, whichever of a timer, a
\* cancellation and an answer comes first.
THEOREM PendingIsExact == Spec => []PendingIsWaiting
<1>1. IInv => PendingIsWaiting
  BY DEF IInv
<1> QED
  BY <1>1, Invariance, PTL

\* Calls that find no connection together open one, and one reader.
THEOREM ReadersAreOne == Spec => []OneReader
<1>1. IInv => OneReader
  <2> DEFINE Running == {n \in Conns : reader[n] = "running"}
  <2> SUFFICES ASSUME IInv, ~isClosed PROVE Cardinality(Running) <= 1
    BY DEF OneReader
  <2>1. Running \in SUBSET {connection}
    BY DEF IInv, Readers
  <2>2. IsFiniteSet({connection}) /\ Cardinality({connection}) = 1
    BY FS_Singleton
  <2> QED
    BY <2>1, <2>2, FS_Subset
<1> QED
  BY <1>1, Invariance, PTL

\* The stored connection always has its reader, also when a dial overtook close().
THEOREM ConnectionIsAlwaysRead == Spec => []ConnectionIsRead
<1>1. IInv => ConnectionIsRead
  BY DEF IInv, Readers
<1> QED
  BY <1>1, Invariance, PTL

\* "Connection closed" is only ever said of a call's own, ended connection.
THEOREM CutIsOver == Spec => []CutMeansOver
<1>1. IInv => CutMeansOver
  BY DEF IInv
<1> QED
  BY <1>1, Invariance, PTL

\* _listeners keeps nothing of a subscribe that failed or a subscription that ended.
THEOREM ListenersAreExact == Spec => []ListenersAreLive
<1>1. IInv => ListenersAreLive
  BY DEF IInv
<1> QED
  BY <1>1, Invariance, PTL

-------------------------------------------------------------------------------
(* Streams: what a queue holds of its own subscription, and of others.     *)
(* Nothing is said of two lists put together: the numbers of a queue end   *)
(* where those of the wire begin.                                          *)

NoteOf(s, m) == m.sid # NoSid /\ m.of = s
AnswerTo(s, m) == m.sid = NoSid /\ m.of = s /\ m.result = "answered"

Numbers(s, l) == {l[i].seq : i \in {i \in DOMAIN l : NoteOf(s, l[i])}}
Rising(s, l) ==
  \A i, j \in DOMAIN l : i < j /\ NoteOf(s, l[i]) /\ NoteOf(s, l[j]) => l[i].seq < l[j].seq

Unasked == {"idle", "locking", "dialing", "sending"}
Silent(c) == \A n \in Conns : \A i \in DOMAIN wire[n] : wire[n][i].of # c

\* A peer has a request once, and sends nothing for a call before it has served it.
Asked ==
  \A c \in Calls :
    /\ pc[c] \in Unasked => \A n \in Conns : c \notin inbox[n]
    /\ \A n \in Conns : c \in inbox[n] => via[c] = n
    /\ (pc[c] \in Unasked \/ \E n \in Conns : c \in inbox[n]) =>
         Silent(c) /\ (c \in Subscribes => gave[c] = NoSid)

\* What is on a wire is of a call of that connection.
Said ==
  \A n \in Conns : \A i \in DOMAIN wire[n] :
    LET m == wire[n][i]
    IN  /\ via[m.of] = n
        /\ m.sid # NoSid => gave[m.of] = m.sid
        /\ \A s \in Subscribes : AnswerTo(s, m) =>
             /\ gave[s] \in Sids /\ sid[s] = NoSid /\ fut[s] # "answered"
             /\ \A j \in DOMAIN wire[n] : AnswerTo(s, wire[n][j]) => j = i

Given ==
  \A n \in Conns, k \in Sids : granted[n][k] # NoCall =>
    gave[granted[n][k]] = k /\ via[granted[n][k]] = n

Stored ==
  \A s \in Subscribes :
    /\ sid[s] # NoSid => sid[s] = gave[s] /\ pc[s] = "answered"
    /\ fut[s] = "answered" => gave[s] \in Sids
    /\ sid[s] = NoSid => queue[s] = <<>>

Located ==
  /\ \A c \in Calls : pc[c] \in Sent \cup {"answered"} => via[c] \in Conns
  /\ \A c \in Calls : via[c] \in Conns /\ pc[c] # "dialing" => reader[via[c]] # "none"
  /\ \A n \in Conns : reader[n] # "none" => sock[n] \notin {"unused", "dialing"}

\* An id that is given out again is known to its new owner only after the last
\* notification of the one before.
Succession ==
  \A n \in Conns : \A i \in DOMAIN wire[n] :
    LET m == wire[n][i]
        s == granted[n][m.sid]
    IN  m.sid # NoSid /\ s # NoCall /\ s # m.of =>
          \E j \in DOMAIN wire[n] : i < j /\ AnswerTo(s, wire[n][j])

Follows(s, b) ==
  \E c \in Nat : /\ b <= c /\ c <= sent[s]
                 /\ sock[via[s]] = "open" => c = sent[s]
                 /\ Numbers(s, wire[via[s]]) = (b + 1)..c
                 /\ Rising(s, wire[via[s]])

Flow ==
  \A s \in Subscribes :
    \E a, b \in Nat : /\ Numbers(s, queue[s]) = (a + 1)..b /\ a <= b
                      /\ Rising(s, queue[s])
                      /\ s \in listeners /\ via[s] \in Conns => Follows(s, b)

Strangers ==
  \A s \in Subscribes :
    Own(s) # DOMAIN queue[s] =>
      \/ isClosed
      \/ sid[s] \in Sids /\ (reader[via[s]] = "ended" \/ granted[via[s]][sid[s]] # s)

SInv ==
  Asked /\ Said /\ Given /\ Stored /\ Located /\ Succession /\ Flow /\ Strangers

\* Where the messages of a list are once its first is taken.
LEMMA TailAt ==
  ASSUME NEW S, NEW q \in Seq(S), q # <<>>
  PROVE  /\ Tail(q) \in Seq(S) /\ 1 \in DOMAIN q /\ Head(q) = q[1]
         /\ \A i \in DOMAIN Tail(q) : i \in Nat /\ i + 1 \in DOMAIN q /\ Tail(q)[i] = q[i + 1]
         /\ \A i \in DOMAIN q : i # 1 =>
              /\ i \in Nat /\ i - 1 \in DOMAIN Tail(q) /\ Tail(q)[i - 1] = q[i] /\ i > 1
OBVIOUS

\* And once another is put at its end.
LEMMA AppendAt ==
  ASSUME NEW S, NEW q \in Seq(S), NEW m \in S
  PROVE  LET l == Len(q) + 1
         IN  /\ Append(q, m) \in Seq(S) /\ l \in DOMAIN Append(q, m) /\ Append(q, m)[l] = m
             /\ \A i \in DOMAIN q :
                  i < l /\ i # l /\ i \in DOMAIN Append(q, m) /\ Append(q, m)[i] = q[i]
             /\ \A i \in DOMAIN Append(q, m) : i \in Nat /\ (i = l \/ (i \in DOMAIN q /\ i < l))
<1> DEFINE longer == Append(q, m)
           l == Len(q) + 1
<1>1. /\ longer \in Seq(S) /\ Len(longer) = l /\ Len(q) \in Nat
      /\ DOMAIN q = 1..Len(q) /\ DOMAIN longer = 1..l
  OBVIOUS
<1>2. longer[l] = m /\ \A i \in 1..Len(q) : longer[i] = q[i]
  OBVIOUS
<1> HIDE DEF longer
<1> QED
  BY <1>1, <1>2 DEF longer

\* A message adds its number, if it is a notification of the subscription.
LEMMA NumbersGrow ==
  ASSUME NEW S, NEW q \in Seq(S), NEW m \in S, NEW s
  PROVE  /\ ~NoteOf(s, m) => /\ Numbers(s, Append(q, m)) = Numbers(s, q)
                             /\ Rising(s, q) => Rising(s, Append(q, m))
         /\ NoteOf(s, m) =>
              /\ Numbers(s, Append(q, m)) = Numbers(s, q) \cup {m.seq}
              /\ Rising(s, q) /\ (\A x \in Numbers(s, q) : x < m.seq) => Rising(s, Append(q, m))
<1> DEFINE l == Len(q) + 1
           longer == Append(q, m)
<1>1. /\ l \in DOMAIN longer /\ longer[l] = m
      /\ \A i \in DOMAIN q : i < l /\ i # l /\ i \in DOMAIN longer /\ longer[i] = q[i]
      /\ \A i \in DOMAIN longer : i \in Nat /\ (i = l \/ (i \in DOMAIN q /\ i < l))
  BY AppendAt
<1> HIDE DEF l, longer
<1>2. ASSUME ~NoteOf(s, m)
      PROVE  Numbers(s, longer) = Numbers(s, q) /\ (Rising(s, q) => Rising(s, longer))
  <2>1. Numbers(s, longer) = Numbers(s, q)
    BY <1>1, <1>2 DEF Numbers
  <2>2. Rising(s, q) => Rising(s, longer)
    BY <1>1, <1>2 DEF Rising
  <2> QED
    BY <2>1, <2>2
<1>3. ASSUME NoteOf(s, m)
      PROVE  /\ Numbers(s, longer) = Numbers(s, q) \cup {m.seq}
             /\ Rising(s, q) /\ (\A x \in Numbers(s, q) : x < m.seq) => Rising(s, longer)
  <2>1. Numbers(s, longer) = Numbers(s, q) \cup {m.seq}
    BY <1>1, <1>3 DEF Numbers
  <2>2. ASSUME Rising(s, q), \A x \in Numbers(s, q) : x < m.seq
        PROVE  Rising(s, longer)
    <3> SUFFICES ASSUME NEW i \in DOMAIN longer, NEW j \in DOMAIN longer, i < j,
                        NoteOf(s, longer[i]), NoteOf(s, longer[j])
                 PROVE  longer[i].seq < longer[j].seq
      BY DEF Rising
    <3>1. i # l /\ i \in DOMAIN q /\ longer[i] = q[i]
      <4>1. l \in Nat
        BY <1>1
      <4>2. CASE i = l
        BY <1>1, <4>1, <4>2
      <4> QED
        BY <1>1, <4>2
    <3>2. CASE j = l
      BY <1>1, <2>2, <3>1, <3>2 DEF Numbers
    <3>3. CASE j # l
      BY <1>1, <2>2, <3>1, <3>3 DEF Rising
    <3> QED
      BY <3>2, <3>3
  <2> QED
    BY <2>1, <2>2
<1> QED
  BY <1>2, <1>3 DEF longer

\* The numbers of a list that rise without a gap begin with that of the first.
LEMMA OwnTaken ==
  ASSUME NEW q \in Seq(Message), q # <<>>, NEW s, NoteOf(s, Head(q)), Rising(s, q),
         NEW b \in Nat, NEW c \in Nat, Numbers(s, q) = (b + 1)..c
  PROVE  /\ Head(q).seq = b + 1 /\ b + 1 <= c
         /\ Numbers(s, Tail(q)) = (b + 2)..c /\ Rising(s, Tail(q))
<1> DEFINE short == Tail(q)
           x == Head(q).seq
<1>1. /\ 1 \in DOMAIN q /\ Head(q) = q[1]
      /\ \A i \in DOMAIN short : i \in Nat /\ i + 1 \in DOMAIN q /\ short[i] = q[i + 1]
      /\ \A i \in DOMAIN q : i # 1 =>
           i \in Nat /\ i - 1 \in DOMAIN short /\ short[i - 1] = q[i] /\ i > 1
  BY TailAt
<1>2. \A i \in DOMAIN short : i + 1 > 1
  BY <1>1
<1> HIDE DEF short
<1>3. x \in Numbers(s, q) /\ Numbers(s, q) = Numbers(s, short) \cup {x}
  <2>1. x \in Numbers(s, q)
    BY <1>1 DEF Numbers
  <2>2. \A y \in Numbers(s, q) : y \in Numbers(s, short) \/ y = x
    <3> SUFFICES ASSUME NEW i \in DOMAIN q, NoteOf(s, q[i]), q[i].seq # x
                 PROVE  q[i].seq \in Numbers(s, short)
      BY DEF Numbers
    <3>1. i - 1 \in DOMAIN short /\ short[i - 1] = q[i]
      BY <1>1
    <3> QED
      BY <3>1 DEF Numbers
  <2>3. \A y \in Numbers(s, short) : y \in Numbers(s, q)
    <3> SUFFICES ASSUME NEW i \in DOMAIN short, NoteOf(s, short[i])
                 PROVE  short[i].seq \in Numbers(s, q)
      BY DEF Numbers
    <3>1. i + 1 \in DOMAIN q /\ short[i] = q[i + 1]
      BY <1>1
    <3> QED
      BY <3>1 DEF Numbers
  <2> QED
    BY <2>1, <2>2, <2>3
<1>4. \A y \in Numbers(s, short) : x < y
  <2> SUFFICES ASSUME NEW i \in DOMAIN short, NoteOf(s, short[i])
               PROVE  x < short[i].seq
    BY DEF Numbers
  <2>1. i + 1 \in DOMAIN q /\ short[i] = q[i + 1] /\ 1 < i + 1
    BY <1>1, <1>2
  <2> QED
    BY <1>1, <2>1 DEF Rising
<1>5. x = b + 1 /\ b + 1 <= c /\ Numbers(s, short) = (b + 2)..c
  <2>1. x \in (b + 1)..c /\ \A y \in (b + 1)..c : y \in Numbers(s, short) \/ y = x
    BY <1>3
  <2>2. b + 1 \in (b + 1)..c
    BY <2>1
  <2>3. x = b + 1
    BY <1>4, <2>1, <2>2
  <2>4. Numbers(s, short) \subseteq (b + 1)..c
    BY <1>3
  <2>5. \A y : y \in Numbers(s, short) <=> y \in (b + 2)..c
    BY <1>4, <2>1, <2>3, <2>4
  <2>6. Numbers(s, short) = (b + 2)..c
    BY <2>5, Zenon
  <2>7. b + 1 <= c
    BY <2>2
  <2> QED
    BY <2>3, <2>6, <2>7
<1>6. Rising(s, short)
  <2> SUFFICES ASSUME NEW i \in DOMAIN short, NEW j \in DOMAIN short, i < j,
                      NoteOf(s, short[i]), NoteOf(s, short[j])
               PROVE  short[i].seq < short[j].seq
    BY DEF Rising
  <2>1. /\ i + 1 \in DOMAIN q /\ short[i] = q[i + 1]
        /\ j + 1 \in DOMAIN q /\ short[j] = q[j + 1] /\ i + 1 < j + 1
    BY <1>1
  <2> QED
    BY <2>1 DEF Rising
<1> QED
  BY <1>5, <1>6 DEF short

\* A message that is none of its notifications may go.
LEMMA OtherGone ==
  ASSUME NEW q \in Seq(Message), q # <<>>, NEW s, ~NoteOf(s, Head(q))
  PROVE  Numbers(s, Tail(q)) = Numbers(s, q) /\ (Rising(s, q) => Rising(s, Tail(q)))
<1> DEFINE short == Tail(q)
<1>1. /\ 1 \in DOMAIN q /\ Head(q) = q[1]
      /\ \A i \in DOMAIN short : i \in Nat /\ i + 1 \in DOMAIN q /\ short[i] = q[i + 1]
      /\ \A i \in DOMAIN q : i # 1 =>
           i \in Nat /\ i - 1 \in DOMAIN short /\ short[i - 1] = q[i] /\ i > 1
  BY TailAt
<1> HIDE DEF short
<1>2. \A y \in Numbers(s, q) : y \in Numbers(s, short)
  <2> SUFFICES ASSUME NEW i \in DOMAIN q, NoteOf(s, q[i])
               PROVE  q[i].seq \in Numbers(s, short)
    BY DEF Numbers
  <2>1. i - 1 \in DOMAIN short /\ short[i - 1] = q[i]
    BY <1>1
  <2> QED
    BY <2>1 DEF Numbers
<1>3. \A y \in Numbers(s, short) : y \in Numbers(s, q)
  <2> SUFFICES ASSUME NEW i \in DOMAIN short, NoteOf(s, short[i])
               PROVE  short[i].seq \in Numbers(s, q)
    BY DEF Numbers
  <2>1. i + 1 \in DOMAIN q /\ short[i] = q[i + 1]
    BY <1>1
  <2> QED
    BY <2>1 DEF Numbers
<1>4. Rising(s, q) => Rising(s, short)
  <2> SUFFICES ASSUME Rising(s, q), NEW i \in DOMAIN short, NEW j \in DOMAIN short, i < j,
                      NoteOf(s, short[i]), NoteOf(s, short[j])
               PROVE  short[i].seq < short[j].seq
    BY DEF Rising
  <2>1. /\ i + 1 \in DOMAIN q /\ short[i] = q[i + 1]
        /\ j + 1 \in DOMAIN q /\ short[j] = q[j + 1] /\ i + 1 < j + 1
    BY <1>1
  <2> QED
    BY <2>1 DEF Rising
<1> QED
  BY <1>2, <1>3, <1>4 DEF short

\* A list with no notification of a subscription has no numbers.
LEMMA NoNumbers ==
  ASSUME NEW q, NEW s, \A i \in DOMAIN q : ~NoteOf(s, q[i])
  PROVE  Numbers(s, q) = {} /\ Rising(s, q)
BY DEF Numbers, Rising

\* A step that sends, takes and keeps no message; at most a subscribe stores the id its
\* answer gave it.
Quiet ==
  /\ UNCHANGED <<queue, wire, granted, gave, sent>>
  /\ \A c \in Calls :
       /\ pc'[c] \in Unasked => pc[c] \in Unasked
       /\ pc[c] = "answered" => pc'[c] = "answered"
       /\ via'[c] = via[c] \/ pc[c] \in Unasked
       /\ fut'[c] = "answered" => fut[c] = "answered"
       /\ c \in listeners' => c \in listeners \/ pc[c] \in Unasked
       /\ \A n \in Conns : c \in inbox'[n] =>
            /\ via'[c] = n /\ pc'[c] \notin Unasked
            /\ c \in inbox[n] \/ pc[c] \in Unasked
  /\ \A s \in Subscribes :
       \/ sid'[s] = sid[s]
       \/ /\ sid[s] = NoSid /\ fut[s] = "answered"
          /\ sid'[s] = gave[s] /\ pc'[s] = "answered"
  /\ \A n \in Conns : /\ reader[n] = "ended" => reader'[n] = "ended"
                      /\ sock'[n] = "open" => sock[n] \in {"open", "dialing"}
  /\ isClosed => isClosed'

\* The messages of a wire, and what they are of.
LEMMA OnWire ==
  ASSUME TypeOK, NEW n \in Conns, NEW i \in DOMAIN wire[n]
  PROVE  /\ wire[n][i] \in Message /\ wire[n][i].of \in Calls
         /\ wire[n][i].sid # NoSid =>
              wire[n][i] \in Item /\ wire[n][i].sid \in Sids /\ wire[n][i].of \in Subscribes
<1>1. wire[n] \in Seq(Message)
  BY DEF TypeOK
<1>2. wire[n][i] \in Message
  BY <1>1
<1> HIDE DEF Calls
<1>3. wire[n][i] \in [sid : {NoSid}, of : Calls, result : {"answered", "refused"}]
      \/ wire[n][i] \in Item
  BY <1>2 DEF Message
<1>4. ASSUME wire[n][i] \in [sid : {NoSid}, of : Calls, result : {"answered", "refused"}]
      PROVE  wire[n][i].sid = NoSid /\ wire[n][i].of \in Calls
  BY <1>4
<1>5. ASSUME wire[n][i] \in Item
      PROVE  wire[n][i].sid \in Sids /\ wire[n][i].of \in Subscribes
  BY <1>5 DEF Item
<1> QED
  BY <1>2, <1>3, <1>4, <1>5 DEF Calls

\* Nothing of a call that was not asked is on a wire or in a queue.
LEMMA NothingYet ==
  ASSUME TypeOK, Asked, Stored, NEW s \in Subscribes, pc[s] \in Unasked
  PROVE  /\ queue[s] = <<>> /\ sid[s] = NoSid
         /\ Numbers(s, queue[s]) = {} /\ Rising(s, queue[s])
         /\ \A n \in Conns : Numbers(s, wire[n]) = {} /\ Rising(s, wire[n])
<1>1. Silent(s)
  BY DEF Asked
<1>2. sid[s] = NoSid /\ queue[s] = <<>>
  BY DEF Stored, Unasked
<1>3. \A i \in DOMAIN queue[s] : ~NoteOf(s, queue[s][i])
  BY <1>2
<1>4. \A n \in Conns : \A i \in DOMAIN wire[n] : ~NoteOf(s, wire[n][i])
  BY <1>1 DEF Silent, NoteOf
<1> QED
  BY <1>2, <1>3, <1>4, NoNumbers

\* Such a step leaves every stream as it was; what a subscribe listens for begins empty.
LEMMA QuietKeeps ==
  ASSUME IInv, SInv, Quiet, Located'
  PROVE  SInv'
<1>0. TypeOK /\ Asked /\ Said /\ Given /\ Stored /\ Located /\ Succession /\ Flow /\ Strangers
  BY DEF IInv, SInv
<1>1. /\ UNCHANGED <<queue, wire, granted, gave, sent>>
      /\ \A c \in Calls :
           /\ pc'[c] \in Unasked => pc[c] \in Unasked
           /\ pc[c] = "answered" => pc'[c] = "answered"
           /\ via'[c] = via[c] \/ pc[c] \in Unasked
           /\ fut'[c] = "answered" => fut[c] = "answered"
  BY DEF Quiet
<1>2. Asked'
  BY <1>0, <1>1 DEF Quiet, Asked, Silent
<1>3. ASSUME NEW n \in Conns, NEW i \in DOMAIN wire[n]
      PROVE  via'[wire[n][i].of] = via[wire[n][i].of] /\ wire[n][i].of \in Calls
  <2>1. wire[n][i].of \in Calls
    BY <1>0, OnWire
  <2>2. pc[wire[n][i].of] \notin Unasked
    BY <1>0, <2>1 DEF Asked, Silent
  <2> QED
    BY <1>1, <2>1, <2>2
<1>4. Said'
  <2> SUFFICES ASSUME NEW n \in Conns, NEW i \in DOMAIN wire[n]
               PROVE  LET m == wire[n][i]
                      IN  /\ via'[m.of] = n
                          /\ m.sid # NoSid => gave[m.of] = m.sid
                          /\ \A s \in Subscribes : AnswerTo(s, m) =>
                               /\ gave[s] \in Sids /\ sid'[s] = NoSid /\ fut'[s] # "answered"
                               /\ \A j \in DOMAIN wire[n] : AnswerTo(s, wire[n][j]) => j = i
    BY <1>1 DEF Said, AnswerTo
  <2>1. via'[wire[n][i].of] = n
    BY <1>0, <1>3 DEF Said
  <2>2. \A s \in Subscribes : AnswerTo(s, wire[n][i]) => sid'[s] = NoSid /\ fut'[s] # "answered"
    BY <1>0, <1>1 DEF Said, Quiet
  <2> QED
    BY <1>0, <2>1, <2>2 DEF Said
<1>5. Given'
  <2> SUFFICES ASSUME NEW n \in Conns, NEW k \in Sids, granted[n][k] # NoCall
               PROVE  gave[granted[n][k]] = k /\ via'[granted[n][k]] = n
    BY <1>1 DEF Given
  <2>1. granted[n][k] \in Subscribes
    BY <1>0 DEF TypeOK
  <2>2. gave[granted[n][k]] = k /\ via[granted[n][k]] = n
    BY <1>0 DEF Given
  <2>3. pc[granted[n][k]] \notin Unasked
    BY <1>0, <2>1, <2>2, NullsAreOutside DEF Asked
  <2> QED
    BY <1>1, <2>1, <2>2, <2>3
<1>6. Stored'
  <2> SUFFICES ASSUME NEW s \in Subscribes
               PROVE  /\ sid'[s] # NoSid => sid'[s] = gave[s] /\ pc'[s] = "answered"
                      /\ fut'[s] = "answered" => gave[s] \in Sids
                      /\ sid'[s] = NoSid => queue[s] = <<>>
    BY <1>1 DEF Stored
  <2>1. CASE sid'[s] = sid[s]
    BY <1>0, <1>1, <2>1 DEF Stored
  <2>2. CASE sid'[s] # sid[s]
    <3>1. sid[s] = NoSid /\ fut[s] = "answered" /\ sid'[s] = gave[s] /\ pc'[s] = "answered"
      BY <2>2 DEF Quiet
    <3> QED
      BY <1>0, <3>1 DEF Stored
  <2> QED
    BY <2>1, <2>2
<1>7. Succession'
  BY <1>0, <1>1 DEF Succession, AnswerTo
<1>8. Flow'
  <2> SUFFICES ASSUME NEW s \in Subscribes
               PROVE  \E a, b \in Nat : /\ Numbers(s, queue[s]) = (a + 1)..b /\ a <= b
                                        /\ Rising(s, queue[s])
                                        /\ s \in listeners' /\ via'[s] \in Conns => Follows(s, b)'
    BY <1>1 DEF Flow, Numbers, Rising, NoteOf
  <2>1. CASE pc[s] \in Unasked
    <3>1. PICK b \in Nat : b = sent[s] /\ (b + 1)..b = {} /\ b <= b
      <4>1. sent[s] \in Nat
        BY <1>0 DEF TypeOK
      <4> QED
        BY <4>1
    <3>2. /\ Numbers(s, queue[s]) = {} /\ Rising(s, queue[s])
          /\ \A n \in Conns : Numbers(s, wire[n]) = {} /\ Rising(s, wire[n])
      BY <1>0, <2>1, NothingYet
    <3>3. ASSUME via'[s] \in Conns PROVE Follows(s, b)'
      <4>1. Numbers(s, wire[via'[s]]) = (b + 1)..b /\ Rising(s, wire[via'[s]])
        BY <3>1, <3>2, <3>3
      <4> QED
        BY <1>1, <3>1, <4>1 DEF Follows, Numbers, Rising, NoteOf
    <3> QED
      BY <3>1, <3>2, <3>3
  <2>2. CASE pc[s] \notin Unasked
    <3>1. PICK a \in Nat, b \in Nat :
            /\ Numbers(s, queue[s]) = (a + 1)..b /\ a <= b
            /\ Rising(s, queue[s])
            /\ s \in listeners /\ via[s] \in Conns => Follows(s, b)
      BY <1>0 DEF Flow
    <3>2. via'[s] = via[s] /\ (s \in listeners' => s \in listeners)
      BY <1>1, <2>2 DEF Quiet
    <3>3. ASSUME via[s] \in Conns, sock'[via[s]] = "open"
          PROVE  sock[via[s]] = "open"
      BY <1>0, <2>2, <3>3 DEF Quiet, Located, Unasked
    <3>4. ASSUME s \in listeners', via'[s] \in Conns
          PROVE  Follows(s, b)'
      <4>1. via[s] \in Conns /\ Follows(s, b)
        BY <3>1, <3>2, <3>4
      <4>2. sock'[via[s]] = "open" => sock[via[s]] = "open"
        BY <3>3, <4>1
      <4> QED
        BY <1>1, <3>2, <4>1, <4>2 DEF Follows, Numbers, Rising, NoteOf
    <3> QED
      BY <3>1, <3>4
  <2> QED
    BY <2>1, <2>2
<1>9. Strangers'
  <2> SUFFICES ASSUME NEW s \in Subscribes, Own(s) # DOMAIN queue[s], ~isClosed'
               PROVE  sid'[s] \in Sids /\ (reader'[via'[s]] = "ended"
                                            \/ granted[via'[s]][sid'[s]] # s)
    BY <1>1 DEF Strangers, Own
  <2>1. sid[s] \in Sids /\ (reader[via[s]] = "ended" \/ granted[via[s]][sid[s]] # s)
    BY <1>0 DEF Strangers, Quiet
  <2>2. sid[s] # NoSid
    BY <2>1, NullsAreOutside
  <2>3. pc[s] = "answered" /\ sid'[s] = sid[s]
    BY <1>0, <2>2 DEF Stored, Quiet
  <2>4. via'[s] = via[s] /\ via[s] \in Conns
    BY <1>0, <1>1, <2>3 DEF Located, Unasked
  <2> QED
    BY <2>1, <2>3, <2>4 DEF Quiet
<1> QED
  BY <1>2, <1>4, <1>5, <1>6, <1>7, <1>8, <1>9 DEF SInv

\* A coroutine that ends stores at most the id its answer gave it.
LEMMA FinishQuiet ==
  ASSUME IInv, SInv, NEW c \in Calls, NEW r, r \in Outcomes, Finish(c, r),
         pc[c] \in InFlight, r = "answered" => via'[c] \in Conns,
         UNCHANGED <<queue, peer, isClosed, reader>>,
         \/ UNCHANGED sid
         \/ /\ c \in Subscribes /\ sid' = [sid EXCEPT ![c] = gave[c]]
            /\ fut[c] = "answered" /\ r = "answered",
         \/ UNCHANGED <<via, sock>> /\ pc[c] \in Sent
         \/ /\ pc[c] \in {"locking", "dialing"} /\ via' = [via EXCEPT ![c] = NoConn]
            /\ \A n \in Conns : sock'[n] = sock[n] \/ sock'[n] = "broken"
  PROVE  Quiet /\ Located'
<1> USE DEF TypeOK, Unasked
<1>0. TypeOK /\ Asked /\ Stored /\ Located /\ Futures /\ Subscribes \subseteq Calls
  BY DEF IInv, SInv
<1>1. /\ \A d \in Calls : d # c => pc'[d] = pc[d] /\ fut'[d] = fut[d] /\ via'[d] = via[d]
      /\ pc'[c] = r /\ fut'[c] = "unset"
      /\ listeners' \subseteq listeners
  BY <1>0 DEF Finish, ListenersAfter
<1>2. /\ r \notin Unasked /\ r # "dialing" /\ r \notin Sent
      /\ pc[c] # "answered"
  OBVIOUS
<1>3. via'[c] = via[c] \/ (via'[c] = NoConn /\ pc[c] \in Unasked)
  BY <1>0
<1>4. \A n \in Conns : c \in inbox[n] => pc[c] \notin Unasked /\ via[c] = n
  BY <1>0 DEF Asked
<1>5. ASSUME NEW s \in Subscribes
      PROVE  \/ sid'[s] = sid[s]
             \/ /\ sid[s] = NoSid /\ fut[s] = "answered"
                /\ sid'[s] = gave[s] /\ pc'[s] = "answered"
  <2>1. CASE UNCHANGED sid
    BY <2>1
  <2>2. CASE ~UNCHANGED sid
    <3>1. c \in Subscribes /\ sid' = [sid EXCEPT ![c] = gave[c]] /\ fut[c] = "answered"
          /\ r = "answered"
      BY <2>2
    <3>2. sid[c] = NoSid
      BY <1>0, <1>2, <3>1 DEF Stored
    <3> QED
      BY <1>0, <1>1, <3>1, <3>2
  <2> QED
    BY <2>1, <2>2
<1>6. \A n \in Conns : sock'[n] = sock[n] \/ sock'[n] = "broken"
  OBVIOUS
<1>7. Quiet
  <2>1. ASSUME NEW d \in Calls
        PROVE  /\ pc'[d] \in Unasked => pc[d] \in Unasked
               /\ pc[d] = "answered" => pc'[d] = "answered"
               /\ via'[d] = via[d] \/ pc[d] \in Unasked
               /\ fut'[d] = "answered" => fut[d] = "answered"
               /\ d \in listeners' => d \in listeners \/ pc[d] \in Unasked
    <3>1. CASE d = c
      BY <1>0, <1>1, <1>2, <1>3, <3>1
    <3>2. CASE d # c
      BY <1>0, <1>1, <3>2
    <3> QED
      BY <3>1, <3>2
  <2>2. ASSUME NEW d \in Calls, NEW n \in Conns, d \in inbox'[n]
        PROVE  via'[d] = n /\ pc'[d] \notin Unasked /\ d \in inbox[n]
    <3>1. d \in inbox[n] /\ via[d] = n /\ pc[d] \notin Unasked
      BY <1>0, <2>2 DEF Asked
    <3> QED
      BY <2>1, <3>1
  <2>3. /\ UNCHANGED <<queue, wire, granted, gave, sent>> /\ (isClosed => isClosed')
        /\ \A n \in Conns : /\ reader[n] = "ended" => reader'[n] = "ended"
                            /\ sock'[n] = "open" => sock[n] \in {"open", "dialing"}
    BY <1>6
  <2> HIDE DEF Unasked
  <2> QED
    BY <1>5, <2>1, <2>2, <2>3 DEF Quiet
<1>8. Located'
  <2>1. ASSUME NEW d \in Calls
        PROVE  /\ pc'[d] \in Sent \cup {"answered"} => via'[d] \in Conns
               /\ via'[d] \in Conns /\ pc'[d] # "dialing" => reader[via'[d]] # "none"
    <3>1. CASE d = c
      <4>1. CASE via'[c] = NoConn
        BY <1>1, <1>2, <3>1, <4>1, NullsAreOutside
      <4>2. CASE via'[c] # NoConn
        <5>1. UNCHANGED via /\ via'[c] = via[c] /\ pc[c] \in Sent
          BY <1>0, <4>2
        <5>2. ASSUME via[c] \in Conns PROVE reader[via[c]] # "none"
          BY <1>0, <5>1, <5>2 DEF Located
        <5> QED
          BY <1>1, <1>2, <3>1, <5>1, <5>2
      <4> QED
        BY <4>1, <4>2
    <3>2. CASE d # c
      BY <1>0, <1>1, <3>2 DEF Located
    <3> QED
      BY <3>1, <3>2
  <2>2. \A n \in Conns : reader[n] # "none" => sock'[n] \notin {"unused", "dialing"}
    BY <1>0, <1>6 DEF Located
  <2> QED
    BY <2>1, <2>2 DEF Located
<1> QED
  BY <1>7, <1>8

\* A call begins, waits for the lock, or has its request under way.
LEMMA BeginQuiet ==
  ASSUME IInv, SInv, NEW c \in Calls,
         \/ BeginRefused(c) \/ BeginConnected(c) \/ BeginLocked(c) \/ AcquireConnected(c)
         \/ SendDone(c) \/ Dialed(c)
         \/ \E n \in Conns : BeginDial(c, n) \/ AcquireDial(c, n)
  PROVE  Quiet /\ Located'
<1> USE DEF TypeOK, Unasked
<1>0. TypeOK /\ Asked /\ Stored /\ Located /\ Locked /\ ConnectionIsRead
      /\ Subscribes \subseteq Calls
  BY DEF IInv, SInv, Readers
<1>1. CASE BeginRefused(c)
  <2>1. /\ UNCHANGED <<queue, sid, connecting, via, fut, listeners, peer>> /\ pc[c] = "idle"
        /\ pc' = [pc EXCEPT ![c] = "failed"]
    BY <1>1 DEF BeginRefused, Call
  <2>2. Quiet
    BY <1>0, <2>1 DEF Quiet, Asked
  <2>3. Located'
    BY <1>0, <2>1 DEF Located
  <2> QED
    BY <2>2, <2>3
<1>2. CASE BeginConnected(c) \/ AcquireConnected(c)
  <2>1. /\ UNCHANGED <<queue, sid, connecting, fut, peer>> /\ pc[c] \in {"idle", "locking"}
        /\ connection # NoConn
        /\ pc' = [pc EXCEPT ![c] = "sending"] /\ via' = [via EXCEPT ![c] = connection]
        /\ listeners' \subseteq listeners \cup {c}
    BY <1>2 DEF BeginConnected, AcquireConnected, Call, Register, Listening, ConnectedUnderLock
  <2>2. connection \in Conns /\ reader[connection] = "running"
    BY <1>0, <2>1 DEF ConnectionIsRead
  <2>3. Quiet
    BY <1>0, <2>1 DEF Quiet, Asked
  <2>4. Located'
    BY <1>0, <2>1, <2>2 DEF Located
  <2> QED
    BY <2>3, <2>4
<1>3. CASE BeginLocked(c)
  <2>1. /\ UNCHANGED <<queue, sid, connecting, via, fut, peer>> /\ pc[c] = "idle"
        /\ pc' = [pc EXCEPT ![c] = "locking"] /\ listeners' \subseteq listeners \cup {c}
    BY <1>3 DEF BeginLocked, Call, Listening
  <2>2. Quiet
    BY <1>0, <2>1 DEF Quiet, Asked
  <2>3. Located'
    BY <1>0, <2>1 DEF Located
  <2> QED
    BY <2>2, <2>3
<1>4. ASSUME NEW n \in Conns, BeginDial(c, n) \/ AcquireDial(c, n)
      PROVE  Quiet /\ Located'
  <2>1. /\ UNCHANGED <<queue, sid, isClosed, reader, fut, peer>>
        /\ pc[c] \in {"idle", "locking"} /\ sock[n] = "unused"
        /\ pc' = [pc EXCEPT ![c] = "dialing"] /\ via' = [via EXCEPT ![c] = n]
        /\ sock' = [sock EXCEPT ![n] = "dialing"]
        /\ listeners' \subseteq listeners \cup {c}
    BY <1>4 DEF BeginDial, AcquireDial, Call, Dial, Listening
  <2>2. Quiet
    BY <1>0, <2>1 DEF Quiet, Asked
  <2>3. Located'
    BY <1>0, <2>1 DEF Located
  <2> QED
    BY <2>2, <2>3
<1>5. CASE Dialed(c)
  <2> DEFINE n == via[c]
  <2>1. /\ UNCHANGED <<queue, sid, isClosed, fut, listeners, peer>> /\ pc[c] = "dialing"
        /\ pc' = [pc EXCEPT ![c] = "sending"] /\ via' = [via EXCEPT ![c] = n]
        /\ sock' = [sock EXCEPT ![n] = "open"] /\ reader' = [reader EXCEPT ![n] = "running"]
    BY <1>5 DEF Dialed, Register
  <2>2. n \in Conns /\ sock[n] = "dialing" /\ reader[n] = "none"
    BY <1>0, <2>1 DEF Locked, Located
  <2>3. Quiet
    BY <1>0, <2>1, <2>2 DEF Quiet, Asked
  <2>4. Located'
    BY <1>0, <2>1, <2>2 DEF Located
  <2> QED
    BY <2>3, <2>4
<1>6. CASE SendDone(c)
  <2>1. /\ UNCHANGED <<queue, sid, connecting, via, fut, listeners, wire, granted, gave, sent>>
        /\ pc[c] = "sending" /\ pc' = [pc EXCEPT ![c] = "waiting"]
        /\ inbox' = [inbox EXCEPT ![via[c]] = @ \cup {c}]
    BY <1>6 DEF SendDone
  <2>2. via[c] \in Conns
    BY <1>0, <2>1 DEF Located
  <2>3. Quiet
    BY <1>0, <2>1, <2>2 DEF Quiet, Asked
  <2>4. Located'
    BY <1>0, <2>1 DEF Located
  <2> QED
    BY <2>3, <2>4
<1> QED
  BY <1>1, <1>2, <1>3, <1>4, <1>5, <1>6

\* So is the end of one, however it ends.
LEMMA EndQuiet ==
  ASSUME IInv, SInv, NEW c \in Calls,
         NotDialed(c) \/ SendFailed(c) \/ Wake(c) \/ Expire(c) \/ Cancel(c)
  PROVE  Quiet /\ Located'
<1>0. TypeOK /\ Located /\ Locked
  BY DEF IInv, SInv
<1>1. CASE NotDialed(c)
  <2>1. PICK r \in {"failed", "cancelled"} : Finish(c, r)
    BY <1>1 DEF NotDialed
  <2>2. /\ pc[c] \in {"locking", "dialing"} /\ via' = [via EXCEPT ![c] = NoConn]
        /\ UNCHANGED <<queue, peer, isClosed, reader, sid>>
        /\ sock' = IF pc[c] = "dialing" THEN [sock EXCEPT ![via[c]] = "broken"] ELSE sock
    BY <1>1 DEF NotDialed
  <2>3. \A n \in Conns : sock'[n] = sock[n] \/ sock'[n] = "broken"
    BY <1>0, <2>2 DEF TypeOK
  <2>4. r \in Outcomes /\ r # "answered" /\ pc[c] \in InFlight
    BY <2>2
  <2> HIDE DEF Outcomes, InFlight, peer
  <2> QED
    BY <2>1, <2>2, <2>3, <2>4, FinishQuiet
<1>2. CASE SendFailed(c) \/ Expire(c) \/ Cancel(c)
  <2>1. PICK r \in {"failed", "cancelled"} : Finish(c, r)
    BY <1>2 DEF SendFailed, Expire, Cancel
  <2>2. pc[c] \in Sent /\ UNCHANGED <<queue, peer, isClosed, reader, sid, via, sock>>
    BY <1>2 DEF SendFailed, Expire, Cancel
  <2>3. r \in Outcomes /\ r # "answered" /\ pc[c] \in InFlight
    BY <2>2
  <2> HIDE DEF Outcomes, InFlight, peer
  <2> QED
    BY <2>1, <2>2, <2>3, FinishQuiet
<1>3. CASE Wake(c)
  <2>1. PICK r \in {"answered", "failed"} :
          Finish(c, r) /\ (r = "answered" <=> fut[c] = "answered")
    BY <1>3 DEF Wake
  <2>2. /\ pc[c] = "waiting" /\ UNCHANGED <<queue, peer, isClosed, reader, via, sock>>
        /\ sid' = IF c \in Subscribes /\ fut[c] = "answered"
                    THEN [sid EXCEPT ![c] = gave[c]] ELSE sid
    BY <1>3 DEF Wake
  <2>3. r \in Outcomes /\ pc[c] \in InFlight /\ via[c] \in Conns
    BY <1>0, <2>2 DEF Located
  <2>4. \/ UNCHANGED sid
        \/ /\ c \in Subscribes /\ sid' = [sid EXCEPT ![c] = gave[c]]
           /\ fut[c] = "answered" /\ r = "answered"
    BY <2>1, <2>2
  <2> HIDE DEF Outcomes, InFlight, peer
  <2> QED
    BY <2>1, <2>2, <2>3, <2>4, FinishQuiet
<1> QED
  BY <1>1, <1>2, <1>3

\* So are the end of a reader, close(), and a connection that is lost with nothing under way.
LEMMA OtherQuiet ==
  ASSUME IInv, SInv,
         \/ \E n \in Conns : ReadEnd(n) \/ (Leave(n) /\ UNCHANGED wire)
         \/ Close \/ CloseHandshake \/ CloseReader \/ CloseLast
  PROVE  Quiet /\ Located'
<1> USE DEF TypeOK, Unasked
<1>0. TypeOK /\ Asked /\ Located /\ Subscribes \subseteq Calls
  BY DEF IInv, SInv
<1>1. /\ UNCHANGED <<queue, sid, via, peer, pc>> /\ (isClosed => isClosed')
      /\ listeners' \subseteq listeners
  BY DEF ReadEnd, Leave, Close, CloseHandshake, CloseReader, CloseLast
<1>2. \A c \in Calls : fut'[c] = "answered" => fut[c] = "answered"
  BY <1>0 DEF ReadEnd, Leave, Close, CloseHandshake, CloseReader, CloseLast, Cut
<1>3. \A n \in Conns : reader'[n] = reader[n] \/ (reader[n] = "running" /\ reader'[n] = "ended")
  BY <1>0 DEF ReadEnd, Leave, Close, CloseHandshake, CloseReader, CloseLast
<1>4. \A n \in Conns : sock'[n] = sock[n] \/ sock'[n] \in {"clean", "broken"}
  BY <1>0 DEF ReadEnd, Leave, Close, CloseHandshake, CloseReader, CloseLast
<1>5. Quiet
  <2>1. \A n \in Conns : /\ reader[n] = "ended" => reader'[n] = "ended"
                         /\ sock'[n] = "open" => sock[n] \in {"open", "dialing"}
    BY <1>3, <1>4
  <2>2. \A c \in Calls, n \in Conns : c \in inbox[n] => via[c] = n /\ pc[c] \notin Unasked
    BY <1>0 DEF Asked
  <2>3. ASSUME NEW c \in Calls
        PROVE  /\ pc'[c] \in Unasked => pc[c] \in Unasked
               /\ pc[c] = "answered" => pc'[c] = "answered"
               /\ via'[c] = via[c] \/ pc[c] \in Unasked
               /\ fut'[c] = "answered" => fut[c] = "answered"
               /\ c \in listeners' => c \in listeners \/ pc[c] \in Unasked
               /\ \A n \in Conns : c \in inbox'[n] =>
                    /\ via'[c] = n /\ pc'[c] \notin Unasked
                    /\ c \in inbox[n] \/ pc[c] \in Unasked
    BY <1>1, <1>2, <2>2
  <2>4. /\ UNCHANGED <<queue, wire, granted, gave, sent>> /\ (isClosed => isClosed')
        /\ \A s \in Subscribes : sid'[s] = sid[s]
    BY <1>1
  <2> HIDE DEF Unasked, Calls, Sent
  <2> QED
    BY <2>1, <2>3, <2>4 DEF Quiet
<1>6. Located'
  <2>1. \A n \in Conns : reader'[n] # "none" <=> reader[n] # "none"
    BY <1>3
  <2>2. \A n \in Conns : sock[n] \notin {"unused", "dialing"} =>
                         sock'[n] \notin {"unused", "dialing"}
    BY <1>4
  <2>3. \A c \in Calls : pc'[c] = pc[c] /\ via'[c] = via[c]
    BY <1>1
  <2>4. \A c \in Calls : /\ pc[c] \in Sent \cup {"answered"} => via[c] \in Conns
                         /\ via[c] \in Conns /\ pc[c] # "dialing" => reader'[via[c]] # "none"
    BY <1>0, <2>1 DEF Located
  <2>5. \A n \in Conns : reader'[n] # "none" => sock'[n] \notin {"unused", "dialing"}
    BY <1>0, <2>1, <2>2 DEF Located
  <2> HIDE DEF Sent
  <2> QED
    BY <2>3, <2>4, <2>5 DEF Located
<1> QED
  BY <1>5, <1>6

\* When a reader takes a message, nothing else is said, asked or given.
LEMMA TakenKeeps ==
  ASSUME TypeOK, Asked, Said, Given, Succession, NEW n \in Conns, wire[n] # <<>>,
         wire' = [wire EXCEPT ![n] = Tail(@)],
         UNCHANGED <<pc, via, inbox, granted, gave, sid>>,
         \A s \in Subscribes :
           fut'[s] = "answered" => fut[s] = "answered" \/ AnswerTo(s, Head(wire[n]))
  PROVE  Asked' /\ Said' /\ Given' /\ Succession'
<1> DEFINE by(k) == IF k = n THEN 1 ELSE 0
           after == wire'
<1>1. wire \in [Conns -> Seq(Message)] /\ wire[n] \in Seq(Message)
  BY DEF TypeOK
<1>2. /\ after[n] = Tail(wire[n]) /\ \A k \in Conns : k # n => after[k] = wire[k]
      /\ \A k \in Conns : by(k) \in Nat
  BY <1>1
<1>3. \A k \in Conns : \A i \in DOMAIN after[k] :
        i \in Nat /\ i + by(k) \in DOMAIN wire[k] /\ after[k][i] = wire[k][i + by(k)]
  <2> SUFFICES ASSUME NEW k \in Conns, NEW i \in DOMAIN after[k]
               PROVE  /\ i \in Nat /\ i + by(k) \in DOMAIN wire[k]
                      /\ after[k][i] = wire[k][i + by(k)]
    OBVIOUS
  <2>1. CASE k = n
    BY <1>1, <1>2, <2>1, TailAt
  <2>2. CASE k # n
    BY <1>1, <1>2, <2>2
  <2> QED
    BY <2>1, <2>2
<1>4. \A k \in Conns : \A j \in DOMAIN wire[k] :
        /\ j \in Nat
        /\ j > 1 \/ k # n => j - by(k) \in DOMAIN after[k] /\ after[k][j - by(k)] = wire[k][j]
  <2> SUFFICES ASSUME NEW k \in Conns, NEW j \in DOMAIN wire[k]
               PROVE  /\ j \in Nat
                      /\ j > 1 \/ k # n =>
                           j - by(k) \in DOMAIN after[k] /\ after[k][j - by(k)] = wire[k][j]
    OBVIOUS
  <2>0. j \in Nat /\ (j > 1 => j # 1)
    BY <1>1
  <2>1. CASE k = n
    BY <1>1, <1>2, <2>0, <2>1, TailAt
  <2>2. CASE k # n
    BY <1>1, <1>2, <2>0, <2>2
  <2> QED
    BY <2>1, <2>2
<1>5. 1 \in DOMAIN wire[n] /\ Head(wire[n]) = wire[n][1] /\ by(n) = 1
      /\ \A i \in DOMAIN after[n] : i > 0
  BY <1>1, <1>2, TailAt
<1>6. UNCHANGED <<pc, via, inbox, granted, gave, sid>>
  OBVIOUS
<1> HIDE DEF by, after
<1>7. Asked'
  <2>1. \A c \in Calls : Silent(c) => Silent(c)'
    BY <1>3 DEF Silent, after
  <2> QED
    BY <1>6, <2>1 DEF Asked
<1>8. Said'
  <2> SUFFICES ASSUME NEW k \in Conns, NEW i \in DOMAIN after[k]
               PROVE  LET m == after[k][i]
                      IN  /\ via[m.of] = k
                          /\ m.sid # NoSid => gave[m.of] = m.sid
                          /\ \A s \in Subscribes : AnswerTo(s, m) =>
                               /\ gave[s] \in Sids /\ sid[s] = NoSid /\ fut'[s] # "answered"
                               /\ \A j \in DOMAIN after[k] : AnswerTo(s, after[k][j]) => j = i
    BY <1>6 DEF Said, AnswerTo, after
  <2>1. PICK h \in DOMAIN wire[k] : h = i + by(k) /\ after[k][i] = wire[k][h] /\ i \in Nat
    BY <1>3
  <2>2. /\ via[after[k][i].of] = k
        /\ after[k][i].sid # NoSid => gave[after[k][i].of] = after[k][i].sid
    BY <2>1 DEF Said
  <2>3. ASSUME NEW s \in Subscribes, AnswerTo(s, after[k][i])
        PROVE  /\ gave[s] \in Sids /\ sid[s] = NoSid /\ fut'[s] # "answered"
               /\ \A j \in DOMAIN after[k] : AnswerTo(s, after[k][j]) => j = i
    <3>1. /\ gave[s] \in Sids /\ sid[s] = NoSid /\ fut[s] # "answered"
          /\ \A j \in DOMAIN wire[k] : AnswerTo(s, wire[k][j]) => j = h
      BY <2>1, <2>3 DEF Said
    <3>2. ASSUME NEW j \in DOMAIN after[k], AnswerTo(s, after[k][j])
          PROVE  j = i
      <4>1. j + by(k) = h /\ j \in Nat
        BY <1>3, <3>1, <3>2
      <4> QED
        BY <1>2, <2>1, <4>1
    <3>3. ASSUME AnswerTo(s, wire[n][1])
          PROVE  FALSE
      <4>1. via[s] = n /\ via[s] = k
        BY <1>5, <2>2, <2>3, <3>3 DEF Said, AnswerTo
      <4>2. h = 1 /\ by(k) = 1 /\ i > 0
        BY <1>5, <3>1, <3>3, <4>1
      <4> QED
        BY <2>1, <4>2
    <3> QED
      BY <1>5, <3>1, <3>2, <3>3
  <2> QED
    BY <2>2, <2>3
<1>9. Given'
  BY <1>6 DEF Given
<1>10. Succession'
  <2> SUFFICES ASSUME NEW k \in Conns, NEW i \in DOMAIN after[k],
                      after[k][i].sid # NoSid, NEW s, s = granted[k][after[k][i].sid],
                      s # NoCall, s # after[k][i].of
               PROVE  \E j \in DOMAIN after[k] : i < j /\ AnswerTo(s, after[k][j])
    BY <1>6 DEF Succession, AnswerTo, after
  <2>1. PICK h \in DOMAIN wire[k] : h = i + by(k) /\ after[k][i] = wire[k][h] /\ i \in Nat
    BY <1>3
  <2>2. PICK j \in DOMAIN wire[k] : h < j /\ AnswerTo(s, wire[k][j])
    BY <2>1 DEF Succession
  <2>3. j \in Nat /\ (j > 1 \/ k # n) /\ i < j - by(k)
    <3>1. j \in Nat /\ h \in Nat /\ by(k) \in Nat
      BY <1>2, <1>4
    <3>2. k = n => h > 1
      BY <1>5, <2>1
    <3> QED
      BY <2>1, <2>2, <3>1, <3>2
  <2> QED
    BY <1>4, <2>2, <2>3
<1> QED
  BY <1>7, <1>8, <1>9, <1>10

\* What follows in the queue of a subscription is not changed by a message of another.
LEMMA OtherFollows ==
  ASSUME TypeOK, NEW n \in Conns, wire[n] # <<>>, wire' = [wire EXCEPT ![n] = Tail(@)],
         UNCHANGED <<via, sent, sock>>,
         NEW s \in Subscribes, ~NoteOf(s, Head(wire[n])), via[s] \in Conns,
         NEW b \in Nat, Follows(s, b)
  PROVE  Follows(s, b)'
<1> DEFINE m == Head(wire[n])
<1>1. wire \in [Conns -> Seq(Message)] /\ wire[n] \in Seq(Message) /\ ~NoteOf(s, m)
  BY DEF TypeOK
<1> HIDE DEF m
<1>2. /\ Numbers(s, wire'[via[s]]) = Numbers(s, wire[via[s]])
      /\ Rising(s, wire[via[s]]) => Rising(s, wire'[via[s]])
  <2>1. CASE via[s] = n
    <3>1. wire'[via[s]] = Tail(wire[n])
      BY <1>1, <2>1
    <3> QED
      BY <1>1, <2>1, <3>1, OtherGone DEF m
  <2>2. CASE via[s] # n
    BY <1>1, <2>2
  <2> QED
    BY <2>1, <2>2
<1>3. PICK c \in Nat : /\ b <= c /\ c <= sent[s] /\ (sock[via[s]] = "open" => c = sent[s])
                       /\ Numbers(s, wire[via[s]]) = (b + 1)..c
                       /\ Rising(s, wire[via[s]])
  BY DEF Follows
<1>4. Numbers(s, wire'[via[s]]) = (b + 1)..c /\ Rising(s, wire'[via[s]])
  BY <1>2, <1>3
<1> QED
  BY <1>3, <1>4 DEF Follows, Numbers, Rising, NoteOf

\* Nothing else happens to the flow of a subscription whose queue stays as it is.
LEMMA FlowKept ==
  ASSUME Flow, UNCHANGED <<queue, listeners, via>>,
         ASSUME NEW s \in Subscribes, NEW b \in Nat, via[s] \in Conns, Follows(s, b)
         PROVE  Follows(s, b)'
  PROVE  Flow'
<1> SUFFICES ASSUME NEW s \in Subscribes
             PROVE  \E a, b \in Nat : /\ Numbers(s, queue[s]) = (a + 1)..b /\ a <= b
                                      /\ Rising(s, queue[s])
                                      /\ s \in listeners /\ via[s] \in Conns => Follows(s, b)'
  BY DEF Flow, Numbers, Rising, NoteOf
<1>1. PICK a \in Nat, b \in Nat :
        /\ Numbers(s, queue[s]) = (a + 1)..b /\ a <= b
        /\ Rising(s, queue[s])
        /\ s \in listeners /\ via[s] \in Conns => Follows(s, b)
  BY DEF Flow
<1> QED
  BY <1>1

\* A response that is taken sets the future of its own call and moves no notification.
LEMMA ReadResponseKeeps ==
  ASSUME IInv, SInv, NEW n \in Conns, ReadResponse(n)
  PROVE  SInv'
<1>0. /\ TypeOK /\ Asked /\ Said /\ Given /\ Stored /\ Located /\ Succession /\ Flow
      /\ Strangers /\ Subscribes \subseteq Calls
  BY DEF IInv, SInv
<1> DEFINE m == Head(wire[n])
<1>1. /\ wire[n] # <<>> /\ m.sid = NoSid
      /\ wire' = [wire EXCEPT ![n] = Tail(@)]
      /\ fut' = IF m.of \in pending /\ fut[m.of] = "unset"
                  THEN [fut EXCEPT ![m.of] = m.result] ELSE fut
      /\ UNCHANGED <<connecting, pc, via, subs, inbox, granted, gave, sent>>
  BY DEF ReadResponse
<1>2. /\ wire \in [Conns -> Seq(Message)] /\ wire[n] \in Seq(Message)
      /\ fut \in [Calls -> {"unset", "answered", "refused", "cut", "closed"}]
  BY <1>0 DEF TypeOK
<1> HIDE DEF m
<1>3. \A s \in Subscribes : fut'[s] = "answered" => fut[s] = "answered" \/ AnswerTo(s, m)
  <2> SUFFICES ASSUME NEW s \in Subscribes, fut'[s] = "answered", fut[s] # "answered"
               PROVE  AnswerTo(s, m)
    OBVIOUS
  <2>1. m.of = s /\ m.result = "answered"
    BY <1>0, <1>1, <1>2
  <2> QED
    BY <1>1, <2>1 DEF AnswerTo
<1>4. Asked' /\ Said' /\ Given' /\ Succession'
  BY <1>0, <1>1, <1>3, TakenKeeps DEF m
<1>5. Stored'
  <2>1. \A s \in Subscribes : AnswerTo(s, m) => gave[s] \in Sids
    <3>1. 1 \in DOMAIN wire[n] /\ m = wire[n][1]
      BY <1>1, <1>2, TailAt DEF m
    <3> QED
      BY <1>0, <3>1 DEF Said
  <2> QED
    BY <1>0, <1>1, <1>3, <2>1 DEF Stored
<1>6. Located' /\ Strangers'
  BY <1>0, <1>1 DEF Located, Strangers, Own
<1>7. Flow'
  <2>0. \A s : ~NoteOf(s, m)
    BY <1>1 DEF NoteOf
  <2>1. ASSUME NEW s \in Subscribes, NEW b \in Nat, via[s] \in Conns, Follows(s, b)
        PROVE  Follows(s, b)'
    BY <1>0, <1>1, <2>0, <2>1, OtherFollows DEF m
  <2> QED
    BY <1>0, <1>1, <2>1, FlowKept
<1> QED
  BY <1>4, <1>5, <1>6, <1>7 DEF SInv

\* A notification that is taken is the next of its subscription, and it goes to its queue or
\* comes before its first; it goes to another only when the id is no longer that one's.
LEMMA ReadNoteKeeps ==
  ASSUME IInv, SInv, NEW n \in Conns, ReadNote(n)
  PROVE  SInv'
<1>0. /\ TypeOK /\ Asked /\ Said /\ Given /\ Stored /\ Located /\ Succession /\ Flow
      /\ Strangers /\ Readers /\ Subscribes \subseteq Calls
  BY DEF IInv, SInv
<1> DEFINE m == Head(wire[n])
           takes(s) == s \in listeners /\ sid[s] = m.sid
<1>1. /\ reader[n] = "running" /\ wire[n] # <<>> /\ m.sid # NoSid
      /\ wire' = [wire EXCEPT ![n] = Tail(@)]
      /\ queue' = [s \in Subscribes |-> IF takes(s) THEN Append(queue[s], m) ELSE queue[s]]
      /\ UNCHANGED <<connecting, calls, listeners, sid, ended, closer, inbox, granted, gave, sent>>
  BY DEF ReadNote, Matches
<1>2. /\ wire \in [Conns -> Seq(Message)] /\ wire[n] \in Seq(Message)
      /\ queue \in [Subscribes -> Seq(Item)]
      /\ 1 \in DOMAIN wire[n] /\ m = wire[n][1]
  BY <1>0, <1>1, TailAt DEF TypeOK
<1>3. m \in Item /\ m.sid \in Sids /\ m.of \in Subscribes
  BY <1>0, <1>1, <1>2, OnWire
<1> HIDE DEF m
<1>4. gave[m.of] = m.sid /\ via[m.of] = n
  BY <1>0, <1>1, <1>2 DEF Said
<1>5. \A s \in Subscribes : /\ takes(s) => queue'[s] = Append(queue[s], m)
                            /\ ~takes(s) => queue'[s] = queue[s]
                            /\ NoteOf(s, m) <=> m.of = s
  BY <1>1 DEF NoteOf
<1>6. \A s \in Subscribes : takes(s) => s \in listeners /\ sid[s] = m.sid /\ sid[s] # NoSid
  BY <1>1
<1>7. \A s \in Subscribes : ~takes(s) /\ s \in listeners => sid[s] # m.sid
  OBVIOUS
<1> HIDE DEF takes
<1>8. Asked' /\ Said' /\ Given' /\ Succession'
  BY <1>0, <1>1, TakenKeeps DEF m
<1>9. Stored' /\ Located'
  BY <1>0, <1>1, <1>5, <1>6 DEF Stored, Located
<1>10. Flow'
  <2>0. UNCHANGED <<listeners, via, sent, sock>>
    BY <1>1
  <2> SUFFICES ASSUME NEW s \in Subscribes
               PROVE  \E a, b \in Nat : /\ Numbers(s, queue'[s]) = (a + 1)..b /\ a <= b
                                        /\ Rising(s, queue'[s])
                                        /\ s \in listeners /\ via[s] \in Conns => Follows(s, b)'
    BY <2>0 DEF Flow, Numbers, Rising, NoteOf
  <2>1. PICK a \in Nat, b \in Nat :
          /\ Numbers(s, queue[s]) = (a + 1)..b /\ a <= b
          /\ Rising(s, queue[s])
          /\ s \in listeners /\ via[s] \in Conns => Follows(s, b)
    BY <1>0 DEF Flow
  <2>2. CASE ~NoteOf(s, m)
    <3>1. Numbers(s, queue'[s]) = Numbers(s, queue[s]) /\ Rising(s, queue'[s])
      <4>1. queue[s] \in Seq(Item)
        BY <1>2
      <4>2. /\ Numbers(s, Append(queue[s], m)) = Numbers(s, queue[s])
            /\ Rising(s, queue[s]) => Rising(s, Append(queue[s], m))
        BY <1>3, <2>2, <4>1, NumbersGrow
      <4> QED
        BY <1>5, <2>1, <4>2
    <3>2. ASSUME s \in listeners, via[s] \in Conns
          PROVE  Follows(s, b)'
      BY <1>0, <1>1, <2>0, <2>1, <2>2, <3>2, OtherFollows DEF m
    <3> QED
      BY <2>1, <3>1, <3>2
  <2>3. CASE NoteOf(s, m) /\ s \notin listeners
    <3>1. queue'[s] = queue[s]
      BY <1>5, <1>6, <2>3
    <3> QED
      BY <2>1, <2>3, <3>1
  <2>4. CASE NoteOf(s, m) /\ s \in listeners
    <3>1. via[s] = n /\ gave[s] = m.sid
      BY <1>4, <1>5, <2>4
    <3>2. PICK c \in Nat : /\ b <= c /\ c <= sent[s] /\ (sock[n] = "open" => c = sent[s])
                           /\ Numbers(s, wire[n]) = (b + 1)..c
                           /\ Rising(s, wire[n])
      BY <2>1, <2>4, <3>1 DEF Follows
    <3>3. /\ m.seq = b + 1 /\ b + 1 <= c
          /\ Numbers(s, Tail(wire[n])) = (b + 2)..c /\ Rising(s, Tail(wire[n]))
      <4>1. PICK q \in Seq(Message) : q = wire[n]
        BY <1>2
      <4>2. /\ q # <<>> /\ NoteOf(s, Head(q)) /\ Rising(s, q)
            /\ Numbers(s, q) = (b + 1)..c /\ m = Head(q)
        BY <1>1, <2>4, <3>2, <4>1 DEF m
      <4>3. /\ Head(q).seq = b + 1 /\ b + 1 <= c
            /\ Numbers(s, Tail(q)) = (b + 2)..c /\ Rising(s, Tail(q))
        <5> HIDE DEF Message
        <5> QED
          BY <4>2, OwnTaken
      <4> QED
        BY <4>1, <4>2, <4>3
    <3>4. PICK e \in Nat : e = b + 1 /\ e <= c /\ e + 1 = b + 2
      BY <3>3
    <3>5. Numbers(s, wire'[n]) = (e + 1)..c /\ Rising(s, wire'[n])
      BY <1>1, <1>2, <3>3, <3>4
    <3>6. Follows(s, e)'
      BY <2>0, <3>1, <3>2, <3>4, <3>5 DEF Follows, Numbers, Rising, NoteOf
    <3>7. CASE takes(s)
      <4>1. queue'[s] = Append(queue[s], m)
        BY <1>5, <3>7
      <4>2. /\ Numbers(s, queue'[s]) = Numbers(s, queue[s]) \cup {m.seq}
            /\ (\A x \in Numbers(s, queue[s]) : x < m.seq) => Rising(s, queue'[s])
        <5>1. queue[s] \in Seq(Item)
          BY <1>2
        <5>2. /\ Numbers(s, Append(queue[s], m)) = Numbers(s, queue[s]) \cup {m.seq}
              /\ Rising(s, queue[s]) /\ (\A x \in Numbers(s, queue[s]) : x < m.seq) =>
                   Rising(s, Append(queue[s], m))
          BY <1>3, <2>4, <5>1, NumbersGrow
        <5> QED
          BY <2>1, <4>1, <5>2
      <4>3. (a + 1)..b \cup {m.seq} = (a + 1)..e /\ a <= e
        BY <2>1, <3>3, <3>4
      <4>4. \A x \in (a + 1)..b : x < m.seq
        BY <2>1, <3>3
      <4> QED
        BY <2>1, <3>4, <3>6, <4>2, <4>3, <4>4
    <3>8. CASE ~takes(s)
      <4>1. sid[s] = NoSid
        BY <1>0, <1>7, <2>4, <3>1, <3>8 DEF Stored
      <4>2. queue'[s] = <<>>
        BY <1>0, <1>5, <3>8, <4>1 DEF Stored
      <4>3. Numbers(s, queue'[s]) = {} /\ Rising(s, queue'[s])
        BY <4>2, NoNumbers
      <4>4. (e + 1)..e = {} /\ e <= e
        BY <3>4
      <4> QED
        BY <3>6, <4>3, <4>4
    <3> QED
      BY <3>7, <3>8
  <2> QED
    BY <2>2, <2>3, <2>4
<1>11. Strangers'
  <2>0. UNCHANGED <<isClosed, sid, reader, via, granted>>
    BY <1>1
  <2> SUFFICES ASSUME NEW s \in Subscribes, Own(s)' # DOMAIN queue'[s], ~isClosed
               PROVE  sid[s] \in Sids /\ (reader[via[s]] = "ended" \/ granted[via[s]][sid[s]] # s)
    BY <2>0 DEF Strangers
  <2>1. CASE Own(s) # DOMAIN queue[s]
    BY <1>0, <2>1 DEF Strangers
  <2>2. CASE Own(s) = DOMAIN queue[s]
    <3>1. takes(s) /\ queue'[s] = Append(queue[s], m)
      BY <1>5, <2>2 DEF Own
    <3>2. m.of # s
      <4> SUFFICES ASSUME m.of = s
                   PROVE  \A i \in DOMAIN queue'[s] : queue'[s][i].of = s
        BY DEF Own
      <4>1. \A i \in DOMAIN queue[s] : queue[s][i].of = s
        BY <2>2 DEF Own
      <4> QED
        BY <1>2, <1>3, <3>1, <4>1, AppendAt
    <3>3. sid[s] = m.sid /\ sid[s] \in Sids /\ sid[s] # NoSid /\ pc[s] = "answered"
      BY <1>0, <1>3, <1>6, <3>1 DEF Stored
    <3>4. via[s] \in Conns /\ reader[via[s]] # "none"
      BY <1>0, <3>3 DEF Located
    <3>5. CASE via[s] = n
      <4>1. ASSUME granted[n][m.sid] = s
            PROVE  FALSE
        <5>1. s # NoCall
          BY <1>0, NullsAreOutside
        <5>2. PICK j \in DOMAIN wire[n] : AnswerTo(s, wire[n][j])
          BY <1>0, <1>1, <1>2, <3>2, <4>1, <5>1 DEF Succession
        <5> QED
          BY <1>0, <3>3, <5>2 DEF Said
      <4> QED
        BY <3>3, <3>5, <4>1
    <3>6. CASE via[s] # n
      <4>1. reader[via[s]] # "running"
        BY <1>0, <1>1, <3>4, <3>6 DEF Readers
      <4>2. reader[via[s]] \in {"none", "running", "ended"}
        BY <1>0, <3>4 DEF TypeOK
      <4> QED
        BY <3>3, <3>4, <4>1, <4>2
    <3> QED
      BY <3>5, <3>6
  <2> QED
    BY <2>1, <2>2
<1> QED
  BY <1>8, <1>9, <1>10, <1>11 DEF SInv

\* A message of another that a peer sends changes nothing of what follows either.
LEMMA AddedFollows ==
  ASSUME TypeOK, NEW n \in Conns, NEW m \in Message,
         wire'[n] = Append(wire[n], m), \A k \in Conns : k # n => wire'[k] = wire[k],
         UNCHANGED <<via, sock>>,
         NEW s \in Subscribes, ~NoteOf(s, m), sent'[s] = sent[s], via[s] \in Conns,
         NEW b \in Nat, Follows(s, b)
  PROVE  Follows(s, b)'
<1>1. wire \in [Conns -> Seq(Message)] /\ wire[n] \in Seq(Message)
  BY DEF TypeOK
<1>2. /\ Numbers(s, wire'[via[s]]) = Numbers(s, wire[via[s]])
      /\ Rising(s, wire[via[s]]) => Rising(s, wire'[via[s]])
  <2>1. CASE via[s] = n
    <3>1. wire'[via[s]] = Append(wire[n], m)
      BY <1>1, <2>1
    <3> HIDE DEF Message
    <3>2. /\ Numbers(s, Append(wire[n], m)) = Numbers(s, wire[n])
          /\ Rising(s, wire[n]) => Rising(s, Append(wire[n], m))
      BY <1>1, NumbersGrow
    <3> QED
      BY <2>1, <3>1, <3>2
  <2>2. CASE via[s] # n
    BY <1>1, <2>2
  <2> QED
    BY <2>1, <2>2
<1>3. PICK c \in Nat : /\ b <= c /\ c <= sent[s] /\ (sock[via[s]] = "open" => c = sent[s])
                       /\ Numbers(s, wire[via[s]]) = (b + 1)..c
                       /\ Rising(s, wire[via[s]])
  BY DEF Follows
<1>4. Numbers(s, wire'[via[s]]) = (b + 1)..c /\ Rising(s, wire'[via[s]])
  BY <1>2, <1>3
<1> QED
  BY <1>3, <1>4 DEF Follows, Numbers, Rising, NoteOf

\* Where the messages of the wires are once a peer has sent one more.
LEMMA AddedAt ==
  ASSUME TypeOK, NEW n \in Conns, NEW m \in Message, wire'[n] = Append(wire[n], m),
         \A k \in Conns : k # n => wire'[k] = wire[k]
  PROVE  \E l \in Nat :
           /\ l \in DOMAIN wire'[n] /\ wire'[n][l] = m
           /\ \A k \in Conns : \A i \in DOMAIN wire[k] :
                i \in DOMAIN wire'[k] /\ wire'[k][i] = wire[k][i] /\ (k = n => i < l)
           /\ \A k \in Conns : \A i \in DOMAIN wire'[k] :
                i \in DOMAIN wire[k] \/ (k = n /\ i = l)
<1>1. wire \in [Conns -> Seq(Message)] /\ wire[n] \in Seq(Message)
  BY DEF TypeOK
<1>2. wire'[n] = Append(wire[n], m) /\ \A k \in Conns : k # n => wire'[k] = wire[k]
  OBVIOUS
<1> HIDE DEF Message
<1>3. PICK l \in Nat : l = Len(wire[n]) + 1
  BY <1>1
<1>4. /\ l \in DOMAIN wire'[n] /\ wire'[n][l] = m
      /\ \A i \in DOMAIN wire[n] : i < l /\ i \in DOMAIN wire'[n] /\ wire'[n][i] = wire[n][i]
      /\ \A i \in DOMAIN wire'[n] : i = l \/ i \in DOMAIN wire[n]
  BY <1>1, <1>2, <1>3, AppendAt
<1> QED
  BY <1>2, <1>4

\* A call is answered once, and an id is given to one that has none.
LEMMA AnswerKeeps ==
  ASSUME IInv, SInv, NEW n \in Conns, NEW c \in Calls, NEW r \in {"answered", "refused"},
         c \in inbox[n],
         \A d \in Calls, q \in Conns : d \in inbox'[q] <=> d \in inbox[q] /\ (d # c \/ q # n),
         wire'[n] = Append(wire[n], Response(c, r)),
         \A k \in Conns : k # n => wire'[k] = wire[k],
         UNCHANGED <<connecting, calls, subs, sent>>,
         \A s \in Subscribes : s # c => gave'[s] = gave[s],
         c \in Subscribes /\ r = "answered" => gave'[c] \in Sids,
         \A q \in Conns, k \in Sids :
           \/ granted'[q][k] \in {granted[q][k], NoCall}
           \/ /\ q = n /\ granted'[q][k] = c /\ c \in Subscribes
              /\ r = "answered" /\ gave'[c] = k
  PROVE  SInv'
<1>0. /\ TypeOK /\ Asked /\ Said /\ Given /\ Stored /\ Located /\ Succession /\ Flow
      /\ Strangers /\ Subscribes \subseteq Calls
  BY DEF IInv, SInv
<1> DEFINE m == Response(c, r)
<1>1. m.sid = NoSid /\ m.of = c /\ m.result = r /\ \A s : ~NoteOf(s, m)
  BY DEF Response, NoteOf
<1>2. m \in Message
  BY DEF Response, Message
<1>3. wire'[n] = Append(wire[n], m) /\ \A k \in Conns : k # n => wire'[k] = wire[k]
  OBVIOUS
<1> HIDE DEF m
<1>4. /\ via[c] = n /\ pc[c] \notin Unasked /\ Silent(c)
      /\ c \in Subscribes => gave[c] = NoSid /\ sid[c] = NoSid /\ fut[c] # "answered"
  BY <1>0, NullsAreOutside DEF Asked, Stored
<1>5. /\ UNCHANGED <<pc, via, fut, sid, queue, listeners, sent, sock, reader, isClosed>>
      /\ \A d \in Calls, q \in Conns :
           d \in inbox'[q] <=> d \in inbox[q] /\ (d # c \/ q # n)
  OBVIOUS
<1>6. PICK l \in Nat :
           /\ l \in DOMAIN wire'[n] /\ wire'[n][l] = m
           /\ \A k \in Conns : \A i \in DOMAIN wire[k] :
                i \in DOMAIN wire'[k] /\ wire'[k][i] = wire[k][i] /\ (k = n => i < l)
           /\ \A k \in Conns : \A i \in DOMAIN wire'[k] :
                i \in DOMAIN wire[k] \/ (k = n /\ i = l)
  <2> HIDE DEF Message
  <2> QED
    BY <1>0, <1>2, <1>3, AddedAt
<1>7. Asked'
  <2> SUFFICES ASSUME NEW d \in Calls
               PROVE  /\ pc[d] \in Unasked => \A q \in Conns : d \notin inbox'[q]
                      /\ \A q \in Conns : d \in inbox'[q] => via[d] = q
                      /\ (pc[d] \in Unasked \/ \E q \in Conns : d \in inbox'[q]) =>
                           Silent(d)' /\ (d \in Subscribes => gave'[d] = NoSid)
    BY <1>5 DEF Asked, Silent
  <2>1. /\ pc[d] \in Unasked => \A q \in Conns : d \notin inbox'[q]
        /\ \A q \in Conns : d \in inbox'[q] => via[d] = q
    BY <1>0, <1>5 DEF Asked
  <2>2. ASSUME pc[d] \in Unasked \/ \E q \in Conns : d \in inbox'[q]
        PROVE  Silent(d)' /\ (d \in Subscribes => gave'[d] = NoSid)
    <3>1. d # c
      BY <1>0, <1>4, <1>5, <2>2 DEF Asked
    <3>2. Silent(d) /\ (d \in Subscribes => gave[d] = NoSid)
      BY <1>0, <1>5, <2>2 DEF Asked
    <3>3. Silent(d)'
      BY <1>1, <1>6, <3>1, <3>2 DEF Silent
    <3> QED
      BY <3>1, <3>2, <3>3
  <2> QED
    BY <2>1, <2>2
<1>8. Said'
  <2> SUFFICES ASSUME NEW k \in Conns, NEW i \in DOMAIN wire'[k]
               PROVE  LET w == wire'[k][i]
                      IN  /\ via[w.of] = k
                          /\ w.sid # NoSid => gave'[w.of] = w.sid
                          /\ \A s \in Subscribes : AnswerTo(s, w) =>
                               /\ gave'[s] \in Sids /\ sid[s] = NoSid /\ fut[s] # "answered"
                               /\ \A j \in DOMAIN wire'[k] : AnswerTo(s, wire'[k][j]) => j = i
    BY <1>5 DEF Said, AnswerTo
  <2>1. CASE i \in DOMAIN wire[k]
    <3> DEFINE w == wire[k][i]
    <3>1. wire'[k][i] = w /\ w.of # c /\ w.of \in Calls
      BY <1>0, <1>4, <1>6, <2>1, OnWire DEF Silent
    <3>2. via[w.of] = k /\ (w.sid # NoSid => gave'[w.of] = w.sid)
      BY <1>0, <2>1, <3>1, OnWire DEF Said
    <3>3. ASSUME NEW s \in Subscribes, AnswerTo(s, w)
          PROVE  /\ gave'[s] \in Sids /\ sid[s] = NoSid /\ fut[s] # "answered"
                 /\ \A j \in DOMAIN wire'[k] : AnswerTo(s, wire'[k][j]) => j = i
      <4>1. s # c
        BY <3>1, <3>3 DEF AnswerTo
      <4>2. /\ gave[s] \in Sids /\ sid[s] = NoSid /\ fut[s] # "answered"
            /\ \A j \in DOMAIN wire[k] : AnswerTo(s, wire[k][j]) => j = i
        BY <1>0, <2>1, <3>3 DEF Said
      <4>3. ~AnswerTo(s, m)
        BY <1>1, <4>1 DEF AnswerTo
      <4> QED
        BY <1>6, <4>1, <4>2, <4>3
    <3> HIDE DEF w
    <3> QED
      BY <3>1, <3>2, <3>3
  <2>2. CASE i \notin DOMAIN wire[k]
    <3>1. k = n /\ i = l /\ wire'[k][i] = m
      BY <1>6, <2>2
    <3>2. ASSUME NEW s \in Subscribes, AnswerTo(s, m)
          PROVE  /\ gave'[s] \in Sids /\ sid[s] = NoSid /\ fut[s] # "answered"
                 /\ \A j \in DOMAIN wire'[k] : AnswerTo(s, wire'[k][j]) => j = i
      <4>1. s = c /\ r = "answered"
        BY <1>1, <3>2 DEF AnswerTo
      <4>2. ASSUME NEW j \in DOMAIN wire'[k], AnswerTo(s, wire'[k][j])
            PROVE  j = i
        BY <1>4, <1>6, <3>1, <4>1, <4>2 DEF Silent, AnswerTo
      <4> QED
        BY <1>4, <4>1, <4>2
    <3> QED
      BY <1>1, <1>4, <3>1, <3>2
  <2> QED
    BY <2>1, <2>2
<1>9. Given'
  <2> SUFFICES ASSUME NEW q \in Conns, NEW k \in Sids, granted'[q][k] # NoCall
               PROVE  gave'[granted'[q][k]] = k /\ via[granted'[q][k]] = q
    BY <1>5 DEF Given
  <2>1. CASE granted'[q][k] = granted[q][k]
    <3>1. granted[q][k] \in Subscribes
      BY <1>0, <2>1 DEF TypeOK
    <3>2. gave[granted[q][k]] = k /\ via[granted[q][k]] = q
      BY <1>0, <2>1 DEF Given
    <3>3. granted[q][k] # c
      BY <1>4, <3>1, <3>2, NullsAreOutside
    <3> QED
      BY <2>1, <3>1, <3>2, <3>3
  <2>2. CASE granted'[q][k] # granted[q][k]
    BY <1>4, <2>2
  <2> QED
    BY <2>1, <2>2
<1>10. Stored'
  BY <1>0, <1>4, <1>5 DEF Stored
<1>11. Located'
  BY <1>0, <1>5 DEF Located
<1>12. Succession'
  <2> SUFFICES ASSUME NEW k \in Conns, NEW i \in DOMAIN wire'[k], wire'[k][i].sid # NoSid,
                      NEW s, s = granted'[k][wire'[k][i].sid],
                      s # NoCall, s # wire'[k][i].of
               PROVE  \E j \in DOMAIN wire'[k] : i < j /\ AnswerTo(s, wire'[k][j])
    BY DEF Succession, AnswerTo
  <2>1. i \in DOMAIN wire[k] /\ wire'[k][i] = wire[k][i] /\ wire[k][i].sid \in Sids
    BY <1>0, <1>1, <1>6, OnWire
  <2>2. CASE s = granted[k][wire[k][i].sid]
    <3>1. PICK j \in DOMAIN wire[k] : i < j /\ AnswerTo(s, wire[k][j])
      BY <1>0, <2>1, <2>2 DEF Succession
    <3> QED
      BY <1>6, <3>1
  <2>3. CASE s # granted[k][wire[k][i].sid]
    <3>1. k = n /\ s = c /\ r = "answered"
      BY <2>1, <2>3
    <3> QED
      BY <1>1, <1>6, <2>1, <3>1 DEF AnswerTo
  <2> QED
    BY <2>2, <2>3
<1>13. Flow'
  <2>1. ASSUME NEW s \in Subscribes, NEW b \in Nat, via[s] \in Conns, Follows(s, b)
        PROVE  Follows(s, b)'
    BY <1>0, <1>1, <1>2, <1>3, <1>5, <2>1, AddedFollows
  <2> QED
    BY <1>0, <1>5, <2>1, FlowKept
<1>14. Strangers'
  <2> SUFFICES ASSUME NEW s \in Subscribes, Own(s) # DOMAIN queue[s], ~isClosed
               PROVE  sid[s] \in Sids /\ (reader[via[s]] = "ended" \/ granted'[via[s]][sid[s]] # s)
    BY <1>5 DEF Strangers, Own
  <2>1. sid[s] \in Sids /\ (reader[via[s]] = "ended" \/ granted[via[s]][sid[s]] # s)
    BY <1>0 DEF Strangers
  <2>2. via[s] \in Conns /\ sid[s] # NoSid
    BY <1>0, <2>1, NullsAreOutside DEF Stored, Located
  <2>3. s # c /\ s # NoCall
    BY <1>0, <1>4, <2>2, NullsAreOutside
  <2> QED
    BY <2>1, <2>2, <2>3
<1> QED
  BY <1>7, <1>8, <1>9, <1>10, <1>11, <1>12, <1>13, <1>14 DEF SInv

\* The three ways a peer may answer: refuse, give out an id, take one back.
LEMMA ServeKeeps ==
  ASSUME IInv, SInv, NEW n \in Conns, NEW c \in Calls, Serve(n, c)
  PROVE  SInv'
<1>0. TypeOK
  BY DEF IInv
<1>1. /\ c \in inbox[n] /\ UNCHANGED <<connecting, calls, subs, sent>>
      /\ \A d \in Calls, q \in Conns : d \in inbox'[q] <=> d \in inbox[q] /\ (d # c \/ q # n)
  BY <1>0 DEF Serve, TypeOK
<1>2. CASE /\ wire' = [wire EXCEPT ![n] = Append(@, Response(c, "refused"))]
           /\ UNCHANGED <<granted, gave>>
  <2>1. /\ wire'[n] = Append(wire[n], Response(c, "refused"))
        /\ \A q \in Conns : q # n => wire'[q] = wire[q]
    BY <1>0, <1>2 DEF TypeOK
  <2> QED
    BY <1>1, <1>2, <2>1, AnswerKeeps
<1>3. CASE /\ c \in Subscribes
           /\ \E k \in Sids : /\ granted[n][k] = NoCall
                              /\ granted' = [granted EXCEPT ![n][k] = c]
                              /\ gave' = [gave EXCEPT ![c] = k]
           /\ wire' = [wire EXCEPT ![n] = Append(@, Response(c, "answered"))]
  <2>0. PICK r \in {"answered", "refused"} : r = "answered"
    OBVIOUS
  <2>1. PICK k \in Sids : granted' = [granted EXCEPT ![n][k] = c] /\ gave' = [gave EXCEPT ![c] = k]
    BY <1>3
  <2>2. /\ \A s \in Subscribes : s # c => gave'[s] = gave[s]
        /\ gave'[c] \in Sids
    BY <1>0, <1>3, <2>1 DEF TypeOK
  <2>3. \A q \in Conns, i \in Sids :
          \/ granted'[q][i] \in {granted[q][i], NoCall}
          \/ /\ q = n /\ granted'[q][i] = c /\ c \in Subscribes
             /\ r = "answered" /\ gave'[c] = i
    BY <1>0, <1>3, <2>0, <2>1 DEF TypeOK
  <2>4. /\ wire'[n] = Append(wire[n], Response(c, r))
        /\ \A q \in Conns : q # n => wire'[q] = wire[q]
    BY <1>0, <1>3, <2>0 DEF TypeOK
  <2> QED
    BY <1>1, <2>2, <2>3, <2>4, AnswerKeeps
<1>4. CASE /\ c \in Unsubscribes
           /\ granted' = [granted EXCEPT ![n][sid[target[c]]] = NoCall]
           /\ wire' = [wire EXCEPT ![n] = Append(@, Response(c, "answered"))]
           /\ UNCHANGED gave
  <2>1. c \notin Subscribes
    BY <1>4, KindsDisjoint
  <2>2. \A q \in Conns, i \in Sids : granted'[q][i] \in {granted[q][i], NoCall}
    BY <1>0, <1>4 DEF TypeOK
  <2>3. /\ wire'[n] = Append(wire[n], Response(c, "answered"))
        /\ \A q \in Conns : q # n => wire'[q] = wire[q]
    BY <1>0, <1>4 DEF TypeOK
  <2> QED
    BY <1>1, <1>4, <2>1, <2>2, <2>3, AnswerKeeps
<1> QED
  BY <1>2, <1>3, <1>4 DEF Serve

\* A notification has the next number of its subscription.
LEMMA NotifyKeeps ==
  ASSUME IInv, SInv, NEW n \in Conns, NEW k \in Sids, Notify(n, k)
  PROVE  SInv'
<1>0. /\ TypeOK /\ Asked /\ Said /\ Given /\ Stored /\ Located /\ Succession /\ Flow
      /\ Strangers /\ Subscribes \subseteq Calls
  BY DEF IInv, SInv
<1>1. PICK o \in Subscribes : o = granted[n][k]
  BY <1>0 DEF TypeOK, Notify
<1>2. PICK x \in Nat : x = sent[o] + 1
  BY <1>0 DEF TypeOK
<1>3. PICK m : m = [sid |-> k, of |-> o, seq |-> x]
  OBVIOUS
<1>4. m.sid = k /\ m.of = o /\ m.seq = x /\ m \in Item /\ m \in Message /\ k # NoSid
  BY <1>3, NullsAreOutside DEF Item, Message
<1>5. /\ \A s \in Subscribes : s # o => sent'[s] = sent[s]
      /\ sent'[o] = x
  BY <1>0, <1>1, <1>2 DEF Notify, TypeOK
<1>6. /\ sock[n] = "open" /\ wire' = [wire EXCEPT ![n] = Append(@, m)]
      /\ UNCHANGED <<connecting, calls, subs, closer, inbox, granted, gave>>
  BY <1>1, <1>3, <1>5 DEF Notify, Note
<1>7. gave[o] = k /\ via[o] = n
  BY <1>0, <1>1, NullsAreOutside DEF Given
<1>8. /\ wire \in [Conns -> Seq(Message)] /\ wire[n] \in Seq(Message)
      /\ wire'[n] = Append(wire[n], m) /\ \A q \in Conns : q # n => wire'[q] = wire[q]
  BY <1>0, <1>6 DEF TypeOK
<1>9. PICK l \in Nat :
           /\ l \in DOMAIN wire'[n] /\ wire'[n][l] = m
           /\ \A q \in Conns : \A i \in DOMAIN wire[q] :
                i \in DOMAIN wire'[q] /\ wire'[q][i] = wire[q][i] /\ (q = n => i < l)
           /\ \A q \in Conns : \A i \in DOMAIN wire'[q] :
                i \in DOMAIN wire[q] \/ (q = n /\ i = l)
  <2>1. /\ TypeOK /\ m \in Message /\ wire'[n] = Append(wire[n], m)
        /\ \A q \in Conns : q # n => wire'[q] = wire[q]
    BY <1>0, <1>4, <1>8
  <2> HIDE DEF Message
  <2> QED
    BY <2>1, AddedAt
<1>10. \A s : ~AnswerTo(s, m) /\ (NoteOf(s, m) <=> s = o)
  BY <1>4 DEF AnswerTo, NoteOf
<1>11. UNCHANGED <<pc, via, inbox, granted, gave, fut, sid, queue, listeners, sock, reader,
                   isClosed>>
  BY <1>6
<1>12. Asked'
  <2> SUFFICES ASSUME NEW c \in Calls, pc[c] \in Unasked \/ \E q \in Conns : c \in inbox[q]
               PROVE  Silent(c)'
    BY <1>0, <1>11 DEF Asked
  <2>1. Silent(c) /\ c # o
    BY <1>0, <1>4, <1>7 DEF Asked
  <2> QED
    BY <1>4, <1>9, <2>1 DEF Silent
<1>13. Said'
  <2> SUFFICES ASSUME NEW q \in Conns, NEW i \in DOMAIN wire'[q]
               PROVE  LET w == wire'[q][i]
                      IN  /\ via[w.of] = q
                          /\ w.sid # NoSid => gave[w.of] = w.sid
                          /\ \A s \in Subscribes : AnswerTo(s, w) =>
                               /\ gave[s] \in Sids /\ sid[s] = NoSid /\ fut[s] # "answered"
                               /\ \A j \in DOMAIN wire'[q] : AnswerTo(s, wire'[q][j]) => j = i
    BY <1>11 DEF Said, AnswerTo
  <2>1. CASE i \in DOMAIN wire[q]
    <3>1. wire'[q][i] = wire[q][i]
      BY <1>9, <2>1
    <3>2. /\ via[wire[q][i].of] = q
          /\ wire[q][i].sid # NoSid => gave[wire[q][i].of] = wire[q][i].sid
      BY <1>0, <2>1 DEF Said
    <3>3. ASSUME NEW s \in Subscribes, AnswerTo(s, wire[q][i])
          PROVE  /\ gave[s] \in Sids /\ sid[s] = NoSid /\ fut[s] # "answered"
                 /\ \A j \in DOMAIN wire'[q] : AnswerTo(s, wire'[q][j]) => j = i
      <4>1. /\ gave[s] \in Sids /\ sid[s] = NoSid /\ fut[s] # "answered"
            /\ \A j \in DOMAIN wire[q] : AnswerTo(s, wire[q][j]) => j = i
        BY <1>0, <2>1, <3>3 DEF Said
      <4> QED
        BY <1>9, <1>10, <4>1
    <3> QED
      BY <3>1, <3>2, <3>3
  <2>2. CASE i \notin DOMAIN wire[q]
    <3>1. q = n /\ wire'[q][i] = m
      BY <1>9, <2>2
    <3> QED
      BY <1>4, <1>7, <1>10, <3>1
  <2> QED
    BY <2>1, <2>2
<1>14. Given' /\ Stored'
  BY <1>0, <1>11 DEF Given, Stored
<1>15. Located' /\ Strangers'
  BY <1>0, <1>11 DEF Located, Strangers, Own
<1>16. Succession'
  <2> SUFFICES ASSUME NEW q \in Conns, NEW i \in DOMAIN wire'[q], wire'[q][i].sid # NoSid,
                      NEW s, s = granted[q][wire'[q][i].sid],
                      s # NoCall, s # wire'[q][i].of
               PROVE  \E j \in DOMAIN wire'[q] : i < j /\ AnswerTo(s, wire'[q][j])
    BY <1>11 DEF Succession, AnswerTo
  <2>1. CASE i \in DOMAIN wire[q]
    <3>1. wire'[q][i] = wire[q][i]
      BY <1>9, <2>1
    <3>2. PICK j \in DOMAIN wire[q] : i < j /\ AnswerTo(s, wire[q][j])
      BY <1>0, <2>1, <3>1 DEF Succession
    <3> QED
      BY <1>9, <3>2
  <2>2. CASE i \notin DOMAIN wire[q]
    <3>1. q = n /\ wire'[q][i] = m
      BY <1>9, <2>2
    <3> QED
      BY <1>1, <1>4, <3>1
  <2> QED
    BY <2>1, <2>2
<1>17. Flow'
  <2>1. ASSUME NEW s \in Subscribes, NEW b \in Nat, via[s] \in Conns, Follows(s, b)
        PROVE  Follows(s, b)'
    <3>1. CASE s # o
      BY <1>0, <1>4, <1>5, <1>8, <1>10, <1>11, <2>1, <3>1, AddedFollows
    <3>2. CASE s = o
      <4>1. /\ b <= sent[o] /\ Numbers(s, wire[n]) = (b + 1)..sent[o] /\ Rising(s, wire[n])
        BY <1>6, <1>7, <2>1, <3>2 DEF Follows
      <4>2. /\ Numbers(s, wire'[n]) = Numbers(s, wire[n]) \cup {x}
            /\ (\A y \in Numbers(s, wire[n]) : y < x) => Rising(s, wire'[n])
        <5>1. NoteOf(s, m) /\ m \in Message /\ wire[n] \in Seq(Message)
          BY <1>4, <1>8, <1>10, <3>2
        <5> HIDE DEF Message
        <5>2. /\ Numbers(s, Append(wire[n], m)) = Numbers(s, wire[n]) \cup {m.seq}
              /\ Rising(s, wire[n]) /\ (\A y \in Numbers(s, wire[n]) : y < m.seq) =>
                   Rising(s, Append(wire[n], m))
          BY <5>1, NumbersGrow
        <5> QED
          BY <1>4, <1>8, <4>1, <5>2
      <4>3. sent[o] \in Nat
        BY <1>0 DEF TypeOK
      <4>4. /\ Numbers(s, wire'[n]) = (b + 1)..x /\ b <= x
            /\ \A y \in (b + 1)..sent[o] : y < x
        BY <1>2, <4>1, <4>2, <4>3
      <4>5. Rising(s, wire'[n])
        BY <4>1, <4>2, <4>4
      <4> QED
        BY <1>5, <1>7, <1>11, <3>2, <4>4, <4>5 DEF Follows, Numbers, Rising, NoteOf
    <3> QED
      BY <3>1, <3>2
  <2> QED
    BY <1>0, <1>11, <2>1, FlowKept
<1> QED
  BY <1>12, <1>13, <1>14, <1>15, <1>16, <1>17 DEF SInv

\* A connection that is lost may take what is under way with it.
LEMMA LostKeeps ==
  ASSUME IInv, SInv, NEW n \in Conns, Leave(n), wire' # wire
  PROVE  SInv'
<1>0. /\ TypeOK /\ Asked /\ Said /\ Given /\ Stored /\ Located /\ Succession /\ Flow
      /\ Strangers /\ Subscribes \subseteq Calls
  BY DEF IInv, SInv
<1>1. /\ sock' = [sock EXCEPT ![n] = "broken"] /\ wire' = [wire EXCEPT ![n] = <<>>]
      /\ UNCHANGED <<isClosed, connection, holder, task, reader, calls, subs, closer,
                     inbox, granted, gave, sent>>
  BY DEF Leave
<1>2. /\ wire'[n] = <<>> /\ sock'[n] = "broken"
      /\ \A q \in Conns : q # n => wire'[q] = wire[q] /\ sock'[q] = sock[q]
      /\ DOMAIN wire'[n] = {}
  BY <1>0, <1>1 DEF TypeOK
<1>3. UNCHANGED <<pc, via, inbox, granted, gave, fut, sid, queue, listeners, reader, isClosed,
                  sent>>
  BY <1>1
<1>4. Asked'
  <2>1. \A c \in Calls : Silent(c) => Silent(c)'
    BY <1>2 DEF Silent
  <2> QED
    BY <1>0, <1>3, <2>1 DEF Asked
<1>5. Said' /\ Succession'
  <2>1. ASSUME NEW q \in Conns, NEW i \in DOMAIN wire'[q]
        PROVE  q # n /\ wire'[q] = wire[q]
    BY <1>2
  <2> QED
    BY <1>0, <1>3, <2>1 DEF Said, Succession, AnswerTo
<1>6. Given' /\ Stored'
  BY <1>0, <1>3 DEF Given, Stored
<1>7. Located' /\ Strangers'
  BY <1>0, <1>2, <1>3 DEF Located, Strangers, Own
<1>8. Flow'
  <2>1. ASSUME NEW s \in Subscribes, NEW b \in Nat, via[s] \in Conns, Follows(s, b)
        PROVE  Follows(s, b)'
    <3>1. CASE via[s] = n
      <4>1. Numbers(s, wire'[n]) = {} /\ Rising(s, wire'[n])
        BY <1>2, NoNumbers
      <4>2. b <= sent[s] /\ (b + 1)..b = {} /\ b <= b
        BY <1>0, <2>1 DEF Follows, TypeOK
      <4> QED
        BY <1>2, <1>3, <3>1, <4>1, <4>2 DEF Follows, Numbers, Rising, NoteOf
    <3>2. CASE via[s] # n
      BY <1>2, <1>3, <2>1, <3>2 DEF Follows, Numbers, Rising, NoteOf
    <3> QED
      BY <3>1, <3>2
  <2> QED
    BY <1>0, <1>3, <2>1, FlowKept
<1> QED
  BY <1>4, <1>5, <1>6, <1>7, <1>8 DEF SInv

LEMMA InitSInv == Init => SInv
<1> SUFFICES ASSUME Init
             PROVE  SInv
  OBVIOUS
<1> USE DEF Init
<1>1. Asked /\ Said /\ Succession
  BY DEF Asked, Said, Succession, Silent
<1>2. Given /\ Stored /\ Strangers
  BY DEF Given, Stored, Strangers, Own
<1>3. Located
  BY NullsAreOutside DEF Located
<1>4. Flow
  <2> SUFFICES ASSUME NEW s \in Subscribes
               PROVE  \E a, b \in Nat : /\ Numbers(s, queue[s]) = (a + 1)..b /\ a <= b
                                        /\ Rising(s, queue[s])
                                        /\ s \in listeners /\ via[s] \in Conns => Follows(s, b)
    BY DEF Flow
  <2>1. queue[s] = <<>> /\ listeners = {}
    OBVIOUS
  <2>2. Numbers(s, queue[s]) = {} /\ Rising(s, queue[s])
    BY <2>1, NoNumbers
  <2>3. 0 \in Nat /\ (0 + 1)..0 = {} /\ 0 <= 0
    OBVIOUS
  <2> QED
    BY <2>1, <2>2, <2>3
<1> QED
  BY <1>1, <1>2, <1>3, <1>4 DEF SInv

\* Every step keeps what the streams are owed.
LEMMA NextSInv == IInv /\ SInv /\ [Next]_vars => SInv'
<1> SUFFICES ASSUME IInv, SInv, [Next]_vars
             PROVE  SInv'
  OBVIOUS
<1>1. ASSUME NEW c \in Calls,
             \/ BeginRefused(c) \/ BeginConnected(c) \/ BeginLocked(c) \/ AcquireConnected(c)
             \/ SendDone(c) \/ Dialed(c)
             \/ \E n \in Conns : BeginDial(c, n) \/ AcquireDial(c, n)
      PROVE  SInv'
  <2>1. Quiet /\ Located'
    BY <1>1, BeginQuiet
  <2> QED
    BY <2>1, QuietKeeps
<1>2. ASSUME NEW c \in Calls,
             NotDialed(c) \/ SendFailed(c) \/ Wake(c) \/ Expire(c) \/ Cancel(c)
      PROVE  SInv'
  <2>1. Quiet /\ Located'
    BY <1>2, EndQuiet
  <2> QED
    BY <2>1, QuietKeeps
<1>3. ASSUME \/ \E n \in Conns : ReadEnd(n) \/ (Leave(n) /\ UNCHANGED wire)
             \/ Close \/ CloseHandshake \/ CloseReader \/ CloseLast
      PROVE  SInv'
  <2>1. Quiet /\ Located'
    BY <1>3, OtherQuiet
  <2> QED
    BY <2>1, QuietKeeps
<1>4. ASSUME NEW n \in Conns, ReadResponse(n) \/ ReadNote(n)
      PROVE  SInv'
  BY <1>4, ReadResponseKeeps, ReadNoteKeeps
<1>5. ASSUME NEW n \in Conns, NEW c \in Calls, Serve(n, c)
      PROVE  SInv'
  BY <1>5, ServeKeeps
<1>6. ASSUME NEW n \in Conns, NEW k \in Sids, Notify(n, k)
      PROVE  SInv'
  BY <1>6, NotifyKeeps
<1>7. ASSUME NEW n \in Conns, Leave(n), wire' # wire
      PROVE  SInv'
  BY <1>7, LostKeeps
<1>8. CASE UNCHANGED vars
  <2>1. \A c \in Calls, n \in Conns : c \in inbox[n] => via[c] = n /\ pc[c] \notin Unasked
    BY DEF SInv, Asked
  <2>2. UNCHANGED <<queue, wire, granted, gave, sent, pc, via, fut, listeners, inbox, sid, reader,
                    sock, isClosed>>
    BY <1>8
  <2>3. Quiet
    <3> HIDE DEF Unasked, Calls
    <3> QED
      BY <2>1, <2>2 DEF Quiet
  <2>4. Located'
    BY <2>2 DEF SInv, Located
  <2> QED
    BY <2>3, <2>4, QuietKeeps
<1> HIDE DEF Calls
<1>9. CASE Next
  BY <1>1, <1>2, <1>3, <1>4, <1>5, <1>6, <1>7, <1>9 DEF Next, Go, Read
<1> QED
  BY <1>8, <1>9

\* Numbers that rise through an interval go up by one.
LEMMA StreamFacts == TypeOK /\ SInv => StreamsAreFaithful
<1> SUFFICES ASSUME TypeOK, SInv, NEW s \in Subscribes
             PROVE  /\ \A i, j \in Own(s) :
                         i < j /\ (\A l \in Own(s) : l <= i \/ j <= l) =>
                           queue[s][j].seq = queue[s][i].seq + 1
                    /\ Own(s) # DOMAIN queue[s] =>
                         \/ isClosed
                         \/ /\ sid[s] \in Sids
                            /\ reader[via[s]] = "ended" \/ granted[via[s]][sid[s]] # s
  BY DEF StreamsAreFaithful
<1>1. queue[s] \in Seq(Item)
  BY DEF TypeOK
<1>2. \A i \in DOMAIN queue[s] : queue[s][i] \in Item /\ i \in Nat
  BY <1>1
<1>3. \A i \in Own(s) : /\ i \in DOMAIN queue[s] /\ i \in Nat /\ NoteOf(s, queue[s][i])
                        /\ queue[s][i].seq \in Nat
  BY <1>2, NullsAreOutside DEF Own, NoteOf, Item
<1>4. PICK a \in Nat, b \in Nat : Numbers(s, queue[s]) = (a + 1)..b /\ Rising(s, queue[s])
  BY DEF SInv, Flow
<1>5. ASSUME NEW i \in Own(s), NEW j \in Own(s), i < j, \A l \in Own(s) : l <= i \/ j <= l
      PROVE  queue[s][j].seq = queue[s][i].seq + 1
  <2>1. PICK x \in Nat, y \in Nat : x = queue[s][i].seq /\ y = queue[s][j].seq
    BY <1>3
  <2>2. x < y /\ x \in (a + 1)..b /\ y \in (a + 1)..b
    <3>1. x \in Numbers(s, queue[s]) /\ y \in Numbers(s, queue[s])
      BY <1>3, <2>1 DEF Numbers
    <3>2. x < y
      BY <1>3, <1>4, <1>5, <2>1 DEF Rising
    <3> QED
      BY <1>4, <3>1, <3>2
  <2>3. ASSUME x + 1 < y
        PROVE  FALSE
    <3>1. x + 1 \in Numbers(s, queue[s])
      BY <1>4, <2>2, <2>3
    <3>2. PICK l \in DOMAIN queue[s] : NoteOf(s, queue[s][l]) /\ queue[s][l].seq = x + 1
      BY <3>1 DEF Numbers
    <3>3. l \in Own(s) /\ l \in Nat /\ i \in Nat /\ j \in Nat
      BY <1>2, <1>3, <3>2 DEF Own, NoteOf
    <3>4. l # i /\ l # j
      BY <2>1, <2>3, <3>2
    <3>5. l < i \/ j < l
      BY <1>5, <3>3, <3>4
    <3>6. CASE l < i
      <4>1. x + 1 < x
        BY <1>3, <1>4, <2>1, <3>2, <3>6 DEF Rising
      <4> QED
        BY <4>1
    <3>7. CASE j < l
      <4>1. y < x + 1
        BY <1>3, <1>4, <2>1, <3>2, <3>7 DEF Rising
      <4> QED
        BY <2>3, <4>1
    <3> QED
      BY <3>5, <3>6, <3>7
  <2> QED
    BY <2>1, <2>2, <2>3
<1>6. Own(s) # DOMAIN queue[s] =>
        \/ isClosed
        \/ sid[s] \in Sids /\ (reader[via[s]] = "ended" \/ granted[via[s]][sid[s]] # s)
  BY DEF SInv, Strangers
<1> QED
  BY <1>5, <1>6

\* A subscription's own notifications reach its queue in order and without a gap, once the
\* first did, and another's only once its id may be given out again (ReadNote, Wake).
THEOREM StreamsFaithful == Spec => []StreamsAreFaithful
<1>1. Init => IInv /\ SInv
  BY InitIInv, InitSInv
<1>2. IInv /\ SInv /\ [Next]_vars => IInv' /\ SInv'
  BY NextIInv, NextSInv
<1>3. IInv /\ SInv => StreamsAreFaithful
  BY StreamFacts DEF IInv
<1> QED
  BY <1>1, <1>2, <1>3, PTL DEF Spec
===============================================================================
