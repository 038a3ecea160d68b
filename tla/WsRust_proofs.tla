---------------------------- MODULE WsRust_proofs ----------------------------
(***************************************************************************)
(* Proofs about the Rust transport, for every number of calls, connections *)
(* and keys and every capacity of the broadcast channel: its types, what   *)
(* its pending map owes, and that it implements the contract of RpcSession *)
(* without isolation between connections.                                  *)
(***************************************************************************)
EXTENDS WsRust, Delivery_proofs, FiniteSetTheorems

Begun == {"idle", "connecting", "dialing", "enroll"}

(* Ids: next_id is the number of ids handed out, so it stays within its    *)
(* bound, and no two calls get the same one.                               *)
Counted ==
  /\ IsFiniteSet({c \in Calls : pc[c] # "idle"})
  /\ Cardinality({c \in Calls : pc[c] # "idle"}) <= MaxId
  /\ nextId = Cardinality({c \in Calls : id[c] # 0})

Numbered ==
  /\ \A c \in Calls : id[c] <= nextId
  /\ \A c \in Calls : pc[c] \in Begun => id[c] = 0
  /\ \A c \in Calls : id[c] = 0 => pc[c] \in Begun \cup {"unsent", "dropped"}
  /\ \A c, d \in Calls : id[c] # 0 /\ id[c] = id[d] => c = d

(* The oneshot channels: one that is open and empty is in pending, under   *)
(* its call's own id, as long as its call waits.                           *)
Oneshots ==
  /\ \A c \in Calls : pc[c] \in Begun => reply[c] = "none"
  /\ \A i \in Ids : pending[i] # NoCall =>
       /\ id[pending[i]] = i
       /\ reply[pending[i]] = "none"
       /\ pc[pending[i]] \in Waiting \cup {"expired", "dropped"}
  /\ \A c \in Calls : pc[c] \in Waiting /\ reply[c] = "none" => pending[id[c]] = c

(* Connections: one whose writer runs is the current one or was given up,  *)
(* so whoever drains pending does it after the end of some connection.     *)
Connections ==
  /\ outbound # NoConn => sock[outbound] # "unused"
  /\ \A c \in Calls : pc[c] \in Holding => use[c] \in Conns /\ sock[use[c]] # "unused"
  /\ \A c \in Calls : pc[c] = "dialing" => dialer = c
  /\ dialer # NoCall => ~Usable
  /\ \A n \in Conns : writer[n] = "running" => n = outbound \/ GivenUp(n)
  /\ \A n \in Conns : writer[n] # "none" => sock[n] # "unused"
  /\ \A c \in Calls : reply[c] = "closed" =>
       \E n \in Conns : sock[n] \in {"closing", "broken"}

(* Requests: each is in one channel, once, then with one peer, then        *)
(* answered.                                                               *)
Requests ==
  /\ \A c \in Calls : pc[c] \in {"send"} \cup Begun => c \notin served
  /\ \A n \in Conns : \A i \in 1..Len(chan[n]) : chan[n][i] \in Calls =>
       /\ use[chan[n][i]] = n /\ id[chan[n][i]] # 0
       /\ pc[chan[n][i]] # "send"
       /\ chan[n][i] \notin served
       /\ \A m \in Conns : chan[n][i] \notin inbox[m]
       /\ \A j \in 1..Len(chan[n]) : chan[n][j] = chan[n][i] => i = j
  /\ \A n \in Conns : \A c \in inbox[n] :
       use[c] = n /\ id[c] # 0 /\ pc[c] # "send" /\ c \notin served
  /\ \A n \in Conns : \A k \in active[n] : granted[n][k] # NoCall

\* A response carries the id of its call, which the peer has answered.
Fit(m, ids, answered) == IsNote(m) \/ (m.id # 0 /\ ids[m.of] = m.id /\ m.of \in answered)

Wires == \A n \in Conns : \A j \in 1..Len(wire[n]) : Fit(wire[n][j], id, served)

\* A full oneshot channel holds the answer to its call.
Answers ==
  \A c \in Calls : reply[c] = "full" =>
    answer[c] \in Msg /\ answer[c].of = c /\ c \in served

IInv ==
  /\ TypeOK /\ Counted /\ Numbered /\ Oneshots
  /\ Connections /\ Requests /\ Wires /\ Answers

USE DEF shared, locals, replies, streams, tasks, peer, vars, Goto
-------------------------------------------------------------------------------

(* Messages at the head of a wire.                                         *)

\* What is at the head of a wire is a message that fits, and what is left fits too.
LEMMA HeadOfWire ==
  ASSUME TypeOK, Wires, NEW n \in Conns, wire[n] # <<>>
  PROVE  /\ Head(wire[n]) \in Msg /\ Fit(Head(wire[n]), id, served)
         /\ Tail(wire[n]) \in Seq(Msg)
         /\ Len(Tail(wire[n])) = Len(wire[n]) - 1
         /\ \A j \in 1..Len(Tail(wire[n])) :
              /\ j + 1 \in 1..Len(wire[n])
              /\ Tail(wire[n])[j] = wire[n][j + 1]
<1>1. wire[n] \in Seq(Msg)
  BY DEF TypeOK
<1>2. Head(wire[n]) = wire[n][1] /\ 1 \in 1..Len(wire[n])
  BY <1>1
<1>3. Fit(wire[n][1], id, served)
  BY <1>2 DEF Wires
<1> QED
  BY <1>1, <1>2, <1>3

\* A response at the head of a wire carries the id of the call it answers.
LEMMA ResponseOfCall ==
  ASSUME TypeOK, Wires, NEW n \in Conns, Arriving(n), ~IsNote(Head(wire[n]))
  PROVE  /\ Head(wire[n]) \in Msg /\ Head(wire[n]).id \in Ids
         /\ Head(wire[n]).of \in Calls /\ Head(wire[n]).of \in served
         /\ id[Head(wire[n]).of] = Head(wire[n]).id
<1>1. Head(wire[n]) \in Msg /\ Fit(Head(wire[n]), id, served)
  BY HeadOfWire DEF Arriving
<1>2. Head(wire[n]).id \in 0..MaxId /\ Head(wire[n]).of \in Calls
  BY <1>1 DEF Msg
<1> QED
  BY <1>1, <1>2, BoundsAreNatural DEF Ids, Fit

\* Nobody is listening for more than the buffer holds.
LEMMA PushBounded ==
  ASSUME NEW q \in Seq(Msg), Len(q) <= BufferCap, NEW m \in Msg
  PROVE  Push(q, m) \in Seq(Msg) /\ Len(Push(q, m)) <= BufferCap
<1>1. CASE Len(q) = BufferCap
  <2>1. q # <<>>
    BY <1>1, BoundsAreNatural
  <2>2. Tail(q) \in Seq(Msg) /\ Len(Tail(q)) = Len(q) - 1
    BY <2>1
  <2> HIDE DEF Msg
  <2> QED
    BY <1>1, <2>2, BoundsAreNatural DEF Push
<1>2. CASE Len(q) # BufferCap
  BY <1>2, BoundsAreNatural DEF Push
<1> QED
  BY <1>1, <1>2
-------------------------------------------------------------------------------
(* Ids.                                                                    *)

\* A call that is about to enroll finds an id: those that have one began too.
LEMMA Room ==
  ASSUME TypeOK, Counted, Numbered, NEW c \in Calls, pc[c] = "enroll"
  PROVE  nextId < MaxId
<1> DEFINE started == {d \in Calls : pc[d] # "idle"}
           numbered == {d \in Calls : id[d] # 0}
<1>1. IsFiniteSet(started) /\ Cardinality(started) <= MaxId /\ c \in started
  BY DEF Counted
<1>2. numbered \subseteq started \ {c}
  BY DEF Numbered, Begun
<1>3. /\ IsFiniteSet(started \ {c})
      /\ Cardinality(started \ {c}) = Cardinality(started) - 1
  BY <1>1, FS_RemoveElement
<1>4. Cardinality(numbered) <= Cardinality(started \ {c})
  BY <1>2, <1>3, FS_Subset
<1>5. Cardinality(started) \in Nat /\ nextId = Cardinality(numbered) /\ nextId \in Nat
  BY <1>1, FS_CardinalityType, BoundsAreNatural DEF Counted, TypeOK
<1> HIDE DEF started, numbered
<1> QED
  BY <1>1, <1>3, <1>4, <1>5, BoundsAreNatural

\* No other step begins a call or gives it an id.
LEMMA CountKept ==
  ASSUME Counted, UNCHANGED <<id, nextId>>,
         \A c \in Calls : pc'[c] = "idle" <=> pc[c] = "idle"
  PROVE  Counted'
<1>1. {c \in Calls : pc'[c] # "idle"} = {c \in Calls : pc[c] # "idle"}
  OBVIOUS
<1> QED
  BY <1>1 DEF Counted


\* next_id counts the ids handed out.
LEMMA CountedStep ==
  ASSUME TypeOK, Counted, Numbered, Next
  PROVE  Counted'
<1> USE DEF TypeOK
<1>1. ASSUME NEW c \in Calls, Begin(c)
      PROVE  Counted'
  <2> DEFINE started == {d \in Calls : pc[d] # "idle"}
  <2>1. /\ pc[c] = "idle" /\ pc' = [pc EXCEPT ![c] = "connecting"]
        /\ Cardinality(started) < MaxId /\ UNCHANGED <<id, nextId>>
    BY <1>1 DEF Begin
  <2>2. {d \in Calls : pc'[d] # "idle"} = started \cup {c} /\ c \notin started
    BY <2>1
  <2>3. /\ IsFiniteSet(started \cup {c})
        /\ Cardinality(started \cup {c}) = Cardinality(started) + 1
    BY <2>2, FS_AddElement DEF Counted
  <2>4. Cardinality(started) \in Nat
    BY FS_CardinalityType DEF Counted
  <2>5. Cardinality(started \cup {c}) <= MaxId
    BY <2>1, <2>3, <2>4, BoundsAreNatural
  <2> QED
    BY <2>1, <2>2, <2>3, <2>5 DEF Counted
<1>2. ASSUME NEW c \in Calls, UseExisting(c)
      PROVE  Counted'
  BY <1>2, CountKept DEF UseExisting, Usable, ChanOpen
<1>3. ASSUME NEW c \in Calls, StartDial(c)
      PROVE  Counted'
  BY <1>3, CountKept DEF StartDial, Usable, ChanOpen
<1>4. ASSUME NEW c \in Calls, NEW n \in Conns, Dial(c, n)
      PROVE  Counted'
  BY <1>4, CountKept DEF Dial
<1>5. ASSUME NEW c \in Calls, DialFail(c)
      PROVE  Counted'
  BY <1>5, CountKept DEF DialFail
<1>6. ASSUME NEW c \in Calls, Enroll(c)
      PROVE  Counted'
  <2> DEFINE numbered == {d \in Calls : id[d] # 0}
  <2>1. /\ pc[c] = "enroll" /\ pc' = [pc EXCEPT ![c] = "send"]
        /\ id' = [id EXCEPT ![c] = nextId + 1] /\ nextId' = nextId + 1
    BY <1>6 DEF Enroll, FreshId
  <2>2. nextId \in Nat /\ id[c] = 0
    BY <2>1, BoundsAreNatural DEF Numbered, Begun
  <2>3. {d \in Calls : id'[d] # 0} = numbered \cup {c} /\ c \notin numbered
    BY <2>1, <2>2
  <2>4. IsFiniteSet(numbered)
    <3>1. numbered \subseteq {d \in Calls : pc[d] # "idle"}
      BY DEF Numbered, Begun
    <3> QED
      BY <3>1, FS_Subset DEF Counted
  <2>5. Cardinality(numbered \cup {c}) = Cardinality(numbered) + 1
    BY <2>3, <2>4, FS_AddElement
  <2>6. {d \in Calls : pc'[d] # "idle"} = {d \in Calls : pc[d] # "idle"}
    BY <2>1
  <2> QED
    BY <2>1, <2>3, <2>5, <2>6 DEF Counted
<1>7. ASSUME NEW c \in Calls, Send(c)
      PROVE  Counted'
  BY <1>7, CountKept DEF Send, ChanOpen
<1>8. ASSUME NEW c \in Calls, SendFail(c)
      PROVE  Counted'
  BY <1>8, CountKept DEF SendFail, WithoutPending, ChanOpen
<1>9. ASSUME NEW c \in Calls, Return(c)
      PROVE  Counted'
  BY <1>9, CountKept DEF Return
<1>10. ASSUME NEW c \in Calls, ReturnClosed(c)
       PROVE  Counted'
  BY <1>10, CountKept DEF ReturnClosed
<1>11. ASSUME NEW c \in Calls, Expire(c)
       PROVE  Counted'
  BY <1>11, CountKept DEF Expire
<1>12. ASSUME NEW c \in Calls, Drop(c)
       PROVE  Counted'
  BY <1>12, CountKept DEF Drop
<1>13. ASSUME NEW s \in Subscribes, Receive(s)
       PROVE  Counted'
  BY <1>13, CountKept DEF Receive
<1>14. ASSUME Close
       PROVE  Counted'
  BY <1>14, CountKept DEF Close, ChanOpen
<1>15. ASSUME NEW n \in Conns, WriteRequest(n)
       PROVE  Counted'
  BY <1>15, CountKept DEF WriteRequest
<1>16. ASSUME NEW n \in Conns, WriteClose(n)
       PROVE  Counted'
  BY <1>16, CountKept DEF WriteClose
<1>17. ASSUME NEW n \in Conns, WriterStop(n)
       PROVE  Counted'
  BY <1>17, CountKept DEF WriterStop, Drain, Enrolled
<1>18. ASSUME NEW n \in Conns, WriterDrop(n)
       PROVE  Counted'
  BY <1>18, CountKept DEF WriterDrop
<1>19. ASSUME NEW n \in Conns, Respond(n)
       PROVE  Counted'
  BY <1>19, CountKept DEF Respond, WithoutPending, Arriving
<1>20. ASSUME NEW n \in Conns, Broadcast(n)
       PROVE  Counted'
  BY <1>20, CountKept DEF Broadcast, Arriving
<1>21. ASSUME NEW n \in Conns, ReaderStop(n)
       PROVE  Counted'
  BY <1>21, CountKept DEF ReaderStop, Drain, Enrolled
<1>22. ASSUME NEW n \in Conns, NEW c \in Calls, NEW k \in Keys, Grant(n, c, k)
       PROVE  Counted'
  BY <1>22, CountKept DEF Grant, Alive
<1>23. ASSUME NEW n \in Conns, NEW c \in Calls, Serve(n, c)
       PROVE  Counted'
  BY <1>23, CountKept DEF Serve, Alive
<1>24. ASSUME NEW n \in Conns, NEW k \in Keys, Notify(n, k)
       PROVE  Counted'
  BY <1>24, CountKept DEF Notify, Alive
<1>25. ASSUME NEW n \in Conns, Break(n)
       PROVE  Counted'
  BY <1>25, CountKept DEF Break, Alive
<1> QED
  BY <1>1, <1>2, <1>3, <1>4, <1>5, <1>6, <1>7, <1>8, <1>9, <1>10, <1>11,
     <1>12, <1>13, <1>14, <1>15, <1>16, <1>17, <1>18, <1>19, <1>20, <1>21, <1>22,
     <1>23, <1>24, <1>25 DEF Next, CallStep, TaskStep, PeerStep

\* No two calls get the same id.
LEMMA NumberedStep ==
  ASSUME TypeOK, Numbered, Next
  PROVE  Numbered'
<1> USE DEF TypeOK, Numbered, Begun, Waiting, Holding
<1>1. ASSUME NEW c \in Calls, Begin(c)
      PROVE  Numbered'
  BY <1>1 DEF Begin
<1>2. ASSUME NEW c \in Calls, UseExisting(c)
      PROVE  Numbered'
  BY <1>2 DEF UseExisting, Usable, ChanOpen
<1>3. ASSUME NEW c \in Calls, StartDial(c)
      PROVE  Numbered'
  BY <1>3 DEF StartDial, Usable, ChanOpen
<1>4. ASSUME NEW c \in Calls, NEW n \in Conns, Dial(c, n)
      PROVE  Numbered'
  BY <1>4 DEF Dial
<1>5. ASSUME NEW c \in Calls, DialFail(c)
      PROVE  Numbered'
  BY <1>5 DEF DialFail
<1>6. ASSUME NEW c \in Calls, Enroll(c)
      PROVE  Numbered'
  <2>1. /\ pc[c] = "enroll" /\ pc' = [pc EXCEPT ![c] = "send"]
        /\ id' = [id EXCEPT ![c] = nextId + 1] /\ nextId' = nextId + 1
    BY <1>6 DEF Enroll, FreshId
  <2>2. nextId \in Nat /\ \A d \in Calls : id[d] \in Nat
    BY BoundsAreNatural
  <2>3. \A d \in Calls : id'[d] # nextId + 1 \/ d = c
    BY <2>1, <2>2
  <2> QED
    BY <2>1, <2>2, <2>3
<1>7. ASSUME NEW c \in Calls, Send(c)
      PROVE  Numbered'
  BY <1>7 DEF Send, ChanOpen
<1>8. ASSUME NEW c \in Calls, SendFail(c)
      PROVE  Numbered'
  BY <1>8 DEF SendFail, WithoutPending, ChanOpen
<1>9. ASSUME NEW c \in Calls, Return(c)
      PROVE  Numbered'
  BY <1>9 DEF Return
<1>10. ASSUME NEW c \in Calls, ReturnClosed(c)
       PROVE  Numbered'
  BY <1>10 DEF ReturnClosed
<1>11. ASSUME NEW c \in Calls, Expire(c)
       PROVE  Numbered'
  BY <1>11 DEF Expire
<1>12. ASSUME NEW c \in Calls, Drop(c)
       PROVE  Numbered'
  BY <1>12 DEF Drop
<1>13. ASSUME NEW s \in Subscribes, Receive(s)
       PROVE  Numbered'
  BY <1>13 DEF Receive
<1>14. ASSUME Close
       PROVE  Numbered'
  BY <1>14 DEF Close, ChanOpen
<1>15. ASSUME NEW n \in Conns, WriteRequest(n)
       PROVE  Numbered'
  BY <1>15 DEF WriteRequest
<1>16. ASSUME NEW n \in Conns, WriteClose(n)
       PROVE  Numbered'
  BY <1>16 DEF WriteClose
<1>17. ASSUME NEW n \in Conns, WriterStop(n)
       PROVE  Numbered'
  BY <1>17 DEF WriterStop, Drain, Enrolled
<1>18. ASSUME NEW n \in Conns, WriterDrop(n)
       PROVE  Numbered'
  BY <1>18 DEF WriterDrop
<1>19. ASSUME NEW n \in Conns, Respond(n)
       PROVE  Numbered'
  BY <1>19 DEF Respond, WithoutPending, Arriving
<1>20. ASSUME NEW n \in Conns, Broadcast(n)
       PROVE  Numbered'
  BY <1>20 DEF Broadcast, Arriving
<1>21. ASSUME NEW n \in Conns, ReaderStop(n)
       PROVE  Numbered'
  BY <1>21 DEF ReaderStop, Drain, Enrolled
<1>22. ASSUME NEW n \in Conns, NEW c \in Calls, NEW k \in Keys, Grant(n, c, k)
       PROVE  Numbered'
  BY <1>22 DEF Grant, Alive
<1>23. ASSUME NEW n \in Conns, NEW c \in Calls, Serve(n, c)
       PROVE  Numbered'
  BY <1>23 DEF Serve, Alive
<1>24. ASSUME NEW n \in Conns, NEW k \in Keys, Notify(n, k)
       PROVE  Numbered'
  BY <1>24 DEF Notify, Alive
<1>25. ASSUME NEW n \in Conns, Break(n)
       PROVE  Numbered'
  BY <1>25 DEF Break, Alive
<1> QED
  BY <1>1, <1>2, <1>3, <1>4, <1>5, <1>6, <1>7, <1>8, <1>9, <1>10, <1>11,
     <1>12, <1>13, <1>14, <1>15, <1>16, <1>17, <1>18, <1>19, <1>20, <1>21, <1>22,
     <1>23, <1>24, <1>25 DEF Next, CallStep, TaskStep, PeerStep

\* Every action keeps the types, and the broadcast channel its capacity.
LEMMA TypeStep ==
  ASSUME TypeOK, Counted, Numbered, Connections, Requests, Wires,
         Answers, Next
  PROVE  TypeOK'
<1> USE DEF TypeOK, InFlight, Holding, Waiting, Ended
<1>1. ASSUME NEW c \in Calls, Begin(c)
      PROVE  TypeOK'
  BY <1>1 DEF Begin
<1>2. ASSUME NEW c \in Calls, UseExisting(c)
      PROVE  TypeOK'
  BY <1>2 DEF UseExisting, Usable, ChanOpen
<1>3. ASSUME NEW c \in Calls, StartDial(c)
      PROVE  TypeOK'
  BY <1>3 DEF StartDial, Usable, ChanOpen
<1>4. ASSUME NEW c \in Calls, NEW n \in Conns, Dial(c, n)
      PROVE  TypeOK'
  BY <1>4 DEF Dial
<1>5. ASSUME NEW c \in Calls, DialFail(c)
      PROVE  TypeOK'
  BY <1>5 DEF DialFail
<1>6. ASSUME NEW c \in Calls, Enroll(c)
      PROVE  TypeOK'
  <2>1. FreshId \in Ids /\ nextId' = FreshId
    BY <1>6, Room, BoundsAreNatural DEF Enroll, FreshId, Ids
  <2> QED
    BY <1>6, <2>1, BoundsAreNatural DEF Enroll, Ids
<1>7. ASSUME NEW c \in Calls, Send(c)
      PROVE  TypeOK'
  <2>1. Append(chan[use[c]], c) \in Seq(Calls \cup {CloseFrame}) /\ use[c] \in Conns
    BY <1>7 DEF Send, Connections
  <2> QED
    BY <1>7, <2>1 DEF Send
<1>8. ASSUME NEW c \in Calls, SendFail(c)
      PROVE  TypeOK'
  BY <1>8 DEF SendFail, WithoutPending, ChanOpen
<1>9. ASSUME NEW c \in Calls, Return(c)
      PROVE  TypeOK'
  <2>1. answer[c].key \in Keys \cup {NoKey}
    BY <1>9 DEF Return, Answers, Msg
  <2> QED
    BY <1>9, <2>1 DEF Return
<1>10. ASSUME NEW c \in Calls, ReturnClosed(c)
       PROVE  TypeOK'
  BY <1>10 DEF ReturnClosed
<1>11. ASSUME NEW c \in Calls, Expire(c)
       PROVE  TypeOK'
  BY <1>11 DEF Expire
<1>12. ASSUME NEW c \in Calls, Drop(c)
       PROVE  TypeOK'
  BY <1>12 DEF Drop
<1>13. ASSUME NEW s \in Subscribes, Receive(s)
       PROVE  TypeOK'
  <2>1. CASE s \in lagged
    BY <1>13, <2>1 DEF Receive
  <2>2. CASE s \notin lagged
    <3>1. queue[s] \in Seq(Msg) /\ got[s] \in Seq(Msg) /\ queue[s] # <<>>
      BY <1>13, <2>2 DEF Receive
    <3>2. /\ Head(queue[s]) \in Msg /\ Tail(queue[s]) \in Seq(Msg)
          /\ Len(Tail(queue[s])) <= Len(queue[s])
          /\ Append(got[s], Head(queue[s])) \in Seq(Msg)
      BY <3>1
    <3>3. Len(Tail(queue[s])) <= BufferCap
      BY <3>1, <3>2, BoundsAreNatural
    <3>4. /\ queue' \in [Subscribes -> Seq(Msg)]
          /\ \A t \in Subscribes : Len(queue'[t]) <= BufferCap
      BY <1>13, <2>2, <3>2, <3>3 DEF Receive
    <3>5. got' \in [Subscribes -> Seq(Msg)]
      BY <1>13, <2>2, <3>2 DEF Receive
    <3> QED
      BY <1>13, <2>2, <3>4, <3>5 DEF Receive
  <2> QED
    BY <2>1, <2>2
<1>14. ASSUME Close
       PROVE  TypeOK'
  <2>1. /\ outbound \in Conns
        /\ Append(chan[outbound], CloseFrame) \in Seq(Calls \cup {CloseFrame})
    BY <1>14 DEF Close
  <2>2. closes' \in 0..MaxCloses
    BY <1>14, BoundsAreNatural DEF Close
  <2> QED
    BY <1>14, <2>1, <2>2 DEF Close
<1>15. ASSUME NEW n \in Conns, WriteRequest(n)
       PROVE  TypeOK'
  <2>1. Tail(chan[n]) \in Seq(Calls \cup {CloseFrame})
    BY <1>15 DEF WriteRequest
  <2> QED
    BY <1>15, <2>1 DEF WriteRequest
<1>16. ASSUME NEW n \in Conns, WriteClose(n)
       PROVE  TypeOK'
  <2>1. Tail(chan[n]) \in Seq(Calls \cup {CloseFrame})
    BY <1>16 DEF WriteClose
  <2> QED
    BY <1>16, <2>1 DEF WriteClose
<1>17. ASSUME NEW n \in Conns, WriterStop(n)
       PROVE  TypeOK'
  BY <1>17 DEF WriterStop, Drain, Enrolled
<1>18. ASSUME NEW n \in Conns, WriterDrop(n)
       PROVE  TypeOK'
  BY <1>18 DEF WriterDrop
<1>19. ASSUME NEW n \in Conns, Respond(n)
       PROVE  TypeOK'
  <2> DEFINE m == Head(wire[n])
             c == pending[m.id]
  <2>1. m \in Msg /\ m.id \in Ids /\ Tail(wire[n]) \in Seq(Msg)
    BY <1>19, ResponseOfCall, HeadOfWire DEF Respond, Arriving
  <2>2. pending' \in [Ids -> Calls \cup {NoCall}] /\ wire' \in [Conns -> Seq(Msg)]
    BY <1>19, <2>1 DEF Respond, WithoutPending
  <2>3. \/ UNCHANGED replies
        \/ reply' = [reply EXCEPT ![c] = "full"] /\ answer' = [answer EXCEPT ![c] = m]
    BY <1>19 DEF Respond
  <2> HIDE DEF m, c
  <2>4. /\ reply' \in [Calls -> {"none", "full", "closed"}]
        /\ answer' \in [Calls -> Msg \cup {NoMsg}]
    <3>1. CASE UNCHANGED replies
      BY <3>1
    <3>2. CASE reply' = [reply EXCEPT ![c] = "full"] /\ answer' = [answer EXCEPT ![c] = m]
      <4>1. reply' \in [Calls -> {"none", "full", "closed"}]
        BY <3>2
      <4>2. answer \in [Calls -> Msg \cup {NoMsg}] /\ m \in Msg \cup {NoMsg}
        BY <2>1
      <4> QED
        BY <3>2, <4>1, <4>2
    <3> QED
      BY <2>3, <3>1, <3>2
  <2> QED
    BY <1>19, <2>2, <2>4 DEF Respond
<1>20. ASSUME NEW n \in Conns, Broadcast(n)
       PROVE  TypeOK'
  <2>1. Head(wire[n]) \in Msg /\ Tail(wire[n]) \in Seq(Msg)
    BY <1>20, HeadOfWire DEF Broadcast, Arriving
  <2>2. ASSUME NEW s \in Subscribes PROVE queue'[s] \in Seq(Msg) /\ Len(queue'[s]) <= BufferCap
    BY <1>20, <2>1, PushBounded DEF Broadcast
  <2>3. queue' \in [Subscribes -> Seq(Msg)] /\ lagged' \subseteq Subscribes
           /\ skipped' \subseteq Subscribes
    <3>1. queue' = [s \in Subscribes |-> queue'[s]]
      BY <1>20 DEF Broadcast
    <3> QED
      BY <1>20, <2>2, <3>1 DEF Broadcast
  <2> QED
    BY <1>20, <2>1, <2>2, <2>3 DEF Broadcast
<1>21. ASSUME NEW n \in Conns, ReaderStop(n)
       PROVE  TypeOK'
  BY <1>21 DEF ReaderStop, Drain, Enrolled
<1>22. ASSUME NEW n \in Conns, NEW c \in Calls, NEW k \in Keys, Grant(n, c, k)
       PROVE  TypeOK'
  BY <1>22 DEF Grant, Alive
<1>23. ASSUME NEW n \in Conns, NEW c \in Calls, Serve(n, c)
       PROVE  TypeOK'
  <2>1. PICK verdict \in {"ok", "refused"}, k \in Keys \cup {NoKey} :
           Put(n, Response(c, verdict, k))
    BY <1>23 DEF Serve
  <2>2. Response(c, verdict, k) \in Msg
    BY DEF Response, Msg
  <2>3. Append(wire[n], Response(c, verdict, k)) \in Seq(Msg)
    BY <2>2
  <2>4. wire' \in [Conns -> Seq(Msg)]
    BY <2>1, <2>3 DEF Put
  <2>5. active' \in [Conns -> SUBSET Keys] /\ inbox' \in [Conns -> SUBSET Calls]
    BY <1>23 DEF Serve
  <2> QED
    BY <1>23, <2>4, <2>5 DEF Serve
<1>24. ASSUME NEW n \in Conns, NEW k \in Keys, Notify(n, k)
       PROVE  TypeOK'
  <2> DEFINE s == granted[n][k]
             m == Note(s, k, emitted[s] + 1)
  <2>1. s \in Subscribes
    BY <1>24 DEF Notify, Requests
  <2>2. m \in Msg /\ emitted[s] + 1 \in 0..MaxNotes
    BY <1>24, <2>1, BoundsAreNatural DEF Notify, Note, Msg, Calls
  <2>3. Append(wire[n], m) \in Seq(Msg)
    BY <2>2
  <2> HIDE DEF s
  <2> QED
    BY <1>24, <2>1, <2>2, <2>3 DEF Notify, Put, s
<1>25. ASSUME NEW n \in Conns, Break(n)
       PROVE  TypeOK'
  BY <1>25 DEF Break, Alive
<1> QED
  BY <1>1, <1>2, <1>3, <1>4, <1>5, <1>6, <1>7, <1>8, <1>9, <1>10, <1>11,
     <1>12, <1>13, <1>14, <1>15, <1>16, <1>17, <1>18, <1>19, <1>20, <1>21, <1>22,
     <1>23, <1>24, <1>25 DEF Next, CallStep, TaskStep, PeerStep

-------------------------------------------------------------------------------
(* The pending map.                                                        *)

\* A call that waits has its id.
LEMMA WaitingHasId ==
  ASSUME TypeOK, Numbered, NEW c \in Calls, pc[c] \in Waiting
  PROVE  id[c] \in Ids
<1>1. id[c] \in 0..MaxId
  BY DEF TypeOK
<1>2. id[c] # 0
  BY DEF Numbered, Begun, Waiting
<1> QED
  BY <1>1, <1>2, BoundsAreNatural DEF Ids

\* What an entry of pending says of its call.
LEMMA EntryOf ==
  ASSUME TypeOK, Oneshots, NEW i \in Ids, pending[i] # NoCall
  PROVE  /\ pending[i] \in Calls /\ id[pending[i]] = i
         /\ reply[pending[i]] = "none"
         /\ pc[pending[i]] \in Waiting \cup {"expired", "dropped"}
BY DEF TypeOK, Oneshots

\* A call that has not enrolled yet is not in pending.
LEMMA BegunNotEnrolled ==
  ASSUME TypeOK, Oneshots, NEW c \in Calls, pc[c] \in Begun
  PROVE  ~Enrolled(c)
<1> SUFFICES ASSUME NEW i \in Ids, pending[i] = c PROVE FALSE
  BY DEF Enrolled
<1> QED
  BY EntryOf, NullsAreOutside DEF Begun, Waiting

\* A call that waits keeps its entry until its channel is full or closed.
LEMMA OneshotsStep ==
  ASSUME TypeOK, Counted, Numbered, Oneshots, Wires, Next
  PROVE  Oneshots'
<1> USE DEF TypeOK, Oneshots, Begun, Waiting
<1>1. ASSUME NEW c \in Calls, Begin(c)
      PROVE  Oneshots'
  BY <1>1 DEF Begin
<1>2. ASSUME NEW c \in Calls, UseExisting(c)
      PROVE  Oneshots'
  BY <1>2 DEF UseExisting, Usable, ChanOpen
<1>3. ASSUME NEW c \in Calls, StartDial(c)
      PROVE  Oneshots'
  BY <1>3 DEF StartDial, Usable, ChanOpen
<1>4. ASSUME NEW c \in Calls, NEW n \in Conns, Dial(c, n)
      PROVE  Oneshots'
  BY <1>4 DEF Dial
<1>5. ASSUME NEW c \in Calls, DialFail(c)
      PROVE  Oneshots'
  BY <1>5 DEF DialFail
<1>6. ASSUME NEW c \in Calls, Enroll(c)
      PROVE  Oneshots'
  <2>1. /\ pc[c] = "enroll" /\ pc' = [pc EXCEPT ![c] = "send"]
        /\ id' = [id EXCEPT ![c] = nextId + 1]
        /\ pending' = [pending EXCEPT ![nextId + 1] = c] /\ reply' = reply
    BY <1>6 DEF Enroll, FreshId
  <2>2. /\ nextId + 1 \in Ids /\ nextId \in Nat
        /\ \A d \in Calls : id[d] \in Nat /\ id[d] <= nextId
    BY <2>1, Room, BoundsAreNatural DEF Ids, Numbered
  <2>3. reply[c] = "none"
    BY <2>1
  <2>4. ASSUME NEW i \in Ids, pending[i] # NoCall
        PROVE  i # nextId + 1 /\ pending[i] # c
    <3>1. /\ pending[i] \in Calls /\ id[pending[i]] = i
          /\ pc[pending[i]] \in Waiting \cup {"expired", "dropped"}
      BY <2>4, EntryOf
    <3>2. i <= nextId
      BY <2>2, <3>1
    <3> QED
      BY <2>1, <2>2, <3>1, <3>2
  <2>5. \A d \in Calls \ {c} : pc[d] \in Waiting => id[d] # nextId + 1
    BY <2>2
  <2> QED
    BY <2>1, <2>2, <2>3, <2>4, <2>5, NullsAreOutside
<1>7. ASSUME NEW c \in Calls, Send(c)
      PROVE  Oneshots'
  BY <1>7 DEF Send, ChanOpen
<1>8. ASSUME NEW c \in Calls, SendFail(c)
      PROVE  Oneshots'
  <2>1. /\ pc[c] = "send" /\ pc' = [pc EXCEPT ![c] = "unsent"]
        /\ pending' = [pending EXCEPT ![id[c]] = NoCall] /\ UNCHANGED <<id, reply>>
    BY <1>8 DEF SendFail, WithoutPending
  <2>2. ASSUME NEW d \in Calls \ {c}, pc[d] \in Waiting PROVE id[d] # id[c]
    <3>1. id[c] \in Ids /\ id[d] \in Ids
      BY <2>1, <2>2, WaitingHasId
    <3> QED
      BY <3>1 DEF Numbered, Ids
  <2> QED
    BY <2>1, <2>2
<1>9. ASSUME NEW c \in Calls, Return(c)
      PROVE  Oneshots'
  BY <1>9 DEF Return
<1>10. ASSUME NEW c \in Calls, ReturnClosed(c)
       PROVE  Oneshots'
  BY <1>10 DEF ReturnClosed
<1>11. ASSUME NEW c \in Calls, Expire(c)
       PROVE  Oneshots'
  BY <1>11 DEF Expire
<1>12. ASSUME NEW c \in Calls, Drop(c)
       PROVE  Oneshots'
  BY <1>12 DEF Drop
<1>13. ASSUME NEW s \in Subscribes, Receive(s)
       PROVE  Oneshots'
  BY <1>13 DEF Receive
<1>14. ASSUME Close
       PROVE  Oneshots'
  BY <1>14 DEF Close, ChanOpen
<1>15. ASSUME NEW n \in Conns, WriteRequest(n)
       PROVE  Oneshots'
  BY <1>15 DEF WriteRequest
<1>16. ASSUME NEW n \in Conns, WriteClose(n)
       PROVE  Oneshots'
  BY <1>16 DEF WriteClose
<1>17. ASSUME NEW n \in Conns, WriterStop(n)
       PROVE  Oneshots'
  <2>1. /\ pending' = [i \in Ids |-> NoCall] /\ UNCHANGED <<pc, id>>
        /\ reply' = [c \in Calls |-> IF Enrolled(c) THEN "closed" ELSE reply[c]]
    BY <1>17 DEF WriterStop, Drain
  <2>2. \A c \in Calls : pc[c] \in Waiting => id[c] \in Ids
    BY WaitingHasId
  <2>3. \A c \in Calls : pc[c] \in Waiting => reply'[c] # "none"
    BY <2>1, <2>2 DEF Enrolled
  <2>4. \A c \in Calls : pc[c] \in Begun => ~Enrolled(c)
    BY BegunNotEnrolled
  <2> QED
    BY <2>1, <2>3, <2>4
<1>18. ASSUME NEW n \in Conns, WriterDrop(n)
       PROVE  Oneshots'
  BY <1>18 DEF WriterDrop
<1>19. ASSUME NEW n \in Conns, Respond(n)
       PROVE  Oneshots'
  <2> DEFINE m == Head(wire[n])
             c == pending[m.id]
  <2>1. m.id \in Ids
    BY <1>19, ResponseOfCall DEF Respond
  <2>2. /\ pending' = [pending EXCEPT ![m.id] = NoCall] /\ UNCHANGED <<pc, id>>
        /\ IF c # NoCall /\ pc[c] \in Waiting
             THEN reply' = [reply EXCEPT ![c] = "full"] ELSE reply' = reply
    BY <1>19 DEF Respond, WithoutPending
  <2>3. c # NoCall => id[c] = m.id /\ reply[c] = "none"
    BY <2>1
  <2>4. ASSUME NEW d \in Calls, pc[d] \in Waiting, reply'[d] = "none" PROVE pending'[id[d]] = d
    <3>1. reply[d] = "none" /\ pending[id[d]] = d
      BY <2>1, <2>2, <2>4
    <3>2. d # c
      BY <2>1, <2>2, <2>4, NullsAreOutside
    <3>3. id[d] # m.id
      BY <3>1, <3>2
    <3> QED
      BY <2>1, <2>2, <3>1, <3>3
  <2>5. \A i \in Ids : pending'[i] # NoCall => pending'[i] = pending[i] /\ pending[i] # c
    BY <2>1, <2>2, <2>3
  <2>6. \A i \in Ids : pending'[i] # NoCall => reply'[pending'[i]] = reply[pending[i]]
    BY <2>1, <2>2, <2>5
  <2>7. \A d \in Calls : pc[d] \in Begun => reply'[d] = reply[d]
    BY <2>1, <2>2
  <2> HIDE DEF m, c
  <2> QED
    BY <2>2, <2>4, <2>5, <2>6, <2>7
<1>20. ASSUME NEW n \in Conns, Broadcast(n)
       PROVE  Oneshots'
  BY <1>20 DEF Broadcast, Arriving
<1>21. ASSUME NEW n \in Conns, ReaderStop(n)
       PROVE  Oneshots'
  <2>1. /\ pending' = [i \in Ids |-> NoCall] /\ UNCHANGED <<pc, id>>
        /\ reply' = [c \in Calls |-> IF Enrolled(c) THEN "closed" ELSE reply[c]]
    BY <1>21 DEF ReaderStop, Drain
  <2>2. \A c \in Calls : pc[c] \in Waiting => id[c] \in Ids
    BY WaitingHasId
  <2>3. \A c \in Calls : pc[c] \in Waiting => reply'[c] # "none"
    BY <2>1, <2>2 DEF Enrolled
  <2>4. \A c \in Calls : pc[c] \in Begun => ~Enrolled(c)
    BY BegunNotEnrolled
  <2> QED
    BY <2>1, <2>3, <2>4
<1>22. ASSUME NEW n \in Conns, NEW c \in Calls, NEW k \in Keys, Grant(n, c, k)
       PROVE  Oneshots'
  BY <1>22 DEF Grant, Alive
<1>23. ASSUME NEW n \in Conns, NEW c \in Calls, Serve(n, c)
       PROVE  Oneshots'
  BY <1>23 DEF Serve, Alive
<1>24. ASSUME NEW n \in Conns, NEW k \in Keys, Notify(n, k)
       PROVE  Oneshots'
  BY <1>24 DEF Notify, Alive
<1>25. ASSUME NEW n \in Conns, Break(n)
       PROVE  Oneshots'
  BY <1>25 DEF Break, Alive
<1> QED
  BY <1>1, <1>2, <1>3, <1>4, <1>5, <1>6, <1>7, <1>8, <1>9, <1>10, <1>11,
     <1>12, <1>13, <1>14, <1>15, <1>16, <1>17, <1>18, <1>19, <1>20, <1>21, <1>22,
     <1>23, <1>24, <1>25 DEF Next, CallStep, TaskStep, PeerStep

-------------------------------------------------------------------------------
(* Connections.                                                            *)

\* What was given up stays so while the writer's channel only grows.
LEMMA GivenUpAppend ==
  ASSUME TypeOK, NEW n \in Conns, NEW x \in Calls \cup {CloseFrame},
         chan' = [chan EXCEPT ![n] = Append(@, x)], sock' = sock
  PROVE  /\ \A m \in Conns : GivenUp(m) => GivenUp(m)'
         /\ x = CloseFrame => GivenUp(n)'
<1>1. chan[n] \in Seq(Calls \cup {CloseFrame})
  BY DEF TypeOK
<1>2. /\ Len(chan'[n]) = Len(chan[n]) + 1 /\ chan'[n][Len(chan[n]) + 1] = x
      /\ \A i \in 1..Len(chan[n]) : i \in 1..Len(chan'[n]) /\ chan'[n][i] = chan[n][i]
  BY <1>1 DEF TypeOK
<1>3. \A m \in Conns \ {n} : chan'[m] = chan[m]
  BY DEF TypeOK
<1>4. Len(chan[n]) \in Nat
  BY <1>1
<1> QED
  BY <1>2, <1>3, <1>4 DEF GivenUp

\* What the writer takes from its channel is its head.
LEMMA HeadOfChan ==
  ASSUME TypeOK, NEW n \in Conns, chan[n] # <<>>, chan' = [chan EXCEPT ![n] = Tail(@)]
  PROVE  /\ Head(chan[n]) = chan[n][1] /\ 1 \in 1..Len(chan[n])
         /\ \A j \in 1..Len(chan'[n]) :
              j + 1 \in 1..Len(chan[n]) /\ j + 1 # 1 /\ chan'[n][j] = chan[n][j + 1]
         /\ \A i \in 1..Len(chan[n]) : i # 1 =>
              i - 1 \in 1..Len(chan'[n]) /\ chan'[n][i - 1] = chan[n][i]
         /\ \A m \in Conns \ {n} : chan'[m] = chan[m]
<1>1. chan[n] \in Seq(Calls \cup {CloseFrame}) /\ chan'[n] = Tail(chan[n])
  BY DEF TypeOK
<1>2. /\ Len(chan[n]) \in Nat \ {0} /\ Len(Tail(chan[n])) = Len(chan[n]) - 1
      /\ \A j \in 1..Len(Tail(chan[n])) : Tail(chan[n])[j] = chan[n][j + 1]
  BY <1>1
<1>3. \A m \in Conns \ {n} : chan'[m] = chan[m]
  BY DEF TypeOK
<1>4. Head(chan[n]) = chan[n][1] /\ 1 \in 1..Len(chan[n])
  BY <1>1, <1>2
<1>5. ASSUME NEW j \in 1..Len(chan'[n])
      PROVE  j + 1 \in 1..Len(chan[n]) /\ j + 1 # 1 /\ chan'[n][j] = chan[n][j + 1]
  <2>1. j \in 1..Len(Tail(chan[n]))
    BY <1>1
  <2>2. chan'[n][j] = chan[n][j + 1]
    BY <1>1, <1>2, <2>1
  <2>3. j + 1 \in 1..Len(chan[n]) /\ j + 1 # 1
    BY <1>2, <2>1
  <2> QED
    BY <2>2, <2>3
<1>6. ASSUME NEW i \in 1..Len(chan[n]), i # 1
      PROVE  i - 1 \in 1..Len(chan'[n]) /\ chan'[n][i - 1] = chan[n][i]
  <2>1. i - 1 \in 1..Len(chan'[n]) /\ (i - 1) + 1 = i
    BY <1>1, <1>2, <1>6
  <2> QED
    BY <1>5, <2>1
<1> QED
  BY <1>3, <1>4, <1>5, <1>6

\* Whoever drains pending does it after the end of a connection: a writer that
\* runs out of senders had sent a Close frame.
LEMMA ConnectionsStep ==
  ASSUME TypeOK, Connections, Next
  PROVE  Connections'
<1> USE DEF TypeOK, Connections, Holding, Waiting, Usable, ChanOpen
<1>1. ASSUME NEW c \in Calls, Begin(c)
      PROVE  Connections'
  BY <1>1 DEF Begin, GivenUp
<1>2. ASSUME NEW c \in Calls, UseExisting(c)
      PROVE  Connections'
  BY <1>2 DEF UseExisting, Usable, ChanOpen, GivenUp
<1>3. ASSUME NEW c \in Calls, StartDial(c)
      PROVE  Connections'
  <2>1. /\ dialer = NoCall /\ ~Usable /\ dialer' = c /\ pc' = [pc EXCEPT ![c] = "dialing"]
        /\ UNCHANGED <<outbound, use, writer, chan, sock, reply>>
    BY <1>3 DEF StartDial
  <2>2. \A d \in Calls : pc[d] # "dialing"
    BY <2>1, NullsAreOutside
  <2>3. \A d \in Calls : pc'[d] = "dialing" => d = c
    BY <2>1, <2>2
  <2>4. \A d \in Calls : pc'[d] \in Holding => pc[d] \in Holding
    BY <2>1
  <2> QED
    BY <2>1, <2>3, <2>4 DEF GivenUp
<1>4. ASSUME NEW c \in Calls, NEW n \in Conns, Dial(c, n)
      PROVE  Connections'
  <2>1. /\ pc[c] = "dialing" /\ pc' = [pc EXCEPT ![c] = "enroll"] /\ sock[n] = "unused"
        /\ sock' = [sock EXCEPT ![n] = "open"] /\ outbound' = n /\ dialer' = NoCall
        /\ use' = [use EXCEPT ![c] = n] /\ writer' = [writer EXCEPT ![n] = "running"]
        /\ UNCHANGED <<chan, reply>>
    BY <1>4 DEF Dial
  <2>2. dialer = c /\ dialer # NoCall /\ \A d \in Calls \ {c} : pc[d] # "dialing"
    BY <2>1, NullsAreOutside
  <2>3. \A m \in Conns \ {n} : GivenUp(m)' <=> GivenUp(m)
    BY <2>1 DEF GivenUp
  <2>4. \A m \in Conns \ {n} : writer'[m] = "running" => GivenUp(m)'
    BY <2>1, <2>2, <2>3, NullsAreOutside DEF Usable, ChanOpen
  <2> QED
    BY <2>1, <2>2, <2>4 DEF Usable, ChanOpen
<1>5. ASSUME NEW c \in Calls, DialFail(c)
      PROVE  Connections'
  BY <1>5 DEF DialFail, GivenUp
<1>6. ASSUME NEW c \in Calls, Enroll(c)
      PROVE  Connections'
  BY <1>6 DEF Enroll, FreshId, GivenUp
<1>7. ASSUME NEW c \in Calls, Send(c)
      PROVE  Connections'
  <2>1. use[c] \in Conns /\ chan' = [chan EXCEPT ![use[c]] = Append(@, c)]
    BY <1>7 DEF Send
  <2>2. \A m \in Conns : GivenUp(m) => GivenUp(m)'
    BY <1>7, <2>1, GivenUpAppend DEF Send
  <2> QED
    BY <1>7, <2>2 DEF Send
<1>8. ASSUME NEW c \in Calls, SendFail(c)
      PROVE  Connections'
  BY <1>8 DEF SendFail, WithoutPending, ChanOpen, GivenUp
<1>9. ASSUME NEW c \in Calls, Return(c)
      PROVE  Connections'
  BY <1>9 DEF Return, GivenUp
<1>10. ASSUME NEW c \in Calls, ReturnClosed(c)
       PROVE  Connections'
  BY <1>10 DEF ReturnClosed, GivenUp
<1>11. ASSUME NEW c \in Calls, Expire(c)
       PROVE  Connections'
  BY <1>11 DEF Expire, GivenUp
<1>12. ASSUME NEW c \in Calls, Drop(c)
       PROVE  Connections'
  BY <1>12 DEF Drop, GivenUp
<1>13. ASSUME NEW s \in Subscribes, Receive(s)
       PROVE  Connections'
  BY <1>13 DEF Receive, GivenUp
<1>14. ASSUME Close
       PROVE  Connections'
  <2>1. /\ dialer = NoCall /\ outbound \in Conns /\ outbound' = NoConn
        /\ UNCHANGED <<dialer, pc, use, sock, writer, reply>>
        /\ chan' = IF ChanOpen(outbound)
                     THEN [chan EXCEPT ![outbound] = Append(@, CloseFrame)] ELSE chan
    BY <1>14 DEF Close
  <2>2. CASE ChanOpen(outbound)
    <3>1. PICK n \in Conns : n = outbound
      BY <2>1
    <3>2. chan' = [chan EXCEPT ![n] = Append(@, CloseFrame)] /\ sock' = sock
      BY <2>1, <2>2, <3>1
    <3>3. (\A m \in Conns : GivenUp(m) => GivenUp(m)') /\ GivenUp(n)'
      BY <3>2, GivenUpAppend
    <3>4. \A m \in Conns : writer'[m] = "running" => GivenUp(m)'
      BY <2>1, <3>1, <3>3
    <3> QED
      BY <2>1, <3>4
  <2>3. CASE ~ChanOpen(outbound)
    BY <2>1, <2>3 DEF ChanOpen, GivenUp
  <2> QED
    BY <2>2, <2>3
<1>15. ASSUME NEW n \in Conns, WriteRequest(n)
       PROVE  Connections'
  <2>1. /\ chan[n] # <<>> /\ Head(chan[n]) \in Calls /\ chan' = [chan EXCEPT ![n] = Tail(@)]
        /\ UNCHANGED <<outbound, dialer, pc, use, sock, writer, reply>>
    BY <1>15 DEF WriteRequest
  <2>2. ASSUME NEW m \in Conns, GivenUp(m) PROVE GivenUp(m)'
    <3>1. CASE m # n
      BY <2>1, <2>2, <3>1, HeadOfChan DEF GivenUp
    <3>2. CASE m = n /\ sock[n] \notin {"closing", "broken"}
      <4>1. PICK i \in 1..Len(chan[n]) : chan[n][i] = CloseFrame
        BY <2>2, <3>2 DEF GivenUp
      <4>2. i # 1
        BY <2>1, <4>1, HeadOfChan, NullsAreOutside
      <4>3. i - 1 \in 1..Len(chan'[n]) /\ chan'[n][i - 1] = CloseFrame
        BY <2>1, <4>1, <4>2, HeadOfChan
      <4> QED
        BY <3>2, <4>3 DEF GivenUp
    <3>3. CASE sock[n] \in {"closing", "broken"}
      BY <2>1, <3>1, <3>3 DEF GivenUp
    <3> QED
      BY <3>1, <3>2, <3>3
  <2> QED
    BY <2>1, <2>2 DEF Usable, ChanOpen
<1>16. ASSUME NEW n \in Conns, WriteClose(n)
       PROVE  Connections'
  <2>1. /\ chan[n] # <<>> /\ chan' = [chan EXCEPT ![n] = Tail(@)] /\ writer[n] = "running"
        /\ sock' = [sock EXCEPT ![n] = IF @ = "open" THEN "closing" ELSE @]
        /\ UNCHANGED <<outbound, dialer, pc, use, writer, reply>>
    BY <1>16 DEF WriteClose
  <2>2. sock'[n] \in {"closing", "broken"}
    BY <2>1
  <2>3. \A m \in Conns \ {n} : chan'[m] = chan[m] /\ sock'[m] = sock[m]
    BY <2>1
  <2>4. \A m \in Conns : GivenUp(m) => GivenUp(m)'
    BY <2>2, <2>3 DEF GivenUp
  <2> QED
    BY <2>1, <2>2, <2>3, <2>4 DEF Usable, ChanOpen
<1>17. ASSUME NEW n \in Conns, WriterStop(n)
       PROVE  Connections'
  <2>1. /\ writer[n] = "running" /\ writer' = [writer EXCEPT ![n] = "drained"]
        /\ UNCHANGED <<outbound, dialer, pc, use, chan, sock>>
        /\ reply' = [c \in Calls |-> IF Enrolled(c) THEN "closed" ELSE reply[c]]
    BY <1>17 DEF WriterStop, Drain
  <2>2. sock[n] \in {"closing", "broken"}
    <3>1. CASE chan[n] # <<>> /\ sock[n] \in {"closing", "broken"}
      BY <3>1
    <3>2. CASE chan[n] = <<>> /\ outbound # n
      <4>1. GivenUp(n) /\ Len(chan[n]) = 0
        BY <2>1, <3>2
      <4> QED
        BY <4>1 DEF GivenUp
    <3> QED
      BY <1>17, <3>1, <3>2 DEF WriterStop
  <2> QED
    BY <2>1, <2>2 DEF GivenUp, Usable, ChanOpen
<1>18. ASSUME NEW n \in Conns, WriterDrop(n)
       PROVE  Connections'
  <2>1. /\ writer[n] = "drained" /\ writer' = [writer EXCEPT ![n] = "done"]
        /\ UNCHANGED <<outbound, dialer, pc, use, sock, reply>>
        /\ \A m \in Conns \ {n} : chan'[m] = chan[m]
    BY <1>18 DEF WriterDrop
  <2>2. \A m \in Conns \ {n} : GivenUp(m) => GivenUp(m)'
    BY <2>1 DEF GivenUp
  <2>3. \A m \in Conns : writer'[m] = "running" => m # n /\ writer[m] = "running"
    BY <2>1
  <2> QED
    BY <2>1, <2>2, <2>3 DEF Usable, ChanOpen
<1>19. ASSUME NEW n \in Conns, Respond(n)
       PROVE  Connections'
  <2>1. /\ UNCHANGED <<outbound, dialer, pc, use, writer, chan, sock>>
        /\ \A c \in Calls : reply'[c] = "closed" => reply[c] = "closed"
    BY <1>19 DEF Respond
  <2> QED
    BY <2>1 DEF GivenUp
<1>20. ASSUME NEW n \in Conns, Broadcast(n)
       PROVE  Connections'
  BY <1>20 DEF Broadcast, Arriving, GivenUp
<1>21. ASSUME NEW n \in Conns, ReaderStop(n)
       PROVE  Connections'
  BY <1>21 DEF ReaderStop, Drain, Enrolled, GivenUp
<1>22. ASSUME NEW n \in Conns, NEW c \in Calls, NEW k \in Keys, Grant(n, c, k)
       PROVE  Connections'
  BY <1>22 DEF Grant, Alive, GivenUp
<1>23. ASSUME NEW n \in Conns, NEW c \in Calls, Serve(n, c)
       PROVE  Connections'
  BY <1>23 DEF Serve, Alive, GivenUp
<1>24. ASSUME NEW n \in Conns, NEW k \in Keys, Notify(n, k)
       PROVE  Connections'
  BY <1>24 DEF Notify, Alive, GivenUp
<1>25. ASSUME NEW n \in Conns, Break(n)
       PROVE  Connections'
  BY <1>25 DEF Break, Alive, GivenUp
<1> QED
  BY <1>1, <1>2, <1>3, <1>4, <1>5, <1>6, <1>7, <1>8, <1>9, <1>10, <1>11,
     <1>12, <1>13, <1>14, <1>15, <1>16, <1>17, <1>18, <1>19, <1>20, <1>21, <1>22,
     <1>23, <1>24, <1>25 DEF Next, CallStep, TaskStep, PeerStep

-------------------------------------------------------------------------------
(* Requests and their answers.                                             *)

\* A request is in one place at a time, and is answered once.
LEMMA RequestsStep ==
  ASSUME TypeOK, Numbered, Connections, Requests, Next
  PROVE  Requests'
<1> USE DEF TypeOK, Requests, Begun, Waiting
<1>1. ASSUME NEW c \in Calls, Begin(c)
      PROVE  Requests'
  BY <1>1 DEF Begin
<1>2. ASSUME NEW c \in Calls, UseExisting(c)
      PROVE  Requests'
  BY <1>2 DEF UseExisting, Usable, ChanOpen, Numbered
<1>3. ASSUME NEW c \in Calls, StartDial(c)
      PROVE  Requests'
  BY <1>3 DEF StartDial, Usable, ChanOpen
<1>4. ASSUME NEW c \in Calls, NEW n \in Conns, Dial(c, n)
      PROVE  Requests'
  BY <1>4 DEF Dial, Numbered
<1>5. ASSUME NEW c \in Calls, DialFail(c)
      PROVE  Requests'
  BY <1>5 DEF DialFail
<1>6. ASSUME NEW c \in Calls, Enroll(c)
      PROVE  Requests'
  BY <1>6 DEF Enroll, FreshId, Numbered
<1>7. ASSUME NEW c \in Calls, Send(c)
      PROVE  Requests'
  <2> DEFINE n == use[c]
  <2>1. /\ pc[c] = "send" /\ pc' = [pc EXCEPT ![c] = "wait"] /\ n \in Conns /\ id[c] # 0
        /\ chan' = [chan EXCEPT ![n] = Append(@, c)]
        /\ UNCHANGED <<id, use, served, inbox, granted, active>>
    BY <1>7 DEF Send, Connections, Numbered, Holding
  <2>2. chan[n] \in Seq(Calls \cup {CloseFrame}) /\ c \in Calls
    BY <2>1
  <2>3. /\ Len(chan[n]) \in Nat /\ Len(chan'[n]) = Len(chan[n]) + 1
        /\ chan'[n][Len(chan[n]) + 1] = c
        /\ \A i \in 1..Len(chan[n]) : chan'[n][i] = chan[n][i]
    BY <2>1, <2>2
  <2>4. \A i \in 1..Len(chan'[n]) : i \in 1..Len(chan[n]) \/ i = Len(chan[n]) + 1
    BY <2>3
  <2>5. \A i \in 1..Len(chan[n]) : chan[n][i] # c
    BY <2>1
  <2>6. c \notin served /\ \A m \in Conns : c \notin inbox[m]
    BY <2>1
  <2>7. \A m \in Conns \ {n} : chan'[m] = chan[m]
    BY <2>1
  <2>8. \A i \in 1..Len(chan'[n]) : chan'[n][i] \in Calls =>
          /\ use[chan'[n][i]] = n /\ id[chan'[n][i]] # 0
          /\ pc'[chan'[n][i]] # "send"
          /\ chan'[n][i] \notin served
          /\ \A m \in Conns : chan'[n][i] \notin inbox[m]
          /\ \A j \in 1..Len(chan'[n]) : chan'[n][j] = chan'[n][i] => i = j
    BY <2>1, <2>3, <2>4, <2>5, <2>6
  <2>9. \A d \in Calls : pc'[d] = "send" => pc[d] = "send"
    BY <2>1
  <2>10. \A d \in Calls : pc'[d] \in {"send"} \cup Begun => d \notin served
    BY <2>1
  <2> HIDE DEF n
  <2> QED
    BY <2>1, <2>7, <2>8, <2>9, <2>10
<1>8. ASSUME NEW c \in Calls, SendFail(c)
      PROVE  Requests'
  BY <1>8 DEF SendFail, WithoutPending, ChanOpen
<1>9. ASSUME NEW c \in Calls, Return(c)
      PROVE  Requests'
  BY <1>9 DEF Return
<1>10. ASSUME NEW c \in Calls, ReturnClosed(c)
       PROVE  Requests'
  BY <1>10 DEF ReturnClosed
<1>11. ASSUME NEW c \in Calls, Expire(c)
       PROVE  Requests'
  BY <1>11 DEF Expire
<1>12. ASSUME NEW c \in Calls, Drop(c)
       PROVE  Requests'
  BY <1>12 DEF Drop
<1>13. ASSUME NEW s \in Subscribes, Receive(s)
       PROVE  Requests'
  BY <1>13 DEF Receive
<1>14. ASSUME Close
       PROVE  Requests'
  <2>1. /\ outbound \in Conns /\ UNCHANGED <<pc, id, use, served, inbox, granted, active>>
        /\ \/ chan' = chan
           \/ chan' = [chan EXCEPT ![outbound] = Append(@, CloseFrame)]
    BY <1>14 DEF Close
  <2>2. chan[outbound] \in Seq(Calls \cup {CloseFrame})
    BY <2>1
  <2>3. ASSUME NEW n \in Conns, NEW i \in 1..Len(chan'[n]), chan'[n][i] \in Calls
        PROVE  i \in 1..Len(chan[n]) /\ chan'[n][i] = chan[n][i]
    <3>1. CASE chan'[n] = chan[n]
      BY <2>3, <3>1
    <3>2. CASE n = outbound /\ chan'[n] = Append(chan[n], CloseFrame)
      <4>1. /\ Len(chan[n]) \in Nat /\ Len(chan'[n]) = Len(chan[n]) + 1
            /\ chan'[n][Len(chan[n]) + 1] = CloseFrame
            /\ \A j \in 1..Len(chan[n]) : chan'[n][j] = chan[n][j]
        BY <2>2, <3>2
      <4>2. i # Len(chan[n]) + 1
        BY <2>3, <4>1, NullsAreOutside
      <4> QED
        BY <4>1, <4>2
    <3> QED
      BY <2>1, <3>1, <3>2
  <2> QED
    BY <2>1, <2>3
<1>15. ASSUME NEW n \in Conns, WriteRequest(n)
       PROVE  Requests'
  <2> DEFINE c == Head(chan[n])
  <2>1. /\ chan[n] # <<>> /\ c \in Calls /\ chan' = [chan EXCEPT ![n] = Tail(@)]
        /\ UNCHANGED <<pc, id, use, served, granted, active>>
        /\ inbox' = IF sock[n] = "open" THEN [inbox EXCEPT ![n] = @ \cup {c}] ELSE inbox
    BY <1>15 DEF WriteRequest
  <2>2. c = chan[n][1] /\ 1 \in 1..Len(chan[n])
    BY <2>1, HeadOfChan
  <2>3. use[c] = n /\ id[c] # 0 /\ pc[c] # "send" /\ c \notin served
    BY <2>1, <2>2
  <2>4. \A m \in Conns : \A d \in inbox'[m] : d \in inbox[m] \/ (d = c /\ m = n)
    BY <2>1
  <2>5. \A m \in Conns : \A i \in 1..Len(chan'[m]) : chan'[m][i] \in Calls =>
          \E k \in 1..Len(chan[m]) : chan'[m][i] = chan[m][k] /\ chan'[m][i] # c
    <3>1. \A i \in 1..Len(chan'[n]) : i + 1 \in 1..Len(chan[n]) /\ i + 1 # 1
                                       /\ chan'[n][i] = chan[n][i + 1]
      BY <2>1, HeadOfChan
    <3>2. \A i \in 1..Len(chan'[n]) : chan'[n][i] # c
      BY <2>1, <2>2, <3>1
    <3>3. \A m \in Conns \ {n} : chan'[m] = chan[m]
      BY <2>1, HeadOfChan
    <3>4. \A m \in Conns \ {n} : \A i \in 1..Len(chan[m]) : chan[m][i] # c
      BY <2>1, <2>3
    <3>5. ASSUME NEW m \in Conns, NEW i \in 1..Len(chan'[m]), chan'[m][i] \in Calls
          PROVE  \E k \in 1..Len(chan[m]) : chan'[m][i] = chan[m][k] /\ chan'[m][i] # c
      <4>1. CASE m = n
        BY <3>1, <3>2, <4>1
      <4>2. CASE m # n
        <5>1. chan'[m] = chan[m] /\ i \in 1..Len(chan[m]) /\ chan[m][i] # c
          BY <3>3, <3>4, <4>2
        <5> QED
          BY <5>1
      <4> QED
        BY <4>1, <4>2
    <3> QED
      BY <3>5
  <2>6. \A m \in Conns : \A i, j \in 1..Len(chan'[m]) :
          chan'[m][i] \in Calls /\ chan'[m][j] = chan'[m][i] => i = j
    <3>1. ASSUME NEW i \in 1..Len(chan'[n]), NEW j \in 1..Len(chan'[n]),
                 chan'[n][i] \in Calls, chan'[n][j] = chan'[n][i]
          PROVE  i = j
      <4>1. /\ i + 1 \in 1..Len(chan[n]) /\ chan'[n][i] = chan[n][i + 1]
            /\ j + 1 \in 1..Len(chan[n]) /\ chan'[n][j] = chan[n][j + 1]
        BY <2>1, HeadOfChan
      <4>2. i + 1 = j + 1
        BY <3>1, <4>1
      <4> QED
        BY <4>2
    <3>2. \A m \in Conns \ {n} : chan'[m] = chan[m]
      BY <2>1, HeadOfChan
    <3> QED
      BY <3>1, <3>2
  <2>7. \A m \in Conns : c \notin inbox'[m] \/ m = n
    BY <2>1, <2>2
  <2> HIDE DEF c
  <2>8. ASSUME NEW m \in Conns, NEW i \in 1..Len(chan'[m]), chan'[m][i] \in Calls
        PROVE  /\ use[chan'[m][i]] = m /\ id[chan'[m][i]] # 0 /\ pc[chan'[m][i]] # "send"
               /\ chan'[m][i] \notin served
               /\ \A o \in Conns : chan'[m][i] \notin inbox'[o]
    <3>1. PICK k \in 1..Len(chan[m]) : chan'[m][i] = chan[m][k] /\ chan'[m][i] # c
      BY <2>5, <2>8
    <3> QED
      BY <2>4, <2>8, <3>1
  <2>9. \A m \in Conns : \A d \in inbox'[m] :
          use[d] = m /\ id[d] # 0 /\ pc[d] # "send" /\ d \notin served
    BY <2>3, <2>4
  <2>10. ASSUME NEW m \in Conns, NEW i \in 1..Len(chan'[m]), chan'[m][i] \in Calls,
               NEW j \in 1..Len(chan'[m]), chan'[m][j] = chan'[m][i]
         PROVE  i = j
    BY <2>6, <2>10
  <2> QED
    BY <2>1, <2>8, <2>9, <2>10
<1>16. ASSUME NEW n \in Conns, WriteClose(n)
       PROVE  Requests'
  <2>1. /\ chan[n] # <<>> /\ chan' = [chan EXCEPT ![n] = Tail(@)]
        /\ UNCHANGED <<pc, id, use, served, inbox, granted, active>>
    BY <1>16 DEF WriteClose
  <2>2. ASSUME NEW i \in 1..Len(chan'[n]), chan'[n][i] \in Calls
        PROVE  /\ i + 1 \in 1..Len(chan[n]) /\ chan'[n][i] = chan[n][i + 1]
               /\ \A j \in 1..Len(chan'[n]) : chan'[n][j] = chan'[n][i] => i = j
    <3>1. \A j \in 1..Len(chan'[n]) : j + 1 \in 1..Len(chan[n]) /\ chan'[n][j] = chan[n][j + 1]
      BY <2>1, HeadOfChan
    <3>2. ASSUME NEW j \in 1..Len(chan'[n]), chan'[n][j] = chan'[n][i] PROVE i = j
      <4>1. /\ i + 1 \in 1..Len(chan[n]) /\ chan'[n][i] = chan[n][i + 1]
            /\ j + 1 \in 1..Len(chan[n]) /\ chan'[n][j] = chan[n][j + 1]
        BY <3>1
      <4>2. i + 1 = j + 1
        BY <2>2, <3>2, <4>1
      <4> QED
        BY <4>2
    <3> QED
      BY <3>1, <3>2
  <2>3. \A m \in Conns \ {n} : chan'[m] = chan[m]
    BY <2>1, HeadOfChan
  <2> QED
    BY <2>1, <2>2, <2>3
<1>17. ASSUME NEW n \in Conns, WriterStop(n)
       PROVE  Requests'
  BY <1>17 DEF WriterStop, Drain, Enrolled
<1>18. ASSUME NEW n \in Conns, WriterDrop(n)
       PROVE  Requests'
  <2>1. /\ chan' = [chan EXCEPT ![n] = <<>>]
        /\ UNCHANGED <<pc, id, use, served, inbox, granted, active>>
    BY <1>18 DEF WriterDrop
  <2>2. \A m \in Conns : chan'[m] = chan[m] \/ Len(chan'[m]) = 0
    BY <2>1
  <2> QED
    BY <2>1, <2>2
<1>19. ASSUME NEW n \in Conns, Respond(n)
       PROVE  Requests'
  BY <1>19 DEF Respond, WithoutPending, Arriving
<1>20. ASSUME NEW n \in Conns, Broadcast(n)
       PROVE  Requests'
  BY <1>20 DEF Broadcast, Arriving
<1>21. ASSUME NEW n \in Conns, ReaderStop(n)
       PROVE  Requests'
  BY <1>21 DEF ReaderStop, Drain, Enrolled
<1>22. ASSUME NEW n \in Conns, NEW c \in Calls, NEW k \in Keys, Grant(n, c, k)
       PROVE  Requests'
  BY <1>22, NullsAreOutside DEF Grant, Alive
<1>23. ASSUME NEW n \in Conns, NEW c \in Calls, Serve(n, c)
       PROVE  Requests'
  <2>1. /\ c \in inbox[n] /\ inbox' = [inbox EXCEPT ![n] = @ \ {c}]
        /\ served' = served \cup {c} /\ UNCHANGED <<pc, id, use, chan, granted>>
        /\ active' = IF c \in Unsubscribes
                       THEN [active EXCEPT ![n] = @ \ {key[target[c]]}] ELSE active
    BY <1>23 DEF Serve
  <2>2. use[c] = n /\ id[c] # 0 /\ pc[c] # "send" /\ c \notin served
    BY <2>1
  <2>3. \A m \in Conns : inbox'[m] \subseteq inbox[m] \ {c}
    BY <2>1, <2>2
  <2>4. \A m \in Conns : active'[m] \subseteq active[m]
    BY <2>1
  <2>5. pc[c] \notin Begun
    BY <2>2 DEF Numbered
  <2>6. \A m \in Conns : \A i \in 1..Len(chan[m]) : chan[m][i] \in Calls => chan[m][i] # c
    BY <2>1
  <2> QED
    BY <2>1, <2>2, <2>3, <2>4, <2>5, <2>6
<1>24. ASSUME NEW n \in Conns, NEW k \in Keys, Notify(n, k)
       PROVE  Requests'
  BY <1>24 DEF Notify, Alive
<1>25. ASSUME NEW n \in Conns, Break(n)
       PROVE  Requests'
  BY <1>25 DEF Break, Alive
<1> QED
  BY <1>1, <1>2, <1>3, <1>4, <1>5, <1>6, <1>7, <1>8, <1>9, <1>10, <1>11,
     <1>12, <1>13, <1>14, <1>15, <1>16, <1>17, <1>18, <1>19, <1>20, <1>21, <1>22,
     <1>23, <1>24, <1>25 DEF Next, CallStep, TaskStep, PeerStep

\* The wires are as they were, and what fits them still does.
LEMMA WiresKept ==
  ASSUME TypeOK, Wires, wire' = wire, served \subseteq served',
         \A c \in Calls : id[c] # 0 => id'[c] = id[c]
  PROVE  Wires'
<1>1. ASSUME NEW n \in Conns, NEW j \in 1..Len(wire[n])
      PROVE  Fit(wire[n][j], id', served')
  <2>1. wire[n] \in Seq(Msg)
    BY DEF TypeOK
  <2>2. wire[n][j] \in Msg
    BY <2>1
  <2>3. wire[n][j].of \in Calls
    BY <2>2 DEF Msg
  <2>4. Fit(wire[n][j], id, served)
    BY DEF Wires
  <2> QED
    BY <2>3, <2>4 DEF Fit
<1> QED
  BY <1>1 DEF Wires

\* A wire loses its head.
LEMMA WiresAfterRead ==
  ASSUME TypeOK, Wires, NEW n \in Conns, wire[n] # <<>>,
         wire' = [wire EXCEPT ![n] = Tail(@)], UNCHANGED <<id, served>>
  PROVE  Wires'
<1>1. wire'[n] = Tail(wire[n]) /\ \A m \in Conns \ {n} : wire'[m] = wire[m]
  BY DEF TypeOK
<1>2. ASSUME NEW j \in 1..Len(wire'[n]) PROVE Fit(wire'[n][j], id, served)
  <2>1. j + 1 \in 1..Len(wire[n]) /\ wire'[n][j] = wire[n][j + 1]
    BY <1>1, HeadOfWire
  <2> QED
    BY <2>1 DEF Wires
<1> QED
  BY <1>1, <1>2 DEF Wires

\* A message that fits can be sent.
LEMMA WiresAfterPut ==
  ASSUME TypeOK, Wires, NEW n \in Conns, NEW m \in Msg, Put(n, m),
         Fit(m, id, served'), id' = id, served \subseteq served'
  PROVE  Wires'
<1>1. wire[n] \in Seq(Msg)
  BY DEF TypeOK
<1>2. wire'[n] = Append(wire[n], m) /\ \A o \in Conns \ {n} : wire'[o] = wire[o]
  BY DEF TypeOK, Put
<1>3. /\ Len(wire'[n]) = Len(wire[n]) + 1 /\ Len(wire[n]) \in Nat
      /\ wire'[n][Len(wire[n]) + 1] = m
      /\ \A j \in 1..Len(wire[n]) : wire'[n][j] = wire[n][j]
  BY <1>1, <1>2
<1>4. ASSUME NEW o \in Conns, NEW j \in 1..Len(wire[o])
      PROVE  Fit(wire[o][j], id, served')
  BY DEF Wires, Fit
<1>5. ASSUME NEW j \in 1..Len(wire'[n]) PROVE Fit(wire'[n][j], id, served')
  <2>1. j \in 1..Len(wire[n]) \/ j = Len(wire[n]) + 1
    BY <1>3
  <2> QED
    BY <1>3, <1>4, <2>1
<1> QED
  BY <1>2, <1>4, <1>5 DEF Wires

\* Every message on a wire keeps fitting.
LEMMA WiresStep ==
  ASSUME TypeOK, Numbered, Requests, Wires, Next
  PROVE  Wires'
<1> USE DEF TypeOK
<1>1. ASSUME NEW c \in Calls, Begin(c)
      PROVE  Wires'
  BY <1>1, WiresKept DEF Begin
<1>2. ASSUME NEW c \in Calls, UseExisting(c)
      PROVE  Wires'
  BY <1>2, WiresKept DEF UseExisting, Usable, ChanOpen
<1>3. ASSUME NEW c \in Calls, StartDial(c)
      PROVE  Wires'
  BY <1>3, WiresKept DEF StartDial, Usable, ChanOpen
<1>4. ASSUME NEW c \in Calls, NEW n \in Conns, Dial(c, n)
      PROVE  Wires'
  BY <1>4, WiresKept DEF Dial
<1>5. ASSUME NEW c \in Calls, DialFail(c)
      PROVE  Wires'
  BY <1>5, WiresKept DEF DialFail
<1>6. ASSUME NEW c \in Calls, Enroll(c)
      PROVE  Wires'
  <2>1. id' = [id EXCEPT ![c] = nextId + 1] /\ id[c] = 0 /\ UNCHANGED <<wire, served>>
    BY <1>6 DEF Enroll, FreshId, Numbered, Begun
  <2> QED
    BY <2>1, WiresKept
<1>7. ASSUME NEW c \in Calls, Send(c)
      PROVE  Wires'
  BY <1>7, WiresKept DEF Send, ChanOpen
<1>8. ASSUME NEW c \in Calls, SendFail(c)
      PROVE  Wires'
  BY <1>8, WiresKept DEF SendFail, WithoutPending, ChanOpen
<1>9. ASSUME NEW c \in Calls, Return(c)
      PROVE  Wires'
  BY <1>9, WiresKept DEF Return
<1>10. ASSUME NEW c \in Calls, ReturnClosed(c)
       PROVE  Wires'
  BY <1>10, WiresKept DEF ReturnClosed
<1>11. ASSUME NEW c \in Calls, Expire(c)
       PROVE  Wires'
  BY <1>11, WiresKept DEF Expire
<1>12. ASSUME NEW c \in Calls, Drop(c)
       PROVE  Wires'
  BY <1>12, WiresKept DEF Drop
<1>13. ASSUME NEW s \in Subscribes, Receive(s)
       PROVE  Wires'
  BY <1>13, WiresKept DEF Receive
<1>14. ASSUME Close
       PROVE  Wires'
  BY <1>14, WiresKept DEF Close, ChanOpen
<1>15. ASSUME NEW n \in Conns, WriteRequest(n)
       PROVE  Wires'
  BY <1>15, WiresKept DEF WriteRequest
<1>16. ASSUME NEW n \in Conns, WriteClose(n)
       PROVE  Wires'
  BY <1>16, WiresKept DEF WriteClose
<1>17. ASSUME NEW n \in Conns, WriterStop(n)
       PROVE  Wires'
  BY <1>17, WiresKept DEF WriterStop, Drain, Enrolled
<1>18. ASSUME NEW n \in Conns, WriterDrop(n)
       PROVE  Wires'
  BY <1>18, WiresKept DEF WriterDrop
<1>19. ASSUME NEW n \in Conns, Respond(n)
       PROVE  Wires'
  BY <1>19, WiresAfterRead DEF Respond, WithoutPending, Arriving
<1>20. ASSUME NEW n \in Conns, Broadcast(n)
       PROVE  Wires'
  BY <1>20, WiresAfterRead DEF Broadcast, Arriving
<1>21. ASSUME NEW n \in Conns, ReaderStop(n)
       PROVE  Wires'
  BY <1>21, WiresKept DEF ReaderStop, Drain, Enrolled
<1>22. ASSUME NEW n \in Conns, NEW c \in Calls, NEW k \in Keys, Grant(n, c, k)
       PROVE  Wires'
  BY <1>22, WiresKept DEF Grant, Alive
<1>23. ASSUME NEW n \in Conns, NEW c \in Calls, Serve(n, c)
       PROVE  Wires'
  <2>1. PICK verdict \in {"ok", "refused"}, k \in Keys \cup {NoKey} :
           Put(n, Response(c, verdict, k))
    BY <1>23 DEF Serve
  <2> DEFINE m == Response(c, verdict, k)
  <2>2. m \in Msg /\ m.id = id[c] /\ m.of = c
    BY DEF Response, Msg
  <2>3. id[c] # 0 /\ served' = served \cup {c} /\ id' = id
    BY <1>23 DEF Serve, Requests
  <2>4. Fit(m, id, served')
    BY <2>2, <2>3 DEF Fit
  <2>5. Put(n, m)
    BY <2>1
  <2> HIDE DEF m
  <2> QED
    BY <2>2, <2>3, <2>4, <2>5, WiresAfterPut
<1>24. ASSUME NEW n \in Conns, NEW k \in Keys, Notify(n, k)
       PROVE  Wires'
  <2> DEFINE s == granted[n][k]
             m == Note(s, k, emitted[s] + 1)
  <2>1. s \in Subscribes
    BY <1>24 DEF Notify, Requests
  <2>2. m \in Msg /\ IsNote(m)
    BY <2>1, BoundsAreNatural DEF Note, Msg, Calls, IsNote
  <2>3. Put(n, m) /\ UNCHANGED <<id, served>>
    BY <1>24 DEF Notify
  <2> HIDE DEF m
  <2> QED
    BY <2>2, <2>3, WiresAfterPut DEF Fit
<1>25. ASSUME NEW n \in Conns, Break(n)
       PROVE  Wires'
  BY <1>25, WiresKept DEF Break, Alive
<1> QED
  BY <1>1, <1>2, <1>3, <1>4, <1>5, <1>6, <1>7, <1>8, <1>9, <1>10, <1>11,
     <1>12, <1>13, <1>14, <1>15, <1>16, <1>17, <1>18, <1>19, <1>20, <1>21, <1>22,
     <1>23, <1>24, <1>25 DEF Next, CallStep, TaskStep, PeerStep

\* A full oneshot channel holds its call's own answer.
LEMMA AnswersStep ==
  ASSUME TypeOK, Numbered, Oneshots, Wires, Answers, Next
  PROVE  Answers'
<1> USE DEF TypeOK, Answers
<1>1. ASSUME NEW c \in Calls, Begin(c)
      PROVE  Answers'
  BY <1>1 DEF Begin
<1>2. ASSUME NEW c \in Calls, UseExisting(c)
      PROVE  Answers'
  BY <1>2 DEF UseExisting, Usable, ChanOpen
<1>3. ASSUME NEW c \in Calls, StartDial(c)
      PROVE  Answers'
  BY <1>3 DEF StartDial, Usable, ChanOpen
<1>4. ASSUME NEW c \in Calls, NEW n \in Conns, Dial(c, n)
      PROVE  Answers'
  BY <1>4 DEF Dial
<1>5. ASSUME NEW c \in Calls, DialFail(c)
      PROVE  Answers'
  BY <1>5 DEF DialFail
<1>6. ASSUME NEW c \in Calls, Enroll(c)
      PROVE  Answers'
  BY <1>6 DEF Enroll, FreshId
<1>7. ASSUME NEW c \in Calls, Send(c)
      PROVE  Answers'
  BY <1>7 DEF Send, ChanOpen
<1>8. ASSUME NEW c \in Calls, SendFail(c)
      PROVE  Answers'
  BY <1>8 DEF SendFail, WithoutPending, ChanOpen
<1>9. ASSUME NEW c \in Calls, Return(c)
      PROVE  Answers'
  BY <1>9 DEF Return
<1>10. ASSUME NEW c \in Calls, ReturnClosed(c)
       PROVE  Answers'
  BY <1>10 DEF ReturnClosed
<1>11. ASSUME NEW c \in Calls, Expire(c)
       PROVE  Answers'
  BY <1>11 DEF Expire
<1>12. ASSUME NEW c \in Calls, Drop(c)
       PROVE  Answers'
  BY <1>12 DEF Drop
<1>13. ASSUME NEW s \in Subscribes, Receive(s)
       PROVE  Answers'
  BY <1>13 DEF Receive
<1>14. ASSUME Close
       PROVE  Answers'
  BY <1>14 DEF Close, ChanOpen
<1>15. ASSUME NEW n \in Conns, WriteRequest(n)
       PROVE  Answers'
  BY <1>15 DEF WriteRequest
<1>16. ASSUME NEW n \in Conns, WriteClose(n)
       PROVE  Answers'
  BY <1>16 DEF WriteClose
<1>17. ASSUME NEW n \in Conns, WriterStop(n)
       PROVE  Answers'
  BY <1>17 DEF WriterStop, Drain, Enrolled
<1>18. ASSUME NEW n \in Conns, WriterDrop(n)
       PROVE  Answers'
  BY <1>18 DEF WriterDrop
<1>19. ASSUME NEW n \in Conns, Respond(n)
       PROVE  Answers'
  <2> DEFINE m == Head(wire[n])
             c == pending[m.id]
  <2>1. /\ m \in Msg /\ m.id \in Ids /\ m.of \in Calls /\ m.of \in served
        /\ id[m.of] = m.id
    BY <1>19, ResponseOfCall DEF Respond
  <2>2. /\ served' = served
        /\ \/ UNCHANGED replies
           \/ /\ c # NoCall /\ reply' = [reply EXCEPT ![c] = "full"]
              /\ answer' = [answer EXCEPT ![c] = m]
    BY <1>19 DEF Respond
  <2>3. c # NoCall => c \in Calls /\ m.of = c
    <3>1. c # NoCall => c \in Calls /\ id[c] = m.id
      BY <2>1 DEF Oneshots
    <3>2. m.id # 0
      BY <2>1, BoundsAreNatural DEF Ids
    <3> QED
      BY <2>1, <3>1, <3>2 DEF Numbered
  <2> HIDE DEF m, c
  <2> QED
    BY <2>1, <2>2, <2>3
<1>20. ASSUME NEW n \in Conns, Broadcast(n)
       PROVE  Answers'
  BY <1>20 DEF Broadcast, Arriving
<1>21. ASSUME NEW n \in Conns, ReaderStop(n)
       PROVE  Answers'
  BY <1>21 DEF ReaderStop, Drain, Enrolled
<1>22. ASSUME NEW n \in Conns, NEW c \in Calls, NEW k \in Keys, Grant(n, c, k)
       PROVE  Answers'
  BY <1>22 DEF Grant, Alive
<1>23. ASSUME NEW n \in Conns, NEW c \in Calls, Serve(n, c)
       PROVE  Answers'
  BY <1>23 DEF Serve, Alive
<1>24. ASSUME NEW n \in Conns, NEW k \in Keys, Notify(n, k)
       PROVE  Answers'
  BY <1>24 DEF Notify, Alive
<1>25. ASSUME NEW n \in Conns, Break(n)
       PROVE  Answers'
  BY <1>25 DEF Break, Alive
<1> QED
  BY <1>1, <1>2, <1>3, <1>4, <1>5, <1>6, <1>7, <1>8, <1>9, <1>10, <1>11,
     <1>12, <1>13, <1>14, <1>15, <1>16, <1>17, <1>18, <1>19, <1>20, <1>21, <1>22,
     <1>23, <1>24, <1>25 DEF Next, CallStep, TaskStep, PeerStep

-------------------------------------------------------------------------------
\* The invariant holds before the first call.
LEMMA InitIInv == Init => IInv
<1> SUFFICES ASSUME Init PROVE IInv
  OBVIOUS
<1>1. TypeOK
  <2>1. <<>> \in Seq(Msg) /\ <<>> \in Seq(Calls \cup {CloseFrame})
    OBVIOUS
  <2> QED
    BY <2>1, BoundsAreNatural DEF Init, TypeOK
<1>2. Counted
  <2>1. {c \in Calls : pc[c] # "idle"} = {} /\ {c \in Calls : id[c] # 0} = {}
    BY DEF Init
  <2>2. IsFiniteSet({}) /\ Cardinality({}) = 0 /\ 0 <= MaxId /\ nextId = 0
    BY FS_EmptySet, BoundsAreNatural DEF Init
  <2> QED
    BY <2>1, <2>2 DEF Counted
<1>3. Numbered /\ Answers
  BY DEF Init, Numbered, Begun, Answers
<1>4. Oneshots
  BY DEF Init, Oneshots, Waiting
<1>5. Connections
  BY DEF Init, Connections, Holding, Waiting
<1>6. Requests /\ Wires
  BY DEF Init, Requests, Wires
<1> QED
  BY <1>1, <1>2, <1>3, <1>4, <1>5, <1>6 DEF IInv

\* No step breaks the invariant.
LEMMA NextIInv == IInv /\ [Next]_vars => IInv'
<1> SUFFICES ASSUME IInv, [Next]_vars PROVE IInv'
  OBVIOUS
<1>1. CASE Next
  BY <1>1, CountedStep, NumberedStep, TypeStep, OneshotsStep, ConnectionsStep,
     RequestsStep, WiresStep, AnswersStep DEF IInv
<1>2. CASE UNCHANGED vars
  BY <1>2 DEF IInv, TypeOK, Counted, Numbered, Oneshots, Connections, Usable, ChanOpen,
     GivenUp, Requests, Wires, Answers
<1> QED
  BY <1>1, <1>2

\* The inductive invariant holds in every state the transport reaches.
THEOREM Invariance == Spec => []IInv
<1> QED
  BY InitIInv, NextIInv, PTL DEF Spec

\* Every variable keeps its type; a receiver never holds more than the capacity.
THEOREM TypeCorrect == Spec => []TypeOK
<1>1. IInv => TypeOK
  BY DEF IInv
<1> QED
  BY <1>1, Invariance, PTL

\* A call that waits is in pending or has its end in its channel, and pending holds
\* nobody else but calls that timed out or were dropped.
THEOREM PendingOwed == Spec => []PendingIsOwed
<1>1. IInv => PendingIsOwed
  <2> SUFFICES ASSUME IInv PROVE PendingIsOwed
    OBVIOUS
  <2>1. ASSUME NEW c \in Calls, pc[c] \in Waiting, reply[c] = "none" PROVE Enrolled(c)
    <3>1. id[c] \in Ids
      BY <2>1, WaitingHasId DEF IInv
    <3>2. pending[id[c]] = c
      BY <2>1 DEF IInv, Oneshots
    <3> QED
      BY <3>1, <3>2 DEF Enrolled
  <2> QED
    BY <2>1 DEF IInv, Oneshots, PendingIsOwed
<1> QED
  BY <1>1, Invariance, PTL

-------------------------------------------------------------------------------
(* The transport implements the contract of RpcSession without isolation.  *)

\* The contract does not see a step that moves no call, or moves it among places
\* it does not tell apart.
LEMMA StatusKept ==
  ASSUME TypeOK, id' = id,
         \A c \in Calls : \/ pc'[c] = pc[c]
                          \/ pc[c] \in Begun /\ pc'[c] \in Begun
                          \/ pc[c] \in Waiting /\ pc'[c] \in Waiting,
         \A c \in Calls : pc[c] \in {"answered", "refused"} => answer'[c] = answer[c]
  PROVE  CallStatus' = CallStatus
<1>1. ASSUME NEW c \in Calls PROVE CallStatus'[c] = CallStatus[c]
  <2>1. CASE pc[c] \in {"answered", "refused"}
    BY <2>1 DEF CallStatus, Begun, Waiting
  <2>2. CASE pc[c] \in Begun
    BY <2>2 DEF CallStatus, Begun, Waiting
  <2>3. CASE pc[c] \in Waiting
    BY <2>3 DEF CallStatus, Begun, Waiting
  <2>4. CASE pc[c] \in {"closed", "expired", "unsent", "dropped"}
    BY <2>4 DEF CallStatus, Begun, Waiting
  <2> QED
    BY <2>1, <2>2, <2>3, <2>4 DEF TypeOK, InFlight, Holding, Ended, Begun, Waiting
<1> QED
  BY <1>1 DEF CallStatus

\* When the code of one call runs, the contract sees at most that call change.
LEMMA StatusBecomes ==
  ASSUME NEW c \in Calls, answer' = answer,
         \A d \in Calls \ {c} : pc'[d] = pc[d] /\ id'[d] = id[d]
  PROVE  CallStatus' = [CallStatus EXCEPT ![c] = CallStatus'[c]]
<1>1. \A d \in Calls \ {c} : CallStatus'[d] = CallStatus[d]
  BY DEF CallStatus
<1>2. CallStatus = [d \in Calls |-> CallStatus[d]]
  BY DEF CallStatus
<1>3. CallStatus' = [d \in Calls |-> CallStatus'[d]]
  BY DEF CallStatus
<1> QED
  BY <1>1, <1>2, <1>3

\* Only Enroll binds a call to a connection.
LEMMA LinkKept ==
  ASSUME id' = id, \A c \in Calls : id[c] # 0 => use'[c] = use[c]
  PROVE  Link' = Link
BY DEF Link

\* Connections do not change with the calls.
LEMMA LifeUnchanged ==
  ASSUME sock' = sock
  PROVE  Life' = Life
BY DEF Life

\* Every step of the transport is a step of the contract, or none.
LEMMA StepRefines ==
  ASSUME IInv, Next
  PROVE  [Session!SharedNext]_(Session!vars)
<1> DEFINE Refined == [Session!SharedNext]_(Session!vars)
<1> USE DEF IInv
<1>1. ASSUME NEW c \in Calls, Begin(c) \/ UseExisting(c) \/ StartDial(c) \/ Send(c)
      PROVE  Refined
  <2>1. /\ UNCHANGED <<id, answer, sock, served>>
        /\ \/ pc[c] \in Begun /\ \E l \in Begun : pc' = [pc EXCEPT ![c] = l]
           \/ pc[c] \in Waiting /\ pc' = [pc EXCEPT ![c] = "wait"]
        /\ use' = use \/ (id[c] = 0 /\ \A d \in Calls \ {c} : use'[d] = use[d])
    <3>1. CASE Begin(c) \/ StartDial(c)
      BY <3>1 DEF Begin, StartDial, Begun
    <3>2. CASE UseExisting(c)
      BY <3>2 DEF UseExisting, Begun, Numbered
    <3>3. CASE Send(c)
      BY <3>3 DEF Send, Waiting
    <3> QED
      BY <1>1, <3>1, <3>2, <3>3
  <2>2. CallStatus' = CallStatus
    <3>1. \A d \in Calls : \/ pc'[d] = pc[d]
                           \/ pc[d] \in Begun /\ pc'[d] \in Begun
                           \/ pc[d] \in Waiting /\ pc'[d] \in Waiting
      BY <2>1 DEF TypeOK, Waiting
    <3> QED
      BY <2>1, <3>1, StatusKept
  <2>3. Link' = Link /\ Life' = Life
    BY <2>1, LinkKept, LifeUnchanged
  <2> QED
    BY <2>1, <2>2, <2>3 DEF Session!vars
<1>2. ASSUME NEW c \in Calls, NEW n \in Conns, Dial(c, n) PROVE Refined
  <2>1. /\ pc[c] = "dialing" /\ pc' = [pc EXCEPT ![c] = "enroll"] /\ id[c] = 0
        /\ sock[n] = "unused" /\ sock' = [sock EXCEPT ![n] = "open"]
        /\ use' = [use EXCEPT ![c] = n] /\ UNCHANGED <<id, answer, served>>
    BY <1>2 DEF Dial, Numbered, Begun
  <2>2. CallStatus' = CallStatus
    <3>1. \A d \in Calls : \/ pc'[d] = pc[d]
                           \/ pc[d] \in Begun /\ pc'[d] \in Begun
      BY <2>1 DEF TypeOK, Begun
    <3> QED
      BY <2>1, <3>1, StatusKept
  <2>3. Link' = Link
    BY <2>1, LinkKept
  <2>4. Life[n] = "new" /\ Life' = [Life EXCEPT ![n] = "up"]
    BY <2>1 DEF Life, TypeOK
  <2>5. Session!Connect(n)
    BY <2>1, <2>2, <2>3, <2>4 DEF Session!Connect
  <2> QED
    BY <2>5 DEF Session!SharedNext, Session!Next
<1>3. ASSUME NEW c \in Calls, DialFail(c) \/ (Drop(c) /\ pc[c] \in Begun) PROVE Refined
  <2>1. /\ pc[c] \in Begun /\ id[c] = 0
        /\ \E l \in {"unsent", "dropped"} : pc' = [pc EXCEPT ![c] = l]
        /\ UNCHANGED <<id, use, answer, sock, served>>
    BY <1>3 DEF DialFail, Drop, Begun, Numbered
  <2>2. CallStatus[c] = "idle" /\ CallStatus'[c] = "unsent"
    BY <2>1 DEF CallStatus, Begun, Waiting, TypeOK
  <2>3. CallStatus' = [CallStatus EXCEPT ![c] = "unsent"]
    BY <2>1, <2>2, StatusBecomes DEF TypeOK
  <2>4. Session!Refuse(c)
    BY <2>1, <2>2, <2>3, LinkKept, LifeUnchanged DEF Session!Refuse, Session!Become
  <2> QED
    BY <2>4 DEF Session!SharedNext, Session!Next
<1>4. ASSUME NEW c \in Calls, Enroll(c) PROVE Refined
  <2>1. /\ pc[c] = "enroll" /\ pc' = [pc EXCEPT ![c] = "send"]
        /\ id' = [id EXCEPT ![c] = nextId + 1] /\ nextId + 1 # 0
        /\ UNCHANGED <<use, answer, sock, served>>
    BY <1>4, BoundsAreNatural DEF Enroll, FreshId, TypeOK
  <2>2. use[c] \in Conns /\ sock[use[c]] # "unused"
    BY <2>1 DEF Connections, Holding
  <2>3. CallStatus[c] = "idle" /\ CallStatus'[c] = "open"
    BY <2>1 DEF CallStatus, Waiting, TypeOK
  <2>4. CallStatus' = [CallStatus EXCEPT ![c] = "open"]
    BY <2>1, <2>3, StatusBecomes DEF TypeOK
  <2>5. Link' = [Link EXCEPT ![c] = use[c]]
    BY <2>1 DEF Link, TypeOK
  <2>6. Life[use[c]] # "new" /\ Life' = Life
    BY <2>1, <2>2 DEF Life
  <2>7. Session!Issue(c, use[c])
    BY <2>1, <2>3, <2>4, <2>5, <2>6 DEF Session!Issue, Session!Become
  <2> QED
    BY <2>2, <2>7 DEF Session!SharedNext, Session!Next
<1>5. ASSUME NEW c \in Calls, SendFail(c) PROVE Refined
  <2>1. /\ pc[c] = "send" /\ pc' = [pc EXCEPT ![c] = "unsent"]
        /\ UNCHANGED <<id, use, answer, sock, served>>
    BY <1>5 DEF SendFail
  <2>2. CallStatus[c] = "open" /\ CallStatus'[c] = "unsent"
    BY <2>1 DEF CallStatus, Waiting, TypeOK
  <2>3. CallStatus' = [CallStatus EXCEPT ![c] = "unsent"]
    BY <2>1, <2>2, StatusBecomes DEF TypeOK
  <2>4. Session!FailSend(c)
    BY <2>1, <2>2, <2>3, LinkKept, LifeUnchanged DEF Session!FailSend, Session!Become
  <2> QED
    BY <2>4 DEF Session!SharedNext, Session!Next
<1>6. ASSUME NEW c \in Calls, Return(c) PROVE Refined
  <2>1. /\ pc[c] = "wait" /\ reply[c] = "full"
        /\ \E l \in {"answered", "refused"} : pc' = [pc EXCEPT ![c] = l]
        /\ UNCHANGED <<id, use, answer, sock, served>>
    BY <1>6 DEF Return
  <2>2. answer[c].of = c /\ c \in served
    BY <2>1 DEF Answers
  <2>3. CallStatus[c] = "open" /\ CallStatus'[c] = "answered"
    BY <2>1, <2>2 DEF CallStatus, Waiting, TypeOK
  <2>4. CallStatus' = [CallStatus EXCEPT ![c] = "answered"]
    BY <2>1, <2>3, StatusBecomes DEF TypeOK
  <2>5. Session!Answer(c)
    BY <2>1, <2>2, <2>3, <2>4, LinkKept, LifeUnchanged DEF Session!Answer, Session!Become
  <2> QED
    BY <2>5 DEF Session!SharedNext, Session!Next
<1>7. ASSUME NEW c \in Calls, ReturnClosed(c) PROVE Refined
  <2>1. /\ pc[c] = "wait" /\ reply[c] = "closed" /\ pc' = [pc EXCEPT ![c] = "closed"]
        /\ UNCHANGED <<id, use, answer, sock, served>>
    BY <1>7 DEF ReturnClosed
  <2>2. CallStatus[c] = "open" /\ CallStatus'[c] = "closed"
    BY <2>1 DEF CallStatus, Waiting, TypeOK
  <2>3. CallStatus' = [CallStatus EXCEPT ![c] = "closed"]
    BY <2>1, <2>2, StatusBecomes DEF TypeOK
  <2>4. CallStatus' = [d \in Calls |-> IF d \in {c} THEN "closed" ELSE CallStatus[d]]
    <3>1. CallStatus = [d \in Calls |-> CallStatus[d]]
      BY DEF CallStatus
    <3> QED
      BY <2>3, <3>1
  <2>5. Life' = Life /\ Link' = Link
    BY <2>1, LinkKept, LifeUnchanged
  <2>6. \E n \in Conns : Life'[n] \in {"closing", "down"}
    <3>1. PICK n \in Conns : sock[n] \in {"closing", "broken"}
      BY <2>1 DEF Connections
    <3>2. Life[n] \in {"closing", "down"}
      BY <3>1 DEF Life
    <3> QED
      BY <2>5, <3>2
  <2>7. Session!CutAll({c})
    BY <2>1, <2>2, <2>4, <2>5, <2>6 DEF Session!CutAll
  <2> QED
    BY <2>7 DEF Session!SharedNext
<1>8. ASSUME NEW c \in Calls, Expire(c) \/ (Drop(c) /\ pc[c] = "wait") PROVE Refined
  <2>1. /\ pc[c] = "wait" /\ id[c] # 0
        /\ \E l \in {"expired", "dropped"} : pc' = [pc EXCEPT ![c] = l]
        /\ UNCHANGED <<id, use, answer, sock, served>>
    BY <1>8 DEF Expire, Drop, Begun, Numbered
  <2>2. CallStatus[c] = "open" /\ CallStatus'[c] = "expired"
    BY <2>1 DEF CallStatus, Waiting, TypeOK
  <2>3. CallStatus' = [CallStatus EXCEPT ![c] = "expired"]
    BY <2>1, <2>2, StatusBecomes DEF TypeOK
  <2>4. Session!Expire(c)
    BY <2>1, <2>2, <2>3, LinkKept, LifeUnchanged DEF Session!Expire, Session!Become
  <2> QED
    BY <2>4 DEF Session!SharedNext, Session!Next
<1>9. ASSUME UNCHANGED <<pc, id, use, sock, served>>,
             \A c \in Calls : pc[c] \in {"answered", "refused"} => answer'[c] = answer[c]
      PROVE  Refined
  BY <1>9, StatusKept, LinkKept, LifeUnchanged DEF Session!vars
<1>10. ASSUME NEW s \in Subscribes, Receive(s) PROVE Refined
  BY <1>9, <1>10 DEF Receive
<1>11. ASSUME Close PROVE Refined
  BY <1>9, <1>11 DEF Close
<1>12. ASSUME NEW n \in Conns,
              \/ WriteRequest(n) \/ WriterStop(n) \/ WriterDrop(n)
              \/ Broadcast(n) \/ ReaderStop(n)
       PROVE  Refined
  BY <1>9, <1>12 DEF WriteRequest, WriterStop, WriterDrop, Broadcast, ReaderStop
<1>13. ASSUME NEW n \in Conns, Respond(n) PROVE Refined
  <2>1. UNCHANGED <<pc, id, use, sock, served>>
    BY <1>13 DEF Respond
  <2>2. \A c \in Calls : pc[c] \in {"answered", "refused"} => answer'[c] = answer[c]
    BY <1>13 DEF Respond, Waiting, TypeOK
  <2> QED
    BY <1>9, <2>1, <2>2
<1>14. ASSUME NEW n \in Conns, WriteClose(n) PROVE Refined
  <2>1. /\ UNCHANGED <<pc, id, use, answer, served>>
        /\ sock' = [sock EXCEPT ![n] = IF @ = "open" THEN "closing" ELSE @]
    BY <1>14 DEF WriteClose
  <2>2. CallStatus' = CallStatus /\ Link' = Link
    BY <2>1, StatusKept, LinkKept
  <2>3. CASE sock[n] = "open"
    <3>1. Life[n] = "up" /\ Life' = [Life EXCEPT ![n] = "closing"]
      BY <2>1, <2>3 DEF Life, TypeOK
    <3>2. Session!Leave(n)
      BY <2>1, <2>2, <3>1 DEF Session!Leave
    <3> QED
      BY <3>2 DEF Session!SharedNext, Session!Next
  <2>4. CASE sock[n] # "open"
    <3>1. sock' = sock
      BY <2>1, <2>4 DEF TypeOK
    <3> QED
      BY <1>9, <2>1, <3>1
  <2> QED
    BY <2>3, <2>4
<1>15. ASSUME NEW n \in Conns, Break(n) PROVE Refined
  <2>1. /\ UNCHANGED <<pc, id, use, answer, served>>
        /\ sock[n] \in {"open", "closing"} /\ sock' = [sock EXCEPT ![n] = "broken"]
    BY <1>15 DEF Break, Alive
  <2>2. CallStatus' = CallStatus /\ Link' = Link
    BY <2>1, StatusKept, LinkKept
  <2>3. Life[n] \in {"up", "closing"} /\ Life' = [Life EXCEPT ![n] = "down"]
    BY <2>1 DEF Life, TypeOK
  <2>4. Session!Disconnect(n)
    BY <2>1, <2>2, <2>3 DEF Session!Disconnect
  <2> QED
    BY <2>4 DEF Session!SharedNext, Session!Next
<1>16. ASSUME NEW n \in Conns, NEW c \in Calls, Serve(n, c) PROVE Refined
  <2>1. /\ UNCHANGED <<pc, id, use, answer, sock>> /\ served' = served \cup {c}
        /\ sock[n] \in {"open", "closing"} /\ c \in inbox[n]
    BY <1>16 DEF Serve, Alive
  <2>2. use[c] = n /\ id[c] # 0 /\ c \notin served
    BY <2>1 DEF Requests
  <2>3. Link[c] = n /\ n # NoConn /\ Life[n] \in {"up", "closing"}
    BY <2>1, <2>2, NullsAreOutside DEF Link, Life
  <2>4. UNCHANGED <<CallStatus, Link, Life>>
    BY <2>1, StatusKept, LinkKept, LifeUnchanged
  <2>5. Session!Serve(c)
    BY <2>1, <2>2, <2>3, <2>4 DEF Session!Serve
  <2> QED
    BY <2>5 DEF Session!SharedNext, Session!Next
<1>17. ASSUME NEW n \in Conns, NEW k \in Keys, Notify(n, k) PROVE Refined
  BY <1>9, <1>17 DEF Notify
<1>18. ASSUME NEW n \in Conns, NEW c \in Calls, NEW k \in Keys, Grant(n, c, k) PROVE Refined
  BY <1>9, <1>18 DEF Grant
<1>19. ASSUME NEW c \in Calls, Drop(c) PROVE Refined
  <2>1. pc[c] \in Begun \/ pc[c] = "wait"
    BY <1>19 DEF Drop, Begun
  <2> QED
    BY <1>3, <1>8, <1>19, <2>1
<1> HIDE DEF Refined
<1>20. ASSUME NEW c \in Calls, CallStep(c) PROVE Refined
  BY <1>1, <1>2, <1>3, <1>4, <1>5, <1>6, <1>7, <1>8, <1>20 DEF CallStep
<1>21. ASSUME NEW n \in Conns, TaskStep(n) PROVE Refined
  BY <1>12, <1>13, <1>14, <1>21 DEF TaskStep
<1>22. ASSUME NEW n \in Conns, PeerStep(n) PROVE Refined
  BY <1>15, <1>16, <1>17, <1>18, <1>22 DEF PeerStep
<1>23. Refined
  BY <1>1, <1>10, <1>11, <1>19, <1>20, <1>21, <1>22 DEF Next
<1> QED
  BY <1>23 DEF Refined

\* Every call ends once, and an answer is the answer to that very call, however
\* requests, responses, timeouts and drained maps interleave.
THEOREM SharedRefinement == Spec => ImplementsSharedSession
<1>1. Init => Session!Init
  <2> SUFFICES ASSUME Init PROVE Session!Init
    OBVIOUS
  <2>1. CallStatus = [c \in Calls |-> "idle"]
    <3>1. ASSUME NEW c \in Calls PROVE CallStatus[c] = "idle"
      <4>1. pc[c] = "idle"
        BY DEF Init
      <4> QED
        BY <4>1 DEF CallStatus, Waiting
    <3> QED
      BY <3>1 DEF CallStatus
  <2>2. Link = [c \in Calls |-> NoConn] /\ Life = [n \in Conns |-> "new"] /\ served = {}
    BY DEF Init, Link, Life
  <2> QED
    BY <2>1, <2>2 DEF Session!Init
<1>2. IInv /\ [Next]_vars => [Session!SharedNext]_(Session!vars)
  <2> SUFFICES ASSUME IInv, [Next]_vars PROVE [Session!SharedNext]_(Session!vars)
    OBVIOUS
  <2>1. CASE Next
    BY <2>1, StepRefines
  <2>2. CASE UNCHANGED vars
    BY <2>2 DEF Session!vars, CallStatus, Link, Life
  <2> QED
    BY <2>1, <2>2
<1> QED
  BY <1>1, <1>2, Invariance, PTL DEF Spec, ImplementsSharedSession, Session!SharedSpec

-------------------------------------------------------------------------------
(* Notifications: none is lost.  The peer numbers them, a subscription     *)
(* must find 1 to emitted, in order, in what it has received, what its     *)
(* receiver holds and what is on the wire.                                 *)

\* What a peer says of a subscription names the key it gave to it.
Granted(n, m) == m.key \in Keys /\ granted[n][m.key] = m.of

\* A key is given to a subscribe on the connection it used, and only one.
Grants ==
  \A n \in Conns, k \in Keys :
    LET s == granted[n][k]
    IN  s # NoCall => /\ use[s] = n /\ id[s] # 0 /\ sock[n] # "unused"
                      /\ \A j \in Keys : granted[n][j] = s => j = k

Sent ==
  \A n \in Conns : \A m \in Range(wire[n]) :
    /\ IsNote(m) <=> m.seq # 0
    /\ IsNote(m) \/ (m.of \in Subscribes /\ m.verdict = "ok") => Granted(n, m)

Taken ==
  \A s \in Subscribes : \A m \in Range(queue[s]) \cup Range(got[s]) :
    m.seq # 0 /\ \E n \in Conns : Granted(n, m)

\* What a subscribe was told, and what it made of it.
KeysFit ==
  \A s \in Subscribes :
    /\ reply[s] = "full" /\ answer[s].verdict = "ok" => \E n \in Conns : Granted(n, answer[s])
    /\ pc[s] = "answered" => \E n \in Conns : key[s] \in Keys /\ granted[n][key[s]] = s

Unnotified ==
  \A s \in Subscribes : emitted[s] # 0 => \E n \in Conns, k \in Keys : granted[n][k] = s

DInv == Grants /\ Sent /\ Taken /\ KeysFit /\ Unnotified /\ NoNoteLost

\* A subscribe that was given a key has begun and holds one connection and one key.
LEMMA KeyOf ==
  ASSUME TypeOK, Numbered, Grants, NEW n \in Conns, NEW k \in Keys, granted[n][k] # NoCall
  PROVE  LET s == granted[n][k]
         IN  /\ s \in Subscribes /\ s \in Calls /\ use[s] = n /\ id[s] # 0
             /\ pc[s] \notin Begun
             /\ \A m \in Conns, j \in Keys : granted[m][j] = s => m = n /\ j = k
<1>1. granted[n][k] \in Subscribes /\ granted[n][k] \in Calls
  BY DEF TypeOK, Calls
<1> QED
  BY <1>1 DEF Grants, Numbered

\* What the invariant says of the parts of the streams stays true of a step that
\* moves no notification and takes no key away.
LEMMA StreamsKept ==
  ASSUME IInv, DInv, UNCHANGED <<queue, got, skipped, wire, granted, emitted>>,
         \A c \in Calls : id[c] # 0 => id'[c] = id[c] /\ use'[c] = use[c],
         \A c \in Subscribes : id[c] # 0 /\ Listening(c)' => Listening(c),
         \A n \in Conns : sock[n] # "unused" =>
           sock'[n] # "unused" /\ (reader'[n] = "reading" => reader[n] = "reading"),
         KeysFit'
  PROVE  DInv'
<1>1. Grants'
  <2> SUFFICES ASSUME NEW n \in Conns, NEW k \in Keys, granted[n][k] # NoCall
               PROVE  LET s == granted[n][k]
                      IN  /\ use'[s] = n /\ id'[s] # 0 /\ sock'[n] # "unused"
                          /\ \A j \in Keys : granted[n][j] = s => j = k
    BY DEF Grants
  <2> QED
    BY KeyOf DEF IInv, DInv, Grants
<1>2. Sent' /\ Taken' /\ Unnotified'
  BY DEF DInv, Sent, Taken, Unnotified, Granted, IsNote
<1>3. NoNoteLost'
  <2> SUFFICES ASSUME NEW n \in Conns, NEW k \in Keys,
                      reader'[n] = "reading", granted[n][k] # NoCall
               PROVE  LET s == granted[n][k]
                      IN  \/ s \in skipped \/ ~Listening(s)'
                          \/ InOrder(s, got[s] \o queue[s] \o wire[n], emitted[s])
    BY DEF NoNoteLost
  <2>1. /\ granted[n][k] \in Subscribes /\ granted[n][k] \in Calls
        /\ id[granted[n][k]] # 0 /\ sock[n] # "unused"
    BY KeyOf DEF IInv, DInv, Grants
  <2> QED
    BY <2>1 DEF DInv, NoNoteLost
<1> QED
  BY <1>1, <1>2, <1>3 DEF DInv

\* So it is of the keys a subscribe knows when no call but one moves, and that one
\* is not told a key.
LEMMA KeysKept ==
  ASSUME KeysFit, UNCHANGED <<answer, granted>>,
         \A s \in Subscribes :
           /\ reply'[s] = "full" => reply[s] = "full"
           /\ pc'[s] = "answered" => pc[s] = "answered" /\ key'[s] = key[s]
  PROVE  KeysFit'
BY DEF KeysFit, Granted

\* Every step but those of the streams.
LEMMA QuietSteps ==
  ASSUME IInv, DInv,
         \/ \E c \in Calls : Begin(c) \/ UseExisting(c) \/ StartDial(c) \/ DialFail(c)
         \/ \E c \in Calls, n \in Conns : Dial(c, n)
         \/ \E c \in Calls : Enroll(c) \/ Send(c) \/ SendFail(c) \/ ReturnClosed(c)
                             \/ Expire(c) \/ Drop(c)
         \/ Close
         \/ \E n \in Conns : WriteRequest(n) \/ WriteClose(n) \/ WriterStop(n)
                             \/ WriterDrop(n) \/ ReaderStop(n) \/ Break(n)
  PROVE  DInv'
<1> USE DEF TypeOK
<1> DEFINE Untouched == UNCHANGED <<queue, got, skipped, wire, granted, emitted>>
           CallsKept == \A c \in Calls : id[c] # 0 => id'[c] = id[c] /\ use'[c] = use[c]
           Deaf == \A c \in Subscribes : id[c] # 0 /\ Listening(c)' => Listening(c)
           SocketsKept == \A n \in Conns : sock[n] # "unused" =>
             sock'[n] # "unused" /\ (reader'[n] = "reading" => reader[n] = "reading")
           Quiet == Untouched /\ CallsKept /\ Deaf /\ SocketsKept
<1>0. TypeOK /\ Numbered /\ Subscribes \subseteq Calls
  BY DEF IInv, Calls
<1> USE <1>0
<1>1. ASSUME NEW c \in Calls, Begin(c)
      PROVE  Quiet /\ KeysFit'
  <2>1. KeysFit'
    BY <1>1, KeysKept DEF Begin, DInv
  <2> QED
    BY <1>1, <2>1 DEF Begin, Listening, InFlight, Holding, Waiting, Numbered, Begun
<1>2. ASSUME NEW c \in Calls, UseExisting(c)
      PROVE  Quiet /\ KeysFit'
  <2>1. KeysFit'
    BY <1>2, KeysKept DEF UseExisting, DInv
  <2> QED
    BY <1>2, <2>1 DEF UseExisting, Listening, InFlight, Holding, Waiting, Numbered, Begun
<1>3. ASSUME NEW c \in Calls, StartDial(c)
      PROVE  Quiet /\ KeysFit'
  <2>1. KeysFit'
    BY <1>3, KeysKept DEF StartDial, DInv
  <2> QED
    BY <1>3, <2>1 DEF StartDial, Listening, InFlight, Holding, Waiting
<1>4. ASSUME NEW c \in Calls, DialFail(c)
      PROVE  Quiet /\ KeysFit'
  <2>1. KeysFit'
    BY <1>4, KeysKept DEF DialFail, DInv
  <2> QED
    BY <1>4, <2>1 DEF DialFail, Listening, InFlight, Holding, Waiting
<1>5. ASSUME NEW c \in Calls, NEW n \in Conns, Dial(c, n)
      PROVE  Quiet /\ KeysFit'
  <2>1. KeysFit'
    BY <1>5, KeysKept DEF Dial, DInv
  <2> QED
    BY <1>5, <2>1 DEF Dial, Listening, InFlight, Holding, Waiting, Numbered, Begun
<1>6. ASSUME NEW c \in Calls, Enroll(c)
      PROVE  Quiet /\ KeysFit'
  <2>1. KeysFit'
    BY <1>6, KeysKept DEF Enroll, DInv
  <2> QED
    BY <1>6, <2>1 DEF Enroll, Listening, InFlight, Holding, Waiting, Numbered, Begun
<1>7. ASSUME NEW c \in Calls, Send(c) \/ SendFail(c) \/ ReturnClosed(c) \/ Expire(c) \/ Drop(c)
      PROVE  Quiet /\ KeysFit'
  <2>1. /\ UNCHANGED <<queue, got, skipped, wire, granted, emitted, id, use, sock, reader,
                       answer, reply, key>>
        /\ pc[c] \in InFlight
        /\ \E l \in {"wait", "unsent", "closed", "expired", "dropped"} :
             pc' = [pc EXCEPT ![c] = l]
    BY <1>7 DEF Send, SendFail, ReturnClosed, Expire, Drop, InFlight, Holding, Waiting
  <2>2. KeysFit'
    BY <2>1, KeysKept DEF DInv
  <2> QED
    BY <2>1, <2>2 DEF Listening, InFlight, Holding, Waiting
<1>8. ASSUME Close
      PROVE  Quiet /\ KeysFit'
  <2>1. KeysFit'
    BY <1>8, KeysKept DEF Close, DInv
  <2> QED
    BY <1>8, <2>1 DEF Close, Listening
<1>9. ASSUME NEW n \in Conns,
             WriteRequest(n) \/ WriteClose(n) \/ WriterStop(n) \/ WriterDrop(n)
               \/ ReaderStop(n) \/ Break(n)
      PROVE  Quiet /\ KeysFit'
  <2>1. /\ Untouched /\ UNCHANGED <<id, use, pc, answer, key>>
        /\ \A s \in Subscribes : reply'[s] = "full" => reply[s] = "full"
        /\ SocketsKept
    BY <1>9 DEF WriteRequest, WriteClose, WriterStop, WriterDrop, ReaderStop, Break, Drain,
       Alive
  <2>2. KeysFit'
    BY <2>1, KeysKept DEF DInv
  <2> QED
    BY <2>1, <2>2 DEF Listening
<1>10. Quiet /\ KeysFit'
  BY <1>1, <1>2, <1>3, <1>4, <1>5, <1>6, <1>7, <1>8, <1>9
<1> HIDE <1>0
<1> QED
  BY <1>10, StreamsKept

\* A subscribe takes its key from the answer to it.
LEMMA ReturnKeeps ==
  ASSUME IInv, DInv, NEW c \in Calls, Return(c)
  PROVE  DInv'
<1> USE DEF TypeOK
<1>0. TypeOK /\ Answers /\ Subscribes \subseteq Calls
  BY DEF IInv, Calls
<1>1. /\ UNCHANGED <<queue, got, skipped, wire, granted, emitted, id, use, sock, reader,
                     answer, reply>>
      /\ pc[c] = "wait" /\ reply[c] = "full"
      /\ pc' = [pc EXCEPT ![c] = IF answer[c].verdict = "ok" THEN "answered" ELSE "refused"]
      /\ key' = IF c \in Subscribes /\ answer[c].verdict = "ok"
                  THEN [key EXCEPT ![c] = answer[c].key] ELSE key
  BY DEF Return
<1>2. KeysFit'
  <2> SUFFICES ASSUME NEW s \in Subscribes
               PROVE  /\ reply[s] = "full" /\ answer[s].verdict = "ok" =>
                           \E n \in Conns : Granted(n, answer[s])
                      /\ pc'[s] = "answered" =>
                           \E n \in Conns : key'[s] \in Keys /\ granted[n][key'[s]] = s
    BY <1>1 DEF KeysFit, Granted
  <2>1. KeysFit
    BY DEF DInv
  <2>2. CASE s = c /\ pc'[s] = "answered"
    <3>1. answer[s].verdict = "ok" /\ key'[s] = answer[s].key /\ answer[s].of = s
      BY <1>0, <1>1, <2>2 DEF Answers
    <3>2. PICK n \in Conns : Granted(n, answer[s])
      BY <1>1, <2>1, <2>2, <3>1 DEF KeysFit
    <3> QED
      BY <2>1, <3>1, <3>2 DEF Granted, KeysFit
  <2>3. CASE s # c \/ pc'[s] # "answered"
    <3>1. s # c => pc'[s] = pc[s] /\ key'[s] = key[s]
      BY <1>0, <1>1
    <3> QED
      BY <2>1, <2>3, <3>1 DEF KeysFit
  <2> QED
    BY <2>2, <2>3
<1>3. \A s \in Subscribes : Listening(s)' => Listening(s)
  BY <1>0, <1>1 DEF Listening, InFlight, Holding, Waiting
<1> QED
  BY <1>1, <1>2, <1>3, StreamsKept

\* A notification that next() takes is returned if it is of its subscription.
LEMMA ReceiveKeeps ==
  ASSUME IInv, DInv, NEW s \in Subscribes, Receive(s)
  PROVE  DInv'
<1> USE DEF TypeOK
<1>0. TypeOK /\ Numbered /\ Subscribes \subseteq Calls
  BY DEF IInv, Calls
<1>1. /\ UNCHANGED <<skipped, wire, granted, emitted, id, use, sock, reader, pc, key,
                     answer, reply>>
      /\ pc[s] = "answered"
  BY DEF Receive
<1>2. KeysFit'
  BY <1>1, KeysKept DEF DInv
<1>3. CASE UNCHANGED <<queue, got>>
  BY <1>1, <1>2, <1>3, StreamsKept DEF Listening
<1>4. CASE ~UNCHANGED <<queue, got>>
  <2> DEFINE m == Head(queue[s])
  <2>1. /\ queue[s] # <<>> /\ queue[s] \in Seq(Msg) /\ got[s] \in Seq(Msg)
        /\ queue' = [queue EXCEPT ![s] = Tail(@)]
        /\ got' = IF m.key = key[s] THEN [got EXCEPT ![s] = Append(@, m)] ELSE got
    BY <1>0, <1>4 DEF Receive
  <2>2. /\ m \in Msg /\ m \in Range(queue[s]) /\ Tail(queue[s]) \in Seq(Msg)
        /\ Range(Tail(queue[s])) \subseteq Range(queue[s])
        /\ Range(Append(got[s], m)) = Range(got[s]) \cup {m}
    BY <2>1, HeldAfter
  <2>3. /\ queue'[s] = Tail(queue[s])
        /\ got'[s] = IF m.key = key[s] THEN Append(got[s], m) ELSE got[s]
        /\ \A x \in Subscribes : x # s => queue'[x] = queue[x] /\ got'[x] = got[x]
    BY <1>0, <2>1
  <2>7. queue[s] # <<>> /\ queue[s] \in Seq(Msg) /\ got[s] \in Seq(Msg)
    BY <2>1
  <2>4. Taken'
    <3> SUFFICES ASSUME NEW x \in Subscribes, NEW o \in Range(queue'[x]) \cup Range(got'[x])
                 PROVE  o.seq # 0 /\ \E n \in Conns : Granted(n, o)
      BY <1>1 DEF Taken, Granted
    <3>1. o \in Range(queue[x]) \cup Range(got[x])
      BY <2>2, <2>3
    <3> QED
      BY <3>1 DEF DInv, Taken
  <2>5. Grants' /\ Sent' /\ Unnotified'
    BY <1>1 DEF DInv, Grants, Sent, Unnotified, Granted, IsNote
  <2>6. NoNoteLost'
    <3> SUFFICES ASSUME NEW n \in Conns, NEW k \in Keys,
                        reader[n] = "reading", granted[n][k] # NoCall,
                        granted[n][k] \notin skipped, Listening(granted[n][k])
                 PROVE  LET x == granted[n][k]
                        IN  InOrder(x, got'[x] \o queue'[x] \o wire[n], emitted[x])
      BY <1>1 DEF NoNoteLost, Listening
    <3> DEFINE x == granted[n][k]
    <3>1. InOrder(x, got[x] \o queue[x] \o wire[n], emitted[x])
      BY DEF DInv, NoNoteLost
    <3>2. x \in Subscribes /\ \A p \in Conns, j \in Keys : granted[p][j] = x => j = k
      <4>1. TypeOK /\ Numbered /\ Grants
        BY <1>0 DEF DInv
      <4> HIDE DEF TypeOK
      <4> QED
        BY <4>1, KeyOf
    <3>3. CASE x # s
      BY <2>3, <3>1, <3>2, <3>3
    <3>4. CASE x = s /\ m.key = key[s]
      <4>1. Append(got[s], m) \o Tail(queue[s]) = got[s] \o queue[s]
        BY <2>7, HandOver
      <4> QED
        BY <2>3, <3>1, <3>4, <4>1
    <3>5. CASE x = s /\ m.key # key[s]
      <4>1. PICK p \in Conns : key[s] \in Keys /\ granted[p][key[s]] = s
        BY <1>1 DEF DInv, KeysFit
      <4>2. key[s] = k
        BY <3>2, <3>5, <4>1
      <4>3. ~IsOf(s, m)
        <5> SUFFICES ASSUME m.of = s PROVE FALSE
          BY DEF IsOf
        <5>1. PICK q \in Conns : Granted(q, m)
          BY <2>2 DEF DInv, Taken
        <5>2. m.key = k
          <6>1. m.key \in Keys /\ granted[q][m.key] = granted[n][k]
            BY <3>5, <5>1 DEF Granted
          <6> QED
            BY <3>2, <6>1
        <5> QED
          BY <3>5, <4>2, <5>2
      <4>4. wire[n] \in Seq(Msg)
        BY <1>0
      <4>5. InOrder(s, got[s] \o queue[s] \o wire[n], emitted[s])
        BY <3>1, <3>5
      <4>6. InOrder(s, got[s] \o Tail(queue[s]) \o wire[n], emitted[s])
        BY <2>7, <4>3, <4>4, <4>5, OtherSkipped
      <4> QED
        BY <2>3, <3>5, <4>6
    <3> QED
      BY <3>3, <3>4, <3>5
  <2> QED
    BY <1>2, <2>4, <2>5, <2>6 DEF DInv
<1> QED
  BY <1>3, <1>4

\* A response leaves the wire.
LEMMA RespondKeeps ==
  ASSUME IInv, DInv, NEW n \in Conns, Respond(n)
  PROVE  DInv'
<1> USE DEF TypeOK
<1> DEFINE m == Head(wire[n])
           c == pending[m.id]
<1>0. TypeOK /\ Numbered /\ Wires /\ Oneshots /\ Subscribes \subseteq Calls
  BY DEF IInv, Calls
<1>1. /\ UNCHANGED <<queue, got, skipped, granted, emitted, id, use, sock, reader, pc, key>>
      /\ Arriving(n) /\ ~IsNote(m) /\ wire[n] # <<>> /\ wire[n] \in Seq(Msg)
      /\ wire' = [wire EXCEPT ![n] = Tail(@)]
      /\ UNCHANGED replies \/ /\ c # NoCall
                              /\ reply' = [reply EXCEPT ![c] = "full"]
                              /\ answer' = [answer EXCEPT ![c] = m]
  BY <1>0 DEF Respond, Arriving
<1>2. /\ m \in Msg /\ m.id \in Ids /\ m.of \in Calls /\ id[m.of] = m.id
  BY <1>0, <1>1, ResponseOfCall
<1>3. /\ m \in Range(wire[n]) /\ Tail(wire[n]) \in Seq(Msg)
      /\ Range(Tail(wire[n])) \subseteq Range(wire[n])
  BY <1>1, HeldAfter
<1>4. /\ wire'[n] = Tail(wire[n])
      /\ \A p \in Conns : p # n => wire'[p] = wire[p]
  BY <1>0, <1>1
<1>5. Grants' /\ Taken' /\ Unnotified'
  BY <1>1 DEF DInv, Grants, Taken, Unnotified, Granted
<1>6. Sent'
  <2> SUFFICES ASSUME NEW p \in Conns, NEW o \in Range(wire'[p])
               PROVE  /\ IsNote(o) <=> o.seq # 0
                      /\ IsNote(o) \/ (o.of \in Subscribes /\ o.verdict = "ok") => Granted(p, o)
    BY <1>1 DEF Sent, Granted, IsNote
  <2>1. o \in Range(wire[p])
    BY <1>3, <1>4
  <2> QED
    BY <2>1 DEF DInv, Sent
<1>7. KeysFit'
  <2>1. CASE UNCHANGED replies
    BY <1>1, <2>1, KeysKept DEF DInv
  <2>2. CASE ~UNCHANGED replies
    <3>1. /\ c # NoCall /\ c \in Calls
          /\ reply' = [reply EXCEPT ![c] = "full"] /\ answer' = [answer EXCEPT ![c] = m]
      BY <1>0, <1>1, <1>2, <2>2
    <3>2. c = m.of
      <4>1. id[c] = m.id /\ m.id # 0
        BY <1>0, <1>2, <3>1, BoundsAreNatural DEF Oneshots, Ids
      <4> QED
        BY <1>0, <1>2, <3>1, <4>1 DEF Numbered
    <3> SUFFICES ASSUME NEW s \in Subscribes
                 PROVE  reply'[s] = "full" /\ answer'[s].verdict = "ok" =>
                          \E p \in Conns : Granted(p, answer'[s])
      BY <1>1 DEF DInv, KeysFit, Granted
    <3>3. CASE s = c
      <4>1. answer'[s] = m
        BY <1>0, <3>1, <3>3
      <4>2. m.verdict = "ok" => Granted(n, m)
        BY <1>3, <3>2, <3>3 DEF DInv, Sent
      <4> QED
        BY <4>1, <4>2
    <3>4. CASE s # c
      BY <1>0, <3>1, <3>4 DEF DInv, KeysFit
    <3> QED
      BY <3>3, <3>4
  <2> QED
    BY <2>1, <2>2
<1>8. NoNoteLost'
  <2> SUFFICES ASSUME NEW p \in Conns, NEW k \in Keys,
                      reader[p] = "reading", granted[p][k] # NoCall,
                      granted[p][k] \notin skipped, Listening(granted[p][k])
               PROVE  LET x == granted[p][k]
                      IN  InOrder(x, got[x] \o queue[x] \o wire'[p], emitted[x])
    BY <1>1 DEF NoNoteLost, Listening
  <2> DEFINE x == granted[p][k]
  <2>1. InOrder(x, got[x] \o queue[x] \o wire[p], emitted[x])
    BY DEF DInv, NoNoteLost
  <2>2. CASE p # n
    BY <1>4, <2>1, <2>2
  <2>3. CASE p = n
    <3>1. ~IsOf(x, m)
      BY <1>1, <1>3 DEF DInv, Sent, IsOf
    <3>2. x \in Subscribes
      BY <1>0, KeyOf DEF DInv
    <3>3. got[x] \o queue[x] \in Seq(Msg)
      BY <1>0, <3>2
    <3>4. wire[n] \in Seq(Msg) /\ wire[n] # <<>>
      BY <1>1
    <3>5. InOrder(x, got[x] \o queue[x] \o Tail(wire[n]), emitted[x])
      BY <2>1, <2>3, <3>1, <3>3, <3>4, OtherTaken
    <3> QED
      BY <1>4, <2>3, <3>5
  <2> QED
    BY <2>2, <2>3
<1> QED
  BY <1>5, <1>6, <1>7, <1>8 DEF DInv

\* A notification goes from the wire to every receiver: the one it is of has it next,
\* the others hold one more that is none of theirs.
LEMMA BroadcastKeeps ==
  ASSUME IInv, DInv, NEW n \in Conns, Broadcast(n)
  PROVE  DInv'
<1> USE DEF TypeOK
<1> DEFINE m == Head(wire[n])
<1>0. TypeOK /\ Numbered /\ Wires /\ Subscribes \subseteq Calls
  BY DEF IInv, Calls
<1>1. /\ UNCHANGED <<got, granted, emitted, id, use, sock, reader, pc, key, reply, answer>>
      /\ IsNote(m) /\ wire[n] # <<>> /\ wire[n] \in Seq(Msg)
      /\ wire' = [wire EXCEPT ![n] = Tail(@)]
      /\ queue' = [s \in Subscribes |->
                     IF Listening(s) THEN Push(queue[s], m) ELSE queue[s]]
      /\ skipped' = skipped \cup {s \in Subscribes : Listening(s) /\ Len(queue[s]) = BufferCap}
  BY <1>0 DEF Broadcast, Arriving
<1>2. m \in Msg
  BY <1>0, <1>1, HeadOfWire
<1>3. /\ m \in Range(wire[n]) /\ Tail(wire[n]) \in Seq(Msg)
      /\ Range(Tail(wire[n])) \subseteq Range(wire[n])
  BY <1>1, HeldAfter
<1>4. /\ wire'[n] = Tail(wire[n])
      /\ \A p \in Conns : p # n => wire'[p] = wire[p]
  BY <1>0, <1>1
<1>5. m.seq # 0 /\ Granted(n, m)
  BY <1>1, <1>3 DEF DInv, Sent
<1>6. Grants' /\ Unnotified' /\ KeysFit'
  BY <1>1 DEF DInv, Grants, Unnotified, Granted, KeysFit
<1>7. Sent'
  <2> SUFFICES ASSUME NEW p \in Conns, NEW o \in Range(wire'[p])
               PROVE  /\ IsNote(o) <=> o.seq # 0
                      /\ IsNote(o) \/ (o.of \in Subscribes /\ o.verdict = "ok") => Granted(p, o)
    BY <1>1 DEF Sent, Granted, IsNote
  <2>1. o \in Range(wire[p])
    BY <1>3, <1>4
  <2> QED
    BY <2>1 DEF DInv, Sent
<1>8. Taken'
  <2> SUFFICES ASSUME NEW s \in Subscribes, NEW o \in Range(queue'[s]) \cup Range(got[s])
               PROVE  o.seq # 0 /\ \E p \in Conns : Granted(p, o)
    BY <1>1 DEF Taken, Granted
  <2>1. o \in Range(queue[s]) \cup Range(got[s]) \cup {m}
    <3>1. Range(Push(queue[s], m)) \subseteq Range(queue[s]) \cup {m}
      <4>1. queue[s] \in Seq(Msg) /\ Len(queue[s]) \in Nat
        BY <1>0
      <4>2. CASE Len(queue[s]) = BufferCap
        <5>1. queue[s] # <<>>
          BY <4>2, BoundsAreNatural
        <5>2. Tail(queue[s]) \in Seq(Msg) /\ Range(Tail(queue[s])) \subseteq Range(queue[s])
          BY <4>1, <5>1, HeldAfter
        <5>3. Range(Append(Tail(queue[s]), m)) = Range(Tail(queue[s])) \cup {m}
          BY <1>2, <5>2, HeldAfter
        <5> QED
          BY <4>2, <5>2, <5>3 DEF Push
      <4>3. CASE Len(queue[s]) # BufferCap
        <5>1. Range(Append(queue[s], m)) = Range(queue[s]) \cup {m}
          BY <1>2, <4>1, HeldAfter
        <5> QED
          BY <4>3, <5>1 DEF Push
      <4> QED
        BY <4>2, <4>3
    <3> QED
      BY <1>1, <3>1
  <2> QED
    BY <1>5, <2>1 DEF DInv, Taken
<1>9. NoNoteLost'
  <2> SUFFICES ASSUME NEW p \in Conns, NEW k \in Keys,
                      reader[p] = "reading", granted[p][k] # NoCall,
                      granted[p][k] \notin skipped', Listening(granted[p][k])
               PROVE  LET x == granted[p][k]
                      IN  InOrder(x, got[x] \o queue'[x] \o wire'[p], emitted[x])
    BY <1>1 DEF NoNoteLost, Listening
  <2> DEFINE x == granted[p][k]
  <2>1. x \in Subscribes /\ use[x] = p
    <3>1. TypeOK /\ Numbered /\ Grants
      BY <1>0 DEF DInv
    <3> HIDE DEF TypeOK
    <3> QED
      BY <3>1, KeyOf
  <2>2. InOrder(x, got[x] \o queue[x] \o wire[p], emitted[x])
    BY <1>1 DEF DInv, NoNoteLost
  <2>3. queue'[x] = Append(queue[x], m)
    BY <1>1, <2>1 DEF Push
  <2>4. got[x] \in Seq(Msg) /\ queue[x] \in Seq(Msg) /\ wire[p] \in Seq(Msg)
    BY <1>0, <2>1
  <2>5. CASE p # n
    <3>1. ~IsOf(x, m)
      <4> SUFFICES ASSUME m.of = x PROVE FALSE
        BY DEF IsOf
      <4>1. use[x] = n
        BY <1>5 DEF DInv, Grants, Granted
      <4> QED
        BY <2>1, <2>5, <4>1
    <3>2. InOrder(x, got[x] \o Append(queue[x], m) \o wire[p], emitted[x])
      BY <1>2, <2>2, <2>4, <3>1, OtherInTheMiddle
    <3> QED
      BY <1>4, <2>3, <2>5, <3>2
  <2>6. CASE p = n
    <3>1. wire[p] # <<>>
      BY <1>1, <2>6
    <3>2. InOrder(x, got[x] \o Append(queue[x], Head(wire[p])) \o Tail(wire[p]), emitted[x])
      BY <2>2, <2>4, <3>1, MovedOn
    <3> QED
      BY <1>4, <2>3, <2>6, <3>2
  <2> QED
    BY <2>5, <2>6
<1> QED
  BY <1>6, <1>7, <1>8, <1>9 DEF DInv

\* A subscribe that is given a key has been sent nothing yet.
LEMMA GrantKeeps ==
  ASSUME IInv, DInv, NEW n \in Conns, NEW c \in Calls, NEW k \in Keys, Grant(n, c, k)
  PROVE  DInv'
<1> USE DEF TypeOK
<1>0. TypeOK /\ Numbered /\ Requests /\ Subscribes \subseteq Calls
  BY DEF IInv, Calls
<1>1. /\ UNCHANGED <<queue, got, skipped, wire, emitted, id, use, sock, reader, pc, key,
                     reply, answer>>
      /\ c \in inbox[n] /\ c \in Subscribes /\ granted[n][k] = NoCall
      /\ granted' = [granted EXCEPT ![n][k] = c]
      /\ sock[n] \in {"open", "closing"} /\ \A j \in Keys : granted[n][j] # c
  BY DEF Grant, Alive
<1>2. use[c] = n /\ id[c] # 0 /\ c # NoCall
  BY <1>0, <1>1, NullsAreOutside DEF Requests
<1>3. /\ granted'[n][k] = c
      /\ \A p \in Conns, j \in Keys : p # n \/ j # k => granted'[p][j] = granted[p][j]
  BY <1>0, <1>1
<1>4. \A p \in Conns, j \in Keys : granted[p][j] # c
  BY <1>1, <1>2, NullsAreOutside DEF DInv, Grants
<1>5. \A p \in Conns, o \in Msg : Granted(p, o) /\ o.of # NoCall => Granted(p, o)'
  BY <1>1, <1>3 DEF Granted
<1>6. Grants'
  <2> SUFFICES ASSUME NEW p \in Conns, NEW j \in Keys, granted'[p][j] # NoCall
               PROVE  LET s == granted'[p][j]
                      IN  /\ use[s] = p /\ id[s] # 0 /\ sock[p] # "unused"
                          /\ \A i \in Keys : granted'[p][i] = s => i = j
    BY <1>1 DEF Grants
  <2>1. CASE p = n /\ j = k
    BY <1>1, <1>2, <1>3, <1>4, <2>1
  <2>2. CASE p # n \/ j # k
    <3>1. granted'[p][j] = granted[p][j] /\ granted[p][j] # c
      BY <1>3, <1>4, <2>2
    <3> QED
      BY <1>3, <3>1 DEF DInv, Grants
  <2> QED
    BY <2>1, <2>2
<1>7. ASSUME NEW p \in Conns, NEW o \in Range(wire[p])
      PROVE  o \in Msg /\ o.of # NoCall
  <2>1. wire[p] \in Seq(Msg)
    BY <1>0
  <2>2. o \in Msg
    BY <2>1 DEF Range
  <2> QED
    BY <2>2, NullsAreOutside DEF Msg
<1>8. ASSUME NEW s \in Subscribes, NEW o \in Range(queue[s]) \cup Range(got[s])
      PROVE  o \in Msg /\ o.of # NoCall
  <2>1. queue[s] \in Seq(Msg) /\ got[s] \in Seq(Msg)
    BY <1>0
  <2>2. o \in Msg
    BY <2>1 DEF Range
  <2> QED
    BY <2>2, NullsAreOutside DEF Msg
<1>9. Sent'
  BY <1>1, <1>5, <1>7 DEF DInv, Sent, IsNote
<1>10. Taken'
  BY <1>1, <1>5, <1>8 DEF DInv, Taken
<1>11. KeysFit'
  <2> SUFFICES ASSUME NEW s \in Subscribes
               PROVE  /\ reply[s] = "full" /\ answer[s].verdict = "ok" =>
                           \E p \in Conns : Granted(p, answer[s])'
                      /\ pc[s] = "answered" =>
                           \E p \in Conns : key[s] \in Keys /\ granted'[p][key[s]] = s
    BY <1>1 DEF KeysFit
  <2>1. reply[s] = "full" => answer[s] \in Msg /\ answer[s].of # NoCall
    BY <1>0, NullsAreOutside DEF IInv, Answers
  <2>2. s # NoCall
    BY <1>0, NullsAreOutside
  <2> QED
    BY <1>1, <1>3, <1>5, <2>1, <2>2 DEF DInv, KeysFit
<1>12. Unnotified'
  <2> SUFFICES ASSUME NEW s \in Subscribes, emitted[s] # 0
               PROVE  \E p \in Conns, j \in Keys : granted'[p][j] = s
    BY <1>1 DEF Unnotified
  <2>1. PICK p \in Conns, j \in Keys : granted[p][j] = s
    BY DEF DInv, Unnotified
  <2>2. s # NoCall
    BY <1>0, NullsAreOutside
  <2> QED
    BY <1>1, <1>3, <2>1, <2>2
<1>13. NoNoteLost'
  <2> SUFFICES ASSUME NEW p \in Conns, NEW j \in Keys,
                      reader[p] = "reading", granted'[p][j] # NoCall,
                      granted'[p][j] \notin skipped, Listening(granted'[p][j])
               PROVE  LET x == granted'[p][j]
                      IN  InOrder(x, got[x] \o queue[x] \o wire[p], emitted[x])
    BY <1>1 DEF NoNoteLost, Listening
  <2>1. CASE p = n /\ j = k
    <3>1. emitted[c] = 0
      BY <1>1, <1>4 DEF DInv, Unnotified
    <3>2. got[c] \in Seq(Msg) /\ queue[c] \in Seq(Msg) /\ wire[n] \in Seq(Msg)
      BY <1>0, <1>1
    <3>3. ASSUME NEW o \in Range(got[c]) \cup Range(queue[c]) \cup Range(wire[n])
          PROVE  ~IsOf(c, o)
      <4>1. CASE o \in Range(got[c]) \cup Range(queue[c])
        BY <1>1, <1>4, <4>1 DEF DInv, Taken, Granted, IsOf
      <4>2. CASE o \in Range(wire[n])
        BY <1>4, <4>2 DEF DInv, Sent, Granted, IsOf
      <4> QED
        BY <4>1, <4>2
    <3>4. Own(c, got[c] \o queue[c] \o wire[n]) = {}
      BY <3>2, <3>3, NothingOfIt
    <3>5. InOrder(c, got[c] \o queue[c] \o wire[n], 0)
      BY <3>4, NoneIsInOrder
    <3> QED
      BY <1>3, <2>1, <3>1, <3>5
  <2>2. CASE p # n \/ j # k
    BY <1>3, <2>2 DEF DInv, NoNoteLost
  <2> QED
    BY <2>1, <2>2
<1> QED
  BY <1>6, <1>9, <1>10, <1>11, <1>12, <1>13 DEF DInv

\* A response that is sent tells a subscribe the key it was given.
LEMMA ServeKeeps ==
  ASSUME IInv, DInv, NEW n \in Conns, NEW c \in Calls, Serve(n, c)
  PROVE  DInv'
<1> USE DEF TypeOK
<1>0. TypeOK /\ Numbered /\ Requests /\ Subscribes \subseteq Calls
  BY DEF IInv, Calls
<1>1. PICK verdict \in {"ok", "refused"}, k \in Keys \cup {NoKey} :
        Verdict(n, c, verdict, k) /\ Put(n, Response(c, verdict, k))
  BY DEF Serve
<1> DEFINE m == Response(c, verdict, k)
<1>2. /\ UNCHANGED <<queue, got, skipped, granted, emitted, id, use, sock, reader, pc, key,
                     reply, answer>>
      /\ wire' = [wire EXCEPT ![n] = Append(@, m)] /\ wire[n] \in Seq(Msg)
  BY <1>0, <1>1 DEF Serve, Put
<1>3. m \in Msg
  BY <1>0 DEF Msg, Response
<1>4. /\ m.seq = 0 /\ ~IsNote(m)
      /\ m.of \in Subscribes /\ m.verdict = "ok" => Granted(n, m)
  BY <1>1, KindsDisjoint DEF Response, IsNote, Verdict, Granted
<1> HIDE DEF m
<1>5. /\ wire'[n] = Append(wire[n], m) /\ Range(Append(wire[n], m)) = Range(wire[n]) \cup {m}
      /\ \A p \in Conns : p # n => wire'[p] = wire[p]
  BY <1>0, <1>2, <1>3, HeldAfter
<1>6. Grants' /\ Taken' /\ KeysFit' /\ Unnotified'
  BY <1>2 DEF DInv, Grants, Taken, KeysFit, Unnotified, Granted
<1>7. Sent'
  <2> SUFFICES ASSUME NEW p \in Conns, NEW o \in Range(wire'[p])
               PROVE  /\ IsNote(o) <=> o.seq # 0
                      /\ IsNote(o) \/ (o.of \in Subscribes /\ o.verdict = "ok") => Granted(p, o)
    BY <1>2 DEF Sent, Granted, IsNote
  <2>1. o \in Range(wire[p]) \/ (p = n /\ o = m)
    BY <1>5
  <2>2. CASE o \in Range(wire[p])
    BY <2>2 DEF DInv, Sent
  <2>3. CASE p = n /\ o = m
    BY <1>4, <2>3
  <2> QED
    BY <2>1, <2>2, <2>3
<1>8. NoNoteLost'
  <2> SUFFICES ASSUME NEW p \in Conns, NEW j \in Keys,
                      reader[p] = "reading", granted[p][j] # NoCall,
                      granted[p][j] \notin skipped, Listening(granted[p][j])
               PROVE  LET x == granted[p][j]
                      IN  InOrder(x, got[x] \o queue[x] \o wire'[p], emitted[x])
    BY <1>2 DEF NoNoteLost, Listening
  <2> DEFINE x == granted[p][j]
  <2>1. InOrder(x, got[x] \o queue[x] \o wire[p], emitted[x])
    BY DEF DInv, NoNoteLost
  <2>2. CASE p # n
    BY <1>5, <2>1, <2>2
  <2>3. CASE p = n
    <3>1. ~IsOf(x, m) /\ x \in Subscribes
      BY <1>0, <1>4 DEF IsOf
    <3>2. got[x] \o queue[x] \in Seq(Msg)
      BY <1>0, <3>1
    <3>3. InOrder(x, got[x] \o queue[x] \o Append(wire[n], m), emitted[x])
      BY <1>2, <1>3, <2>1, <2>3, <3>1, <3>2, OtherAtTheEnd
    <3> QED
      BY <1>5, <2>3, <3>3
  <2> QED
    BY <2>2, <2>3
<1> QED
  BY <1>6, <1>7, <1>8 DEF DInv

\* A notification that is sent is the next of its subscription.
LEMMA NotifyKeeps ==
  ASSUME IInv, DInv, NEW n \in Conns, NEW k \in Keys, Notify(n, k)
  PROVE  DInv'
<1> USE DEF TypeOK
<1> DEFINE c == granted[n][k]
           m == Note(c, k, emitted[c] + 1)
<1>0. TypeOK /\ Numbered /\ Requests /\ Subscribes \subseteq Calls
  BY DEF IInv, Calls
<1>1. /\ UNCHANGED <<queue, got, skipped, granted, id, use, sock, reader, pc, key,
                     reply, answer>>
      /\ emitted' = [emitted EXCEPT ![c] = @ + 1]
      /\ wire' = [wire EXCEPT ![n] = Append(@, m)] /\ wire[n] \in Seq(Msg)
      /\ k \in active[n]
  BY <1>0 DEF Notify, Put
<1>2. c # NoCall /\ c \in Subscribes /\ c \in Calls
  BY <1>0, <1>1 DEF Requests
<1>3. emitted[c] \in Nat
  BY <1>0, <1>2, BoundsAreNatural
<1>4. m \in Msg /\ m.seq = emitted[c] + 1 /\ m.seq # 0 /\ IsNote(m) /\ m.of = c /\ m.key = k
  BY <1>0, <1>2, <1>3, BoundsAreNatural DEF Msg, Note, IsNote
<1>5. \A p \in Conns, j \in Keys : granted[p][j] = c => p = n /\ j = k
  <2>1. TypeOK /\ Numbered /\ Grants /\ granted[n][k] # NoCall
    BY <1>0, <1>2 DEF DInv
  <2> HIDE DEF TypeOK
  <2> QED
    BY <2>1, KeyOf
<1> HIDE DEF m
<1>6. /\ wire'[n] = Append(wire[n], m) /\ Range(Append(wire[n], m)) = Range(wire[n]) \cup {m}
      /\ \A p \in Conns : p # n => wire'[p] = wire[p]
      /\ emitted'[c] = emitted[c] + 1
      /\ \A s \in Subscribes : s # c => emitted'[s] = emitted[s]
  BY <1>0, <1>1, <1>2, <1>4, HeldAfter
<1>7. Grants' /\ Taken' /\ KeysFit'
  BY <1>1 DEF DInv, Grants, Taken, KeysFit, Granted
<1>8. Unnotified'
  BY <1>1, <1>6 DEF DInv, Unnotified
<1>9. Sent'
  <2> SUFFICES ASSUME NEW p \in Conns, NEW o \in Range(wire'[p])
               PROVE  /\ IsNote(o) <=> o.seq # 0
                      /\ IsNote(o) \/ (o.of \in Subscribes /\ o.verdict = "ok") => Granted(p, o)
    BY <1>1 DEF Sent, Granted, IsNote
  <2>1. CASE o \in Range(wire[p])
    BY <2>1 DEF DInv, Sent
  <2>2. CASE p = n /\ o = m
    BY <1>4, <2>2 DEF Granted
  <2> QED
    BY <1>6, <2>1, <2>2
<1>10. NoNoteLost'
  <2> SUFFICES ASSUME NEW p \in Conns, NEW j \in Keys,
                      reader[p] = "reading", granted[p][j] # NoCall,
                      granted[p][j] \notin skipped, Listening(granted[p][j])
               PROVE  LET x == granted[p][j]
                      IN  InOrder(x, got[x] \o queue[x] \o wire'[p], emitted'[x])
    BY <1>1 DEF NoNoteLost, Listening
  <2> DEFINE x == granted[p][j]
  <2>1. InOrder(x, got[x] \o queue[x] \o wire[p], emitted[x]) /\ x \in Subscribes
    BY <1>0 DEF DInv, NoNoteLost
  <2>2. got[x] \in Seq(Msg) /\ queue[x] \in Seq(Msg)
    BY <1>0, <2>1
  <2>3. got[x] \o queue[x] \in Seq(Msg)
    BY <2>2
  <2>4. CASE p = n /\ j = k
    <3>1. /\ got[c] \o queue[c] \o wire[n] \in Seq(Msg)
          /\ InOrder(c, got[c] \o queue[c] \o wire[n], emitted[c])
      BY <1>1, <2>1, <2>3, <2>4
    <3>2. InOrder(c, Append(got[c] \o queue[c] \o wire[n], m), emitted[c] + 1)
      BY <1>3, <1>4, <3>1, NextInOrder
    <3>3. InOrder(c, got[c] \o queue[c] \o Append(wire[n], m), emitted[c] + 1)
      BY <1>1, <1>4, <2>3, <2>4, <3>2, AppendedTo
    <3> QED
      BY <1>6, <2>4, <3>3
  <2>5. CASE p = n /\ j # k
    <3>1. x # c
      BY <1>5, <2>5
    <3>2. ~IsOf(x, m)
      BY <1>4, <3>1 DEF IsOf
    <3>3. InOrder(x, got[x] \o queue[x] \o Append(wire[n], m), emitted[x])
      BY <1>1, <1>4, <2>1, <2>3, <2>5, <3>2, OtherAtTheEnd
    <3> QED
      BY <1>6, <2>1, <2>5, <3>1, <3>3
  <2>6. CASE p # n
    <3>1. x # c
      BY <1>5, <2>6
    <3> QED
      BY <1>6, <2>1, <2>6, <3>1
  <2> QED
    BY <2>4, <2>5, <2>6
<1> QED
  BY <1>7, <1>8, <1>9, <1>10 DEF DInv

\* At first there is nothing to lose.
LEMMA InitDInv == Init => DInv
<1> SUFFICES ASSUME Init PROVE DInv
  OBVIOUS
<1>1. Range(<<>>) = {}
  BY DEF Range
<1>2. \A n \in Conns, k \in Keys : granted[n][k] = NoCall
  BY DEF Init
<1>3. Grants /\ NoNoteLost
  BY <1>2 DEF Grants, NoNoteLost
<1>4. KeysFit /\ Unnotified
  BY KindsDisjoint DEF Init, KeysFit, Unnotified, Calls
<1>5. Sent /\ Taken
  BY <1>1 DEF Init, Sent, Taken
<1> QED
  BY <1>3, <1>4, <1>5 DEF DInv

\* No step breaks the invariant.
LEMMA NextDInv == IInv /\ DInv /\ [Next]_vars => DInv'
<1> SUFFICES ASSUME IInv, DInv, [Next]_vars PROVE DInv'
  OBVIOUS
<1>1. CASE Next
  BY <1>1, QuietSteps, ReturnKeeps, ReceiveKeeps, RespondKeeps, BroadcastKeeps, GrantKeeps,
     ServeKeeps, NotifyKeeps DEF Next, CallStep, TaskStep, PeerStep
<1>2. CASE UNCHANGED vars
  BY <1>2 DEF DInv, Grants, Sent, Taken, KeysFit, Unnotified, NoNoteLost, Granted, IsNote,
     Listening
<1> QED
  BY <1>1, <1>2

\* While its connection is read a subscription loses no notification and sees them in
\* order, for any number of connections that use the same keys; only a receiver that
\* lagged is an exception.
THEOREM NotesNotLost == Spec => []NoNoteLost
<1>1. Spec => [](IInv /\ DInv)
  BY InitIInv, NextIInv, InitDInv, NextDInv, PTL DEF Spec
<1>2. DInv => NoNoteLost
  BY DEF DInv
<1> QED
  BY <1>1, <1>2, PTL
===============================================================================
