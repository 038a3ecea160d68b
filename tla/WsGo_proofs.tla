------------------------------ MODULE WsGo_proofs ------------------------------
(***************************************************************************)
(* Proofs about the Go transport, for every number of calls, connections   *)
(* and keys.                                                               *)
(***************************************************************************)
EXTENDS WsGo, Delivery_proofs

Begun == {"idle", "dialing", "dialed", "enroll"}
Dead(n) == sock[n] \in {"broken", "closed"}

(* Replies: a reply channel is in one place.  Before its call enrolls it   *)
(* does not exist; while it is in t.pending, under its call's own id, or   *)
(* with dispatch, it is open and empty.                                    *)
Replies ==
  /\ \A c \in Calls : pc[c] \in Begun => reply[c] = "none"
  /\ \A i \in Ids : pending[i] # NoCall =>
       /\ id[pending[i]] = i
       /\ pc[pending[i]] \in Waiting
       /\ reply[pending[i]] = "empty"
  /\ \A n \in Conns : taken[n] # NoCall =>
       /\ reply[taken[n]] = "empty"
       /\ \A i \in Ids : pending[i] # taken[n]
  /\ \A n, m \in Conns : taken[n] # NoCall /\ taken[n] = taken[m] => n = m

(* Ends: whoever ends a session does it with a dead socket, and a call is  *)
(* on the current connection or on a dead one.                             *)
Ends ==
  /\ conn # NoConn => sock[conn] # "unused"
  /\ \A n \in Conns : reader[n] = "failed" => Dead(n)
  /\ \A x \in Closers : closer[x] # "idle" =>
       closing[x] \in Conns /\ sock[closing[x]] # "unused"
  /\ \A x \in Closers : closer[x] = "shut" => Dead(closing[x])
  /\ \A c \in Calls : pc[c] = "dialed" => use[c] \in Conns /\ sock[use[c]] # "unused"
  /\ \A c \in Calls : pc[c] \in {"enroll"} \cup Waiting =>
       use[c] \in Conns /\ (use[c] = conn \/ Dead(use[c]))
  /\ \A c \in Calls : reply[c] = "closed" \/ pc[c] = "closed" =>
       use[c] \in Conns /\ Dead(use[c])

(* Owners: a notification channel is open from Register until its one      *)
(* owner, t.subscriptions or an unregister, closes it.                     *)
Owners ==
  /\ \A s \in Subscribes : streamState[s] # "none" => pc[s] = "answered"
  /\ \A k \in Keys : subscriptions[k] # NoCall =>
       key[subscriptions[k]] = k /\ streamState[subscriptions[k]] = "open"
  /\ \A c \in Unsubscribes : pc[c] \notin {"idle", "closing", "answered"} =>
       /\ target[c] \in Subscribes
       /\ key[target[c]] \in Keys /\ pc[target[c]] = "answered"
  /\ \A c \in Unsubscribes : pc[c] = "closing" =>
       /\ target[c] \in Subscribes
       /\ streamState[target[c]] = "open"
       /\ \A k \in Keys : subscriptions[k] # target[c]
       /\ \A d \in Unsubscribes \ {c} : pc[d] = "closing" => target[d] # target[c]

(* Messages: ids are handed out once, so a response under the id of a call *)
(* is the answer to that call.                                             *)
Numbered ==
  /\ \A c \in Calls : id[c] <= nextID
  /\ \A c \in Calls : pc[c] \in Begun => id[c] = 0
  /\ \A c \in Calls : id[c] = 0 => pc[c] \in Begun \cup {"unsent"}
  /\ \A c, d \in Calls : id[c] # 0 /\ id[c] = id[d] => c = d

\* A request is in one inbox at most, and is answered once.
Requests ==
  /\ \A n \in Conns : \A c \in inbox[n] :
       id[c] # 0 /\ use[c] = n /\ c \notin served
  /\ \A c \in Calls : pc[c] \in {"write"} \cup Begun => c \notin served
  /\ \A c \in Calls : pc[c] = "write" => \A n \in Conns : c \notin inbox[n]
  /\ \A n \in Conns, k \in Keys : k \in active[n] => granted[n][k] # NoCall

Fit(m, ids, answered) ==
  /\ IsNote(m) => m.key \in Keys
  /\ ~IsNote(m) => /\ m.id # 0 /\ ids[m.of] = m.id
                   /\ m.of \in answered
                   /\ m.of \in Subscribes /\ m.verdict = "ok" => m.key \in Keys

\* What dispatch has taken belongs to the response it has read.
Wires ==
  /\ \A n \in Conns : \A j \in 1..Len(wire[n]) : Fit(wire[n][j], id, served)
  /\ \A n \in Conns : taken[n] # NoCall =>
       /\ wire[n] # <<>>
       /\ ~IsNote(Head(wire[n])) /\ id[taken[n]] = Head(wire[n]).id

\* A full reply channel holds the answer to its call.
Answers ==
  /\ \A c \in Calls : reply[c] = "full" =>
       /\ answer[c] \in Msg /\ answer[c].of = c
       /\ ~IsNote(answer[c]) /\ Fit(answer[c], id, served)
  /\ \A c \in Calls :
       pc[c] \in {"register", "unregister", "closing", "answered"} => reply[c] = "full"
  /\ \A c \in Subscribes : pc[c] = "register" => key[c] \in Keys

Messages == Numbered /\ Requests /\ Wires /\ Answers

IInv == TypeOK /\ Replies /\ Ends /\ Owners /\ Messages

USE DEF session, locals, replies, streams, readers, closers, peer, network,
        others, vars, Goto
-------------------------------------------------------------------------------
(* Messages at the head of a wire.                                         *)

\* What is at the head of a wire is a message that fits, and what is left fits too.
LEMMA HeadOfWire ==
  ASSUME TypeOK, Wires, NEW n \in Conns, wire[n] # <<>>
  PROVE  /\ Head(wire[n]) \in Msg /\ Fit(Head(wire[n]), id, served)
         /\ Tail(wire[n]) \in Seq(Msg)
         /\ Len(Tail(wire[n])) = Len(wire[n]) - 1
         /\ \A j \in 1..Len(Tail(wire[n])) :
              /\ j + 1 \in 1..Len(wire[n])
              /\ Tail(wire[n])[j] = wire[n][j + 1]
<1>1. wire[n] \in Seq(Msg)
  BY DEF TypeOK
<1>2. Head(wire[n]) = wire[n][1] /\ 1 \in 1..Len(wire[n])
  BY <1>1
<1>3. Fit(wire[n][1], id, served)
  BY <1>2 DEF Wires
<1> QED
  BY <1>1, <1>2, <1>3

\* A response at the head of a wire carries the id of a call.
LEMMA ResponseId ==
  ASSUME TypeOK, Wires, NEW n \in Conns, Arriving(n), ~IsNote(Head(wire[n]))
  PROVE  Head(wire[n]).id \in Ids
<1>1. Head(wire[n]) \in Msg /\ Fit(Head(wire[n]), id, served)
  BY HeadOfWire DEF Arriving
<1>2. Head(wire[n]).id \in 0..MaxId
  BY <1>1 DEF Msg
<1>3. Head(wire[n]).id # 0
  BY <1>1 DEF Fit
<1> QED
  BY <1>2, <1>3, BoundsAreNatural DEF Ids

\* connectionClosed closes only reply channels that are in t.pending, so open.
LEMMA RepliesCut ==
  ASSUME TypeOK, Replies, NEW n \in Conns \cup {NoConn}, ConnectionClosed(n),
         pc' = pc, id' = id, taken' = taken
  PROVE  Replies'
<1> USE DEF TypeOK, Replies, Begun, Waiting
<1>1. CASE UNCHANGED <<pending, reply>>
  BY <1>1
<1>2. ASSUME pending' = [i \in Ids |-> NoCall],
             reply' = [c \in Calls |-> IF \E i \in Ids : pending[i] = c
                                         THEN "closed" ELSE reply[c]]
      PROVE  Replies'
  <2>1. ASSUME NEW c \in Calls, pc[c] \in Begun PROVE reply'[c] = "none"
    <3>1. ASSUME NEW i \in Ids, pending[i] = c PROVE FALSE
      <4>1. pc[pending[i]] \in Waiting
        BY <3>1, NullsAreOutside
      <4> QED
        BY <2>1, <3>1, <4>1
    <3> QED
      BY <1>2, <2>1, <3>1
  <2>2. \A i \in Ids : pending'[i] = NoCall
    BY <1>2
  <2>3. ASSUME NEW m \in Conns, taken[m] # NoCall
        PROVE  reply'[taken[m]] = "empty" /\ \A i \in Ids : pending'[i] # taken[m]
    <3>1. taken[m] \in Calls /\ reply[taken[m]] = "empty"
             /\ \A i \in Ids : pending[i] # taken[m]
      BY <2>3
    <3> QED
      BY <1>2, <2>2, <2>3, <3>1
  <2> QED
    BY <2>1, <2>2, <2>3
<1> QED
  BY <1>1, <1>2 DEF ConnectionClosed

\* A reply channel stays in one place.
LEMMA RepliesStep ==
  ASSUME TypeOK, Replies, Wires, Next
  PROVE  Replies'
<1> USE DEF TypeOK, Replies, Begun, Waiting
<1>1. ASSUME NEW c \in Calls, CallStep(c) PROVE Replies'
  <2>1. CASE UseExisting(c)
    BY <2>1 DEF UseExisting, MayStart
  <2>2. CASE StartDial(c)
    BY <2>2 DEF StartDial, MayStart
  <2>3. ASSUME NEW n \in Conns, Dial(c, n) PROVE Replies'
    BY <2>3 DEF Dial
  <2>4. CASE DialFail(c)
    BY <2>4 DEF DialFail
  <2>5. CASE Install(c)
    BY <2>5 DEF Install
  <2>6. CASE Adopt(c)
    BY <2>6 DEF Adopt
  <2>7. CASE Enroll(c)
    <3>1. FreshId \in Ids
      BY <2>7, BoundsAreNatural DEF Enroll, FreshId, Ids
    <3> QED
      BY <2>7, <3>1, NullsAreOutside DEF Enroll
  <2>8. CASE Write(c)
    BY <2>8 DEF Write
  <2>9. CASE WriteFail(c)
    BY <2>9 DEF WriteFail, WithoutPending
  <2>10. CASE ReturnAnswer(c)
    BY <2>10 DEF ReturnAnswer, Replied
  <2>11. CASE ReturnSubscribed(c)
    BY <2>11 DEF ReturnSubscribed, Replied
  <2>12. CASE ReturnUnsubscribed(c)
    BY <2>12 DEF ReturnUnsubscribed, Replied
  <2>13. CASE ReturnClosed(c)
    BY <2>13 DEF ReturnClosed
  <2>14. CASE Expire(c)
    BY <2>14 DEF Expire, WithoutPending
  <2>15. CASE Register(c)
    BY <2>15 DEF Register
  <2>16. CASE Unregister(c)
    BY <2>16 DEF Unregister
  <2>17. CASE CloseStream(c)
    BY <2>17 DEF CloseStream
  <2> QED
    BY <1>1, <2>1, <2>2, <2>3, <2>4, <2>5, <2>6, <2>7, <2>8, <2>9, <2>10, <2>11,
       <2>12, <2>13, <2>14, <2>15, <2>16, <2>17 DEF CallStep
<1>2. ASSUME NEW s \in Subscribes, Receive(s) PROVE Replies'
  BY <1>2 DEF Receive
<1>3. ASSUME NEW n \in Conns, ReadStep(n) PROVE Replies'
  <2>1. CASE Take(n)
    <3>1. Head(wire[n]).id \in Ids
      BY <2>1, ResponseId DEF Take
    <3> QED
      BY <2>1, <3>1 DEF Take, WithoutPending
  <2>2. CASE Deliver(n)
    BY <2>2 DEF Deliver
  <2>3. CASE Ignore(n)
    BY <2>3 DEF Ignore
  <2>4. CASE Notice(n)
    BY <2>4 DEF Notice
  <2>5. CASE ReadFail(n)
    BY <2>5 DEF ReadFail
  <2>6. CASE ReaderExit(n)
    BY <2>6, RepliesCut DEF ReaderExit
  <2> QED
    BY <1>3, <2>1, <2>2, <2>3, <2>4, <2>5, <2>6 DEF ReadStep
<1>4. ASSUME NEW n \in Conns, PeerStep(n) PROVE Replies'
  BY <1>4 DEF PeerStep, Serve, Grant, Notify, Break
<1>5. ASSUME NEW x \in Closers, CloseStep(x) PROVE Replies'
  <2>1. CASE Snapshot(x)
    BY <2>1 DEF Snapshot
  <2>2. CASE Shut(x)
    BY <2>2 DEF Shut
  <2>3. CASE FinishClose(x)
    BY <2>3, RepliesCut DEF FinishClose
  <2> QED
    BY <1>5, <2>1, <2>2, <2>3 DEF CloseStep
<1> QED
  BY <1>1, <1>2, <1>3, <1>4, <1>5 DEF Next

\* connectionClosed of a dead connection fails only calls whose connection is dead.
LEMMA EndsCut ==
  ASSUME TypeOK, Replies, Ends, NEW n \in Conns, ConnectionClosed(n), Dead(n),
         UNCHANGED <<pc, use, sock>>,
         \A m \in Conns : reader'[m] = "failed" => reader[m] = "failed",
         \A x \in Closers : closer'[x] # "idle" =>
           closer'[x] = closer[x] /\ closing'[x] = closing[x]
  PROVE  Ends'
<1> USE DEF TypeOK, Ends, Waiting, Dead
<1>1. ASSUME NEW c \in Calls, reply'[c] = "closed" PROVE use[c] \in Conns /\ Dead(use[c])
  <2>1. CASE reply[c] = "closed"
    BY <2>1
  <2>2. CASE reply[c] # "closed"
    <3>1. IsCurrent(n) /\ \E i \in Ids : pending[i] = c
      BY <1>1, <2>2 DEF ConnectionClosed
    <3>2. pc[c] \in Waiting
      BY <3>1, NullsAreOutside DEF Replies
    <3> QED
      BY <3>1, <3>2 DEF IsCurrent
  <2> QED
    BY <2>1, <2>2
<1>2. ASSUME NEW c \in Calls, pc[c] \in {"enroll"} \cup Waiting
      PROVE  use[c] \in Conns /\ (use[c] = conn' \/ Dead(use[c]))
  BY <1>2 DEF ConnectionClosed, IsCurrent
<1>3. conn' # NoConn => sock[conn'] # "unused"
  BY DEF ConnectionClosed
<1>4. \A m \in Conns : reader'[m] = "failed" => Dead(m)
  OBVIOUS
<1>5. \A x \in Closers : closer'[x] # "idle" =>
         closing'[x] \in Conns /\ sock[closing'[x]] # "unused"
  OBVIOUS
<1>6. \A x \in Closers : closer'[x] = "shut" => Dead(closing'[x])
  OBVIOUS
<1> QED
  BY <1>1, <1>2, <1>3, <1>4, <1>5, <1>6

\* Whoever ends a session has a dead socket, and calls are on live or dead ones.
LEMMA EndsStep ==
  ASSUME TypeOK, Replies, Ends, Next
  PROVE  Ends'
<1> USE DEF TypeOK, Ends, Waiting, Dead
<1>1. ASSUME NEW c \in Calls, CallStep(c) PROVE Ends'
  <2>1. CASE UseExisting(c)
    BY <2>1 DEF UseExisting, MayStart, Replies, Begun
  <2>2. CASE StartDial(c)
    BY <2>2 DEF StartDial, MayStart
  <2>3. ASSUME NEW n \in Conns, Dial(c, n) PROVE Ends'
    BY <2>3 DEF Dial, Replies, Begun
  <2>4. CASE DialFail(c)
    BY <2>4 DEF DialFail
  <2>5. CASE Install(c)
    BY <2>5, NullsAreOutside DEF Install
  <2>6. CASE Adopt(c)
    BY <2>6 DEF Adopt, Replies, Begun
  <2>7. CASE Enroll(c)
    BY <2>7 DEF Enroll
  <2>8. CASE Write(c)
    BY <2>8 DEF Write
  <2>9. CASE WriteFail(c)
    BY <2>9 DEF WriteFail
  <2>10. CASE ReturnAnswer(c)
    BY <2>10 DEF ReturnAnswer, Replied
  <2>11. CASE ReturnSubscribed(c)
    BY <2>11 DEF ReturnSubscribed, Replied
  <2>12. CASE ReturnUnsubscribed(c)
    BY <2>12 DEF ReturnUnsubscribed, Replied
  <2>13. CASE ReturnClosed(c)
    BY <2>13 DEF ReturnClosed
  <2>14. CASE Expire(c)
    BY <2>14 DEF Expire
  <2>15. CASE Register(c)
    BY <2>15 DEF Register
  <2>16. CASE Unregister(c)
    BY <2>16 DEF Unregister
  <2>17. CASE CloseStream(c)
    BY <2>17 DEF CloseStream
  <2> QED
    BY <1>1, <2>1, <2>2, <2>3, <2>4, <2>5, <2>6, <2>7, <2>8, <2>9, <2>10, <2>11,
       <2>12, <2>13, <2>14, <2>15, <2>16, <2>17 DEF CallStep
<1>2. ASSUME NEW s \in Subscribes, Receive(s) PROVE Ends'
  BY <1>2 DEF Receive
<1>3. ASSUME NEW n \in Conns, ReadStep(n) PROVE Ends'
  <2>1. CASE Take(n)
    BY <2>1 DEF Take
  <2>2. CASE Deliver(n)
    BY <2>2 DEF Deliver
  <2>3. CASE Ignore(n)
    BY <2>3 DEF Ignore
  <2>4. CASE Notice(n)
    BY <2>4 DEF Notice
  <2>5. CASE ReadFail(n)
    BY <2>5 DEF ReadFail
  <2>6. CASE ReaderExit(n)
    BY <2>6, EndsCut DEF ReaderExit
  <2> QED
    BY <1>3, <2>1, <2>2, <2>3, <2>4, <2>5, <2>6 DEF ReadStep
<1>4. ASSUME NEW n \in Conns, PeerStep(n) PROVE Ends'
  <2>1. CASE UNCHANGED <<conn, sock, pc, use, reply, reader, closer, closing>>
    BY <2>1
  <2>2. CASE Break(n)
    BY <2>2 DEF Break
  <2> QED
    BY <1>4, <2>1, <2>2 DEF PeerStep, Serve, Grant, Notify
<1>5. ASSUME NEW x \in Closers, CloseStep(x) PROVE Ends'
  <2>1. CASE Snapshot(x)
    BY <2>1 DEF Snapshot
  <2>2. CASE Shut(x)
    BY <2>2 DEF Shut
  <2>3. CASE FinishClose(x)
    BY <2>3, EndsCut DEF FinishClose
  <2> QED
    BY <1>5, <2>1, <2>2, <2>3 DEF CloseStep
<1> QED
  BY <1>1, <1>2, <1>3, <1>4, <1>5 DEF Next

\* connectionClosed closes each channel it finds once, and takes it out.
LEMMA OwnersCut ==
  ASSUME TypeOK, Owners, NEW n \in Conns \cup {NoConn}, ConnectionClosed(n),
         UNCHANGED <<pc, key, target>>
  PROVE  Owners'
<1> USE DEF TypeOK, Owners
<1>1. CASE UNCHANGED <<subscriptions, streamState>>
  BY <1>1
<1>2. ASSUME subscriptions' = [k \in Keys |-> NoCall],
             streamState' = [s \in Subscribes |->
                               IF \E k \in Keys : subscriptions[k] = s
                                 THEN "closed" ELSE streamState[s]]
      PROVE  Owners'
  <2>1. ASSUME NEW s \in Subscribes, streamState'[s] # "none" PROVE pc[s] = "answered"
    <3>1. streamState[s] # "none"
      <4>1. CASE \E k \in Keys : subscriptions[k] = s
        <5>1. PICK k \in Keys : subscriptions[k] = s
          BY <4>1
        <5>2. subscriptions[k] # NoCall
          BY <5>1, NullsAreOutside DEF Calls
        <5> QED
          BY <5>1, <5>2
      <4>2. CASE ~\E k \in Keys : subscriptions[k] = s
        BY <1>2, <2>1, <4>2
      <4> QED
        BY <4>1, <4>2
    <3> QED
      BY <3>1
  <2>2. ASSUME NEW c \in Unsubscribes, pc[c] = "closing"
        PROVE  streamState'[target[c]] = "open"
    BY <1>2, <2>2
  <2>3. ASSUME NEW c \in Unsubscribes, pc[c] = "closing"
        PROVE  /\ target[c] \in Subscribes
               /\ \A k \in Keys : subscriptions'[k] # target[c]
               /\ \A d \in Unsubscribes \ {c} : pc[d] = "closing" => target[d] # target[c]
    BY <1>2, <2>3, NullsAreOutside DEF Calls
  <2> QED
    BY <1>2, <2>1, <2>2, <2>3
<1> QED
  BY <1>1, <1>2 DEF ConnectionClosed

\* Every open notification channel keeps one owner.
LEMMA OwnersStep ==
  ASSUME TypeOK, Owners, Next
  PROVE  Owners'
<1> USE DEF TypeOK, Owners
<1>1. ASSUME NEW c \in Calls, CallStep(c) PROVE Owners'
  <2>1. CASE UseExisting(c)
    BY <2>1 DEF UseExisting, MayStart
  <2>2. CASE StartDial(c)
    BY <2>2 DEF StartDial, MayStart
  <2>3. ASSUME NEW n \in Conns, Dial(c, n) PROVE Owners'
    BY <2>3 DEF Dial
  <2>4. CASE DialFail(c)
    BY <2>4 DEF DialFail
  <2>5. CASE Install(c)
    BY <2>5 DEF Install
  <2>6. CASE Adopt(c)
    BY <2>6 DEF Adopt
  <2>7. CASE Enroll(c)
    BY <2>7 DEF Enroll
  <2>8. CASE Write(c)
    BY <2>8 DEF Write
  <2>9. CASE WriteFail(c)
    BY <2>9 DEF WriteFail
  <2>10. CASE ReturnAnswer(c)
    BY <2>10 DEF ReturnAnswer, Replied
  <2>11. CASE ReturnSubscribed(c)
    <3>1. /\ c \in Subscribes /\ pc[c] = "wait" /\ pc' = [pc EXCEPT ![c] = "register"]
          /\ \A s \in Subscribes : s # c => key'[s] = key[s]
          /\ UNCHANGED <<subscriptions, streamState, target>>
      BY <2>11 DEF ReturnSubscribed, Replied
    <3>2. ASSUME NEW k \in Keys, subscriptions[k] = c PROVE FALSE
      <4>1. subscriptions[k] # NoCall
        BY <3>2, NullsAreOutside
      <4> QED
        BY <3>1, <3>2, <4>1
    <3>3. \A d \in Unsubscribes : d # c
      BY <3>1, KindsDisjoint
    <3>4. \A d \in Unsubscribes : pc[d] \notin {"idle", "answered"} => target[d] # c
      BY <3>1
    <3>5. streamState[c] = "none"
      BY <3>1
    <3>6. \A s \in Subscribes : streamState[s] # "none" => pc'[s] = "answered"
      BY <3>1, <3>5
    <3>7. \A k \in Keys : subscriptions'[k] # NoCall =>
            key'[subscriptions'[k]] = k /\ streamState'[subscriptions'[k]] = "open"
      BY <3>1, <3>2
    <3>8. \A d \in Unsubscribes : pc'[d] = pc[d]
      BY <3>1, <3>3
    <3>9. \A d \in Unsubscribes : pc'[d] \notin {"idle", "closing", "answered"} =>
            /\ target'[d] \in Subscribes
            /\ key'[target'[d]] \in Keys /\ pc'[target'[d]] = "answered"
      BY <3>1, <3>4, <3>8
    <3>10. \A d \in Unsubscribes : pc'[d] = "closing" =>
             /\ target'[d] \in Subscribes
             /\ streamState'[target'[d]] = "open"
             /\ \A k \in Keys : subscriptions'[k] # target'[d]
             /\ \A e \in Unsubscribes \ {d} : pc'[e] = "closing" => target'[e] # target'[d]
      BY <3>1, <3>8
    <3> QED
      BY <3>1, <3>6, <3>7, <3>9, <3>10
  <2>12. CASE ReturnUnsubscribed(c)
    BY <2>12 DEF ReturnUnsubscribed, Replied
  <2>13. CASE ReturnClosed(c)
    BY <2>13 DEF ReturnClosed
  <2>14. CASE Expire(c)
    BY <2>14 DEF Expire
  <2>15. CASE Register(c)
    BY <2>15 DEF Register
  <2>16. CASE Unregister(c)
    <3> DEFINE k == key[target[c]]
    <3>1. /\ c \in Unsubscribes /\ k \in Keys
          /\ target' = [target EXCEPT ![c] = subscriptions[k]]
          /\ subscriptions' = [subscriptions EXCEPT ![k] = NoCall]
          /\ pc' = [pc EXCEPT ![c] = IF subscriptions[k] # NoCall
                                        THEN "closing" ELSE "answered"]
          /\ pc[c] = "unregister"
          /\ UNCHANGED <<key, streamState>>
      BY <2>16 DEF Unregister, WithoutStream, ClosesStream
    <3>2. CASE subscriptions[k] = NoCall
      BY <3>1, <3>2
    <3>3. CASE subscriptions[k] # NoCall
      <4>1. \A j \in Keys \ {k} : subscriptions[j] # subscriptions[k]
        BY <3>1, <3>3
      <4>2. \A d \in Unsubscribes : pc[d] = "closing" => target[d] # subscriptions[k]
        BY <3>1
      <4>3. subscriptions[k] \in Subscribes /\ streamState[subscriptions[k]] = "open"
        BY <3>1, <3>3
      <4> HIDE DEF k
      <4>4. /\ pc' = [pc EXCEPT ![c] = "closing"]
            /\ target'[c] = subscriptions[k]
            /\ \A d \in Unsubscribes \ {c} : target'[d] = target[d] /\ pc'[d] = pc[d]
        BY <3>1, <3>3
      <4>5. \A s \in Subscribes : pc'[s] = pc[s]
        BY <3>1, <4>4, KindsDisjoint
      <4>6. \A d \in Unsubscribes : pc'[d] = "closing" =>
              /\ target'[d] \in Subscribes
              /\ streamState[target'[d]] = "open"
              /\ \A j \in Keys : subscriptions'[j] # target'[d]
              /\ \A e \in Unsubscribes \ {d} :
                   pc'[e] = "closing" => target'[e] # target'[d]
        <5> SUFFICES ASSUME NEW d \in Unsubscribes, pc'[d] = "closing"
                     PROVE  /\ target'[d] \in Subscribes
                            /\ streamState[target'[d]] = "open"
                            /\ \A j \in Keys : subscriptions'[j] # target'[d]
                            /\ \A e \in Unsubscribes \ {d} :
                                 pc'[e] = "closing" => target'[e] # target'[d]
          OBVIOUS
        <5>1. CASE d = c
          BY <3>1, <3>3, <4>1, <4>2, <4>3, <4>4, <5>1, NullsAreOutside DEF Calls
        <5>2. CASE d # c
          BY <3>1, <4>2, <4>3, <4>4, <5>2, NullsAreOutside DEF Calls
        <5> QED
          BY <5>1, <5>2
      <4>7. \A j \in Keys : subscriptions'[j] # NoCall =>
              key[subscriptions'[j]] = j /\ streamState[subscriptions'[j]] = "open"
        BY <3>1
      <4>8. \A d \in Unsubscribes : pc'[d] \notin {"idle", "closing", "answered"} =>
              /\ target'[d] \in Subscribes
              /\ key[target'[d]] \in Keys /\ pc'[target'[d]] = "answered"
        BY <3>1, <4>4, <4>5
      <4> QED
        BY <3>1, <4>5, <4>6, <4>7, <4>8
    <3> QED
      BY <3>2, <3>3
  <2>17. CASE CloseStream(c)
    BY <2>17 DEF CloseStream
  <2> QED
    BY <1>1, <2>1, <2>2, <2>3, <2>4, <2>5, <2>6, <2>7, <2>8, <2>9, <2>10, <2>11,
       <2>12, <2>13, <2>14, <2>15, <2>16, <2>17 DEF CallStep
<1>2. ASSUME NEW s \in Subscribes, Receive(s) PROVE Owners'
  BY <1>2 DEF Receive
<1>3. ASSUME NEW n \in Conns, ReadStep(n) PROVE Owners'
  <2>1. CASE Take(n)
    BY <2>1 DEF Take
  <2>2. CASE Deliver(n)
    BY <2>2 DEF Deliver
  <2>3. CASE Ignore(n)
    BY <2>3 DEF Ignore
  <2>4. CASE Notice(n)
    BY <2>4 DEF Notice
  <2>5. CASE ReadFail(n)
    BY <2>5 DEF ReadFail
  <2>6. CASE ReaderExit(n)
    BY <2>6, OwnersCut DEF ReaderExit
  <2> QED
    BY <1>3, <2>1, <2>2, <2>3, <2>4, <2>5, <2>6 DEF ReadStep
<1>4. ASSUME NEW n \in Conns, PeerStep(n) PROVE Owners'
  BY <1>4 DEF PeerStep, Serve, Grant, Notify, Break
<1>5. ASSUME NEW x \in Closers, CloseStep(x) PROVE Owners'
  <2>1. CASE Snapshot(x)
    BY <2>1 DEF Snapshot
  <2>2. CASE Shut(x)
    BY <2>2 DEF Shut
  <2>3. CASE FinishClose(x)
    BY <2>3, OwnersCut DEF FinishClose
  <2> QED
    BY <1>5, <2>1, <2>2, <2>3 DEF CloseStep
<1> QED
  BY <1>1, <1>2, <1>3, <1>4, <1>5 DEF Next

\* Ids stay unique, and a call gets one when it enrolls.
LEMMA NumberedStep ==
  ASSUME TypeOK, Numbered, Next
  PROVE  Numbered'
<1> USE DEF TypeOK, Numbered, Begun, Waiting
<1>1. ASSUME NEW c \in Calls, CallStep(c) PROVE Numbered'
  <2>1. CASE UseExisting(c)
    BY <2>1 DEF UseExisting, MayStart
  <2>2. CASE StartDial(c)
    BY <2>2 DEF StartDial, MayStart
  <2>3. ASSUME NEW n \in Conns, Dial(c, n) PROVE Numbered'
    BY <2>3 DEF Dial
  <2>4. CASE DialFail(c)
    BY <2>4 DEF DialFail
  <2>5. CASE Install(c)
    BY <2>5 DEF Install
  <2>6. CASE Adopt(c)
    BY <2>6 DEF Adopt
  <2>7. CASE Enroll(c)
    BY <2>7, BoundsAreNatural DEF Enroll, FreshId
  <2>8. CASE Write(c)
    BY <2>8 DEF Write
  <2>9. CASE WriteFail(c)
    BY <2>9 DEF WriteFail
  <2>10. CASE ReturnAnswer(c)
    BY <2>10 DEF ReturnAnswer, Replied
  <2>11. CASE ReturnSubscribed(c)
    BY <2>11 DEF ReturnSubscribed, Replied
  <2>12. CASE ReturnUnsubscribed(c)
    BY <2>12 DEF ReturnUnsubscribed, Replied
  <2>13. CASE ReturnClosed(c)
    BY <2>13 DEF ReturnClosed
  <2>14. CASE Expire(c)
    BY <2>14 DEF Expire
  <2>15. CASE Register(c)
    BY <2>15 DEF Register
  <2>16. CASE Unregister(c)
    BY <2>16 DEF Unregister
  <2>17. CASE CloseStream(c)
    BY <2>17 DEF CloseStream
  <2> QED
    BY <1>1, <2>1, <2>2, <2>3, <2>4, <2>5, <2>6, <2>7, <2>8, <2>9, <2>10, <2>11,
       <2>12, <2>13, <2>14, <2>15, <2>16, <2>17 DEF CallStep
<1>2. ASSUME NEW s \in Subscribes, Receive(s) PROVE Numbered'
  BY <1>2 DEF Receive
<1>3. ASSUME NEW n \in Conns, ReadStep(n) PROVE Numbered'
  <2>1. CASE Take(n)
    BY <2>1 DEF Take
  <2>2. CASE Deliver(n)
    BY <2>2 DEF Deliver
  <2>3. CASE Ignore(n)
    BY <2>3 DEF Ignore
  <2>4. CASE Notice(n)
    BY <2>4 DEF Notice
  <2>5. CASE ReadFail(n)
    BY <2>5 DEF ReadFail
  <2>6. CASE ReaderExit(n)
    BY <2>6 DEF ReaderExit, ConnectionClosed
  <2> QED
    BY <1>3, <2>1, <2>2, <2>3, <2>4, <2>5, <2>6 DEF ReadStep
<1>4. ASSUME NEW n \in Conns, PeerStep(n) PROVE Numbered'
  <2>1. ASSUME NEW c \in Calls, Serve(n, c) PROVE Numbered'
    BY <2>1 DEF Serve
  <2>2. ASSUME NEW c \in Calls, NEW k \in Keys, Grant(n, c, k) PROVE Numbered'
    BY <2>2 DEF Grant
  <2>3. ASSUME NEW k \in Keys, Notify(n, k) PROVE Numbered'
    BY <2>3 DEF Notify
  <2>4. CASE Break(n)
    BY <2>4 DEF Break
  <2> QED
    BY <1>4, <2>1, <2>2, <2>3, <2>4 DEF PeerStep
<1>5. ASSUME NEW x \in Closers, CloseStep(x) PROVE Numbered'
  <2>1. CASE Snapshot(x)
    BY <2>1 DEF Snapshot
  <2>2. CASE Shut(x)
    BY <2>2 DEF Shut
  <2>3. CASE FinishClose(x)
    BY <2>3 DEF FinishClose, ConnectionClosed
  <2> QED
    BY <1>5, <2>1, <2>2, <2>3 DEF CloseStep
<1> QED
  BY <1>1, <1>2, <1>3, <1>4, <1>5 DEF Next

\* A request is with one peer at most and is answered once.
LEMMA RequestsStep ==
  ASSUME TypeOK, Ends, Numbered, Requests, Next
  PROVE  Requests'
<1> USE DEF TypeOK, Requests, Begun, Waiting
<1>1. ASSUME NEW c \in Calls, CallStep(c) PROVE Requests'
  <2>1. CASE UseExisting(c)
    BY <2>1 DEF UseExisting, MayStart, Numbered
  <2>2. CASE StartDial(c)
    BY <2>2 DEF StartDial, MayStart
  <2>3. ASSUME NEW n \in Conns, Dial(c, n) PROVE Requests'
    BY <2>3 DEF Dial, Numbered
  <2>4. CASE DialFail(c)
    BY <2>4 DEF DialFail
  <2>5. CASE Install(c)
    BY <2>5 DEF Install
  <2>6. CASE Adopt(c)
    BY <2>6 DEF Adopt, Numbered
  <2>7. CASE Enroll(c)
    BY <2>7 DEF Enroll, Numbered
  <2>8. CASE Write(c)
    <3>1. pc[c] = "write" /\ id[c] # 0 /\ c \notin served /\ use[c] \in Conns
      BY <2>8 DEF Write, Ends, Numbered
    <3>2. pc' = [pc EXCEPT ![c] = "wait"] /\ UNCHANGED <<id, use, served, granted, active>>
      BY <2>8 DEF Write
    <3>3. \A n \in Conns : inbox'[n] \subseteq
                              inbox[n] \cup (IF n = use[c] THEN {c} ELSE {})
      BY <3>1, <2>8 DEF Write
    <3> QED
      BY <3>1, <3>2, <3>3
  <2>9. CASE WriteFail(c)
    BY <2>9 DEF WriteFail
  <2>10. CASE ReturnAnswer(c)
    BY <2>10 DEF ReturnAnswer, Replied
  <2>11. CASE ReturnSubscribed(c)
    BY <2>11 DEF ReturnSubscribed, Replied
  <2>12. CASE ReturnUnsubscribed(c)
    BY <2>12 DEF ReturnUnsubscribed, Replied
  <2>13. CASE ReturnClosed(c)
    BY <2>13 DEF ReturnClosed
  <2>14. CASE Expire(c)
    BY <2>14 DEF Expire
  <2>15. CASE Register(c)
    BY <2>15 DEF Register
  <2>16. CASE Unregister(c)
    BY <2>16 DEF Unregister
  <2>17. CASE CloseStream(c)
    BY <2>17 DEF CloseStream
  <2> QED
    BY <1>1, <2>1, <2>2, <2>3, <2>4, <2>5, <2>6, <2>7, <2>8, <2>9, <2>10, <2>11,
       <2>12, <2>13, <2>14, <2>15, <2>16, <2>17 DEF CallStep
<1>2. ASSUME NEW s \in Subscribes, Receive(s) PROVE Requests'
  BY <1>2 DEF Receive
<1>3. ASSUME NEW n \in Conns, ReadStep(n) PROVE Requests'
  <2>1. CASE Take(n)
    BY <2>1 DEF Take
  <2>2. CASE Deliver(n)
    BY <2>2 DEF Deliver
  <2>3. CASE Ignore(n)
    BY <2>3 DEF Ignore
  <2>4. CASE Notice(n)
    BY <2>4 DEF Notice
  <2>5. CASE ReadFail(n)
    BY <2>5 DEF ReadFail
  <2>6. CASE ReaderExit(n)
    BY <2>6 DEF ReaderExit
  <2> QED
    BY <1>3, <2>1, <2>2, <2>3, <2>4, <2>5, <2>6 DEF ReadStep
<1>4. ASSUME NEW n \in Conns, PeerStep(n) PROVE Requests'
  <2>1. ASSUME NEW c \in Calls, Serve(n, c) PROVE Requests'
    BY <2>1 DEF Serve, Numbered
  <2>2. ASSUME NEW c \in Calls, NEW k \in Keys, Grant(n, c, k) PROVE Requests'
    BY <2>2, NullsAreOutside DEF Grant, Calls
  <2>3. ASSUME NEW k \in Keys, Notify(n, k) PROVE Requests'
    BY <2>3 DEF Notify
  <2>4. CASE Break(n)
    BY <2>4 DEF Break
  <2> QED
    BY <1>4, <2>1, <2>2, <2>3, <2>4 DEF PeerStep
<1>5. ASSUME NEW x \in Closers, CloseStep(x) PROVE Requests'
  <2>1. CASE Snapshot(x)
    BY <2>1 DEF Snapshot
  <2>2. CASE Shut(x)
    BY <2>2 DEF Shut
  <2>3. CASE FinishClose(x)
    BY <2>3 DEF FinishClose
  <2> QED
    BY <1>5, <2>1, <2>2, <2>3 DEF CloseStep
<1> QED
  BY <1>1, <1>2, <1>3, <1>4, <1>5 DEF Next

\* Ids are given for good and served only grows, so what fits keeps fitting.
LEMMA FitKept ==
  ASSUME NEW m \in Msg, NEW ids, NEW newIds, NEW answered, NEW newAnswered,
         Fit(m, ids, answered), answered \subseteq newAnswered,
         \A c \in Calls : ids[c] # 0 => newIds[c] = ids[c]
  PROVE  Fit(m, newIds, newAnswered)
BY DEF Fit, Msg

\* The wires are as they were, and what fits them still does.
LEMMA WiresKept ==
  ASSUME TypeOK, Wires, UNCHANGED <<wire, taken>>, served \subseteq served',
         \A c \in Calls : id[c] # 0 => id'[c] = id[c]
  PROVE  Wires'
<1>1. ASSUME NEW n \in Conns, NEW j \in 1..Len(wire[n])
      PROVE  Fit(wire[n][j], id', served')
  <2>1. wire[n] \in Seq(Msg)
    BY DEF TypeOK
  <2>2. wire[n][j] \in Msg
    BY <2>1
  <2>3. Fit(wire[n][j], id, served)
    BY DEF Wires
  <2> QED
    BY <2>2, <2>3, FitKept
<1>2. ASSUME NEW n \in Conns, taken[n] # NoCall PROVE id'[taken[n]] = id[taken[n]]
  <2>1. taken[n] \in Calls
    BY <1>2 DEF TypeOK
  <2>2. wire[n] # <<>> /\ ~IsNote(Head(wire[n])) /\ id[taken[n]] = Head(wire[n]).id
    BY <1>2 DEF Wires
  <2>3. Head(wire[n]).id # 0
    BY <2>2, HeadOfWire DEF Fit
  <2> QED
    BY <2>1, <2>2, <2>3
<1> QED
  BY <1>1, <1>2 DEF Wires

\* A wire loses its head when nothing is taken from it any more.
LEMMA WiresAfterRead ==
  ASSUME TypeOK, Wires, NEW n \in Conns, wire[n] # <<>>,
         wire' = [wire EXCEPT ![n] = Tail(@)], taken'[n] = NoCall,
         \A m \in Conns \ {n} : taken'[m] = taken[m],
         UNCHANGED <<id, served>>
  PROVE  Wires'
<1>1. /\ wire'[n] = Tail(wire[n])
      /\ \A m \in Conns \ {n} : wire'[m] = wire[m]
  BY DEF TypeOK
<1>2. ASSUME NEW j \in 1..Len(wire'[n]) PROVE Fit(wire'[n][j], id, served)
  <2>1. j + 1 \in 1..Len(wire[n]) /\ wire'[n][j] = wire[n][j + 1]
    BY <1>1, HeadOfWire
  <2> QED
    BY <2>1 DEF Wires
<1> QED
  BY <1>1, <1>2 DEF Wires

\* A message that fits can be sent.
LEMMA WiresAfterSend ==
  ASSUME TypeOK, Wires, NEW n \in Conns, NEW m \in Msg, Send(n, m),
         Fit(m, id, served'), UNCHANGED <<id, taken>>, served \subseteq served'
  PROVE  Wires'
<1>1. wire[n] \in Seq(Msg)
  BY DEF TypeOK
<1>2. wire'[n] = Append(wire[n], m) /\ \A o \in Conns \ {n} : wire'[o] = wire[o]
  BY DEF TypeOK, Send
<1>3. /\ Len(wire'[n]) = Len(wire[n]) + 1
      /\ wire'[n][Len(wire[n]) + 1] = m
      /\ \A j \in 1..Len(wire[n]) : wire'[n][j] = wire[n][j]
      /\ wire[n] # <<>> => wire'[n] # <<>> /\ Head(wire'[n]) = Head(wire[n])
  BY <1>1, <1>2
<1>4. ASSUME NEW o \in Conns, NEW j \in 1..Len(wire[o])
      PROVE  Fit(wire[o][j], id, served')
  <2>1. wire[o] \in Seq(Msg)
    BY DEF TypeOK
  <2>2. wire[o][j] \in Msg
    BY <2>1
  <2>3. Fit(wire[o][j], id, served)
    BY DEF Wires
  <2> QED
    BY <2>2, <2>3, FitKept
<1>5. ASSUME NEW o \in Conns, NEW j \in 1..Len(wire'[o])
      PROVE  Fit(wire'[o][j], id, served')
  <2>1. CASE o # n
    BY <1>2, <1>4, <2>1
  <2>2. CASE o = n /\ j \in 1..Len(wire[n])
    BY <1>3, <1>4, <2>2
  <2>3. CASE o = n /\ j = Len(wire[n]) + 1
    BY <1>3, <2>3
  <2> QED
    BY <1>1, <1>3, <2>1, <2>2, <2>3
<1>6. \A o \in Conns : taken[o] # NoCall =>
         /\ wire'[o] # <<>>
         /\ ~IsNote(Head(wire'[o])) /\ id[taken[o]] = Head(wire'[o]).id
  BY <1>2, <1>3 DEF Wires
<1> QED
  BY <1>5, <1>6 DEF Wires

\* Every message on a wire keeps fitting.
LEMMA WiresStep ==
  ASSUME TypeOK, Replies, Numbered, Requests, Wires, Next
  PROVE  Wires'
<1> USE DEF TypeOK
<1>1. ASSUME NEW c \in Calls, CallStep(c) PROVE Wires'
  <2>1. CASE UseExisting(c)
    BY <2>1, WiresKept DEF UseExisting, MayStart
  <2>2. CASE StartDial(c)
    BY <2>2, WiresKept DEF StartDial, MayStart
  <2>3. ASSUME NEW n \in Conns, Dial(c, n) PROVE Wires'
    BY <2>3, WiresKept DEF Dial
  <2>4. CASE DialFail(c)
    BY <2>4, WiresKept DEF DialFail
  <2>5. CASE Install(c)
    BY <2>5, WiresKept DEF Install
  <2>6. CASE Adopt(c)
    BY <2>6, WiresKept DEF Adopt
  <2>7. CASE Enroll(c)
    BY <2>7, WiresKept DEF Enroll, Numbered, Begun
  <2>8. CASE Write(c)
    BY <2>8, WiresKept DEF Write
  <2>9. CASE WriteFail(c)
    BY <2>9, WiresKept DEF WriteFail
  <2>10. CASE ReturnAnswer(c)
    BY <2>10, WiresKept DEF ReturnAnswer, Replied
  <2>11. CASE ReturnSubscribed(c)
    BY <2>11, WiresKept DEF ReturnSubscribed, Replied
  <2>12. CASE ReturnUnsubscribed(c)
    BY <2>12, WiresKept DEF ReturnUnsubscribed, Replied
  <2>13. CASE ReturnClosed(c)
    BY <2>13, WiresKept DEF ReturnClosed
  <2>14. CASE Expire(c)
    BY <2>14, WiresKept DEF Expire
  <2>15. CASE Register(c)
    BY <2>15, WiresKept DEF Register
  <2>16. CASE Unregister(c)
    BY <2>16, WiresKept DEF Unregister
  <2>17. CASE CloseStream(c)
    BY <2>17, WiresKept DEF CloseStream
  <2> QED
    BY <1>1, <2>1, <2>2, <2>3, <2>4, <2>5, <2>6, <2>7, <2>8, <2>9, <2>10, <2>11,
       <2>12, <2>13, <2>14, <2>15, <2>16, <2>17 DEF CallStep
<1>2. ASSUME NEW s \in Subscribes, Receive(s) PROVE Wires'
  BY <1>2, WiresKept DEF Receive
<1>3. ASSUME NEW n \in Conns, ReadStep(n) PROVE Wires'
  <2>1. CASE Take(n)
    <3>1. pending[Head(wire[n]).id] \in Calls
             /\ id[pending[Head(wire[n]).id]] = Head(wire[n]).id
      BY <2>1, ResponseId DEF Take, Replies
    <3> QED
      BY <2>1, <3>1 DEF Take, Arriving, Wires
  <2>2. CASE Deliver(n)
    BY <2>2, WiresAfterRead DEF Deliver, Wires
  <2>3. CASE Ignore(n)
    BY <2>3, WiresAfterRead DEF Ignore, Arriving
  <2>4. CASE Notice(n)
    BY <2>4, WiresAfterRead DEF Notice, Arriving
  <2>5. CASE ReadFail(n)
    BY <2>5, WiresKept DEF ReadFail
  <2>6. CASE ReaderExit(n)
    BY <2>6, WiresKept DEF ReaderExit, ConnectionClosed
  <2> QED
    BY <1>3, <2>1, <2>2, <2>3, <2>4, <2>5, <2>6 DEF ReadStep
<1>4. ASSUME NEW n \in Conns, PeerStep(n) PROVE Wires'
  <2>1. ASSUME NEW c \in Calls, Serve(n, c) PROVE Wires'
    <3>1. PICK verdict \in {"ok", "refused"}, k \in Keys \cup {NoKey} :
             Verdict(n, c, verdict, k) /\ Send(n, Response(c, verdict, k))
      BY <2>1 DEF Serve
    <3> DEFINE m == Response(c, verdict, k)
    <3>2. /\ m.id = id[c] /\ m.of = c /\ m.key = k
          /\ m.verdict = verdict /\ m \in Msg
      BY DEF Response, Msg
    <3>3. id[c] # 0
      BY <2>1 DEF Serve, Requests
    <3>4. c \in Subscribes /\ verdict = "ok" => k \in Keys
      BY <3>1, KindsDisjoint DEF Verdict
    <3>5. Fit(m, id, served \cup {c})
      BY <3>2, <3>3, <3>4 DEF Fit, IsNote
    <3>6. Send(n, m) /\ served' = served \cup {c} /\ UNCHANGED <<id, taken>>
      BY <2>1, <3>1 DEF Serve
    <3> HIDE DEF m
    <3> QED
      BY <3>2, <3>5, <3>6, WiresAfterSend
  <2>2. ASSUME NEW c \in Calls, NEW k \in Keys, Grant(n, c, k) PROVE Wires'
    BY <2>2, WiresKept DEF Grant
  <2>3. ASSUME NEW k \in Keys, Notify(n, k) PROVE Wires'
    <3> DEFINE s == granted[n][k]
               m == Note(s, k, emitted[s] + 1)
    <3>1. s \in Subscribes
      BY <2>3 DEF Notify, Requests
    <3>2. m \in Msg /\ m.key = k /\ IsNote(m)
      BY <3>1, BoundsAreNatural DEF Note, Msg, IsNote, Calls
    <3>3. Fit(m, id, served)
      BY <3>2 DEF Fit
    <3>4. Send(n, m) /\ UNCHANGED <<id, taken, served>>
      BY <2>3 DEF Notify
    <3> HIDE DEF m
    <3> QED
      BY <3>2, <3>3, <3>4, WiresAfterSend
  <2>4. CASE Break(n)
    BY <2>4, WiresKept DEF Break
  <2> QED
    BY <1>4, <2>1, <2>2, <2>3, <2>4 DEF PeerStep
<1>5. ASSUME NEW x \in Closers, CloseStep(x) PROVE Wires'
  <2>1. CASE Snapshot(x)
    BY <2>1, WiresKept DEF Snapshot
  <2>2. CASE Shut(x)
    BY <2>2, WiresKept DEF Shut
  <2>3. CASE FinishClose(x)
    BY <2>3, WiresKept DEF FinishClose, ConnectionClosed
  <2> QED
    BY <1>5, <2>1, <2>2, <2>3 DEF CloseStep
<1> QED
  BY <1>1, <1>2, <1>3, <1>4, <1>5 DEF Next

\* Nothing the answers rest on has changed, except that more is served.
LEMMA AnswersKept ==
  ASSUME TypeOK, Numbered, Answers, served \subseteq served',
         \A c \in Calls : id[c] # 0 => id'[c] = id[c],
         \A c \in Calls : reply'[c] = "full" <=> reply[c] = "full",
         \A c \in Calls : reply[c] = "full" => answer'[c] = answer[c],
         \A c \in Calls :
           pc'[c] \in {"register", "unregister", "closing", "answered"} => reply[c] = "full",
         \A c \in Subscribes : pc'[c] = "register" => key'[c] \in Keys
  PROVE  Answers'
<1>1. ASSUME NEW c \in Calls, reply'[c] = "full"
      PROVE  /\ answer'[c] \in Msg /\ answer'[c].of = c
             /\ ~IsNote(answer'[c]) /\ Fit(answer'[c], id', served')
  <2>1. reply[c] = "full" /\ answer'[c] = answer[c]
    BY <1>1
  <2>2. /\ answer[c] \in Msg /\ answer[c].of = c
        /\ ~IsNote(answer[c]) /\ Fit(answer[c], id, served)
    BY <2>1 DEF Answers
  <2> QED
    BY <2>1, <2>2, FitKept
<1> QED
  BY <1>1 DEF Answers

\* connectionClosed touches no reply channel that holds an answer.
LEMMA CutKeepsFull ==
  ASSUME TypeOK, Replies, NEW n \in Conns \cup {NoConn}, ConnectionClosed(n)
  PROVE  /\ \A c \in Calls : reply'[c] = "full" <=> reply[c] = "full"
         /\ UNCHANGED nextID
<1>1. CASE UNCHANGED <<session, reply>>
  BY <1>1
<1>2. CASE reply' = [c \in Calls |-> IF \E i \in Ids : pending[i] = c
                                      THEN "closed" ELSE reply[c]]
  <2>1. ASSUME NEW c \in Calls, NEW i \in Ids, pending[i] = c PROVE reply[c] = "empty"
    <3>1. pending[i] # NoCall
      BY <2>1, NullsAreOutside
    <3> QED
      BY <2>1, <3>1 DEF Replies
  <2> QED
    BY <1>2, <2>1 DEF ConnectionClosed
<1> QED
  BY <1>1, <1>2 DEF ConnectionClosed

\* A full reply channel holds its call's own answer.
LEMMA AnswersStep ==
  ASSUME TypeOK, Replies, Numbered, Wires, Answers, Next
  PROVE  Answers'
<1> USE DEF TypeOK
<1>1. ASSUME NEW c \in Calls, CallStep(c) PROVE Answers'
  <2>1. CASE UseExisting(c)
    BY <2>1, AnswersKept DEF UseExisting, MayStart, Answers
  <2>2. CASE StartDial(c)
    BY <2>2, AnswersKept DEF StartDial, MayStart, Answers
  <2>3. ASSUME NEW n \in Conns, Dial(c, n) PROVE Answers'
    BY <2>3, AnswersKept DEF Dial, Answers
  <2>4. CASE DialFail(c)
    BY <2>4, AnswersKept DEF DialFail, Answers
  <2>5. CASE Install(c)
    BY <2>5, AnswersKept DEF Install, Answers
  <2>6. CASE Adopt(c)
    <3>1. \A d \in Calls :
            pc'[d] \in {"register", "unregister", "closing", "answered"} => reply[d] = "full"
      BY <2>6 DEF Adopt, Answers
    <3>2. \A d \in Subscribes : pc'[d] = "register" => key'[d] \in Keys
      BY <2>6 DEF Adopt, Answers
    <3> QED
      BY <2>6, <3>1, <3>2, AnswersKept DEF Adopt
  <2>7. CASE Enroll(c)
    <3>1. id[c] = 0 /\ reply[c] = "none"
      BY <2>7 DEF Enroll, Numbered, Replies, Begun
    <3>2. /\ reply' = [reply EXCEPT ![c] = "empty"] /\ pc' = [pc EXCEPT ![c] = "write"]
          /\ \A d \in Calls \ {c} : id'[d] = id[d]
          /\ UNCHANGED <<answer, key, served>>
      BY <2>7 DEF Enroll
    <3>3. \A d \in Calls : reply'[d] = "full" <=> reply[d] = "full"
      BY <3>1, <3>2
    <3>4. \A d \in Calls : id[d] # 0 => id'[d] = id[d]
      BY <3>1, <3>2
    <3>5. \A d \in Calls : pc'[d] \in {"register", "unregister", "closing", "answered"}
                              => reply[d] = "full"
      BY <3>2 DEF Answers
    <3>6. \A d \in Subscribes : pc'[d] = "register" => key'[d] \in Keys
      BY <3>2 DEF Answers, Calls
    <3> QED
      BY <3>2, <3>3, <3>4, <3>5, <3>6, AnswersKept
  <2>8. CASE Write(c)
    BY <2>8, AnswersKept DEF Write, Answers
  <2>9. CASE WriteFail(c)
    BY <2>9, AnswersKept DEF WriteFail, Answers
  <2>10. CASE ReturnAnswer(c)
    BY <2>10, AnswersKept DEF ReturnAnswer, Replied, Answers
  <2>11. CASE ReturnSubscribed(c)
    <3>1. reply[c] = "full" /\ answer[c].verdict = "ok" /\ c \in Subscribes
      BY <2>11 DEF ReturnSubscribed, Replied
    <3>2. answer[c].key \in Keys
      BY <3>1 DEF Answers, Fit, IsNote
    <3> QED
      BY <2>11, <3>1, <3>2, AnswersKept DEF ReturnSubscribed, Answers
  <2>12. CASE ReturnUnsubscribed(c)
    BY <2>12, AnswersKept DEF ReturnUnsubscribed, Replied, Answers
  <2>13. CASE ReturnClosed(c)
    BY <2>13, AnswersKept DEF ReturnClosed, Answers
  <2>14. CASE Expire(c)
    BY <2>14, AnswersKept DEF Expire, Answers
  <2>15. CASE Register(c)
    BY <2>15, AnswersKept DEF Register, Answers
  <2>16. CASE Unregister(c)
    BY <2>16, AnswersKept DEF Unregister, Answers
  <2>17. CASE CloseStream(c)
    BY <2>17, AnswersKept DEF CloseStream, Answers
  <2> QED
    BY <1>1, <2>1, <2>2, <2>3, <2>4, <2>5, <2>6, <2>7, <2>8, <2>9, <2>10, <2>11,
       <2>12, <2>13, <2>14, <2>15, <2>16, <2>17 DEF CallStep
<1>2. ASSUME NEW s \in Subscribes, Receive(s) PROVE Answers'
  BY <1>2, AnswersKept DEF Receive, Answers
<1>3. ASSUME NEW n \in Conns, ReadStep(n) PROVE Answers'
  <2>1. CASE Take(n)
    BY <2>1, AnswersKept DEF Take, Answers
  <2>2. CASE Deliver(n)
    <3> DEFINE t == taken[n]
               m == Head(wire[n])
    <3>1. /\ t \in Calls /\ reply[t] = "empty"
          /\ wire[n] # <<>> /\ ~IsNote(m) /\ id[t] = m.id
      BY <2>2 DEF Deliver, Replies, Wires
    <3>2. m \in Msg /\ Fit(m, id, served)
      BY <3>1, HeadOfWire
    <3>3. m.of = t
      BY <3>1, <3>2 DEF Fit, Msg, Numbered
    <3>4. /\ reply'[t] = "full" /\ answer'[t] = m
          /\ \A c \in Calls \ {t} : reply'[c] = reply[c] /\ answer'[c] = answer[c]
          /\ UNCHANGED <<id, served, pc, key>>
      BY <2>2, <3>1 DEF Deliver
    <3> HIDE DEF t, m
    <3>5. ASSUME NEW c \in Calls, reply'[c] = "full"
          PROVE  answer'[c] \in Msg /\ answer'[c].of = c /\ ~IsNote(answer'[c]) /\ Fit(answer'[c], id, served)
      <4>1. CASE c = t
        BY <3>1, <3>2, <3>3, <3>4, <4>1
      <4>2. CASE c # t
        <5>1. reply[c] = "full" /\ answer'[c] = answer[c]
          BY <3>4, <3>5, <4>2
        <5> QED
          BY <5>1 DEF Answers
      <4> QED
        BY <4>1, <4>2
    <3>6. \A c \in Calls :
            pc[c] \in {"register", "unregister", "closing", "answered"} => reply'[c] = "full"
      BY <3>1, <3>4 DEF Answers
    <3>7. \A c \in Subscribes : pc[c] = "register" => key[c] \in Keys
      BY DEF Answers
    <3> QED
      BY <3>4, <3>5, <3>6, <3>7 DEF Answers
  <2>3. CASE Ignore(n)
    BY <2>3, AnswersKept DEF Ignore, Answers
  <2>4. CASE Notice(n)
    BY <2>4, AnswersKept DEF Notice, Answers
  <2>5. CASE ReadFail(n)
    BY <2>5, AnswersKept DEF ReadFail, Answers
  <2>6. CASE ReaderExit(n)
    BY <2>6, CutKeepsFull, AnswersKept DEF ReaderExit, Answers
  <2> QED
    BY <1>3, <2>1, <2>2, <2>3, <2>4, <2>5, <2>6 DEF ReadStep
<1>4. ASSUME NEW n \in Conns, PeerStep(n) PROVE Answers'
  <2>1. ASSUME NEW c \in Calls, Serve(n, c) PROVE Answers'
    BY <2>1, AnswersKept DEF Serve, Answers
  <2>2. ASSUME NEW c \in Calls, NEW k \in Keys, Grant(n, c, k) PROVE Answers'
    BY <2>2, AnswersKept DEF Grant, Answers
  <2>3. ASSUME NEW k \in Keys, Notify(n, k) PROVE Answers'
    BY <2>3, AnswersKept DEF Notify, Answers
  <2>4. CASE Break(n)
    BY <2>4, AnswersKept DEF Break, Answers
  <2> QED
    BY <1>4, <2>1, <2>2, <2>3, <2>4 DEF PeerStep
<1>5. ASSUME NEW x \in Closers, CloseStep(x) PROVE Answers'
  <2>1. CASE Snapshot(x)
    BY <2>1, AnswersKept DEF Snapshot, Answers
  <2>2. CASE Shut(x)
    BY <2>2, AnswersKept DEF Shut, Answers
  <2>3. CASE FinishClose(x)
    BY <2>3, CutKeepsFull, AnswersKept DEF FinishClose, Answers
  <2> QED
    BY <1>5, <2>1, <2>2, <2>3 DEF CloseStep
<1> QED
  BY <1>1, <1>2, <1>3, <1>4, <1>5 DEF Next

\* A channel keeps to its capacity.
LEMMA FillBounded ==
  ASSUME NEW buffer \in Seq(Msg), NEW notes \in Seq(Msg)
  PROVE  Fill(buffer, notes) \in Seq(Msg) /\ Len(Fill(buffer, notes)) <= StreamCap
<1> DEFINE all == buffer \o notes
<1>1. all \in Seq(Msg) /\ Len(all) \in Nat
  OBVIOUS
<1>2. CASE Len(all) <= StreamCap
  BY <1>1, <1>2 DEF Fill
<1>3. CASE ~(Len(all) <= StreamCap)
  <2>1. 1 \in 1..Len(all) + 1 /\ StreamCap \in 0..Len(all)
    BY <1>1, <1>3, BoundsAreNatural
  <2>2. SubSeq(all, 1, StreamCap) \in Seq(Msg) /\ Len(SubSeq(all, 1, StreamCap)) = StreamCap
    <3> HIDE DEF all
    <3> QED
      BY <1>1, <1>3, <2>1, BoundsAreNatural
  <2> QED
    BY <1>3, <2>2, BoundsAreNatural DEF Fill
<1> QED
  BY <1>2, <1>3

\* What connectionClosed leaves is of the right types.
LEMMA CutTypes ==
  ASSUME TypeOK, NEW n \in Conns \cup {NoConn}, ConnectionClosed(n)
  PROVE  /\ conn' \in Conns \cup {NoConn}
         /\ pending' \in [Ids -> Calls \cup {NoCall}]
         /\ subscriptions' \in [Keys -> Subscribes \cup {NoCall}]
         /\ orphans' \in [Keys -> Seq(Msg)]
         /\ nextID' \in 0..MaxId
         /\ reply' \in [Calls -> {"none", "empty", "full", "closed"}]
         /\ streamState' \in [Subscribes -> {"none", "open", "closed"}]
<1> USE DEF TypeOK
<1>1. CASE UNCHANGED <<session, reply, streamState>>
  BY <1>1
<1>2. ASSUME conn' = NoConn, pending' = [i \in Ids |-> NoCall],
             reply' = [c \in Calls |-> IF \E i \in Ids : pending[i] = c
                                         THEN "closed" ELSE reply[c]],
             streamState' = [s \in Subscribes |->
                               IF \E k \in Keys : subscriptions[k] = s
                                 THEN "closed" ELSE streamState[s]],
             subscriptions' = [k \in Keys |-> NoCall],
             orphans' = [k \in Keys |-> <<>>],
             nextID' = nextID
      PROVE  /\ conn' \in Conns \cup {NoConn}
             /\ pending' \in [Ids -> Calls \cup {NoCall}]
             /\ subscriptions' \in [Keys -> Subscribes \cup {NoCall}]
             /\ orphans' \in [Keys -> Seq(Msg)]
             /\ nextID' \in 0..MaxId
             /\ reply' \in [Calls -> {"none", "empty", "full", "closed"}]
             /\ streamState' \in [Subscribes -> {"none", "open", "closed"}]
  <2>1. reply' \in [Calls -> {"none", "empty", "full", "closed"}]
    BY <1>2
  <2>2. streamState' \in [Subscribes -> {"none", "open", "closed"}]
    BY <1>2
  <2>3. <<>> \in Seq(Msg)
    OBVIOUS
  <2>4. orphans' \in [Keys -> Seq(Msg)]
    BY <1>2, <2>3
  <2> QED
    BY <1>2, <2>1, <2>2, <2>4
<1> QED
  BY <1>1, <1>2 DEF ConnectionClosed

\* Every step keeps the types.
LEMMA TypeStep ==
  ASSUME TypeOK, Replies, Ends, Owners, Requests, Wires, Answers, Next
  PROVE  TypeOK'
<1> USE DEF TypeOK, Steps, Waiting, Ended
<1>1. ASSUME NEW c \in Calls, CallStep(c) PROVE TypeOK'
  <2>1. CASE UseExisting(c)
    BY <2>1 DEF UseExisting, MayStart
  <2>2. CASE StartDial(c)
    BY <2>2 DEF StartDial, MayStart
  <2>3. ASSUME NEW n \in Conns, Dial(c, n) PROVE TypeOK'
    BY <2>3 DEF Dial
  <2>4. CASE DialFail(c)
    BY <2>4 DEF DialFail
  <2>5. CASE Install(c)
    BY <2>5 DEF Install, Ends
  <2>6. CASE Adopt(c)
    BY <2>6 DEF Adopt, Ends
  <2>7. CASE Enroll(c)
    BY <2>7, BoundsAreNatural DEF Enroll, FreshId, Ids
  <2>8. CASE Write(c)
    BY <2>8 DEF Write
  <2>9. CASE WriteFail(c)
    BY <2>9 DEF WriteFail, WithoutPending
  <2>10. CASE ReturnAnswer(c)
    BY <2>10 DEF ReturnAnswer, Replied
  <2>11. CASE ReturnSubscribed(c)
    <3>1. answer[c] \in Msg /\ answer[c].key \in Keys \cup {NoKey}
      BY <2>11 DEF ReturnSubscribed, Replied, Answers, Msg
    <3> QED
      BY <2>11, <3>1 DEF ReturnSubscribed, Replied
  <2>12. CASE ReturnUnsubscribed(c)
    BY <2>12 DEF ReturnUnsubscribed, Replied, Owners
  <2>13. CASE ReturnClosed(c)
    BY <2>13 DEF ReturnClosed
  <2>14. CASE Expire(c)
    BY <2>14 DEF Expire, WithoutPending
  <2>15. CASE Register(c)
    <3>1. key[c] \in Keys /\ c \in Subscribes
      BY <2>15 DEF Register, Answers
    <3>2. orphans[key[c]] \in Seq(Msg) /\ <<>> \in Seq(Msg)
      BY <3>1
    <3>3. /\ Fill(<<>>, orphans[key[c]]) \in Seq(Msg)
          /\ Len(Fill(<<>>, orphans[key[c]])) <= StreamCap
      BY <3>2, FillBounded
    <3>4. overflowed' \subseteq Subscribes
      BY <2>15, <3>1 DEF Register, NoteOverflow
    <3> QED
      BY <2>15, <3>1, <3>2, <3>3, <3>4 DEF Register
  <2>16. CASE Unregister(c)
    <3>1. key[target[c]] \in Keys
      BY <2>16 DEF Unregister, Owners
    <3> QED
      BY <2>16, <3>1 DEF Unregister, WithoutStream
  <2>17. CASE CloseStream(c)
    BY <2>17 DEF CloseStream, Owners
  <2> QED
    BY <1>1, <2>1, <2>2, <2>3, <2>4, <2>5, <2>6, <2>7, <2>8, <2>9, <2>10, <2>11,
       <2>12, <2>13, <2>14, <2>15, <2>16, <2>17 DEF CallStep
<1>2. ASSUME NEW s \in Subscribes, Receive(s) PROVE TypeOK'
  <2>1. stream[s] \in Seq(Msg) /\ got[s] \in Seq(Msg) /\ stream[s] # <<>>
  BY <1>2 DEF Receive
  <2>2. /\ Head(stream[s]) \in Msg /\ Tail(stream[s]) \in Seq(Msg)
        /\ Len(Tail(stream[s])) <= Len(stream[s])
        /\ Append(got[s], Head(stream[s])) \in Seq(Msg)
    BY <2>1
  <2>3. Len(Tail(stream[s])) <= StreamCap
    BY <2>1, <2>2, BoundsAreNatural
  <2> QED
    BY <1>2, <2>2, <2>3 DEF Receive
<1>3. ASSUME NEW n \in Conns, ReadStep(n) PROVE TypeOK'
  <2>1. CASE Take(n)
    <3>1. Head(wire[n]).id \in Ids
      BY <2>1, ResponseId DEF Take
    <3> QED
      BY <2>1, <3>1 DEF Take, WithoutPending
  <2>2. CASE Deliver(n)
    <3>1. wire[n] # <<>>
      BY <2>2 DEF Deliver, Wires
    <3>2. Head(wire[n]) \in Msg /\ Tail(wire[n]) \in Seq(Msg)
      BY <3>1, HeadOfWire
    <3> QED
      BY <2>2, <3>2 DEF Deliver
  <2>3. CASE Ignore(n)
    <3>1. Tail(wire[n]) \in Seq(Msg)
      BY <2>3, HeadOfWire DEF Ignore, Arriving
    <3> QED
      BY <2>3, <3>1 DEF Ignore
  <2>4. CASE Notice(n)
    <3> DEFINE m == Head(wire[n])
               s == subscriptions[m.key]
    <3>1. m \in Msg /\ m.key \in Keys /\ Tail(wire[n]) \in Seq(Msg)
      BY <2>4, HeadOfWire DEF Notice, Arriving, Fit
    <3>2. s = NoCall \/ s \in Subscribes
      BY <3>1
    <3>3. CASE s = NoCall
      <4>1. Append(orphans[m.key], m) \in Seq(Msg)
        BY <3>1
      <4> QED
        BY <2>4, <3>1, <3>3, <4>1 DEF Notice, WithOrphan
    <3>4. CASE s # NoCall
      <4>1. stream[s] \in Seq(Msg) /\ <<m>> \in Seq(Msg)
        BY <3>1, <3>2, <3>4
      <4>2. /\ Fill(stream[s], <<m>>) \in Seq(Msg)
            /\ Len(Fill(stream[s], <<m>>)) <= StreamCap
        BY <4>1, FillBounded
      <4>3. /\ stream' = [stream EXCEPT ![s] = Fill(stream[s], <<m>>)]
            /\ overflowed' \subseteq Subscribes
            /\ UNCHANGED orphans
        BY <2>4, <3>2, <3>4 DEF Notice, NoteOverflow
      <4>4. /\ wire' = [wire EXCEPT ![n] = Tail(wire[n])]
            /\ UNCHANGED <<conn, pending, subscriptions, nextID, pc, locals, replies,
                          streamState, got, readers, closers, sock, peer>>
        BY <2>4 DEF Notice
      <4> HIDE DEF m, s
      <4> QED
        BY <3>1, <3>2, <3>4, <4>2, <4>3, <4>4
    <3> QED
      BY <3>3, <3>4
  <2>5. CASE ReadFail(n)
    BY <2>5 DEF ReadFail
  <2>6. CASE ReaderExit(n)
    BY <2>6, CutTypes DEF ReaderExit
  <2> QED
    BY <1>3, <2>1, <2>2, <2>3, <2>4, <2>5, <2>6 DEF ReadStep
<1>4. ASSUME NEW n \in Conns, PeerStep(n) PROVE TypeOK'
  <2>1. ASSUME NEW c \in Calls, Serve(n, c) PROVE TypeOK'
    <3>1. PICK verdict \in {"ok", "refused"}, k \in Keys \cup {NoKey} :
             Send(n, Response(c, verdict, k))
      BY <2>1 DEF Serve
    <3>2. Response(c, verdict, k) \in Msg
      BY DEF Response, Msg
    <3>3. Append(wire[n], Response(c, verdict, k)) \in Seq(Msg)
      BY <3>2
    <3>4. wire' \in [Conns -> Seq(Msg)]
      BY <3>1, <3>3 DEF Send
    <3>5. active' \in [Conns -> SUBSET Keys] /\ inbox' \in [Conns -> SUBSET Calls]
      BY <2>1 DEF Serve
    <3> QED
      BY <2>1, <3>4, <3>5 DEF Serve
  <2>2. ASSUME NEW c \in Calls, NEW k \in Keys, Grant(n, c, k) PROVE TypeOK'
    BY <2>2 DEF Grant
  <2>3. ASSUME NEW k \in Keys, Notify(n, k) PROVE TypeOK'
    <3> DEFINE s == granted[n][k]
               m == Note(s, k, emitted[s] + 1)
    <3>1. s \in Subscribes
      BY <2>3 DEF Notify, Requests
    <3>2. m \in Msg /\ emitted[s] + 1 \in 0..MaxNotes
      BY <2>3, <3>1, BoundsAreNatural DEF Notify, Note, Msg, Calls
    <3>3. Append(wire[n], m) \in Seq(Msg)
      BY <3>2
    <3>4. wire' \in [Conns -> Seq(Msg)]
      BY <2>3, <3>3 DEF Notify, Send
    <3> QED
      BY <2>3, <3>1, <3>2, <3>4 DEF Notify
  <2>4. CASE Break(n)
    BY <2>4 DEF Break
  <2> QED
    BY <1>4, <2>1, <2>2, <2>3, <2>4 DEF PeerStep
<1>5. ASSUME NEW x \in Closers, CloseStep(x) PROVE TypeOK'
  <2>1. CASE Snapshot(x)
    BY <2>1 DEF Snapshot
  <2>2. CASE Shut(x)
    BY <2>2 DEF Shut, Ends
  <2>3. CASE FinishClose(x)
    BY <2>3, CutTypes DEF FinishClose
  <2> QED
    BY <1>5, <2>1, <2>2, <2>3 DEF CloseStep
<1> QED
  BY <1>1, <1>2, <1>3, <1>4, <1>5 DEF Next
-------------------------------------------------------------------------------
(* The invariant, and what it gives.                                       *)

\* The invariant holds at first.
LEMMA InitIInv == Init => IInv
<1> SUFFICES ASSUME Init PROVE IInv
  OBVIOUS
<1> USE DEF Init
<1>1. TypeOK
  <2>1. <<>> \in Seq(Msg) /\ Len(<<>>) = 0
    OBVIOUS
  <2> QED
    BY <2>1, BoundsAreNatural DEF TypeOK, Steps
<1>2. Replies
  BY DEF Replies, Ids
<1>3. Ends
  BY DEF Ends, Waiting
<1>4. Owners
  BY KindsDisjoint DEF Owners, Calls
<1>5. Numbered /\ Requests
  BY DEF Numbered, Requests, Begun
<1>6. Wires
  <2>1. \A n \in Conns : 1..Len(wire[n]) = {} /\ taken[n] = NoCall
    OBVIOUS
  <2> QED
    BY <2>1 DEF Wires
<1>7. Answers
  BY DEF Answers, Calls
<1> QED
  BY <1>1, <1>2, <1>3, <1>4, <1>5, <1>6, <1>7 DEF IInv, Messages

\* No step breaks the invariant.
LEMMA NextIInv == IInv /\ [Next]_vars => IInv'
<1> SUFFICES ASSUME IInv, [Next]_vars PROVE IInv'
  OBVIOUS
<1>1. CASE Next
  <2>1. TypeOK /\ Replies /\ Ends /\ Owners /\ Numbered /\ Requests /\ Wires /\ Answers
    BY DEF IInv, Messages
  <2> QED
    BY <1>1, <2>1, TypeStep, RepliesStep, EndsStep, OwnersStep, NumberedStep,
       RequestsStep, WiresStep, AnswersStep DEF IInv, Messages
<1>2. CASE UNCHANGED vars
  BY <1>2 DEF IInv, Messages, TypeOK, Replies, Ends, Dead, Owners, Numbered,
       Requests, Wires, Answers
<1> QED
  BY <1>1, <1>2

\* The inductive invariant holds in every state the transport reaches.
THEOREM Invariance == Spec => []IInv
<1> QED
  BY InitIInv, NextIInv, PTL DEF Spec

\* Every variable keeps its type, a notification channel its capacity.
THEOREM TypeCorrect == Spec => []TypeOK
<1>1. IInv => TypeOK
  BY DEF IInv
<1> QED
  BY <1>1, Invariance, PTL

\* dispatch never sends on a closed or a full reply channel, although it sends
\* after it has released the lock.
THEOREM NoPanicOnReply == Spec => []NoReplyPanic
<1>1. IInv => NoReplyPanic
  BY DEF IInv, Replies, NoReplyPanic
<1> QED
  BY <1>1, Invariance, PTL

\* No notification channel is closed twice or sent to after it is closed,
\* although unregister closes it after it has released the lock.
THEOREM NoPanicOnStream == Spec => []NoStreamPanic
<1>1. IInv => NoStreamPanic
  BY DEF IInv, Owners, NoStreamPanic
<1> QED
  BY <1>1, Invariance, PTL

\* t.pending never holds the reply channel of a call that is over.
THEOREM PendingIsLive == Spec => []NoPendingLeak
<1>1. IInv => NoPendingLeak
  BY DEF IInv, Replies, NoPendingLeak
<1> QED
  BY <1>1, Invariance, PTL

\* "Connection closed" is only ever said of a call's own, dead connection.
THEOREM ClosedIsClosed == Spec => []ClosedMeansClosed
<1>1. IInv => ClosedMeansClosed
  BY DEF IInv, Ends, Dead, ClosedMeansClosed
<1> QED
  BY <1>1, Invariance, PTL

-------------------------------------------------------------------------------
(* Notifications: none is lost.  The peer numbers them; 1 to emitted must  *)
(* be, in order, in what Next has returned, the channel, the orphans of    *)
(* the key and what is on the wire.                                        *)

\* What a peer says of a subscription names the key it gave to it.
Granted(n, m) == m.key \in Keys /\ granted[n][m.key] = m.of

\* A connection is installed once, and nothing is asked of it before.
Installed ==
  /\ conn # NoConn => reader[conn] # "none"
  /\ \A n \in Conns : reader[n] # "none" => sock[n] # "unused"
  /\ \A c \in Calls : pc[c] = "dialed" =>
       /\ reader[use[c]] = "none"
       /\ \A d \in Calls : pc[d] = "dialed" /\ use[d] = use[c] => d = c
  /\ \A c \in Calls : pc[c] = "enroll" \/ id[c] # 0 =>
       use[c] \in Conns /\ reader[use[c]] # "none"

\* A key is given to a subscribe on the connection it used, and only one.
Grants ==
  \A n \in Conns, k \in Keys :
    LET s == granted[n][k]
    IN  s # NoCall => /\ use[s] = n /\ id[s] # 0 /\ reader[n] # "none"
                      /\ \A j \in Keys : granted[n][j] = s => j = k

Sent ==
  \A n \in Conns : \A m \in Range(wire[n]) :
    /\ IsNote(m) <=> m.seq # 0
    /\ IsNote(m) \/ (m.of \in Subscribes /\ m.verdict = "ok") => Granted(n, m)

Genuine(m) == m.seq # 0 /\ \E n \in Conns : Granted(n, m)

Passed ==
  /\ \A k \in Keys : \A m \in Range(orphans[k]) : Genuine(m)
  /\ \A s \in Subscribes : \A m \in Range(stream[s]) \cup Range(got[s]) : Genuine(m)

\* What a subscribe was told, and what it made of it.
KeysFit ==
  \A s \in Subscribes :
    /\ reply[s] = "full" /\ answer[s].verdict = "ok" =>
         \E n \in Conns : Granted(n, answer[s])
    /\ key[s] # NoKey => \E n \in Conns : key[s] \in Keys /\ granted[n][key[s]] = s

\* A channel takes the place of the orphans of its key, for the first time when the
\* subscribe returns and for the last when it was unsubscribed.
Channels ==
  /\ \A k \in Keys : subscriptions[k] # NoCall => orphans[k] = <<>>
  /\ \A s \in Subscribes : pc[s] # "answered" => stream[s] = <<>> /\ got[s] = <<>>
  /\ \A c \in Unsubscribes : pc[c] = "unregister" => unsubscribed[target[c]]

Unnotified ==
  \A s \in Subscribes : emitted[s] # 0 => \E n \in Conns, k \in Keys : granted[n][k] = s

Streamed == Grants /\ Sent /\ Passed /\ KeysFit /\ Unnotified /\ NoNoteLost

DInv == Installed /\ Channels /\ Streamed

\* A subscribe that was given a key holds one connection and one key.
LEMMA KeyOf ==
  ASSUME TypeOK, Grants, NEW n \in Conns, NEW k \in Keys, granted[n][k] # NoCall
  PROVE  LET s == granted[n][k]
         IN  /\ s \in Subscribes /\ s \in Calls /\ use[s] = n /\ id[s] # 0
             /\ \A m \in Conns, j \in Keys : granted[m][j] = s => m = n /\ j = k
<1>1. granted[n][k] \in Subscribes /\ granted[n][k] \in Calls
  BY DEF TypeOK, Calls
<1> QED
  BY <1>1 DEF Grants

\* A key that one connection alone gave out leads to the subscribe it was given to.
LEMMA OnlyOne ==
  ASSUME TypeOK, KeysFit, NEW n \in Conns, NEW k \in Keys, Unshared(n, k),
         NEW s \in Subscribes, key[s] = k
  PROVE  granted[n][k] = s
<1>1. PICK m \in Conns : granted[m][k] = s
  BY NullsAreOutside DEF KeysFit
<1>2. s # NoCall
  BY NullsAreOutside DEF Calls
<1> QED
  BY <1>1, <1>2 DEF Unshared

\* What the invariant says of the streams stays true of a step that moves no
\* notification; the end of the session drops the orphans.
LEMMA StreamsKept ==
  ASSUME IInv, DInv, UNCHANGED <<stream, got, wire, granted, emitted>>,
         \A s \in Subscribes : s \in overflowed => s \in overflowed',
         \A s \in Subscribes : unsubscribed[s] => unsubscribed'[s],
         \A c \in Calls : id[c] # 0 => id'[c] = id[c] /\ use'[c] = use[c],
         \A n \in Conns : reader[n] # "none" => reader'[n] # "none",
         \A n \in Conns : n = conn' => (n = conn /\ orphans' = orphans) \/ reader[n] = "none",
         \A k \in Keys : Range(orphans'[k]) \subseteq Range(orphans[k]),
         KeysFit'
  PROVE  Streamed'
<1>1. Grants'
  <2> SUFFICES ASSUME NEW n \in Conns, NEW k \in Keys, granted[n][k] # NoCall
               PROVE  LET s == granted[n][k]
                      IN  /\ use'[s] = n /\ id'[s] # 0 /\ reader'[n] # "none"
                          /\ \A j \in Keys : granted[n][j] = s => j = k
    BY DEF Grants
  <2> QED
    BY KeyOf DEF IInv, DInv, Streamed, Grants
<1>2. Sent' /\ Unnotified'
  BY DEF DInv, Streamed, Sent, Unnotified, Granted, IsNote
<1>3. Passed'
  BY DEF DInv, Streamed, Passed, Genuine, Granted
<1>4. NoNoteLost'
  <2> SUFFICES ASSUME NEW n \in Conns, NEW k \in Keys,
                      n = conn', granted[n][k] # NoCall, Unshared(n, k)
               PROVE  LET s == granted[n][k]
                      IN  \/ s \in overflowed' \/ unsubscribed'[s]
                          \/ InOrder(s, got[s] \o stream[s] \o orphans'[k] \o wire[n],
                                     emitted[s])
    BY DEF NoNoteLost, Unshared
  <2>1. granted[n][k] \in Subscribes /\ reader[n] # "none"
    BY KeyOf DEF IInv, DInv, Streamed, Grants
  <2> QED
    BY <2>1 DEF DInv, Streamed, NoNoteLost
<1> QED
  BY <1>1, <1>2, <1>3, <1>4 DEF Streamed

\* So does what a subscribe knows of its key, if it is told nothing.
LEMMA KeysKept ==
  ASSUME KeysFit, UNCHANGED <<answer, key, granted>>,
         \A s \in Subscribes : reply'[s] = "full" => reply[s] = "full"
  PROVE  KeysFit'
BY DEF KeysFit, Granted

\* A connection is installed with nothing asked of it.
LEMMA InstalledStep ==
  ASSUME IInv, Installed, Next
  PROVE  Installed'
<1> USE DEF TypeOK, Installed, Numbered, Begun, Waiting
<1>0. TypeOK /\ Ends /\ Numbered
  BY DEF IInv, Messages
<1> USE <1>0
<1>1. ASSUME NEW c \in Calls, CallStep(c) PROVE Installed'
  <2>1. CASE UseExisting(c)
    BY <2>1 DEF UseExisting, MayStart
  <2>2. CASE StartDial(c)
    BY <2>2 DEF StartDial, MayStart
  <2>3. ASSUME NEW n \in Conns, Dial(c, n) PROVE Installed'
    <3>1. /\ pc[c] = "dialing" /\ sock[n] = "unused" /\ pc' = [pc EXCEPT ![c] = "dialed"]
          /\ sock' = [sock EXCEPT ![n] = "open"] /\ use' = [use EXCEPT ![c] = n]
          /\ UNCHANGED <<conn, reader, id>>
      BY <2>3 DEF Dial
    <3>2. reader[n] = "none" /\ id[c] = 0
      BY <3>1
    <3>3. \A d \in Calls : pc[d] = "dialed" => use[d] # n
      BY <3>1 DEF Ends
    <3> QED
      BY <3>1, <3>2, <3>3
  <2>4. CASE DialFail(c)
    BY <2>4 DEF DialFail
  <2>5. CASE Install(c)
    <3>1. use[c] \in Conns /\ sock[use[c]] # "unused"
      BY <2>5 DEF Install, Ends
    <3> QED
      BY <2>5, <3>1 DEF Install
  <2>6. CASE Adopt(c)
    BY <2>6 DEF Adopt
  <2>7. CASE Enroll(c)
    BY <2>7 DEF Enroll
  <2>8. CASE Write(c)
    BY <2>8 DEF Write
  <2>9. CASE WriteFail(c)
    BY <2>9 DEF WriteFail
  <2>10. CASE ReturnAnswer(c)
    BY <2>10 DEF ReturnAnswer, Replied
  <2>11. CASE ReturnSubscribed(c)
    BY <2>11 DEF ReturnSubscribed, Replied
  <2>12. CASE ReturnUnsubscribed(c)
    BY <2>12 DEF ReturnUnsubscribed, Replied
  <2>13. CASE ReturnClosed(c)
    BY <2>13 DEF ReturnClosed
  <2>14. CASE Expire(c)
    BY <2>14 DEF Expire
  <2>15. CASE Register(c)
    BY <2>15 DEF Register
  <2>16. CASE Unregister(c)
    BY <2>16 DEF Unregister
  <2>17. CASE CloseStream(c)
    BY <2>17 DEF CloseStream
  <2> QED
    BY <1>1, <2>1, <2>2, <2>3, <2>4, <2>5, <2>6, <2>7, <2>8, <2>9, <2>10, <2>11,
       <2>12, <2>13, <2>14, <2>15, <2>16, <2>17 DEF CallStep
<1>2. ASSUME NEW s \in Subscribes, Receive(s) PROVE Installed'
  BY <1>2 DEF Receive
<1>3. ASSUME NEW n \in Conns, ReadStep(n) PROVE Installed'
  <2>1. CASE Take(n) \/ Deliver(n) \/ Ignore(n) \/ Notice(n)
    BY <2>1 DEF Take, Deliver, Ignore, Notice
  <2>2. CASE ReadFail(n) \/ ReaderExit(n)
    <3>1. /\ UNCHANGED <<pc, use, id, sock>> /\ conn' \in {conn, NoConn}
          /\ reader[n] # "none"
          /\ \E r \in {"failed", "done"} : reader' = [reader EXCEPT ![n] = r]
      BY <2>2 DEF ReadFail, ReaderExit, ConnectionClosed
    <3> QED
      BY <3>1
  <2> QED
    BY <1>3, <2>1, <2>2 DEF ReadStep
<1>4. ASSUME NEW n \in Conns, PeerStep(n) PROVE Installed'
  BY <1>4 DEF PeerStep, Serve, Grant, Notify, Break
<1>5. ASSUME NEW x \in Closers, CloseStep(x) PROVE Installed'
  <2>1. /\ UNCHANGED <<pc, use, id, reader>> /\ conn' \in {conn, NoConn}
        /\ \A n \in Conns : sock'[n] = sock[n] \/ sock'[n] = "closed"
    BY <1>5 DEF CloseStep, Snapshot, Shut, FinishClose, ConnectionClosed
  <2> QED
    BY <2>1
<1> QED
  BY <1>1, <1>2, <1>3, <1>4, <1>5 DEF Next

\* A channel and orphans of the same key exclude each other.
LEMMA ChannelsStep ==
  ASSUME IInv, Channels, Next
  PROVE  Channels'
<1> USE DEF TypeOK, Channels, Waiting
<1>0. TypeOK /\ Owners /\ Answers /\ Subscribes \subseteq Calls /\ Unsubscribes \subseteq Calls
      /\ Subscribes \cap Unsubscribes = {}
  BY KindsDisjoint DEF IInv, Messages, Calls
<1> USE <1>0
<1>1. ASSUME NEW c \in Calls, CallStep(c) PROVE Channels'
  <2>1. CASE UseExisting(c)
    BY <2>1 DEF UseExisting, MayStart
  <2>2. CASE StartDial(c)
    BY <2>2 DEF StartDial, MayStart
  <2>3. ASSUME NEW n \in Conns, Dial(c, n) PROVE Channels'
    BY <2>3 DEF Dial
  <2>4. CASE DialFail(c)
    BY <2>4 DEF DialFail
  <2>5. CASE Install(c)
    BY <2>5 DEF Install
  <2>6. CASE Adopt(c)
    BY <2>6 DEF Adopt
  <2>7. CASE Enroll(c)
    BY <2>7 DEF Enroll
  <2>8. CASE Write(c)
    BY <2>8 DEF Write
  <2>9. CASE WriteFail(c)
    BY <2>9 DEF WriteFail
  <2>10. CASE ReturnAnswer(c)
    BY <2>10 DEF ReturnAnswer, Replied
  <2>11. CASE ReturnSubscribed(c)
    BY <2>11 DEF ReturnSubscribed, Replied
  <2>12. CASE ReturnUnsubscribed(c)
    <3>1. target[c] \in Subscribes
      BY <2>12 DEF ReturnUnsubscribed, Replied, Owners
    <3> QED
      BY <2>12, <3>1 DEF ReturnUnsubscribed, Replied
  <2>13. CASE ReturnClosed(c)
    BY <2>13 DEF ReturnClosed
  <2>14. CASE Expire(c)
    BY <2>14 DEF Expire
  <2>15. CASE Register(c)
    <3>1. key[c] \in Keys
      BY <2>15 DEF Register, Answers
    <3> QED
      BY <2>15, <3>1 DEF Register
  <2>16. CASE Unregister(c)
    <3>1. key[target[c]] \in Keys
      BY <2>16 DEF Unregister, Owners
    <3> QED
      BY <2>16, <3>1 DEF Unregister, WithoutStream
  <2>17. CASE CloseStream(c)
    BY <2>17 DEF CloseStream
  <2> QED
    BY <1>1, <2>1, <2>2, <2>3, <2>4, <2>5, <2>6, <2>7, <2>8, <2>9, <2>10, <2>11,
       <2>12, <2>13, <2>14, <2>15, <2>16, <2>17 DEF CallStep
<1>2. ASSUME NEW s \in Subscribes, Receive(s) PROVE Channels'
  BY <1>2 DEF Receive
<1>3. ASSUME NEW n \in Conns, ReadStep(n) PROVE Channels'
  <2>1. CASE Take(n) \/ Deliver(n) \/ Ignore(n) \/ ReadFail(n)
    BY <2>1 DEF Take, Deliver, Ignore, ReadFail
  <2>2. CASE Notice(n)
    <3> DEFINE m == Head(wire[n])
               s == subscriptions[m.key]
    <3>1. m.key \in Keys
      BY <2>2, HeadOfWire DEF IInv, Messages, Notice, Arriving, Fit
    <3>2. /\ UNCHANGED <<subscriptions, pc, got, unsubscribed, target>>
          /\ s = NoCall => orphans' = WithOrphan(m) /\ UNCHANGED stream
          /\ s # NoCall => UNCHANGED orphans /\ stream' = [stream EXCEPT ![s] = Fill(@, <<m>>)]
      BY <2>2 DEF Notice
    <3>3. s # NoCall => s \in Subscribes /\ pc[s] = "answered"
      BY <3>1 DEF Owners
    <3> QED
      BY <3>1, <3>2, <3>3 DEF WithOrphan
  <2>3. CASE ReaderExit(n)
    BY <2>3 DEF ReaderExit, ConnectionClosed
  <2> QED
    BY <1>3, <2>1, <2>2, <2>3 DEF ReadStep
<1>4. ASSUME NEW n \in Conns, PeerStep(n) PROVE Channels'
  BY <1>4 DEF PeerStep, Serve, Grant, Notify, Break
<1>5. ASSUME NEW x \in Closers, CloseStep(x) PROVE Channels'
  BY <1>5 DEF CloseStep, Snapshot, Shut, FinishClose, ConnectionClosed
<1> QED
  BY <1>1, <1>2, <1>3, <1>4, <1>5 DEF Next

\* connectionClosed ends the session or leaves it alone.
LEMMA CutKeeps ==
  ASSUME IInv, DInv, NEW n \in Conns \cup {NoConn}, ConnectionClosed(n),
         UNCHANGED <<stream, got, wire, granted, emitted, overflowed, unsubscribed, id, use,
                     answer, key>>,
         \A p \in Conns : reader[p] # "none" => reader'[p] # "none"
  PROVE  Streamed'
<1> USE DEF TypeOK
<1>0. TypeOK /\ Subscribes \subseteq Calls
  BY DEF IInv, Calls
<1>1. KeysFit'
  <2>1. \A s \in Subscribes : reply'[s] = "full" => reply[s] = "full"
    <3>1. CASE IsCurrent(n)
      <4>1. reply' = [c \in Calls |-> IF \E i \in Ids : pending[i] = c
                                       THEN "closed" ELSE reply[c]]
        BY <3>1 DEF ConnectionClosed
      <4>2. \A s \in Subscribes : reply'[s] = "closed" \/ reply'[s] = reply[s]
        BY <1>0, <4>1
      <4> QED
        BY <4>2
    <3>2. CASE ~IsCurrent(n)
      BY <3>2 DEF ConnectionClosed
    <3> QED
      BY <3>1, <3>2
  <2> QED
    BY <2>1, KeysKept DEF DInv, Streamed
<1>2. \A p \in Conns : p = conn' => p = conn /\ orphans' = orphans
  BY NullsAreOutside DEF ConnectionClosed
<1>3. \A k \in Keys : Range(orphans'[k]) \subseteq Range(orphans[k])
  <2>1. CASE UNCHANGED orphans
    BY <2>1
  <2>2. CASE orphans' = [k \in Keys |-> <<>>]
    BY <2>2 DEF Range
  <2> QED
    BY <2>1, <2>2 DEF ConnectionClosed
<1> QED
  BY <1>1, <1>2, <1>3, StreamsKept

\* The steps of a call, but for those that move notifications or tell it its key.
LEMMA QuietCalls ==
  ASSUME IInv, DInv, NEW c \in Calls,
         \/ UseExisting(c) \/ StartDial(c) \/ DialFail(c) \/ \E n \in Conns : Dial(c, n)
         \/ Install(c) \/ Adopt(c) \/ Enroll(c) \/ Write(c) \/ WriteFail(c)
         \/ ReturnAnswer(c) \/ ReturnUnsubscribed(c) \/ ReturnClosed(c) \/ Expire(c)
         \/ CloseStream(c)
  PROVE  Streamed'
<1> USE DEF TypeOK
<1>0. TypeOK /\ Numbered /\ Installed /\ Subscribes \subseteq Calls
  BY DEF IInv, Messages, DInv, Calls
<1> DEFINE Unmoved == UNCHANGED <<stream, got, wire, granted, emitted, overflowed, orphans,
                                  answer, key>>
           Unlost == \A s \in Subscribes : unsubscribed[s] => unsubscribed'[s]
           Settled == \A d \in Calls : id[d] # 0 => id'[d] = id[d] /\ use'[d] = use[d]
           Read == \A n \in Conns : reader[n] # "none" => reader'[n] # "none"
           Session1 == \A n \in Conns : n = conn' => n = conn \/ reader[n] = "none"
           Untold == \A s \in Subscribes : reply'[s] = "full" => reply[s] = "full"
           Quiet == Unmoved /\ Unlost /\ Settled /\ Read /\ Session1 /\ Untold
<1>1. ASSUME \/ UseExisting(c) \/ StartDial(c) \/ DialFail(c) \/ \E n \in Conns : Dial(c, n)
      PROVE  Quiet
  <2>1. CASE UseExisting(c)
    BY <1>0, <2>1 DEF UseExisting, MayStart, Numbered, Begun
  <2>2. CASE StartDial(c)
    BY <1>0, <2>2 DEF StartDial, MayStart
  <2>3. CASE DialFail(c)
    BY <1>0, <2>3 DEF DialFail
  <2>4. ASSUME NEW n \in Conns, Dial(c, n) PROVE Quiet
    BY <1>0, <2>4 DEF Dial, Numbered, Begun
  <2> QED
    BY <1>1, <2>1, <2>2, <2>3, <2>4
<1>2. ASSUME Install(c) PROVE Quiet
  BY <1>0, <1>2 DEF Install, Installed
<1>3. ASSUME Adopt(c) PROVE Quiet
  BY <1>0, <1>3 DEF Adopt, Numbered, Begun
<1>4. ASSUME Enroll(c) PROVE Quiet
  BY <1>0, <1>4 DEF Enroll, Numbered, Begun
<1>5. ASSUME Write(c) \/ WriteFail(c) \/ ReturnAnswer(c) \/ ReturnClosed(c) \/ Expire(c)
      PROVE  Quiet
  BY <1>5 DEF Write, WriteFail, ReturnAnswer, ReturnClosed, Expire
<1>6. ASSUME ReturnUnsubscribed(c) PROVE Quiet
  BY <1>0, <1>6 DEF ReturnUnsubscribed
<1>7. ASSUME CloseStream(c) PROVE Quiet
  BY <1>7 DEF CloseStream
<1>8. Quiet
  BY <1>1, <1>2, <1>3, <1>4, <1>5, <1>6, <1>7
<1>9. KeysFit'
  BY <1>8, KeysKept DEF DInv, Streamed
<1> QED
  BY <1>8, <1>9, StreamsKept

\* The steps of connections and closers that move no notification.
LEMMA QuietSteps ==
  ASSUME IInv, DInv,
         \/ \E n \in Conns : Take(n) \/ ReadFail(n) \/ ReaderExit(n) \/ Break(n)
         \/ \E x \in Closers : CloseStep(x)
  PROVE  Streamed'
<1> USE DEF TypeOK
<1>0. TypeOK
  BY DEF IInv
<1>1. ASSUME NEW n \in Conns, Take(n) \/ ReadFail(n) \/ Break(n) PROVE Streamed'
  <2>1. /\ UNCHANGED <<stream, got, wire, granted, emitted, overflowed, unsubscribed, id, use,
                       answer, key, reply, orphans, conn>>
        /\ \A p \in Conns : reader[p] # "none" => reader'[p] # "none"
    BY <1>0, <1>1 DEF Take, ReadFail, Break
  <2>2. KeysFit'
    BY <2>1, KeysKept DEF DInv, Streamed
  <2> QED
    BY <2>1, <2>2, StreamsKept
<1>2. ASSUME NEW n \in Conns, ReaderExit(n) PROVE Streamed'
  <2>1. /\ ConnectionClosed(n)
        /\ UNCHANGED <<stream, got, wire, granted, emitted, overflowed, unsubscribed, id, use,
                       answer, key>>
        /\ \A p \in Conns : reader[p] # "none" => reader'[p] # "none"
    BY <1>0, <1>2 DEF ReaderExit
  <2> QED
    BY <2>1, CutKeeps
<1>3. ASSUME NEW x \in Closers, Snapshot(x) \/ Shut(x) PROVE Streamed'
  <2>1. UNCHANGED <<stream, got, wire, granted, emitted, overflowed, unsubscribed, id, use,
                    answer, key, reply, orphans, conn, reader>>
    BY <1>3 DEF Snapshot, Shut
  <2>2. KeysFit'
    BY <2>1, KeysKept DEF DInv, Streamed
  <2> QED
    BY <2>1, <2>2, StreamsKept
<1>4. ASSUME NEW x \in Closers, FinishClose(x) PROVE Streamed'
  <2>1. /\ ConnectionClosed(closing[x]) /\ closing[x] \in Conns \cup {NoConn}
        /\ UNCHANGED <<stream, got, wire, granted, emitted, overflowed, unsubscribed, id, use,
                       answer, key, reader>>
    BY <1>0, <1>4 DEF FinishClose
  <2> QED
    BY <2>1, CutKeeps
<1> QED
  BY <1>1, <1>2, <1>3, <1>4 DEF CloseStep

\* A subscribe takes its key from the answer to it.
LEMMA SubscribedKeeps ==
  ASSUME IInv, DInv, NEW c \in Calls, ReturnSubscribed(c)
  PROVE  Streamed'
<1> USE DEF TypeOK
<1>0. TypeOK /\ Answers /\ Subscribes \subseteq Calls
  BY DEF IInv, Messages, Calls
<1>1. /\ UNCHANGED <<stream, got, wire, granted, emitted, overflowed, unsubscribed, id, use,
                     answer, reply, orphans, conn, reader>>
      /\ c \in Subscribes /\ reply[c] = "full" /\ answer[c].verdict = "ok"
      /\ key' = [key EXCEPT ![c] = answer[c].key]
  BY DEF ReturnSubscribed, Replied
<1>2. KeysFit'
  <2> SUFFICES ASSUME NEW s \in Subscribes
               PROVE  /\ reply[s] = "full" /\ answer[s].verdict = "ok" =>
                           \E n \in Conns : Granted(n, answer[s])
                      /\ key'[s] # NoKey =>
                           \E n \in Conns : key'[s] \in Keys /\ granted[n][key'[s]] = s
    BY <1>1 DEF KeysFit, Granted
  <2>1. KeysFit
    BY DEF DInv, Streamed
  <2>2. CASE s = c
    <3>1. key'[s] = answer[s].key /\ answer[s].of = s
      BY <1>0, <1>1, <2>2 DEF Answers
    <3> QED
      BY <1>1, <2>1, <2>2, <3>1 DEF KeysFit, Granted
  <2>3. CASE s # c
    <3>1. key'[s] = key[s]
      BY <1>0, <1>1, <2>3
    <3> QED
      BY <2>1, <3>1 DEF KeysFit
  <2> QED
    BY <2>2, <2>3
<1> QED
  BY <1>1, <1>2, StreamsKept

\* unregister drops the orphans of the key: its own connection gave it to nobody else.
LEMMA UnregisterKeeps ==
  ASSUME IInv, DInv, NEW c \in Calls, Unregister(c)
  PROVE  Streamed'
<1> USE DEF TypeOK
<1>0. TypeOK /\ Owners /\ Channels
  BY DEF IInv, DInv
<1> DEFINE k == key[target[c]]
<1>1. /\ UNCHANGED <<stream, got, wire, granted, emitted, overflowed, unsubscribed, id, use,
                     answer, reply, key, conn, reader>>
      /\ c \in Unsubscribes /\ pc[c] = "unregister"
      /\ orphans' = [orphans EXCEPT ![k] = <<>>]
  BY DEF Unregister
<1>2. target[c] \in Subscribes /\ k \in Keys /\ unsubscribed[target[c]]
  BY <1>0, <1>1 DEF Owners, Channels
<1>3. Grants' /\ Sent' /\ KeysFit' /\ Unnotified'
  BY <1>1 DEF DInv, Streamed, Grants, Sent, KeysFit, Unnotified, Granted, IsNote
<1>4. \A j \in Keys : orphans'[j] = IF j = k THEN <<>> ELSE orphans[j]
  BY <1>0, <1>1
<1>5. Passed'
  <2>1. \A j \in Keys : Range(orphans'[j]) \subseteq Range(orphans[j])
    BY <1>4 DEF Range
  <2> QED
    BY <1>1, <2>1 DEF DInv, Streamed, Passed, Genuine, Granted
<1>6. NoNoteLost'
  <2> SUFFICES ASSUME NEW n \in Conns, NEW j \in Keys,
                      n = conn, granted[n][j] # NoCall, Unshared(n, j),
                      ~unsubscribed[granted[n][j]]
               PROVE  LET s == granted[n][j]
                      IN  \/ s \in overflowed
                          \/ InOrder(s, got[s] \o stream[s] \o orphans'[j] \o wire[n],
                                     emitted[s])
    BY <1>1 DEF NoNoteLost, Unshared
  <2>1. j # k
    <3>1. CASE j = k
      <4>1. granted[n][k] = target[c]
        BY <1>0, <1>2, <3>1, OnlyOne DEF DInv, Streamed
      <4> QED
        BY <1>2, <3>1, <4>1
    <3> QED
      BY <3>1
  <2> QED
    BY <1>4, <2>1 DEF DInv, Streamed, NoNoteLost
<1> QED
  BY <1>3, <1>5, <1>6 DEF Streamed

\* register: what the orphans kept becomes the first of the channel.
LEMMA RegisterKeeps ==
  ASSUME IInv, DInv, NEW c \in Calls, Register(c)
  PROVE  Streamed'
<1> USE DEF TypeOK
<1> DEFINE k == key[c]
<1>0. TypeOK /\ Answers /\ Channels /\ KeysFit
  BY DEF IInv, Messages, DInv, Streamed
<1>1. /\ UNCHANGED <<got, wire, granted, emitted, unsubscribed, id, use, answer, reply, key,
                     conn, reader>>
      /\ c \in Subscribes /\ pc[c] = "register"
      /\ stream' = [stream EXCEPT ![c] = Fill(<<>>, orphans[k])]
      /\ NoteOverflow(c, <<>>, orphans[k])
      /\ orphans' = [orphans EXCEPT ![k] = <<>>]
  BY DEF Register
<1>2. k \in Keys /\ stream[c] = <<>> /\ got[c] = <<>> /\ orphans[k] \in Seq(Msg)
  BY <1>0, <1>1 DEF Answers, Channels
<1>3. /\ \A j \in Keys : orphans'[j] = IF j = k THEN <<>> ELSE orphans[j]
      /\ \A s \in Subscribes : stream'[s] = IF s = c THEN Fill(<<>>, orphans[k]) ELSE stream[s]
      /\ \A s \in Subscribes : s \in overflowed => s \in overflowed'
  BY <1>0, <1>1, <1>2 DEF NoteOverflow
<1>4. <<>> \o orphans[k] = orphans[k] /\ Len(orphans[k]) \in Nat
  BY <1>2
<1>5. Range(Fill(<<>>, orphans[k])) \subseteq Range(orphans[k])
  <2>1. CASE Len(orphans[k]) <= StreamCap
    BY <1>4, <2>1 DEF Fill
  <2>2. CASE ~(Len(orphans[k]) <= StreamCap)
    <3>1. Fill(<<>>, orphans[k]) = SubSeq(orphans[k], 1, StreamCap)
      BY <1>4, <2>2 DEF Fill
    <3>2. StreamCap \in Nat /\ StreamCap <= Len(orphans[k]) /\ orphans[k] \in Seq(Msg)
      BY <1>2, <1>4, <2>2, BoundsAreNatural
    <3>3. Range(SubSeq(orphans[k], 1, StreamCap)) \subseteq Range(orphans[k])
      BY <3>2, CutShort
    <3> QED
      BY <3>1, <3>3
  <2> QED
    BY <2>1, <2>2
<1>6. Grants' /\ Sent' /\ KeysFit' /\ Unnotified'
  BY <1>1 DEF DInv, Streamed, Grants, Sent, KeysFit, Unnotified, Granted, IsNote
<1>7. Passed'
  <2>1. \A j \in Keys : Range(orphans'[j]) \subseteq Range(orphans[j])
    BY <1>3 DEF Range
  <2>2. \A s \in Subscribes : \A m \in Range(stream'[s]) :
          m \in Range(stream[s]) \/ m \in Range(orphans[k])
    BY <1>3, <1>5
  <2> QED
    BY <1>1, <1>2, <2>1, <2>2 DEF DInv, Streamed, Passed, Genuine, Granted
<1>8. NoNoteLost'
  <2> SUFFICES ASSUME NEW n \in Conns, NEW j \in Keys,
                      n = conn, granted[n][j] # NoCall, Unshared(n, j),
                      granted[n][j] \notin overflowed', ~unsubscribed[granted[n][j]]
               PROVE  LET s == granted[n][j]
                      IN  InOrder(s, got[s] \o stream'[s] \o orphans'[j] \o wire[n],
                                  emitted[s])
    BY <1>1 DEF NoNoteLost, Unshared
  <2> DEFINE s == granted[n][j]
  <2>1. s \in Subscribes /\ \A i \in Keys : granted[n][i] = s => i = j
    <3>1. TypeOK /\ Grants
      BY <1>0 DEF DInv, Streamed
    <3> HIDE DEF TypeOK
    <3> QED
      BY <3>1, KeyOf
  <2>2. InOrder(s, got[s] \o stream[s] \o orphans[j] \o wire[n], emitted[s])
    BY <1>3, <2>1 DEF DInv, Streamed, NoNoteLost
  <2>3. CASE j = k
    <3>1. s = c
      <4>1. TypeOK /\ Unshared(n, k) /\ key[c] = k
        BY <1>0, <2>3
      <4> HIDE DEF TypeOK
      <4> QED
        BY <1>0, <1>1, <1>2, <2>3, <4>1, OnlyOne
    <3>2. stream'[s] = orphans[k] /\ orphans'[j] = <<>>
      <4>1. ~(Len(<<>> \o orphans[k]) > StreamCap)
        BY <1>1, <3>1 DEF NoteOverflow
      <4> QED
        BY <1>3, <1>4, <2>1, <2>3, <3>1, <4>1, BoundsAreNatural DEF Fill
    <3>3. got[s] = <<>> /\ stream[s] = <<>>
      BY <1>2, <3>1
    <3>4. wire[n] \in Seq(Msg)
      BY <1>0
    <3>5. InOrder(s, <<>> \o <<>> \o orphans[k] \o wire[n], emitted[s])
      BY <2>2, <2>3, <3>3
    <3>6. InOrder(s, <<>> \o orphans[k] \o <<>> \o wire[n], emitted[s])
      BY <1>2, <3>4, <3>5, EmptyMoves
    <3> QED
      BY <3>2, <3>3, <3>6
  <2>4. CASE j # k
    <3>1. s # c
      <4>1. CASE s = c
        <5>1. PICK m \in Conns : granted[m][k] = c
          BY <1>0, <1>1, <1>2, NullsAreOutside DEF KeysFit
        <5>2. granted[m][k] = granted[n][j]
          BY <4>1, <5>1
        <5>3. TypeOK /\ Grants
          BY <1>0 DEF DInv, Streamed
        <5> HIDE DEF TypeOK
        <5> QED
          BY <1>2, <2>4, <5>2, <5>3, KeyOf
      <4> QED
        BY <4>1
    <3> QED
      BY <1>3, <2>1, <2>2, <2>4, <3>1
  <2> QED
    BY <2>3, <2>4
<1> QED
  BY <1>6, <1>7, <1>8 DEF Streamed

\* Next returns the oldest of the channel.
LEMMA ReceiveKeeps ==
  ASSUME IInv, DInv, NEW s \in Subscribes, Receive(s)
  PROVE  Streamed'
<1> USE DEF TypeOK
<1> DEFINE m == Head(stream[s])
<1>0. TypeOK
  BY DEF IInv
<1>1. /\ UNCHANGED <<wire, granted, emitted, overflowed, unsubscribed, id, use, answer, reply,
                     key, conn, reader, orphans>>
      /\ got' = [got EXCEPT ![s] = Append(@, m)]
      /\ stream' = [stream EXCEPT ![s] = Tail(@)]
  BY DEF Receive
<1>2. stream[s] # <<>> /\ stream[s] \in Seq(Msg) /\ got[s] \in Seq(Msg)
  BY <1>0 DEF Receive
<1>3. /\ m \in Range(stream[s]) /\ m \in Msg /\ Tail(stream[s]) \in Seq(Msg)
      /\ Range(Tail(stream[s])) \subseteq Range(stream[s])
      /\ Range(Append(got[s], m)) = Range(got[s]) \cup {m}
  <2>1. m \in Msg
    BY <1>2
  <2> QED
    BY <1>2, <2>1, HeldAfter
<1>4. \A x \in Subscribes :
        /\ got'[x] = IF x = s THEN Append(got[s], m) ELSE got[x]
        /\ stream'[x] = IF x = s THEN Tail(stream[s]) ELSE stream[x]
  BY <1>0, <1>1
<1>5. Grants' /\ Sent' /\ KeysFit' /\ Unnotified'
  BY <1>1 DEF DInv, Streamed, Grants, Sent, KeysFit, Unnotified, Granted, IsNote
<1>6. Passed'
  <2>1. \A x \in Subscribes : \A o \in Range(stream'[x]) \cup Range(got'[x]) :
          o \in Range(stream[x]) \cup Range(got[x])
    BY <1>3, <1>4
  <2> QED
    BY <1>1, <2>1 DEF DInv, Streamed, Passed, Genuine, Granted
<1>7. NoNoteLost'
  <2> SUFFICES ASSUME NEW n \in Conns, NEW j \in Keys,
                      n = conn, granted[n][j] # NoCall, Unshared(n, j),
                      granted[n][j] \notin overflowed, ~unsubscribed[granted[n][j]]
               PROVE  LET x == granted[n][j]
                      IN  InOrder(x, got'[x] \o stream'[x] \o orphans[j] \o wire[n],
                                  emitted[x])
    BY <1>1 DEF NoNoteLost, Unshared
  <2> DEFINE x == granted[n][j]
  <2>1. InOrder(x, got[x] \o stream[x] \o orphans[j] \o wire[n], emitted[x]) /\ x \in Subscribes
    BY <1>0 DEF DInv, Streamed, NoNoteLost
  <2>2. CASE x = s
    <3>1. Append(got[s], m) \o Tail(stream[s]) = got[s] \o stream[s]
      BY <1>2, HandOver
    <3> QED
      BY <1>4, <2>1, <2>2, <3>1
  <2>3. CASE x # s
    BY <1>4, <2>1, <2>3
  <2> QED
    BY <2>2, <2>3
<1> QED
  BY <1>5, <1>6, <1>7 DEF Streamed

\* A response leaves the wire, with its answer delivered or ignored.
LEMMA ResponseLeaves ==
  ASSUME IInv, DInv, NEW n \in Conns, Deliver(n) \/ Ignore(n)
  PROVE  Streamed'
<1> USE DEF TypeOK
<1> DEFINE m == Head(wire[n])
           c == taken[n]
<1>0. TypeOK /\ Numbered /\ Wires /\ Subscribes \subseteq Calls
  BY DEF IInv, Messages, Calls
<1>1. /\ UNCHANGED <<stream, got, granted, emitted, overflowed, unsubscribed, id, use, key,
                     conn, reader, orphans>>
      /\ ~IsNote(m) /\ wire[n] # <<>> /\ wire[n] \in Seq(Msg)
      /\ wire' = [wire EXCEPT ![n] = Tail(@)]
      /\ \/ UNCHANGED replies
         \/ /\ c # NoCall /\ id[c] = m.id
            /\ reply' = [reply EXCEPT ![c] = "full"] /\ answer' = [answer EXCEPT ![c] = m]
  BY <1>0 DEF Deliver, Ignore, Arriving, Wires
<1>2. /\ m \in Range(wire[n]) /\ Tail(wire[n]) \in Seq(Msg)
      /\ Range(Tail(wire[n])) \subseteq Range(wire[n])
  BY <1>1, HeldAfter
<1>3. m \in Msg /\ m.of \in Calls /\ m.id # 0 /\ id[m.of] = m.id
  <2>1. m \in Msg /\ Fit(m, id, served)
    <3>1. TypeOK /\ Wires /\ wire[n] # <<>>
      BY <1>0, <1>1
    <3> HIDE DEF TypeOK
    <3> QED
      BY <3>1, HeadOfWire
  <2> QED
    BY <1>1, <2>1 DEF Fit, Msg
<1>4. \A p \in Conns : wire'[p] = IF p = n THEN Tail(wire[n]) ELSE wire[p]
  BY <1>0, <1>1
<1>5. Grants' /\ Unnotified' /\ Passed'
  BY <1>1 DEF DInv, Streamed, Grants, Unnotified, Passed, Genuine, Granted
<1>6. Sent'
  <2> SUFFICES ASSUME NEW p \in Conns, NEW o \in Range(wire'[p])
               PROVE  /\ IsNote(o) <=> o.seq # 0
                      /\ IsNote(o) \/ (o.of \in Subscribes /\ o.verdict = "ok") => Granted(p, o)
    BY <1>1 DEF Sent, Granted, IsNote
  <2>1. o \in Range(wire[p])
    BY <1>2, <1>4
  <2> QED
    BY <2>1 DEF DInv, Streamed, Sent
<1>7. KeysFit'
  <2>1. CASE UNCHANGED replies
    BY <1>1, <2>1, KeysKept DEF DInv, Streamed
  <2>2. CASE ~UNCHANGED replies
    <3>1. /\ c # NoCall /\ c \in Calls /\ id[c] = m.id
          /\ reply' = [reply EXCEPT ![c] = "full"] /\ answer' = [answer EXCEPT ![c] = m]
      BY <1>0, <1>1, <2>2
    <3>2. c = m.of
      BY <1>0, <1>3, <3>1 DEF Numbered
    <3> SUFFICES ASSUME NEW s \in Subscribes
                 PROVE  reply'[s] = "full" /\ answer'[s].verdict = "ok" =>
                          \E p \in Conns : Granted(p, answer'[s])
      BY <1>1 DEF DInv, Streamed, KeysFit, Granted
    <3>3. CASE s = c
      <4>1. answer'[s] = m
        BY <1>0, <3>1, <3>3
      <4>2. m.verdict = "ok" => Granted(n, m)
        BY <1>2, <3>2, <3>3 DEF DInv, Streamed, Sent
      <4> QED
        BY <4>1, <4>2
    <3>4. CASE s # c
      BY <1>0, <3>1, <3>4 DEF DInv, Streamed, KeysFit
    <3> QED
      BY <3>3, <3>4
  <2> QED
    BY <2>1, <2>2
<1>8. NoNoteLost'
  <2> SUFFICES ASSUME NEW p \in Conns, NEW j \in Keys,
                      p = conn, granted[p][j] # NoCall, Unshared(p, j),
                      granted[p][j] \notin overflowed, ~unsubscribed[granted[p][j]]
               PROVE  LET x == granted[p][j]
                      IN  InOrder(x, got[x] \o stream[x] \o orphans[j] \o wire'[p],
                                  emitted[x])
    BY <1>1 DEF NoNoteLost, Unshared
  <2> DEFINE x == granted[p][j]
  <2>1. InOrder(x, got[x] \o stream[x] \o orphans[j] \o wire[p], emitted[x]) /\ x \in Subscribes
    BY <1>0 DEF DInv, Streamed, NoNoteLost
  <2>2. CASE p # n
    BY <1>4, <2>1, <2>2
  <2>3. CASE p = n
    <3>1. ~IsOf(x, m)
      BY <1>1, <1>2 DEF DInv, Streamed, Sent, IsOf
    <3>2. got[x] \in Seq(Msg) /\ stream[x] \in Seq(Msg) /\ orphans[j] \in Seq(Msg)
      BY <1>0, <2>1
    <3>3. got[x] \o stream[x] \o orphans[j] \in Seq(Msg)
      BY <3>2
    <3>4. wire[n] \in Seq(Msg) /\ wire[n] # <<>>
      BY <1>1
    <3>5. InOrder(x, got[x] \o stream[x] \o orphans[j] \o Tail(wire[n]), emitted[x])
      BY <2>1, <2>3, <3>1, <3>3, <3>4, OtherTaken
    <3> QED
      BY <1>4, <2>3, <3>5
  <2> QED
    BY <2>2, <2>3
<1> QED
  BY <1>5, <1>6, <1>7, <1>8 DEF Streamed

\* What one send does to a notification channel.
LEMMA FillOne ==
  ASSUME NEW q \in Seq(Msg), NEW m \in Msg
  PROVE  /\ Len(q \o <<m>>) = Len(q) + 1 /\ Len(q) \in Nat
         /\ Len(q) + 1 <= StreamCap => Fill(q, <<m>>) = Append(q, m)
         /\ Range(Fill(q, <<m>>)) \subseteq Range(q) \cup {m}
<1>1. /\ q \o <<m>> = Append(q, m) /\ Len(q) \in Nat /\ Len(q \o <<m>>) = Len(q) + 1
      /\ Len(Append(q, m)) = Len(q) + 1 /\ Append(q, m) \in Seq(Msg)
  OBVIOUS
<1>2. Range(Append(q, m)) = Range(q) \cup {m}
  BY HeldAfter
<1>3. Len(q) + 1 <= StreamCap => Fill(q, <<m>>) = Append(q, m)
  BY <1>1 DEF Fill
<1>4. CASE ~(Len(q) + 1 <= StreamCap)
  <2>1. Fill(q, <<m>>) = SubSeq(Append(q, m), 1, StreamCap)
    BY <1>1, <1>4 DEF Fill
  <2>2. StreamCap \in Nat /\ StreamCap <= Len(Append(q, m))
    BY <1>1, <1>4, BoundsAreNatural
  <2>3. Range(SubSeq(Append(q, m), 1, StreamCap)) \subseteq Range(Append(q, m))
    BY <1>1, <2>2, CutShort
  <2> QED
    BY <1>1, <1>2, <1>3, <2>1, <2>3
<1> QED
  BY <1>1, <1>2, <1>3, <1>4

\* The notification dispatch reads is of the subscribe its key was given to.
LEMMA NoteArrives ==
  ASSUME IInv, DInv, NEW p \in Conns, Notice(p), NEW m, m = Head(wire[p])
  PROVE  /\ got \in [Subscribes -> Seq(Msg)] /\ stream \in [Subscribes -> Seq(Msg)]
         /\ orphans \in [Keys -> Seq(Msg)]
         /\ \A n \in Conns : wire[n] \in Seq(Msg)
         /\ \A n \in Conns, k \in Keys : granted[n][k] # NoCall => granted[n][k] \in Subscribes
         /\ wire[p] # <<>> /\ m \in Msg /\ m.key \in Keys /\ m.of # NoCall
         /\ granted[p][m.key] = m.of /\ Genuine(m)
         /\ \A n \in Conns : wire'[n] = IF n = p THEN Tail(wire[p]) ELSE wire[n]
         /\ Grants' /\ KeysFit' /\ Unnotified' /\ Sent'
<1>0. TypeOK /\ Channels /\ KeysFit /\ Grants /\ Wires
  BY DEF IInv, Messages, DInv, Streamed
<1>1. /\ got \in [Subscribes -> Seq(Msg)] /\ stream \in [Subscribes -> Seq(Msg)]
      /\ orphans \in [Keys -> Seq(Msg)] /\ wire \in [Conns -> Seq(Msg)]
      /\ \A n \in Conns, k \in Keys : granted[n][k] # NoCall => granted[n][k] \in Subscribes
  BY <1>0 DEF TypeOK
<1>2. /\ UNCHANGED <<got, granted, emitted, unsubscribed, id, use, answer, reply, key,
                     conn, reader>>
      /\ IsNote(m) /\ wire[p] # <<>>
      /\ wire' = [wire EXCEPT ![p] = Tail(@)]
  BY DEF Notice, Arriving
<1>3. wire[p] \in Seq(Msg)
  BY <1>1
<1>4. m \in Range(wire[p]) /\ Range(Tail(wire[p])) \subseteq Range(wire[p])
  BY <1>2, <1>3, HeldAfter
<1>5. m \in Msg
  BY <1>2, <1>3
<1>6. m.of # NoCall
  BY <1>5, NullsAreOutside DEF Msg
<1>7. m.seq # 0 /\ m.key \in Keys /\ granted[p][m.key] = m.of /\ Granted(p, m)
  BY <1>2, <1>4 DEF DInv, Streamed, Sent, Granted
<1>8. \A n \in Conns : wire'[n] = IF n = p THEN Tail(wire[p]) ELSE wire[n]
  BY <1>1, <1>2
<1>9. Grants' /\ KeysFit' /\ Unnotified'
  BY <1>2 DEF DInv, Streamed, Grants, KeysFit, Unnotified, Granted
<1>10. Sent'
  <2> SUFFICES ASSUME NEW n \in Conns, NEW o \in Range(wire'[n])
               PROVE  /\ IsNote(o) <=> o.seq # 0
                      /\ IsNote(o) \/ (o.of \in Subscribes /\ o.verdict = "ok") => Granted(n, o)
    BY <1>2 DEF Sent, Granted, IsNote
  <2>1. o \in Range(wire[n])
    BY <1>4, <1>8
  <2> QED
    BY <2>1 DEF DInv, Streamed, Sent
<1> QED
  BY <1>1, <1>2, <1>5, <1>6, <1>7, <1>8, <1>9, <1>10 DEF Genuine

\* Another connection's key, and another key of the same, are not the one of the message.
LEMMA NotItsOwn ==
  ASSUME IInv, DInv, NEW p \in Conns, NEW m \in Msg, m.key \in Keys, m.of # NoCall,
         granted[p][m.key] = m.of, NEW n \in Conns, NEW j \in Keys, Unshared(n, j),
         granted[n][j] # NoCall
  PROVE  /\ n # p => j # m.key
         /\ j # m.key => ~IsOf(granted[n][j], m)
<1>1. n # p => j # m.key
  BY DEF Unshared
<1>2. ASSUME j # m.key, m.of = granted[n][j] PROVE FALSE
  <2>1. TypeOK /\ Grants
    BY DEF IInv, DInv, Streamed
  <2> QED
    BY <1>2, <2>1, KeyOf
<1> QED
  BY <1>1, <1>2 DEF IsOf

\* A notification nobody has registered for goes among the orphans of its key.
LEMMA NoteKept ==
  ASSUME IInv, DInv, NEW p \in Conns, Notice(p), NEW m, m = Head(wire[p]),
         subscriptions[m.key] = NoCall
  PROVE  Streamed'
<1>0. /\ got \in [Subscribes -> Seq(Msg)] /\ stream \in [Subscribes -> Seq(Msg)]
      /\ orphans \in [Keys -> Seq(Msg)]
      /\ \A n \in Conns : wire[n] \in Seq(Msg)
      /\ \A n \in Conns, k \in Keys : granted[n][k] # NoCall => granted[n][k] \in Subscribes
      /\ wire[p] # <<>> /\ m \in Msg /\ m.key \in Keys /\ m.of # NoCall
      /\ granted[p][m.key] = m.of /\ Genuine(m)
      /\ \A n \in Conns : wire'[n] = IF n = p THEN Tail(wire[p]) ELSE wire[n]
      /\ Grants' /\ KeysFit' /\ Unnotified' /\ Sent'
  BY NoteArrives
<1>1. /\ UNCHANGED <<got, granted, emitted, unsubscribed, conn, stream, overflowed>>
      /\ orphans' = [orphans EXCEPT ![m.key] = Append(@, m)]
  BY DEF Notice, WithOrphan
<1>2. \A j \in Keys : orphans'[j] = IF j = m.key THEN Append(orphans[j], m) ELSE orphans[j]
  BY <1>0, <1>1
<1>3. Passed'
  <2>1. orphans[m.key] \in Seq(Msg)
    BY <1>0
  <2>2. Range(Append(orphans[m.key], m)) = Range(orphans[m.key]) \cup {m}
    BY <1>0, <2>1, HeldAfter
  <2>3. \A j \in Keys : \A o \in Range(orphans'[j]) : o \in Range(orphans[j]) \/ o = m
    BY <1>2, <2>2
  <2>4. \A o : Genuine(o) => Genuine(o)'
    BY <1>1 DEF Genuine, Granted
  <2>5. Passed /\ Genuine(m)
    BY <1>0 DEF DInv, Streamed
  <2> QED
    BY <1>1, <2>3, <2>4, <2>5 DEF Passed
<1>4. NoNoteLost'
  <2> SUFFICES ASSUME NEW n \in Conns, NEW j \in Keys,
                      n = conn, granted[n][j] # NoCall, Unshared(n, j),
                      granted[n][j] \notin overflowed, ~unsubscribed[granted[n][j]]
               PROVE  LET x == granted[n][j]
                      IN  InOrder(x, got[x] \o stream[x] \o orphans'[j] \o wire'[n],
                                  emitted[x])
    BY <1>1 DEF NoNoteLost, Unshared
  <2> DEFINE x == granted[n][j]
             before == got[x] \o stream[x]
  <2>1. InOrder(x, got[x] \o stream[x] \o orphans[j] \o wire[n], emitted[x])
    BY DEF DInv, Streamed, NoNoteLost
  <2>2. /\ x \in Subscribes /\ got[x] \in Seq(Msg) /\ stream[x] \in Seq(Msg)
        /\ orphans[j] \in Seq(Msg) /\ wire[n] \in Seq(Msg)
    BY <1>0
  <2>3. before \in Seq(Msg) /\ before \o orphans[j] \in Seq(Msg)
    BY <2>2
  <2>4. (n # p => j # m.key) /\ (j # m.key => ~IsOf(granted[n][j], m))
    <3>1. m \in Msg /\ m.key \in Keys /\ m.of # NoCall /\ granted[p][m.key] = m.of
      BY <1>0
    <3> QED
      BY <3>1, NotItsOwn
  <2>5. CASE n # p
    <3>1. orphans'[j] = orphans[j] /\ wire'[n] = wire[n]
      BY <1>0, <1>2, <2>4, <2>5
    <3> QED
      BY <2>1, <3>1
  <2>6. CASE n = p /\ j = m.key
    <3>1. /\ wire[n] # <<>> /\ orphans'[j] = Append(orphans[j], Head(wire[n]))
          /\ wire'[n] = Tail(wire[n])
      BY <1>0, <1>2, <2>6
    <3>2. InOrder(x, before \o Append(orphans[j], Head(wire[n])) \o Tail(wire[n]), emitted[x])
      BY <2>1, <2>2, <2>3, <3>1, MovedOn
    <3> QED
      BY <3>1, <3>2
  <2>7. CASE n = p /\ j # m.key
    <3>1. /\ wire[n] # <<>> /\ orphans'[j] = orphans[j] /\ wire'[n] = Tail(wire[n])
          /\ ~IsOf(x, Head(wire[n]))
      BY <1>0, <1>2, <2>4, <2>7
    <3>2. InOrder(x, before \o orphans[j] \o Tail(wire[n]), emitted[x])
      BY <2>1, <2>2, <2>3, <3>1, OtherTaken
    <3> QED
      BY <3>1, <3>2
  <2> QED
    BY <2>5, <2>6, <2>7
<1> QED
  BY <1>0, <1>3, <1>4 DEF Streamed

\* One whose channel is registered goes there, where a full channel drops it.
LEMMA NoteChannelled ==
  ASSUME IInv, DInv, NEW p \in Conns, Notice(p), NEW m, m = Head(wire[p]),
         NEW y, y = subscriptions[m.key], y # NoCall
  PROVE  Streamed'
<1>0. /\ got \in [Subscribes -> Seq(Msg)] /\ stream \in [Subscribes -> Seq(Msg)]
      /\ orphans \in [Keys -> Seq(Msg)]
      /\ \A n \in Conns : wire[n] \in Seq(Msg)
      /\ \A n \in Conns, k \in Keys : granted[n][k] # NoCall => granted[n][k] \in Subscribes
      /\ wire[p] # <<>> /\ m \in Msg /\ m.key \in Keys /\ m.of # NoCall
      /\ granted[p][m.key] = m.of /\ Genuine(m)
      /\ \A n \in Conns : wire'[n] = IF n = p THEN Tail(wire[p]) ELSE wire[n]
      /\ Grants' /\ KeysFit' /\ Unnotified' /\ Sent'
  BY NoteArrives
<1>1. y \in Subscribes /\ key[y] = m.key /\ orphans[m.key] = <<>> /\ stream[y] \in Seq(Msg)
  <2>1. Owners /\ Channels /\ subscriptions \in [Keys -> Subscribes \cup {NoCall}]
    BY DEF IInv, DInv, TypeOK
  <2> QED
    BY <1>0, <2>1 DEF Owners, Channels
<1>2. /\ UNCHANGED <<got, granted, emitted, unsubscribed, conn, orphans>>
      /\ stream' = [stream EXCEPT ![y] = Fill(@, <<m>>)]
      /\ NoteOverflow(y, stream[y], <<m>>)
  BY DEF Notice
<1>3. \A s \in Subscribes : stream'[s] = IF s = y THEN Fill(stream[y], <<m>>) ELSE stream[s]
  BY <1>0, <1>1, <1>2
<1>4. /\ Len(stream[y] \o <<m>>) = Len(stream[y]) + 1 /\ Len(stream[y]) \in Nat
      /\ Len(stream[y]) + 1 <= StreamCap => Fill(stream[y], <<m>>) = Append(stream[y], m)
      /\ Range(Fill(stream[y], <<m>>)) \subseteq Range(stream[y]) \cup {m}
  BY <1>0, <1>1, FillOne
<1>5. /\ \A s \in Subscribes : s \notin overflowed' => s \notin overflowed
      /\ y \notin overflowed' => Fill(stream[y], <<m>>) = Append(stream[y], m)
  <2>1. overflowed' = IF Len(stream[y]) + 1 > StreamCap THEN overflowed \cup {y} ELSE overflowed
    BY <1>2, <1>4 DEF NoteOverflow
  <2>2. \A s \in Subscribes : s \notin overflowed' => s \notin overflowed
    BY <2>1
  <2>3. y \notin overflowed' => Len(stream[y]) + 1 <= StreamCap
    <3>1. Len(stream[y]) \in Nat /\ StreamCap \in Nat
      BY <1>4, BoundsAreNatural
    <3>2. Len(stream[y]) + 1 > StreamCap => y \in overflowed'
      BY <2>1
    <3> QED
      BY <3>1, <3>2
  <2> QED
    BY <1>4, <2>2, <2>3
<1>6. Passed'
  <2>1. \A s \in Subscribes : \A o \in Range(stream'[s]) : o \in Range(stream[s]) \/ o = m
    BY <1>3, <1>4
  <2>2. \A o : Genuine(o) => Genuine(o)'
    BY <1>2 DEF Genuine, Granted
  <2>3. Passed /\ Genuine(m)
    BY <1>0 DEF DInv, Streamed
  <2> QED
    BY <1>2, <2>1, <2>2, <2>3 DEF Passed
<1>7. \A n \in Conns, j \in Keys : granted[n][j] = y => j = m.key
  <2> SUFFICES ASSUME NEW n \in Conns, NEW j \in Keys, granted[n][j] = y
               PROVE  j = m.key
    OBVIOUS
  <2>1. TypeOK /\ Grants /\ KeysFit
    BY DEF IInv, DInv, Streamed
  <2>2. key[y] # NoKey
    BY <1>0, <1>1, NullsAreOutside
  <2>3. PICK q \in Conns : granted[q][m.key] = y
    BY <1>1, <2>1, <2>2 DEF KeysFit
  <2> QED
    BY <1>0, <2>1, <2>3, KeyOf
<1>8. NoNoteLost'
  <2> SUFFICES ASSUME NEW n \in Conns, NEW j \in Keys,
                      n = conn, granted[n][j] # NoCall, Unshared(n, j),
                      granted[n][j] \notin overflowed', ~unsubscribed[granted[n][j]]
               PROVE  LET x == granted[n][j]
                      IN  InOrder(x, got[x] \o stream'[x] \o orphans[j] \o wire'[n],
                                  emitted[x])
    BY <1>2 DEF NoNoteLost, Unshared
  <2> DEFINE x == granted[n][j]
  <2>1. /\ x \in Subscribes /\ got[x] \in Seq(Msg) /\ stream[x] \in Seq(Msg)
        /\ orphans[j] \in Seq(Msg) /\ wire[n] \in Seq(Msg)
    BY <1>0
  <2>2. InOrder(x, got[x] \o stream[x] \o orphans[j] \o wire[n], emitted[x])
    BY <1>5, <2>1 DEF DInv, Streamed, NoNoteLost
  <2>3. (n # p => j # m.key) /\ (j # m.key => ~IsOf(granted[n][j], m))
    <3>1. m \in Msg /\ m.key \in Keys /\ m.of # NoCall /\ granted[p][m.key] = m.of
      BY <1>0
    <3> QED
      BY <3>1, NotItsOwn
  <2>4. j = m.key <=> x = y
    <3>1. TypeOK /\ KeysFit
      BY DEF IInv, DInv, Streamed
    <3>2. j = m.key => x = y
      BY <1>1, <3>1, OnlyOne
    <3> QED
      BY <1>7, <3>2
  <2>5. CASE n # p
    <3>1. stream'[x] = stream[x] /\ wire'[n] = wire[n]
      BY <1>0, <1>3, <2>1, <2>3, <2>4, <2>5
    <3> QED
      BY <2>2, <3>1
  <2>6. CASE n = p /\ j # m.key
    <3>1. /\ wire[n] # <<>> /\ stream'[x] = stream[x] /\ wire'[n] = Tail(wire[n])
          /\ ~IsOf(x, Head(wire[n]))
      BY <1>0, <1>3, <2>1, <2>3, <2>4, <2>6
    <3>2. got[x] \o stream[x] \o orphans[j] \in Seq(Msg)
      BY <2>1
    <3>3. InOrder(x, got[x] \o stream[x] \o orphans[j] \o Tail(wire[n]), emitted[x])
      BY <2>1, <2>2, <3>1, <3>2, OtherTaken
    <3> QED
      BY <3>1, <3>3
  <2>7. CASE n = p /\ j = m.key
    <3>1. /\ wire[n] # <<>> /\ stream'[x] = Append(stream[x], Head(wire[n]))
          /\ wire'[n] = Tail(wire[n]) /\ orphans[j] = <<>> /\ Head(wire[n]) \in Msg
      BY <1>0, <1>1, <1>3, <1>5, <2>1, <2>4, <2>7
    <3>2. /\ got[x] \o stream[x] \in Seq(Msg) /\ Tail(wire[n]) \in Seq(Msg)
          /\ got[x] \o Append(stream[x], Head(wire[n])) \in Seq(Msg)
      BY <2>1, <3>1
    <3>3. InOrder(x, got[x] \o stream[x] \o wire[n], emitted[x])
      BY <2>1, <2>2, <3>1, <3>2, EmptyGoes
    <3>4. InOrder(x, got[x] \o Append(stream[x], Head(wire[n])) \o Tail(wire[n]), emitted[x])
      BY <2>1, <3>1, <3>3, MovedOn
    <3>5. InOrder(x, got[x] \o Append(stream[x], Head(wire[n])) \o <<>> \o Tail(wire[n]),
                  emitted[x])
      BY <3>2, <3>4, EmptyGoes
    <3> QED
      BY <3>1, <3>5
  <2> QED
    BY <2>5, <2>6, <2>7
<1> QED
  BY <1>0, <1>6, <1>8 DEF Streamed

LEMMA NoticeKeeps ==
  ASSUME IInv, DInv, NEW p \in Conns, Notice(p)
  PROVE  Streamed'
BY NoteKept, NoteChannelled


\* A subscribe that is given a key has been sent nothing yet.
LEMMA GrantKeeps ==
  ASSUME IInv, DInv, NEW n \in Conns, NEW c \in Calls, NEW k \in Keys, Grant(n, c, k)
  PROVE  Streamed'
<1>0. TypeOK /\ Requests /\ Installed /\ Answers /\ Subscribes \subseteq Calls
  BY DEF IInv, Messages, DInv, Calls
<1>1. /\ UNCHANGED <<stream, got, wire, emitted, overflowed, unsubscribed, id, use, answer,
                     reply, key, conn, reader, orphans>>
      /\ c \in inbox[n] /\ c \in Subscribes /\ granted[n][k] = NoCall
      /\ granted' = [granted EXCEPT ![n][k] = c]
      /\ \A j \in Keys : granted[n][j] # c
  BY DEF Grant
<1>2. use[c] = n /\ id[c] # 0 /\ c # NoCall /\ reader[n] # "none"
  BY <1>0, <1>1, NullsAreOutside DEF Requests, Installed
<1>3. /\ granted'[n][k] = c
      /\ \A p \in Conns, j \in Keys : p # n \/ j # k => granted'[p][j] = granted[p][j]
  BY <1>0, <1>1 DEF TypeOK
<1>4. \A p \in Conns, j \in Keys : granted[p][j] # c
  BY <1>1, <1>2 DEF DInv, Streamed, Grants
<1>5. \A p \in Conns, o \in Msg : Granted(p, o) => Granted(p, o)'
  BY <1>1, <1>3, NullsAreOutside DEF Granted, Msg
<1>6. Grants'
  <2> SUFFICES ASSUME NEW p \in Conns, NEW j \in Keys, granted'[p][j] # NoCall
               PROVE  LET s == granted'[p][j]
                      IN  /\ use[s] = p /\ id[s] # 0 /\ reader[p] # "none"
                          /\ \A i \in Keys : granted'[p][i] = s => i = j
    BY <1>1 DEF Grants
  <2>1. CASE p = n /\ j = k
    BY <1>1, <1>2, <1>3, <1>4, <2>1
  <2>2. CASE p # n \/ j # k
    <3>1. granted'[p][j] = granted[p][j] /\ granted[p][j] # c
      BY <1>3, <1>4, <2>2
    <3> QED
      BY <1>3, <3>1 DEF DInv, Streamed, Grants
  <2> QED
    BY <2>1, <2>2
<1>7. /\ \A p \in Conns : \A o \in Range(wire[p]) : o \in Msg
      /\ \A j \in Keys : \A o \in Range(orphans[j]) : o \in Msg
      /\ \A s \in Subscribes : \A o \in Range(stream[s]) \cup Range(got[s]) : o \in Msg
  <2>1. \A q \in Seq(Msg) : \A o \in Range(q) : o \in Msg
    BY DEF Range
  <2> QED
    BY <1>0, <2>1 DEF TypeOK
<1>8. Sent'
  BY <1>1, <1>5, <1>7 DEF DInv, Streamed, Sent, IsNote
<1>9. Passed'
  <2>1. \A o \in Msg : Genuine(o) => Genuine(o)'
    BY <1>5 DEF Genuine
  <2>2. Passed
    BY DEF DInv, Streamed
  <2> QED
    BY <1>1, <1>7, <2>1, <2>2 DEF Passed
<1>10. KeysFit'
  <2> SUFFICES ASSUME NEW s \in Subscribes
               PROVE  /\ reply[s] = "full" /\ answer[s].verdict = "ok" =>
                           \E p \in Conns : Granted(p, answer[s])'
                      /\ key[s] # NoKey =>
                           \E p \in Conns : key[s] \in Keys /\ granted'[p][key[s]] = s
    BY <1>1 DEF KeysFit
  <2>1. reply[s] = "full" => answer[s] \in Msg
    BY <1>0 DEF Answers
  <2>2. s # NoCall /\ KeysFit
    BY <1>0, NullsAreOutside DEF DInv, Streamed
  <2>3. ASSUME reply[s] = "full", answer[s].verdict = "ok"
        PROVE  \E p \in Conns : Granted(p, answer[s])'
    BY <1>1, <1>5, <2>1, <2>2, <2>3 DEF KeysFit
  <2>4. ASSUME key[s] # NoKey
        PROVE  \E p \in Conns : key[s] \in Keys /\ granted'[p][key[s]] = s
    BY <1>1, <1>3, <2>2, <2>4 DEF KeysFit
  <2> QED
    BY <2>3, <2>4
<1>11. Unnotified'
  <2> SUFFICES ASSUME NEW s \in Subscribes, emitted[s] # 0
               PROVE  \E p \in Conns, j \in Keys : granted'[p][j] = s
    BY <1>1 DEF Unnotified
  <2>1. PICK p \in Conns, j \in Keys : granted[p][j] = s
    BY DEF DInv, Streamed, Unnotified
  <2>2. s # NoCall
    BY <1>0, NullsAreOutside
  <2> QED
    BY <1>1, <1>3, <2>1, <2>2
<1>12. NoNoteLost'
  <2> SUFFICES ASSUME NEW p \in Conns, NEW j \in Keys,
                      p = conn, granted'[p][j] # NoCall, Unshared(p, j)',
                      granted'[p][j] \notin overflowed, ~unsubscribed[granted'[p][j]]
               PROVE  LET x == granted'[p][j]
                      IN  InOrder(x, got[x] \o stream[x] \o orphans[j] \o wire[p],
                                  emitted[x])
    BY <1>1 DEF NoNoteLost
  <2>1. CASE p = n /\ j = k
    <3>1. emitted[c] = 0
      BY <1>1, <1>4 DEF DInv, Streamed, Unnotified
    <3>2. /\ got[c] \in Seq(Msg) /\ stream[c] \in Seq(Msg) /\ orphans[k] \in Seq(Msg)
          /\ wire[n] \in Seq(Msg)
      BY <1>0, <1>1 DEF TypeOK
    <3>3. /\ got[c] \o stream[c] \in Seq(Msg)
          /\ Range(got[c] \o stream[c]) \subseteq Range(got[c]) \cup Range(stream[c])
      BY <3>2, HeldByBoth
    <3>4. ASSUME NEW o \in Range(got[c] \o stream[c]) \cup Range(orphans[k]) \cup Range(wire[n])
          PROVE  ~IsOf(c, o)
      <4>1. CASE o \in Range(got[c]) \cup Range(stream[c]) \cup Range(orphans[k])
        BY <1>1, <1>4, <4>1 DEF DInv, Streamed, Passed, Genuine, Granted, IsOf
      <4>2. CASE o \in Range(wire[n])
        BY <1>4, <4>2 DEF DInv, Streamed, Sent, Granted, IsOf
      <4> QED
        BY <3>3, <4>1, <4>2
    <3>5. Own(c, got[c] \o stream[c] \o orphans[k] \o wire[n]) = {}
      BY <3>2, <3>3, <3>4, NothingOfIt
    <3>6. InOrder(c, got[c] \o stream[c] \o orphans[k] \o wire[n], 0)
      BY <3>5, NoneIsInOrder
    <3> QED
      BY <1>3, <2>1, <3>1, <3>6
  <2>2. CASE p # n \/ j # k
    <3>1. Unshared(p, j)
      BY <1>1, <1>2, <1>3 DEF Unshared
    <3>2. granted'[p][j] = granted[p][j]
      BY <1>3, <2>2
    <3> QED
      BY <3>1, <3>2 DEF DInv, Streamed, NoNoteLost
  <2> QED
    BY <2>1, <2>2
<1> QED
  BY <1>6, <1>8, <1>9, <1>10, <1>11, <1>12 DEF Streamed

\* A response that is sent tells a subscribe the key it was given.
LEMMA ServeKeeps ==
  ASSUME IInv, DInv, NEW n \in Conns, NEW c \in Calls, Serve(n, c)
  PROVE  Streamed'
<1>0. TypeOK
  BY DEF IInv
<1>1. PICK verdict \in {"ok", "refused"}, k \in Keys \cup {NoKey} :
        Verdict(n, c, verdict, k) /\ Send(n, Response(c, verdict, k))
  BY DEF Serve
<1> DEFINE m == Response(c, verdict, k)
<1>2. /\ UNCHANGED <<stream, got, granted, emitted, overflowed, unsubscribed, id, use, answer,
                     reply, key, conn, reader, orphans>>
      /\ wire' = [wire EXCEPT ![n] = Append(@, m)]
  BY <1>1 DEF Serve, Send
<1>3. m \in Msg
  BY <1>0 DEF Msg, Response, TypeOK
<1>4. /\ m.seq = 0 /\ ~IsNote(m)
      /\ m.of \in Subscribes /\ m.verdict = "ok" => Granted(n, m)
  BY <1>1, KindsDisjoint DEF Response, IsNote, Verdict, Granted
<1> HIDE DEF m
<1>5. \A p \in Conns : wire[p] \in Seq(Msg)
  BY <1>0 DEF TypeOK
<1>6. /\ wire'[n] = Append(wire[n], m) /\ Range(Append(wire[n], m)) = Range(wire[n]) \cup {m}
      /\ \A p \in Conns : p # n => wire'[p] = wire[p]
  <2>1. wire \in [Conns -> Seq(Msg)]
    BY <1>0 DEF TypeOK
  <2> QED
    BY <1>2, <1>3, <1>5, <2>1, HeldAfter
<1>7. Grants' /\ Passed' /\ KeysFit' /\ Unnotified'
  BY <1>2 DEF DInv, Streamed, Grants, Passed, Genuine, KeysFit, Unnotified, Granted
<1>8. Sent'
  <2> SUFFICES ASSUME NEW p \in Conns, NEW o \in Range(wire'[p])
               PROVE  /\ IsNote(o) <=> o.seq # 0
                      /\ IsNote(o) \/ (o.of \in Subscribes /\ o.verdict = "ok") => Granted(p, o)
    BY <1>2 DEF Sent, Granted, IsNote
  <2>1. o \in Range(wire[p]) \/ (p = n /\ o = m)
    BY <1>6
  <2>2. CASE o \in Range(wire[p])
    BY <2>2 DEF DInv, Streamed, Sent
  <2>3. CASE p = n /\ o = m
    BY <1>4, <2>3
  <2> QED
    BY <2>1, <2>2, <2>3
<1>9. NoNoteLost'
  <2> SUFFICES ASSUME NEW p \in Conns, NEW j \in Keys,
                      p = conn, granted[p][j] # NoCall, Unshared(p, j),
                      granted[p][j] \notin overflowed, ~unsubscribed[granted[p][j]]
               PROVE  LET x == granted[p][j]
                      IN  InOrder(x, got[x] \o stream[x] \o orphans[j] \o wire'[p],
                                  emitted[x])
    BY <1>2 DEF NoNoteLost, Unshared
  <2> DEFINE x == granted[p][j]
  <2>1. InOrder(x, got[x] \o stream[x] \o orphans[j] \o wire[p], emitted[x])
    BY DEF DInv, Streamed, NoNoteLost
  <2>2. CASE p # n
    BY <1>6, <2>1, <2>2
  <2>3. CASE p = n
    <3>1. ~IsOf(x, m) /\ x \in Subscribes
      BY <1>0, <1>4 DEF IsOf, TypeOK
    <3>2. got[x] \in Seq(Msg) /\ stream[x] \in Seq(Msg) /\ orphans[j] \in Seq(Msg)
      BY <1>0, <3>1 DEF TypeOK
    <3>3. got[x] \o stream[x] \o orphans[j] \in Seq(Msg)
      BY <3>2
    <3>4. InOrder(x, got[x] \o stream[x] \o orphans[j] \o Append(wire[n], m), emitted[x])
      BY <1>3, <1>5, <2>1, <2>3, <3>1, <3>3, OtherAtTheEnd
    <3> QED
      BY <1>6, <2>3, <3>4
  <2> QED
    BY <2>2, <2>3
<1> QED
  BY <1>7, <1>8, <1>9 DEF Streamed

\* A notification that is sent is the next of its subscription.
LEMMA NotifyKeeps ==
  ASSUME IInv, DInv, NEW n \in Conns, NEW k \in Keys, Notify(n, k)
  PROVE  Streamed'
<1> DEFINE c == granted[n][k]
           m == Note(c, k, emitted[c] + 1)
<1>0. TypeOK /\ Requests /\ Grants /\ Subscribes \subseteq Calls
  BY DEF IInv, Messages, DInv, Streamed, Calls
<1>1. /\ UNCHANGED <<stream, got, granted, overflowed, unsubscribed, id, use, answer, reply,
                     key, conn, reader, orphans>>
      /\ emitted' = [emitted EXCEPT ![c] = @ + 1]
      /\ wire' = [wire EXCEPT ![n] = Append(@, m)]
      /\ k \in active[n]
  BY DEF Notify, Send
<1>2. c # NoCall
  BY <1>0, <1>1 DEF Requests
<1>3. /\ c \in Subscribes /\ c \in Calls
      /\ \A p \in Conns, j \in Keys : granted[p][j] = c => p = n /\ j = k
  BY <1>0, <1>2, KeyOf
<1>4. emitted[c] \in Nat
  BY <1>0, <1>3, BoundsAreNatural DEF TypeOK
<1>5. m \in Msg /\ m.seq = emitted[c] + 1 /\ m.seq # 0 /\ IsNote(m) /\ m.of = c /\ m.key = k
  BY <1>3, <1>4, BoundsAreNatural DEF Msg, Note, IsNote
<1> HIDE DEF m
<1>6. \A p \in Conns : wire[p] \in Seq(Msg)
  BY <1>0 DEF TypeOK
<1>7. /\ wire'[n] = Append(wire[n], m) /\ Range(Append(wire[n], m)) = Range(wire[n]) \cup {m}
      /\ \A p \in Conns : p # n => wire'[p] = wire[p]
  <2>1. wire \in [Conns -> Seq(Msg)]
    BY <1>0 DEF TypeOK
  <2> QED
    BY <1>1, <1>5, <1>6, <2>1, HeldAfter
<1>8. emitted'[c] = emitted[c] + 1 /\ \A s \in Subscribes : s # c => emitted'[s] = emitted[s]
  BY <1>0, <1>1, <1>3 DEF TypeOK
<1>9. Grants' /\ Passed' /\ KeysFit'
  BY <1>1 DEF DInv, Streamed, Grants, Passed, Genuine, KeysFit, Granted
<1>10. Unnotified'
  BY <1>1, <1>8 DEF DInv, Streamed, Unnotified
<1>11. Sent'
  <2> SUFFICES ASSUME NEW p \in Conns, NEW o \in Range(wire'[p])
               PROVE  /\ IsNote(o) <=> o.seq # 0
                      /\ IsNote(o) \/ (o.of \in Subscribes /\ o.verdict = "ok") => Granted(p, o)
    BY <1>1 DEF Sent, Granted, IsNote
  <2>1. CASE o \in Range(wire[p])
    BY <2>1 DEF DInv, Streamed, Sent
  <2>2. CASE p = n /\ o = m
    BY <1>5, <2>2 DEF Granted
  <2> QED
    BY <1>7, <2>1, <2>2
<1>12. NoNoteLost'
  <2> SUFFICES ASSUME NEW p \in Conns, NEW j \in Keys,
                      p = conn, granted[p][j] # NoCall, Unshared(p, j),
                      granted[p][j] \notin overflowed, ~unsubscribed[granted[p][j]]
               PROVE  LET x == granted[p][j]
                      IN  InOrder(x, got[x] \o stream[x] \o orphans[j] \o wire'[p],
                                  emitted'[x])
    BY <1>1 DEF NoNoteLost, Unshared
  <2> DEFINE x == granted[p][j]
             before == got[x] \o stream[x] \o orphans[j]
  <2>1. InOrder(x, before \o wire[p], emitted[x])
    BY DEF DInv, Streamed, NoNoteLost
  <2>2. /\ x \in Subscribes /\ got[x] \in Seq(Msg) /\ stream[x] \in Seq(Msg)
        /\ orphans[j] \in Seq(Msg)
    BY <1>0 DEF TypeOK
  <2>3. before \in Seq(Msg)
    BY <2>2
  <2> HIDE DEF before
  <2>4. CASE p = n /\ j = k
    <3>1. wire[n] \in Seq(Msg) /\ before \o wire[n] \in Seq(Msg)
      BY <1>6, <2>3
    <3>2. InOrder(c, before \o wire[n], emitted[c])
      BY <2>1, <2>4
    <3>3. InOrder(c, Append(before \o wire[n], m), emitted[c] + 1)
      BY <1>4, <1>5, <3>1, <3>2, NextInOrder
    <3>4. InOrder(c, before \o Append(wire[n], m), emitted[c] + 1)
      BY <1>5, <2>3, <3>1, <3>3, AppendedTo
    <3> QED
      BY <1>7, <1>8, <2>4, <3>4 DEF before
  <2>5. CASE p = n /\ j # k
    <3>1. x # c
      BY <1>3, <2>5
    <3>2. ~IsOf(x, m)
      BY <1>5, <3>1 DEF IsOf
    <3>3. InOrder(x, before \o Append(wire[n], m), emitted[x])
      BY <1>5, <1>6, <2>1, <2>3, <2>5, <3>2, OtherAtTheEnd
    <3> QED
      BY <1>7, <1>8, <2>2, <2>5, <3>1, <3>3 DEF before
  <2>6. CASE p # n
    <3>1. x # c
      BY <1>3, <2>6
    <3> QED
      BY <1>7, <1>8, <2>1, <2>2, <2>6, <3>1 DEF before
  <2> QED
    BY <2>4, <2>5, <2>6
<1> QED
  BY <1>9, <1>10, <1>11, <1>12 DEF Streamed

\* At first there is nothing to lose.
LEMMA InitDInv == Init => DInv
<1> SUFFICES ASSUME Init PROVE DInv
  OBVIOUS
<1>1. Range(<<>>) = {}
  BY DEF Range
<1>2. \A n \in Conns, k \in Keys : granted[n][k] = NoCall
  BY DEF Init
<1>3. Grants /\ NoNoteLost
  BY <1>2 DEF Grants, NoNoteLost
<1>4. KeysFit /\ Unnotified
  BY KindsDisjoint DEF Init, KeysFit, Unnotified, Calls
<1>5. Sent /\ Passed
  BY <1>1 DEF Init, Sent, Passed
<1>6. Installed /\ Channels
  BY KindsDisjoint DEF Init, Installed, Channels, Calls
<1> QED
  BY <1>3, <1>4, <1>5, <1>6 DEF DInv, Streamed

\* No step breaks the invariant.
LEMMA NextDInv == IInv /\ DInv /\ [Next]_vars => DInv'
<1> SUFFICES ASSUME IInv, DInv, [Next]_vars PROVE DInv'
  OBVIOUS
<1>1. CASE Next
  <2>1. Installed' /\ Channels'
    BY <1>1, InstalledStep, ChannelsStep DEF DInv
  <2>2. ASSUME NEW c \in Calls, CallStep(c) PROVE Streamed'
    BY <2>2, QuietCalls, SubscribedKeeps, RegisterKeeps, UnregisterKeeps DEF CallStep
  <2>3. ASSUME NEW n \in Conns, ReadStep(n) PROVE Streamed'
    BY <2>3, QuietSteps, ResponseLeaves, NoticeKeeps DEF ReadStep
  <2>4. ASSUME NEW n \in Conns, PeerStep(n) PROVE Streamed'
    BY <2>4, QuietSteps, ServeKeeps, GrantKeeps, NotifyKeeps DEF PeerStep
  <2>5. ASSUME NEW x \in Closers, CloseStep(x) PROVE Streamed'
    BY <2>5, QuietSteps
  <2>6. Streamed'
    BY <1>1, <2>2, <2>3, <2>4, <2>5, ReceiveKeeps DEF Next
  <2> QED
    BY <2>1, <2>6 DEF DInv
<1>2. CASE UNCHANGED vars
  BY <1>2 DEF DInv, Installed, Channels, Streamed, Grants, Sent, Passed, Genuine, KeysFit,
     Unnotified, NoNoteLost, Unshared, Granted, IsNote
<1> QED
  BY <1>1, <1>2

\* While its connection lasts and it is not unsubscribed, a subscription that has its key to
\* itself loses no notification and sees them in order, whichever of them come before its
\* own response; only a full channel is an exception.
THEOREM NotesNotLost == Spec => []NoNoteLost
<1>1. Spec => [](IInv /\ DInv)
  BY InitIInv, NextIInv, InitDInv, NextDInv, PTL DEF Spec
<1>2. DInv => NoNoteLost
  BY DEF DInv, Streamed
<1> QED
  BY <1>1, <1>2, PTL
===============================================================================
