----------------------------- MODULE WsGo_refinement -----------------------------
(***************************************************************************)
(* The Go transport implements the contract of RpcSession: every call ends *)
(* exactly once, with the answer to that very call or for a reason of its  *)
(* own connection.  Proved from the invariant of WsGo_proofs: each step of *)
(* the transport is one step of the contract or changes nothing it sees.   *)
(***************************************************************************)
EXTENDS WsGo_proofs

USE DEF session, locals, replies, streams, readers, closers, peer, network,
        others, vars, Goto
-------------------------------------------------------------------------------
(* The transport implements the contract of RpcSession.                    *)

Answered == {"register", "unregister", "closing", "answered"}
Failed == {"closed", "expired", "unsent"}

\* How the contract sees a call, by where its goroutine is.
LEMMA Seen ==
  ASSUME IInv, NEW c \in Calls
  PROVE  /\ pc[c] \in Begun => CallStatus[c] = "idle" /\ Link[c] = NoConn
         /\ pc[c] \in Waiting => CallStatus[c] = "open" /\ Link[c] = use[c]
         /\ pc[c] \in Failed => CallStatus[c] = pc[c]
         /\ pc[c] \in Answered => CallStatus[c] = "answered" /\ Link[c] = use[c]
<1> USE DEF IInv, Messages, Begun, Waiting, Failed, Answered
<1>1. pc[c] \in Begun => id[c] = 0
  BY DEF Numbered
<1>2. pc[c] \in Waiting \cup Answered => id[c] # 0
  BY DEF Numbered
<1>3. pc[c] \in Answered => answer[c].of = c
  BY DEF Answers
<1> QED
  BY <1>1, <1>2, <1>3 DEF CallStatus, Link, Issued

\* The same after a step.
LEMMA SeenNext ==
  ASSUME IInv', NEW c \in Calls
  PROVE  /\ pc'[c] \in Begun => CallStatus'[c] = "idle" /\ Link'[c] = NoConn
         /\ pc'[c] \in Waiting => CallStatus'[c] = "open" /\ Link'[c] = use'[c]
         /\ pc'[c] \in Failed => CallStatus'[c] = pc'[c]
         /\ pc'[c] \in Answered => CallStatus'[c] = "answered" /\ Link'[c] = use'[c]
<1> USE DEF IInv, Messages, Begun, Waiting, Failed, Answered
<1>1. pc'[c] \in Begun => id'[c] = 0
  BY DEF Numbered
<1>2. pc'[c] \in Waiting \cup Answered => id'[c] # 0
  BY DEF Numbered
<1>3. pc'[c] \in Answered => answer'[c].of = c
  BY DEF Answers
<1> QED
  BY <1>1, <1>2, <1>3 DEF CallStatus, Link, Issued

\* A step after which every goroutine is where it was, or at a place the
\* contract does not tell from it, changes no call.
Alike(l, m) ==
  \/ l = m
  \/ l \in Begun /\ m \in Begun
  \/ l \in Waiting /\ m \in Waiting
  \/ l \in Answered /\ m \in Answered

\* A call whose place is alike is the same call to the contract.
LEMMA StatusKept ==
  ASSUME IInv, IInv', NEW c \in Calls, Alike(pc[c], pc'[c])
  PROVE  CallStatus'[c] = CallStatus[c]
<1>1. pc[c] \in Begun \cup Waiting \cup Failed \cup Answered
  BY DEF IInv, TypeOK, Steps, Begun, Waiting, Ended, Failed, Answered
<1> QED
  BY <1>1, Seen, SeenNext DEF Alike, Begun, Waiting, Failed, Answered

\* Only Enroll binds a call to a connection.
LEMMA LinkKept ==
  ASSUME IInv, id' = id, \A c \in Calls : id[c] # 0 => use'[c] = use[c]
  PROVE  Link' = Link
BY DEF Link, Issued

\* The same for all calls at once.
LEMMA StatusesKept ==
  ASSUME IInv, IInv', \A c \in Calls : Alike(pc[c], pc'[c])
  PROVE  CallStatus' = CallStatus
<1>1. \A c \in Calls : CallStatus'[c] = CallStatus[c]
  BY StatusKept
<1> QED
  BY <1>1 DEF CallStatus

\* When one goroutine moves, the contract sees at most its call change.
LEMMA StatusBecomes ==
  ASSUME IInv, IInv', NEW c \in Calls, NEW l \in Steps, pc' = [pc EXCEPT ![c] = l]
  PROVE  CallStatus' = [CallStatus EXCEPT ![c] = CallStatus'[c]]
<1>1. \A d \in Calls \ {c} : CallStatus'[d] = CallStatus[d]
  BY StatusKept DEF Alike, IInv, TypeOK
<1>2. CallStatus = [d \in Calls |-> CallStatus[d]]
  BY DEF CallStatus
<1>3. CallStatus' = [d \in Calls |-> CallStatus'[d]]
  BY DEF CallStatus
<1> QED
  BY <1>1, <1>2, <1>3

\* Connections live as long as their sockets.
LEMMA LifeKept ==
  ASSUME sock' = sock
  PROVE  Life' = Life
BY DEF Life

\* A socket that has been used goes down, or was down already.
LEMMA LifeEnds ==
  ASSUME TypeOK, NEW n \in Conns, sock[n] # "unused",
         NEW s \in {"broken", "closed"}, sock' = [sock EXCEPT ![n] = s],
         UNCHANGED <<CallStatus, Link, served>>
  PROVE  [Session!Next]_(Session!vars)
<1>1. Life' = [Life EXCEPT ![n] = "down"]
  BY DEF Life, TypeOK
<1>2. CASE sock[n] = "open"
  <2>1. Life[n] = "up"
    BY <1>2 DEF Life
  <2>2. Session!Disconnect(n)
    BY <1>1, <2>1 DEF Session!Disconnect
  <2> QED
    BY <2>2 DEF Session!Next
<1>3. CASE sock[n] # "open"
  <2>1. Life[n] = "down"
    BY <1>3 DEF Life, TypeOK
  <2>2. Life' = Life
    BY <1>1, <2>1 DEF Life
  <2> QED
    BY <2>2 DEF Session!vars
<1> QED
  BY <1>2, <1>3

\* The types the steps below use.
LEMMA Typed ==
  ASSUME IInv
  PROVE  /\ TypeOK
         /\ pc \in [Calls -> Steps] /\ id \in [Calls -> 0..MaxId]
         /\ sock \in [Conns -> {"unused", "open", "broken", "closed"}]
BY DEF IInv, TypeOK

\* A call that has not begun to wait has no id yet.
LEMMA Early ==
  ASSUME IInv, NEW c \in Calls, pc[c] \in Begun
  PROVE  id[c] = 0
BY DEF IInv, Messages, Numbered

\* Every step of the transport is a step of the contract, or none.
LEMMA StepRefines ==
  ASSUME IInv, IInv', Next
  PROVE  [Session!Next]_(Session!vars)
<1>1. ASSUME NEW c \in Calls, CallStep(c) PROVE [Session!Next]_(Session!vars)
  <2>1. CASE UseExisting(c)
    <3>1. \A d \in Calls : Alike(pc[d], pc'[d])
      BY <2>1, Typed DEF UseExisting, MayStart, Alike, Begun, Waiting, Answered
    <3>2. /\ UNCHANGED <<id, sock, served>>
          /\ \A d \in Calls \ {c} : use'[d] = use[d]
          /\ pc[c] \in Begun
      BY <2>1 DEF UseExisting, MayStart, Begun
    <3>3. id[c] = 0
      BY <3>2, Early
    <3>4. UNCHANGED <<CallStatus, Link, Life, served>>
      BY <3>1, <3>2, <3>3, StatusesKept, LinkKept, LifeKept
    <3> QED
      BY <3>4 DEF Session!vars
  <2>2. CASE StartDial(c)
    <3>1. \A d \in Calls : Alike(pc[d], pc'[d])
      BY <2>2, Typed DEF StartDial, MayStart, Alike, Begun, Waiting, Answered
    <3>2. UNCHANGED <<CallStatus, Link, Life, served>>
      BY <2>2, <3>1, StatusesKept, LinkKept, LifeKept, Early DEF StartDial, MayStart
    <3> QED
      BY <3>2 DEF Session!vars
  <2>3. ASSUME NEW n \in Conns, Dial(c, n) PROVE [Session!Next]_(Session!vars)
    <3>1. \A d \in Calls : Alike(pc[d], pc'[d])
      BY <2>3, Typed DEF Dial, Alike, Begun
    <3>2. UNCHANGED <<CallStatus, Link, served>>
      BY <2>3, <3>1, StatusesKept, LinkKept, Early DEF Dial, Begun
    <3>3. Life[n] = "new" /\ Life' = [Life EXCEPT ![n] = "up"]
      BY <2>3, Typed DEF Dial, Life
    <3>4. Session!Connect(n)
      BY <3>2, <3>3 DEF Session!Connect
    <3> QED
      BY <3>4 DEF Session!Next
  <2>4. CASE DialFail(c)
    <3>1. /\ pc[c] \in Begun /\ pc' = [pc EXCEPT ![c] = "unsent"]
          /\ UNCHANGED <<id, use, sock, served>>
      BY <2>4 DEF DialFail, Begun
    <3>2. CallStatus[c] = "idle" /\ CallStatus'[c] = "unsent"
      BY <3>1, Typed, Seen, SeenNext DEF Failed, Steps, Ended
    <3>3. CallStatus' = [CallStatus EXCEPT ![c] = "unsent"]
      BY <3>1, <3>2, StatusBecomes DEF Steps, Ended
    <3>4. UNCHANGED <<Link, Life, served>>
      BY <3>1, LinkKept, LifeKept
    <3>5. Session!Refuse(c)
      BY <3>2, <3>3, <3>4 DEF Session!Refuse, Session!Become
    <3> QED
      BY <3>5 DEF Session!Next
  <2>5. CASE Install(c)
    <3>1. \A d \in Calls : Alike(pc[d], pc'[d])
      BY <2>5, Typed DEF Install, Alike, Begun, Waiting, Answered
    <3>2. UNCHANGED <<CallStatus, Link, Life, served>>
      BY <2>5, <3>1, StatusesKept, LinkKept, LifeKept, Early DEF Install
    <3> QED
      BY <3>2 DEF Session!vars
  <2>6. CASE Adopt(c)
    <3>1. \A d \in Calls : Alike(pc[d], pc'[d])
      BY <2>6, Typed DEF Adopt, Alike, Begun
    <3>2. UNCHANGED <<CallStatus, Link, served>>
      BY <2>6, <3>1, StatusesKept, LinkKept, Early DEF Adopt, Begun
    <3>3. use[c] \in Conns /\ sock[use[c]] # "unused"
      BY <2>6 DEF Adopt, IInv, Ends
    <3>4. sock' = [sock EXCEPT ![use[c]] = "closed"]
      BY <2>6 DEF Adopt
    <3> QED
      BY <3>2, <3>3, <3>4, Typed, LifeEnds
  <2>7. CASE Enroll(c)
    <3>1. /\ pc[c] = "enroll" /\ pc' = [pc EXCEPT ![c] = "write"]
          /\ id' = [id EXCEPT ![c] = FreshId] /\ UNCHANGED <<use, sock, served>>
      BY <2>7 DEF Enroll
    <3>2. use[c] \in Conns /\ sock[use[c]] # "unused"
      BY <2>7, NullsAreOutside DEF Enroll, IInv, Ends, Dead
    <3>3. CallStatus[c] = "idle" /\ CallStatus'[c] = "open" /\ Link'[c] = use[c]
      BY <3>1, Typed, Seen, SeenNext DEF Begun, Waiting
    <3>4. CallStatus' = [CallStatus EXCEPT ![c] = "open"]
      BY <3>1, <3>3, StatusBecomes DEF Steps, Waiting
    <3>5. Link' = [Link EXCEPT ![c] = use[c]]
      BY <3>1, <3>3, Typed DEF Link, Issued
    <3>6. Life' = Life /\ Life[use[c]] # "new"
      BY <3>1, <3>2, Typed, LifeKept DEF Life
    <3>7. Session!Issue(c, use[c])
      BY <3>1, <3>3, <3>4, <3>5, <3>6 DEF Session!Issue, Session!Become
    <3> QED
      BY <3>2, <3>7 DEF Session!Next
  <2>8. CASE Write(c)
    <3>1. \A d \in Calls : Alike(pc[d], pc'[d])
      BY <2>8, Typed DEF Write, Alike, Begun, Waiting, Answered
    <3>2. UNCHANGED <<CallStatus, Link, Life, served>>
      BY <2>8, <3>1, StatusesKept, LinkKept, LifeKept, Early DEF Write
    <3> QED
      BY <3>2 DEF Session!vars
  <2>9. CASE WriteFail(c)
    <3>1. /\ pc[c] \in Waiting /\ pc' = [pc EXCEPT ![c] = "unsent"]
          /\ UNCHANGED <<id, use, sock, served>>
      BY <2>9 DEF WriteFail, Waiting
    <3>2. CallStatus[c] = "open" /\ CallStatus'[c] = "unsent"
      BY <3>1, Typed, Seen, SeenNext DEF Failed, Steps, Ended
    <3>3. CallStatus' = [CallStatus EXCEPT ![c] = "unsent"]
      BY <3>1, <3>2, StatusBecomes DEF Steps, Ended
    <3>4. UNCHANGED <<Link, Life, served>>
      BY <3>1, LinkKept, LifeKept
    <3>5. Session!FailSend(c)
      BY <3>2, <3>3, <3>4 DEF Session!FailSend, Session!Become
    <3> QED
      BY <3>5 DEF Session!Next
  <2>10. CASE ReturnAnswer(c)
    <3>1. /\ pc[c] \in Waiting /\ pc' = [pc EXCEPT ![c] = "answered"]
          /\ reply[c] = "full" /\ UNCHANGED <<id, use, sock, served>>
      BY <2>10 DEF ReturnAnswer, Replied, Waiting
    <3>2. CallStatus[c] = "open" /\ CallStatus'[c] = "answered"
      BY <3>1, Typed, Seen, SeenNext DEF Answered, Steps, Ended
    <3>3. CallStatus' = [CallStatus EXCEPT ![c] = "answered"]
      BY <3>1, <3>2, StatusBecomes DEF Steps, Ended
    <3>4. c \in served
      BY <3>1 DEF IInv, Messages, Answers, Fit
    <3>5. UNCHANGED <<Link, Life, served>>
      BY <3>1, LinkKept, LifeKept
    <3>6. Session!Answer(c)
      BY <3>2, <3>3, <3>4, <3>5 DEF Session!Answer, Session!Become
    <3> QED
      BY <3>6 DEF Session!Next
  <2>11. CASE ReturnSubscribed(c)
    <3>1. /\ pc[c] \in Waiting /\ pc' = [pc EXCEPT ![c] = "register"]
          /\ reply[c] = "full" /\ UNCHANGED <<id, use, sock, served>>
      BY <2>11 DEF ReturnSubscribed, Replied, Waiting
    <3>2. CallStatus[c] = "open" /\ CallStatus'[c] = "answered"
      BY <3>1, Typed, Seen, SeenNext DEF Answered, Steps, Ended
    <3>3. CallStatus' = [CallStatus EXCEPT ![c] = "answered"]
      BY <3>1, <3>2, StatusBecomes DEF Steps, Ended
    <3>4. c \in served
      BY <3>1 DEF IInv, Messages, Answers, Fit
    <3>5. UNCHANGED <<Link, Life, served>>
      BY <3>1, LinkKept, LifeKept
    <3>6. Session!Answer(c)
      BY <3>2, <3>3, <3>4, <3>5 DEF Session!Answer, Session!Become
    <3> QED
      BY <3>6 DEF Session!Next
  <2>12. CASE ReturnUnsubscribed(c)
    <3>1. /\ pc[c] \in Waiting /\ pc' = [pc EXCEPT ![c] = "unregister"]
          /\ reply[c] = "full" /\ UNCHANGED <<id, use, sock, served>>
      BY <2>12 DEF ReturnUnsubscribed, Replied, Waiting
    <3>2. CallStatus[c] = "open" /\ CallStatus'[c] = "answered"
      BY <3>1, Typed, Seen, SeenNext DEF Answered, Steps, Ended
    <3>3. CallStatus' = [CallStatus EXCEPT ![c] = "answered"]
      BY <3>1, <3>2, StatusBecomes DEF Steps, Ended
    <3>4. c \in served
      BY <3>1 DEF IInv, Messages, Answers, Fit
    <3>5. UNCHANGED <<Link, Life, served>>
      BY <3>1, LinkKept, LifeKept
    <3>6. Session!Answer(c)
      BY <3>2, <3>3, <3>4, <3>5 DEF Session!Answer, Session!Become
    <3> QED
      BY <3>6 DEF Session!Next
  <2>13. CASE ReturnClosed(c)
    <3>1. /\ pc[c] \in Waiting /\ pc' = [pc EXCEPT ![c] = "closed"]
          /\ UNCHANGED <<id, use, sock, served>>
      BY <2>13 DEF ReturnClosed, Waiting
    <3>2. CallStatus[c] = "open" /\ CallStatus'[c] = "closed"
      BY <3>1, Typed, Seen, SeenNext DEF Failed, Steps, Ended
    <3>3. CallStatus' = [CallStatus EXCEPT ![c] = "closed"]
      BY <3>1, <3>2, StatusBecomes DEF Steps, Ended
    <3>4. UNCHANGED <<Link, Life, served>>
      BY <3>1, LinkKept, LifeKept
    <3>5. Link[c] = use[c] /\ use[c] \in Conns /\ Dead(use[c])
      BY <2>13, <3>1, Seen DEF ReturnClosed, IInv, Ends
    <3>6. Life[use[c]] = "down"
      BY <3>5 DEF Life, Dead
    <3>7. Session!Cut(c)
      BY <3>2, <3>3, <3>4, <3>5, <3>6, NullsAreOutside DEF Session!Cut, Session!Become
    <3> QED
      BY <3>7 DEF Session!Next
  <2>14. CASE Expire(c)
    <3>1. /\ pc[c] \in Waiting /\ pc' = [pc EXCEPT ![c] = "expired"]
          /\ UNCHANGED <<id, use, sock, served>>
      BY <2>14 DEF Expire, Waiting
    <3>2. CallStatus[c] = "open" /\ CallStatus'[c] = "expired"
      BY <3>1, Typed, Seen, SeenNext DEF Failed, Steps, Ended
    <3>3. CallStatus' = [CallStatus EXCEPT ![c] = "expired"]
      BY <3>1, <3>2, StatusBecomes DEF Steps, Ended
    <3>4. UNCHANGED <<Link, Life, served>>
      BY <3>1, LinkKept, LifeKept
    <3>5. Session!Expire(c)
      BY <3>2, <3>3, <3>4 DEF Session!Expire, Session!Become
    <3> QED
      BY <3>5 DEF Session!Next
  <2>15. CASE Register(c)
    <3>1. \A d \in Calls : Alike(pc[d], pc'[d])
      BY <2>15, Typed DEF Register, Alike, Begun, Waiting, Answered
    <3>2. UNCHANGED <<CallStatus, Link, Life, served>>
      BY <2>15, <3>1, StatusesKept, LinkKept, LifeKept, Early DEF Register
    <3> QED
      BY <3>2 DEF Session!vars
  <2>16. CASE Unregister(c)
    <3>1. \A d \in Calls : Alike(pc[d], pc'[d])
      BY <2>16, Typed DEF Unregister, Alike, Begun, Waiting, Answered
    <3>2. UNCHANGED <<CallStatus, Link, Life, served>>
      BY <2>16, <3>1, StatusesKept, LinkKept, LifeKept, Early DEF Unregister
    <3> QED
      BY <3>2 DEF Session!vars
  <2>17. CASE CloseStream(c)
    <3>1. \A d \in Calls : Alike(pc[d], pc'[d])
      BY <2>17, Typed DEF CloseStream, Alike, Begun, Waiting, Answered
    <3>2. UNCHANGED <<CallStatus, Link, Life, served>>
      BY <2>17, <3>1, StatusesKept, LinkKept, LifeKept, Early DEF CloseStream
    <3> QED
      BY <3>2 DEF Session!vars
  <2> QED
    BY <1>1, <2>1, <2>2, <2>3, <2>4, <2>5, <2>6, <2>7, <2>8, <2>9, <2>10, <2>11,
       <2>12, <2>13, <2>14, <2>15, <2>16, <2>17 DEF CallStep
<1>2. ASSUME NEW s \in Subscribes, Receive(s) PROVE [Session!Next]_(Session!vars)
  <2>1. \A d \in Calls : Alike(pc[d], pc'[d])
    BY <1>2, Typed DEF Receive, Alike, Begun, Waiting, Answered
  <2>2. UNCHANGED <<CallStatus, Link, Life, served>>
    BY <1>2, <2>1, StatusesKept, LinkKept, LifeKept, Early DEF Receive
  <2> QED
    BY <2>2 DEF Session!vars
<1>3. ASSUME NEW n \in Conns, ReadStep(n) PROVE [Session!Next]_(Session!vars)
  <2>1. CASE Take(n)
    <3>1. \A d \in Calls : Alike(pc[d], pc'[d])
      BY <2>1, Typed DEF Take, Alike, Begun, Waiting, Answered
    <3>2. UNCHANGED <<CallStatus, Link, Life, served>>
      BY <2>1, <3>1, StatusesKept, LinkKept, LifeKept, Early DEF Take
    <3> QED
      BY <3>2 DEF Session!vars
  <2>2. CASE Deliver(n)
    <3>1. \A d \in Calls : Alike(pc[d], pc'[d])
      BY <2>2, Typed DEF Deliver, Alike, Begun, Waiting, Answered
    <3>2. UNCHANGED <<CallStatus, Link, Life, served>>
      BY <2>2, <3>1, StatusesKept, LinkKept, LifeKept, Early DEF Deliver
    <3> QED
      BY <3>2 DEF Session!vars
  <2>3. CASE Ignore(n)
    <3>1. \A d \in Calls : Alike(pc[d], pc'[d])
      BY <2>3, Typed DEF Ignore, Alike, Begun, Waiting, Answered
    <3>2. UNCHANGED <<CallStatus, Link, Life, served>>
      BY <2>3, <3>1, StatusesKept, LinkKept, LifeKept, Early DEF Ignore
    <3> QED
      BY <3>2 DEF Session!vars
  <2>4. CASE Notice(n)
    <3>1. \A d \in Calls : Alike(pc[d], pc'[d])
      BY <2>4, Typed DEF Notice, Alike, Begun, Waiting, Answered
    <3>2. UNCHANGED <<CallStatus, Link, Life, served>>
      BY <2>4, <3>1, StatusesKept, LinkKept, LifeKept, Early DEF Notice
    <3> QED
      BY <3>2 DEF Session!vars
  <2>5. CASE ReadFail(n)
    <3>1. \A d \in Calls : Alike(pc[d], pc'[d])
      BY <2>5, Typed DEF ReadFail, Alike, Begun, Waiting, Answered
    <3>2. UNCHANGED <<CallStatus, Link, Life, served>>
      BY <2>5, <3>1, StatusesKept, LinkKept, LifeKept, Early DEF ReadFail
    <3> QED
      BY <3>2 DEF Session!vars
  <2>6. CASE ReaderExit(n)
    <3>1. \A d \in Calls : Alike(pc[d], pc'[d])
      BY <2>6, Typed DEF ReaderExit, Alike, Begun, Waiting, Answered
    <3>2. UNCHANGED <<CallStatus, Link, Life, served>>
      BY <2>6, <3>1, StatusesKept, LinkKept, LifeKept, Early DEF ReaderExit
    <3> QED
      BY <3>2 DEF Session!vars
  <2> QED
    BY <1>3, <2>1, <2>2, <2>3, <2>4, <2>5, <2>6 DEF ReadStep
<1>4. ASSUME NEW n \in Conns, PeerStep(n) PROVE [Session!Next]_(Session!vars)
  <2>1. ASSUME NEW c \in Calls, Serve(n, c) PROVE [Session!Next]_(Session!vars)
    <3>1. /\ sock[n] = "open" /\ c \in inbox[n] /\ served' = served \cup {c}
          /\ UNCHANGED <<pc, id, use, sock>>
      BY <2>1 DEF Serve
    <3>2. id[c] # 0 /\ use[c] = n /\ c \notin served
      BY <3>1 DEF IInv, Messages, Requests
    <3>3. UNCHANGED <<CallStatus, Link, Life>>
      BY <3>1, StatusesKept, LinkKept, LifeKept DEF Alike
    <3>4. Link[c] = n /\ Life[n] = "up"
      BY <3>1, <3>2 DEF Link, Issued, Life
    <3>5. Session!Serve(c)
      BY <3>1, <3>2, <3>3, <3>4, NullsAreOutside DEF Session!Serve
    <3> QED
      BY <3>5 DEF Session!Next
  <2>2. ASSUME NEW c \in Calls, NEW k \in Keys, Grant(n, c, k)
        PROVE  [Session!Next]_(Session!vars)
    <3>1. \A d \in Calls : Alike(pc[d], pc'[d])
      BY <2>2, Typed DEF Grant, Alike, Begun, Waiting, Answered
    <3>2. UNCHANGED <<CallStatus, Link, Life, served>>
      BY <2>2, <3>1, StatusesKept, LinkKept, LifeKept, Early DEF Grant
    <3> QED
      BY <3>2 DEF Session!vars
  <2>3. ASSUME NEW k \in Keys, Notify(n, k) PROVE [Session!Next]_(Session!vars)
    <3>1. \A d \in Calls : Alike(pc[d], pc'[d])
      BY <2>3, Typed DEF Notify, Alike, Begun, Waiting, Answered
    <3>2. UNCHANGED <<CallStatus, Link, Life, served>>
      BY <2>3, <3>1, StatusesKept, LinkKept, LifeKept, Early DEF Notify
    <3> QED
      BY <3>2 DEF Session!vars
  <2>4. CASE Break(n)
    <3>1. /\ n \in Conns /\ sock[n] # "unused"
          /\ sock' = [sock EXCEPT ![n] = "broken"]
          /\ UNCHANGED <<pc, id, use, served>>
      BY <2>4 DEF Break
    <3>2. UNCHANGED <<CallStatus, Link>>
      BY <3>1, StatusesKept, LinkKept DEF Alike
    <3> QED
      BY <3>1, <3>2, Typed, LifeEnds
  <2> QED
    BY <1>4, <2>1, <2>2, <2>3, <2>4 DEF PeerStep
<1>5. ASSUME NEW x \in Closers, CloseStep(x) PROVE [Session!Next]_(Session!vars)
  <2>1. CASE Snapshot(x)
    <3>1. \A d \in Calls : Alike(pc[d], pc'[d])
      BY <2>1, Typed DEF Snapshot, Alike, Begun, Waiting, Answered
    <3>2. UNCHANGED <<CallStatus, Link, Life, served>>
      BY <2>1, <3>1, StatusesKept, LinkKept, LifeKept, Early DEF Snapshot
    <3> QED
      BY <3>2 DEF Session!vars
  <2>2. CASE Shut(x)
    <3>1. /\ closing[x] \in Conns /\ sock[closing[x]] # "unused"
          /\ sock' = [sock EXCEPT ![closing[x]] = "closed"]
          /\ UNCHANGED <<pc, id, use, served>>
      BY <2>2 DEF Shut, IInv, Ends
    <3>2. UNCHANGED <<CallStatus, Link>>
      BY <3>1, StatusesKept, LinkKept DEF Alike
    <3> QED
      BY <3>1, <3>2, Typed, LifeEnds
  <2>3. CASE FinishClose(x)
    <3>1. \A d \in Calls : Alike(pc[d], pc'[d])
      BY <2>3, Typed DEF FinishClose, Alike, Begun, Waiting, Answered
    <3>2. UNCHANGED <<CallStatus, Link, Life, served>>
      BY <2>3, <3>1, StatusesKept, LinkKept, LifeKept, Early DEF FinishClose
    <3> QED
      BY <3>2 DEF Session!vars
  <2> QED
    BY <1>5, <2>1, <2>2, <2>3 DEF CloseStep
<1> QED
  BY <1>1, <1>2, <1>3, <1>4, <1>5 DEF Next

\* Every call ends exactly once, with its own answer or for a reason of its own
\* connection: the transport implements the contract.
THEOREM Refinement == Spec => ImplementsSession
<1>1. Init => Session!Init
  <2> SUFFICES ASSUME Init PROVE Session!Init
    OBVIOUS
  <2>1. CallStatus = [c \in Calls |-> "idle"]
    <3>1. \A c \in Calls : CallStatus[c] = "idle"
      BY InitIInv, Seen DEF Init, Begun
    <3>2. CallStatus = [c \in Calls |-> CallStatus[c]]
      BY DEF CallStatus
    <3> QED
      BY <3>1, <3>2
  <2>2. Link = [c \in Calls |-> NoConn]
    BY DEF Init, Link, Issued
  <2>3. Life = [n \in Conns |-> "new"]
    BY DEF Init, Life
  <2>4. served = {}
    BY DEF Init
  <2> QED
    BY <2>1, <2>2, <2>3, <2>4 DEF Session!Init
<1>2. IInv /\ IInv' /\ [Next]_vars => [Session!Next]_(Session!vars)
  <2> SUFFICES ASSUME IInv, IInv', [Next]_vars PROVE [Session!Next]_(Session!vars)
    OBVIOUS
  <2>1. CASE Next
    BY <2>1, StepRefines
  <2>2. CASE UNCHANGED vars
    BY <2>2 DEF Session!vars, CallStatus, Link, Life, Issued
  <2> QED
    BY <2>1, <2>2
<1> QED
  BY <1>1, <1>2, Invariance, PTL DEF Spec, ImplementsSession, Session!Spec
===============================================================================
