------------------------------ MODULE RpcSession ------------------------------
(***************************************************************************)
(* What a persistent JSON-RPC session owes its callers, whatever language  *)
(* implements it.  A call is issued on one connection and ends exactly     *)
(* once: with the answer the peer gave to that very call, because its own  *)
(* connection went down, because its time ran out, or because it was never *)
(* sent.  The transports of the SDK are checked, or proved, to implement   *)
(* this contract; each says in its own module how its state maps to it.    *)
(***************************************************************************)
CONSTANTS Calls,   \* the calls ever made
          Conns,   \* the connections ever opened
          NoConn   \* "no connection"

VARIABLES status,  \* how far each call is
          link,    \* the connection a call was issued on
          life,    \* the life of each connection
          served   \* the calls the peer has answered

vars == <<status, link, life, served>>

Status == {"idle", "open", "answered", "closed", "expired", "unsent"}

TypeOK ==
  /\ status \in [Calls -> Status]
  /\ link \in [Calls -> Conns \cup {NoConn}]
  /\ life \in [Conns -> {"new", "up", "closing", "down"}]
  /\ served \subseteq Calls

Init ==
  /\ status = [c \in Calls |-> "idle"]
  /\ link = [c \in Calls |-> NoConn]
  /\ life = [n \in Conns |-> "new"]
  /\ served = {}

Become(c, s) == status' = [status EXCEPT ![c] = s]

Connect(n) ==
  /\ life[n] = "new"
  /\ life' = [life EXCEPT ![n] = "up"]
  /\ UNCHANGED <<status, link, served>>

\* The client has said that it wants to close; the peer may still answer.
Leave(n) ==
  /\ life[n] = "up"
  /\ life' = [life EXCEPT ![n] = "closing"]
  /\ UNCHANGED <<status, link, served>>

Disconnect(n) ==
  /\ life[n] \in {"up", "closing"}
  /\ life' = [life EXCEPT ![n] = "down"]
  /\ UNCHANGED <<status, link, served>>

\* A call is bound to a connection that exists; that connection may just have
\* gone down, which the caller cannot know.
Issue(c, n) ==
  /\ status[c] = "idle"
  /\ life[n] # "new"
  /\ Become(c, "open")
  /\ link' = [link EXCEPT ![c] = n]
  /\ UNCHANGED <<life, served>>

\* No connection could be had.
Refuse(c) ==
  /\ status[c] = "idle"
  /\ Become(c, "unsent")
  /\ UNCHANGED <<link, life, served>>

\* The peer answers a call it received, whether or not anyone still waits.
Serve(c) ==
  /\ link[c] # NoConn /\ life[link[c]] \in {"up", "closing"}
  /\ c \notin served
  /\ served' = served \cup {c}
  /\ UNCHANGED <<status, link, life>>

Answer(c) ==
  /\ status[c] = "open" /\ c \in served
  /\ Become(c, "answered")
  /\ UNCHANGED <<link, life, served>>

\* "Connection closed" is only ever said of the call's own connection.
Cut(c) ==
  /\ status[c] = "open"
  /\ link[c] # NoConn /\ life[link[c]] = "down"
  /\ Become(c, "closed")
  /\ UNCHANGED <<link, life, served>>

Expire(c) ==
  /\ status[c] = "open"
  /\ Become(c, "expired")
  /\ UNCHANGED <<link, life, served>>

FailSend(c) ==
  /\ status[c] = "open"
  /\ Become(c, "unsent")
  /\ UNCHANGED <<link, life, served>>

Next ==
  \/ \E n \in Conns : Connect(n) \/ Leave(n) \/ Disconnect(n)
  \/ \E c \in Calls, n \in Conns : Issue(c, n)
  \/ \E c \in Calls :
       \/ Refuse(c) \/ Serve(c) \/ Answer(c) \/ Cut(c)
       \/ Expire(c) \/ FailSend(c)

Spec == Init /\ [][Next]_vars
-------------------------------------------------------------------------------
(* The same without isolation between connections, which is all that the   *)
(* transports keep that route a socket's events to whatever session is     *)
(* current: a call may be accepted and sent nowhere, and the end of any    *)
(* connection may fail it.  It still ends once, and an answer is still its *)
(* own.                                                                    *)
IssueNowhere(c) ==
  /\ status[c] = "idle"
  /\ Become(c, "open")
  /\ UNCHANGED <<link, life, served>>

CutAll(S) ==
  /\ \E n \in Conns : life'[n] \in {"closing", "down"}
  /\ \A c \in S : status[c] = "open"
  /\ status' = [c \in Calls |-> IF c \in S THEN "closed" ELSE status[c]]
  /\ \A n \in Conns : life'[n] \in {life[n], "down"}
  /\ UNCHANGED <<link, served>>

SharedNext ==
  \/ Next
  \/ \E c \in Calls : IssueNowhere(c)
  \/ \E S \in SUBSET Calls : CutAll(S)

SharedSpec == Init /\ [][SharedNext]_vars
===============================================================================
