-------------------------------- MODULE Delivery --------------------------------
(***************************************************************************)
(* What the streams of a subscription owe it.  A list of messages is what  *)
(* a client has returned, keeps, and is still to be sent, in this order.   *)
(* The notifications of a subscription are numbered from 1; a response has *)
(* no number.                                                              *)
(***************************************************************************)
EXTENDS Naturals, Sequences

IsOf(s, m) == m.of = s /\ m.seq # 0

\* The positions of the notifications of s.
Own(s, messages) == {i \in DOMAIN messages : IsOf(s, messages[i])}

\* They are the notifications 1 to n, each once and in order.
InOrder(s, messages, n) ==
  LET own == Own(s, messages)
  IN  /\ {messages[i].seq : i \in own} = 1..n
      /\ \A i, j \in own : i < j => messages[i].seq < messages[j].seq
===============================================================================
