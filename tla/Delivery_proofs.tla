---------------------------- MODULE Delivery_proofs ----------------------------
(***************************************************************************)
(* Lemmas about lists of messages, of any length: what keeps the           *)
(* notifications of a subscription complete and in order.                  *)
(***************************************************************************)
EXTENDS Delivery, SequenceTheorems, TLAPS

\* Taking the first message of one list to the end of another changes nothing.
LEMMA HandOver ==
  ASSUME NEW S, NEW a \in Seq(S), NEW b \in Seq(S), b # <<>>
  PROVE  Append(a, Head(b)) \o Tail(b) = a \o b
OBVIOUS

\* Nor does it in the middle.
LEMMA MovedOn ==
  ASSUME NEW S, NEW a \in Seq(S), NEW b \in Seq(S), NEW c \in Seq(S), c # <<>>,
         NEW s, NEW n, InOrder(s, a \o b \o c, n)
  PROVE  InOrder(s, a \o Append(b, Head(c)) \o Tail(c), n)
<1>1. a \o b \in Seq(S) /\ a \o Append(b, Head(c)) = Append(a \o b, Head(c))
  OBVIOUS
<1>2. Append(a \o b, Head(c)) \o Tail(c) = (a \o b) \o c
  BY <1>1, HandOver
<1> QED
  BY <1>1, <1>2

\* Nor do lists that hold nothing.
LEMMA EmptyMoves ==
  ASSUME NEW S, NEW b \in Seq(S), NEW c \in Seq(S), NEW s, NEW n,
         InOrder(s, <<>> \o <<>> \o b \o c, n)
  PROVE  InOrder(s, <<>> \o b \o <<>> \o c, n)
<1>1. <<>> \o <<>> \o b \o c = <<>> \o b \o <<>> \o c
  OBVIOUS
<1> QED
  BY <1>1

LEMMA EmptyGoes ==
  ASSUME NEW S, NEW a \in Seq(S), NEW c \in Seq(S), NEW s, NEW n
  PROVE  InOrder(s, a \o <<>> \o c, n) <=> InOrder(s, a \o c, n)
<1>1. a \o <<>> \o c = a \o c
  OBVIOUS
<1> QED
  BY <1>1

\* Where the messages of a list are once another is put between them.
LEMMA Shifted ==
  ASSUME NEW S, NEW a \in Seq(S), NEW b \in Seq(S), NEW m \in S
  PROVE  LET short == a \o b
             long == a \o <<m>> \o b
             at(i) == IF i <= Len(a) THEN i ELSE i + 1
         IN  /\ short \in Seq(S) /\ long \in Seq(S)
             /\ long[Len(a) + 1] = m
             /\ \A i \in DOMAIN short : at(i) \in DOMAIN long /\ long[at(i)] = short[i]
             /\ \A j \in DOMAIN long : j # Len(a) + 1 => \E i \in DOMAIN short : j = at(i)
<1> DEFINE short == a \o b
           long == a \o <<m>> \o b
           at(i) == IF i <= Len(a) THEN i ELSE i + 1
<1>1. /\ short \in Seq(S) /\ Len(short) = Len(a) + Len(b)
      /\ \A i \in 1..Len(short) :
           short[i] = IF i <= Len(a) THEN a[i] ELSE b[i - Len(a)]
  BY ConcatProperties
<1>2. /\ a \o <<m>> \in Seq(S) /\ Len(a \o <<m>>) = Len(a) + 1
      /\ \A i \in 1..Len(a) + 1 : (a \o <<m>>)[i] = IF i <= Len(a) THEN a[i] ELSE m
  OBVIOUS
<1>3. /\ long \in Seq(S) /\ Len(long) = Len(a) + 1 + Len(b)
      /\ \A i \in 1..Len(long) :
           long[i] = IF i <= Len(a) + 1 THEN (a \o <<m>>)[i] ELSE b[i - (Len(a) + 1)]
  BY <1>2, ConcatProperties
<1>4. Len(a) \in Nat /\ Len(b) \in Nat
  OBVIOUS
<1> HIDE DEF short, long
<1>5. DOMAIN short = 1..Len(short) /\ DOMAIN long = 1..Len(long)
  BY <1>1, <1>3
<1>6. long[Len(a) + 1] = m
  BY <1>2, <1>3, <1>4
<1>7. ASSUME NEW i \in DOMAIN short
      PROVE  at(i) \in DOMAIN long /\ long[at(i)] = short[i]
  <2>1. CASE i <= Len(a)
    BY <1>1, <1>2, <1>3, <1>4, <1>5, <2>1
  <2>2. CASE ~(i <= Len(a))
    <3>1. i + 1 \in 1..Len(long) /\ ~(i + 1 <= Len(a) + 1) /\ i + 1 - (Len(a) + 1) = i - Len(a)
      BY <1>1, <1>3, <1>4, <1>5, <2>2
    <3> QED
      BY <1>1, <1>3, <1>5, <2>2, <3>1
  <2> QED
    BY <2>1, <2>2
<1>8. ASSUME NEW j \in DOMAIN long, j # Len(a) + 1
      PROVE  \E i \in DOMAIN short : j = at(i)
  <2>1. CASE j <= Len(a)
    BY <1>1, <1>3, <1>4, <1>5, <2>1
  <2>2. CASE ~(j <= Len(a))
    <3>1. j - 1 \in DOMAIN short /\ ~(j - 1 <= Len(a)) /\ (j - 1) + 1 = j
      BY <1>1, <1>3, <1>4, <1>5, <1>8, <2>2
    <3> QED
      BY <3>1
  <2> QED
    BY <2>1, <2>2
<1> QED
  BY <1>1, <1>3, <1>6, <1>7, <1>8 DEF short, long

\* A message that is none of its own neither breaks the order of a subscription nor
\* makes it.
LEMMA OthersDoNotCount ==
  ASSUME NEW S, NEW a \in Seq(S), NEW b \in Seq(S), NEW m \in S, NEW s, NEW n,
         ~IsOf(s, m)
  PROVE  InOrder(s, a \o <<m>> \o b, n) <=> InOrder(s, a \o b, n)
<1> DEFINE short == a \o b
           long == a \o <<m>> \o b
           p == Len(a)
           at(i) == IF i <= p THEN i ELSE i + 1
<1>1. /\ short \in Seq(S) /\ long \in Seq(S) /\ long[p + 1] = m
      /\ \A i \in DOMAIN short : at(i) \in DOMAIN long /\ long[at(i)] = short[i]
      /\ \A j \in DOMAIN long : j # p + 1 => \E i \in DOMAIN short : j = at(i)
  BY Shifted
<1>2. DOMAIN short \subseteq Nat /\ p \in Nat
  BY <1>1
<1> HIDE DEF short, long, p
<1>3. \A i \in Own(s, short) : at(i) \in Own(s, long) /\ long[at(i)] = short[i]
  BY <1>1 DEF Own
<1>4. \A j \in Own(s, long) : \E i \in Own(s, short) : j = at(i)
  BY <1>1 DEF Own
<1>5. \A i, j \in Own(s, short) : i < j <=> at(i) < at(j)
  BY <1>2 DEF Own
<1> HIDE DEF at
<1>6. {long[j].seq : j \in Own(s, long)} = {short[i].seq : i \in Own(s, short)}
  BY <1>3, <1>4
<1>7. (\A i, j \in Own(s, long) : i < j => long[i].seq < long[j].seq)
        <=> (\A i, j \in Own(s, short) : i < j => short[i].seq < short[j].seq)
  BY <1>3, <1>4, <1>5
<1> QED
  BY <1>6, <1>7 DEF InOrder, short, long

\* So it is when the message comes last, or in the middle.
LEMMA OtherAtTheEnd ==
  ASSUME NEW S, NEW a \in Seq(S), NEW b \in Seq(S), NEW m \in S, NEW s, NEW n,
         ~IsOf(s, m), InOrder(s, a \o b, n)
  PROVE  InOrder(s, a \o Append(b, m), n)
<1>1. a \o b \in Seq(S) /\ <<>> \in Seq(S)
  OBVIOUS
<1>2. (a \o b) \o <<>> = a \o b /\ a \o Append(b, m) = (a \o b) \o <<m>> \o <<>>
  OBVIOUS
<1>3. InOrder(s, (a \o b) \o <<m>> \o <<>>, n)
  BY <1>1, <1>2, OthersDoNotCount
<1> QED
  BY <1>2, <1>3

LEMMA OtherInTheMiddle ==
  ASSUME NEW S, NEW a \in Seq(S), NEW b \in Seq(S), NEW c \in Seq(S), NEW m \in S,
         NEW s, NEW n, ~IsOf(s, m), InOrder(s, a \o b \o c, n)
  PROVE  InOrder(s, a \o Append(b, m) \o c, n)
<1>1. a \o b \in Seq(S) /\ a \o Append(b, m) = (a \o b) \o <<m>>
  OBVIOUS
<1>2. InOrder(s, (a \o b) \o <<m>> \o c, n)
  BY <1>1, OthersDoNotCount
<1> QED
  BY <1>1, <1>2

\* The first message of a list may go if it is none of its own.
LEMMA OtherTaken ==
  ASSUME NEW S, NEW a \in Seq(S), NEW b \in Seq(S), b # <<>>, NEW s, NEW n,
         ~IsOf(s, Head(b)), InOrder(s, a \o b, n)
  PROVE  InOrder(s, a \o Tail(b), n)
<1>1. Head(b) \in S /\ Tail(b) \in Seq(S) /\ a \o b = a \o <<Head(b)>> \o Tail(b)
  OBVIOUS
<1>2. InOrder(s, a \o <<Head(b)>> \o Tail(b), n)
  BY <1>1
<1> QED
  BY <1>1, <1>2, OthersDoNotCount

\* So may the first of a list in the middle.
LEMMA OtherSkipped ==
  ASSUME NEW S, NEW a \in Seq(S), NEW b \in Seq(S), b # <<>>, NEW c \in Seq(S), NEW s, NEW n,
         ~IsOf(s, Head(b)), InOrder(s, a \o b \o c, n)
  PROVE  InOrder(s, a \o Tail(b) \o c, n)
<1>1. Head(b) \in S /\ Tail(b) \in Seq(S) /\ Tail(b) \o c \in Seq(S)
  OBVIOUS
<1>2. a \o b \o c = a \o <<Head(b)>> \o (Tail(b) \o c)
  OBVIOUS
<1>3. a \o (Tail(b) \o c) = a \o Tail(b) \o c
  OBVIOUS
<1>4. InOrder(s, a \o <<Head(b)>> \o (Tail(b) \o c), n)
  BY <1>2
<1>5. InOrder(s, a \o (Tail(b) \o c), n)
  BY <1>1, <1>4, OthersDoNotCount
<1> QED
  BY <1>3, <1>5

\* The start of a list holds nothing that the list does not.
LEMMA CutShort ==
  ASSUME NEW S, NEW q \in Seq(S), NEW n \in Nat, n <= Len(q)
  PROVE  Range(SubSeq(q, 1, n)) \subseteq Range(q)
<1>1. \A i \in DOMAIN SubSeq(q, 1, n) : i \in DOMAIN q /\ SubSeq(q, 1, n)[i] = q[i]
  OBVIOUS
<1> QED
  BY <1>1 DEF Range

\* What a list holds after a message was put at its end or taken from its head.
LEMMA HeldAfter ==
  ASSUME NEW S, NEW q \in Seq(S)
  PROVE  /\ \A m \in S : Append(q, m) \in Seq(S) /\ Range(Append(q, m)) = Range(q) \cup {m}
         /\ q # <<>> => /\ Head(q) \in Range(q) /\ Tail(q) \in Seq(S)
                        /\ Range(Tail(q)) \subseteq Range(q)
<1>1. ASSUME NEW m \in S
      PROVE  Append(q, m) \in Seq(S) /\ Range(Append(q, m)) = Range(q) \cup {m}
  <2>1. /\ DOMAIN Append(q, m) = DOMAIN q \cup {Len(q) + 1}
        /\ Append(q, m)[Len(q) + 1] = m
        /\ \A i \in DOMAIN q : Append(q, m)[i] = q[i]
    OBVIOUS
  <2>2. Append(q, m) \in Seq(S)
    OBVIOUS
  <2> QED
    BY <2>1, <2>2 DEF Range
<1>2. ASSUME q # <<>>
      PROVE  Head(q) \in Range(q) /\ Tail(q) \in Seq(S) /\ Range(Tail(q)) \subseteq Range(q)
  <2>1. /\ Head(q) = q[1] /\ 1 \in DOMAIN q /\ Tail(q) \in Seq(S)
        /\ \A i \in DOMAIN Tail(q) : i + 1 \in DOMAIN q /\ Tail(q)[i] = q[i + 1]
    BY <1>2
  <2> QED
    BY <2>1 DEF Range
<1> QED
  BY <1>1, <1>2

\* Where nothing is of a subscription, nothing is of it in the whole.
LEMMA NothingOfIt ==
  ASSUME NEW S, NEW a \in Seq(S), NEW b \in Seq(S), NEW c \in Seq(S), NEW s,
         \A m \in Range(a) \cup Range(b) \cup Range(c) : ~IsOf(s, m)
  PROVE  Own(s, a \o b \o c) = {}
<1>1. /\ Len(a) \in Nat /\ Len(b) \in Nat /\ Len(c) \in Nat
      /\ DOMAIN a = 1..Len(a) /\ DOMAIN b = 1..Len(b) /\ DOMAIN c = 1..Len(c)
      /\ DOMAIN (a \o b \o c) = 1..(Len(a) + Len(b) + Len(c))
  OBVIOUS
<1>2. ASSUME NEW i \in DOMAIN (a \o b \o c)
      PROVE  ~IsOf(s, (a \o b \o c)[i])
  <2>1. CASE i <= Len(a)
    <3>1. (a \o b \o c)[i] = a[i] /\ i \in DOMAIN a
      BY <1>1, <2>1
    <3> QED
      BY <3>1 DEF Range
  <2>2. CASE i > Len(a) /\ i <= Len(a) + Len(b)
    <3>1. (a \o b \o c)[i] = b[i - Len(a)] /\ i - Len(a) \in DOMAIN b
      BY <1>1, <2>2
    <3> QED
      BY <3>1 DEF Range
  <2>3. CASE i > Len(a) + Len(b)
    <3>1. /\ (a \o b \o c)[i] = c[i - (Len(a) + Len(b))]
          /\ i - (Len(a) + Len(b)) \in DOMAIN c
      BY <1>1, <2>3
    <3> QED
      BY <3>1 DEF Range
  <2> QED
    BY <1>1, <2>1, <2>2, <2>3
<1> QED
  BY <1>2 DEF Own

LEMMA HeldByBoth ==
  ASSUME NEW S, NEW a \in Seq(S), NEW b \in Seq(S)
  PROVE  a \o b \in Seq(S) /\ Range(a \o b) \subseteq Range(a) \cup Range(b)
<1>1. /\ a \o b \in Seq(S) /\ Len(a) \in Nat /\ Len(b) \in Nat
      /\ DOMAIN a = 1..Len(a) /\ DOMAIN b = 1..Len(b)
      /\ DOMAIN (a \o b) = 1..(Len(a) + Len(b))
  OBVIOUS
<1>2. ASSUME NEW i \in DOMAIN (a \o b)
      PROVE  (a \o b)[i] \in Range(a) \cup Range(b)
  <2>1. CASE i <= Len(a)
    <3>1. (a \o b)[i] = a[i] /\ i \in DOMAIN a
      BY <1>1, <2>1
    <3> QED
      BY <3>1 DEF Range
  <2>2. CASE i > Len(a)
    <3>1. (a \o b)[i] = b[i - Len(a)] /\ i - Len(a) \in DOMAIN b
      BY <1>1, <2>2
    <3> QED
      BY <3>1 DEF Range
  <2> QED
    BY <1>1, <2>1, <2>2
<1> QED
  BY <1>1, <1>2 DEF Range

\* A subscription of which there is no notification has all of none.
LEMMA NoneIsInOrder ==
  ASSUME NEW s, NEW messages, Own(s, messages) = {}
  PROVE  InOrder(s, messages, 0)
BY DEF InOrder

\* The end of the last of two lists is the end of both.
LEMMA AppendedTo ==
  ASSUME NEW S, NEW a \in Seq(S), NEW b \in Seq(S), NEW m \in S, NEW s, NEW n,
         InOrder(s, Append(a \o b, m), n)
  PROVE  InOrder(s, a \o Append(b, m), n)
<1>1. Append(a \o b, m) = a \o Append(b, m)
  OBVIOUS
<1> QED
  BY <1>1

\* The next notification goes to the end.
LEMMA NextInOrder ==
  ASSUME NEW S, NEW messages \in Seq(S), NEW m \in S, NEW s, NEW n \in Nat,
         InOrder(s, messages, n), m.of = s, m.seq = n + 1
  PROVE  InOrder(s, Append(messages, m), n + 1)
<1> DEFINE longer == Append(messages, m)
           l == Len(messages) + 1
<1>1. /\ l \in Nat /\ DOMAIN longer = DOMAIN messages \cup {l} /\ longer[l] = m
      /\ \A i \in DOMAIN messages : i < l /\ i \in Nat /\ longer[i] = messages[i]
  OBVIOUS
<1> HIDE DEF longer, l
<1>2. Own(s, longer) = Own(s, messages) \cup {l}
  BY <1>1 DEF Own, IsOf
<1>3. /\ l \notin Own(s, messages)
      /\ \A i \in Own(s, messages) : i < l /\ i \in Nat /\ longer[i] = messages[i]
  BY <1>1 DEF Own
<1>4. {messages[i].seq : i \in Own(s, messages)} = 1..n
  BY DEF InOrder
<1>5. \A i \in Own(s, messages) : messages[i].seq \in 1..n
  BY <1>4
<1>6. {longer[i].seq : i \in Own(s, longer)} = 1..(n + 1)
  <2>1. {longer[i].seq : i \in Own(s, longer)} = 1..n \cup {n + 1}
    BY <1>1, <1>2, <1>3, <1>4
  <2> QED
    BY <2>1
<1>7. ASSUME NEW i \in Own(s, longer), NEW j \in Own(s, longer), i < j
      PROVE  longer[i].seq < longer[j].seq
  <2>1. i \in Own(s, messages)
    BY <1>1, <1>2, <1>3, <1>7
  <2>2. CASE j = l
    <3>1. longer[i].seq \in 1..n /\ longer[j].seq = n + 1
      BY <1>1, <1>3, <1>5, <2>1, <2>2
    <3> QED
      BY <3>1
  <2>3. CASE j \in Own(s, messages)
    BY <1>3, <1>7, <2>1, <2>3 DEF InOrder
  <2> QED
    BY <1>2, <2>2, <2>3
<1> QED
  BY <1>6, <1>7 DEF InOrder, longer
===============================================================================
