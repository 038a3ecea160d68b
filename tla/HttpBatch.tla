------------------------------- MODULE HttpBatch -------------------------------
(***************************************************************************)
(* JSON-RPC over HTTP: single requests and batches of one transport, in    *)
(* five languages (packages/typescript/src/transport/http.ts,              *)
(* packages/go/rpc.go, packages/rust/src/rpc.rs,                           *)
(* packages/python/src/erpc_sdk/transport.py,                              *)
(* packages/ruby/lib/erpc_sdk/transport.rb).                               *)
(*                                                                         *)
(* An exchange is one POST.  Several run at once; they share the transport *)
(* only through its id counter, from which threads take ids in any         *)
(* interleaving.  The five languages run in lock-step: each reads the same *)
(* reply, so that what they make of it can be compared.  A reply is what   *)
(* the parser of JSON made of the body: where parsers differ (text after   *)
(* the value, a member given twice, numbers beyond 64 bits, a limit of     *)
(* size) is left out.                                                      *)
(***************************************************************************)
EXTENDS Naturals, Sequences

CONSTANTS Exchanges,  \* calls of request() and batch()
          MaxBatch,   \* max_batch_size (256 in the code)
          MaxId,      \* bound on the ids taken
          MaxItems,   \* bound on the items of a reply
          Bodies,     \* what a response may say, of AllBodies
          NoCall

ASSUME BatchBounds ==
  MaxBatch \in Nat \ {0} /\ MaxId \in Nat /\ MaxItems \in Nat

Langs == {"typescript", "go", "rust", "python", "ruby"}
Calls == Exchanges \X (1..MaxBatch)

ASSUME NoCallIsOutside == NoCall \notin Calls

\* What the members of a response say, as far as some language tells it apart.
\* "part" is an error object without a code or a message (or with a null), "frac" one
\* whose code is a number but no integer, "bad" any other error that is neither null
\* nor an error object.  A "badVersion" is a jsonrpc member that is no string.
AllBodies ==
  {"result", "error", "both", "neither"}
    \cup {"nullError", "resultPartError", "resultBadError"} \* next to a result
    \cup {"partError", "badError", "fracError"}
    \cup {"badVersion", "errorBadVersion"}        \* of a result, of an error

ASSUME BodiesAreKnown == Bodies \subseteq AllBodies /\ "result" \in Bodies

NoId == 0              \* no id, or null: Go decodes it as 0, in an item that is null too
TextId == MaxId + 1    \* an id that is a string
ForeignId == MaxId + 2 \* a number this transport never took

\* "of", the call that is answered, is read by no action of the client.  A number in
\* an id is written as the integer it is: 1.0 and true are left out.
Item == [of : Calls \cup {NoCall}, id : 0..(MaxId + 2),
         body : Bodies \cup {"other"}]  \* "other": no object, and not null

\* A reply that is an array, or a single value.
Reply == [array : BOOLEAN, items : Seq(Item)]

Answered(items) == [kind |-> "results", items |-> items]
RpcError(item) == [kind |-> "rpc", items |-> <<item>>]
Invalid == [kind |-> "invalid", items |-> <<>>]
Failed == [kind |-> "failed", items |-> <<>>]   \* timeout, abort, HTTP status

Outcome == [kind : {"results", "rpc", "invalid", "failed"}, items : Seq(Item)]
NoReply == [array |-> FALSE, items |-> <<>>]

VARIABLES
  nextId,   \* the last id taken
  phase,    \* where each exchange is
  mode,     \* single or batch
  size,     \* number of its calls
  ids,      \* the ids of its requests, in caller order
  reply,    \* the reply that was read off the network
  outcome   \* what its caller gets, in each language

vars == <<nextId, phase, mode, size, ids, reply, outcome>>

TypeOK ==
  /\ nextId \in 0..MaxId
  /\ phase \in [Exchanges -> {"idle", "numbering", "posted", "delivered", "done"}]
  /\ mode \in [Exchanges -> {"single", "batch"}]
  /\ size \in [Exchanges -> 0..MaxBatch]
  /\ ids \in [Exchanges -> Seq(1..MaxId)]
  /\ \A x \in Exchanges : Len(ids[x]) <= size[x]
  /\ reply \in [Exchanges -> Reply]
  /\ outcome \in [Exchanges -> [Langs -> Outcome]]

Init ==
  /\ nextId = 0
  /\ phase = [x \in Exchanges |-> "idle"]
  /\ mode = [x \in Exchanges |-> "single"]
  /\ size = [x \in Exchanges |-> 0]
  /\ ids = [x \in Exchanges |-> <<>>]
  /\ reply = [x \in Exchanges |-> NoReply]
  /\ outcome = [x \in Exchanges |-> [l \in Langs |-> Failed]]
-------------------------------------------------------------------------------
(* How a reply is read.                                                    *)

IdsOf(items) == {items[j].id : j \in DOMAIN items}

\* Mutant: the check for duplicates is forgotten, so one of them is taken.
DistinctForgotten(items) == TRUE

Distinct(items) ==
  \A i, j \in DOMAIN items : items[i].id = items[j].id => i = j

\* Go decodes the whole body into typed values before it looks at any of it.
Undecodable ==
  {"other", "badError", "resultBadError", "fracError", "badVersion", "errorBadVersion"}

Decodable(item) == item.body \notin Undecodable /\ item.id # TextId

\* The scan that fills byId accepts the array.
Indexed(l, requested, items) ==
  /\ Distinct(items)
  /\ IF l = "go" THEN \A j \in DOMAIN items : Decodable(items[j])
     ELSE \A j \in DOMAIN items : items[j].body # "other" /\ items[j].id # NoId
  /\ l = "typescript" => IdsOf(items) \subseteq {requested[i] : i \in DOMAIN requested}

\* An error the caller gets.  Go decodes what an error object lacks as zero.
RpcErrors(l) ==
  {"error", "both"}
    \cup (IF l = "go" THEN {"partError", "resultPartError"} ELSE {"errorBadVersion"})
    \cup (IF l = "typescript" THEN {"fracError"} ELSE {})

\* A result the caller gets: next to an error only if the language ignores that error,
\* which TypeScript does with all that is no error object.
Results(l) ==
  {"result"} \cup CASE l = "typescript" -> {"nullError", "resultPartError",
                                           "resultBadError", "badVersion"}
                     [] l = "go"         -> {"nullError"}
                     [] OTHER            -> {"badVersion"}

\* What a response with the expected id amounts to.
Unwrap(l, body) ==
  CASE body \in RpcErrors(l) -> "rpc"
    [] body \in Results(l)   -> "results"
    [] OTHER                 -> "invalid"

ById(items, i) == items[CHOOSE j \in DOMAIN items : items[j].id = i]

Fate(l, items, i) ==
  IF i \in IdsOf(items) THEN Unwrap(l, ById(items, i).body) ELSE "invalid"

InCallerOrder(requested, items) ==
  [i \in DOMAIN requested |-> ById(items, requested[i])]

\* Mutant: what is left over in byId is not looked at.
LeftoverIgnored(requested, items) == FALSE

Leftover(requested, items) ==
  ~(IdsOf(items) \subseteq {requested[i] : i \in DOMAIN requested})

Least(S) == CHOOSE i \in S : \A j \in S : i <= j

\* The responses are collected in caller order; the first that is not a result
\* decides.  Only when all are is the rest looked at.
Collect(l, requested, items) ==
  LET bad == {i \in DOMAIN requested : Fate(l, items, requested[i]) # "results"}
  IN  IF bad # {}
        THEN LET i == requested[Least(bad)]
             IN  IF Fate(l, items, i) = "rpc" THEN RpcError(ById(items, i)) ELSE Invalid
        ELSE IF Leftover(requested, items) THEN Invalid
        ELSE Answered(InCallerOrder(requested, items))

\* A value that is no array: an error of the whole batch, for all but Go, which
\* cannot decode it.
ReadNoArray(l, item) ==
  IF l # "go" /\ item.body \in RpcErrors(l) THEN RpcError(item) ELSE Invalid

ReadBatch(l, requested, r) ==
  IF ~r.array THEN ReadNoArray(l, r.items[1])
  ELSE IF Indexed(l, requested, r.items) THEN Collect(l, requested, r.items)
  ELSE Invalid

ReadSingle(l, i, r) ==
  LET item == r.items[1]
  IN  IF r.array \/ item.id # i \/ item.body = "other" THEN Invalid
      ELSE CASE Unwrap(l, item.body) = "results" -> Answered(<<item>>)
             [] Unwrap(l, item.body) = "rpc"     -> RpcError(item)
             [] OTHER                            -> Invalid

Read(l, x) ==
  IF mode[x] = "single" THEN ReadSingle(l, ids[x][1], reply[x])
  ELSE ReadBatch(l, ids[x], reply[x])
-------------------------------------------------------------------------------
(* The exchanges.                                                          *)

Begin(x, m, n) ==
  /\ phase[x] = "idle"
  /\ phase' = [phase EXCEPT ![x] = "numbering"]
  /\ mode' = [mode EXCEPT ![x] = m]
  /\ size' = [size EXCEPT ![x] = n]
  /\ UNCHANGED <<nextId, ids, reply, outcome>>

Request(x) == Begin(x, "single", 1)

Batch(x) == \E n \in 1..MaxBatch : Begin(x, "batch", n)

\* A batch that never reaches the network: it is empty or too long.
Decline(x) ==
  /\ phase[x] = "idle"
  /\ phase' = [phase EXCEPT ![x] = "done"]
  /\ mode' = [mode EXCEPT ![x] = "batch"]
  /\ \E o \in {Answered(<<>>), Invalid} :
       outcome' = [outcome EXCEPT ![x] = [l \in Langs |-> o]]
  /\ UNCHANGED <<nextId, size, ids, reply>>

\* Mutant: every batch numbers its calls from 1.
FreshIdPerBatch(x) == Len(ids[x]) + 1

\* Mutant: the id is the counter before its increment, so the first one is 0.
FreshIdFromZero(x) == nextId

FreshId(x) == nextId + 1

TakeId(x) ==
  /\ phase[x] = "numbering" /\ Len(ids[x]) < size[x]
  /\ nextId < MaxId
  /\ nextId' = nextId + 1
  /\ ids' = [ids EXCEPT ![x] = Append(@, FreshId(x))]
  /\ UNCHANGED <<phase, mode, size, reply, outcome>>

Post(x) ==
  /\ phase[x] = "numbering" /\ Len(ids[x]) = size[x]
  /\ phase' = [phase EXCEPT ![x] = "posted"]
  /\ UNCHANGED <<nextId, mode, size, ids, reply, outcome>>

\* Timeout, abort, a status other than 2xx, no connection, no JSON.
Fail(x) ==
  /\ phase[x] = "posted"
  /\ phase' = [phase EXCEPT ![x] = "done"]
  /\ outcome' = [outcome EXCEPT ![x] = [l \in Langs |-> Failed]]
  /\ UNCHANGED <<nextId, mode, size, ids, reply>>

\* External: what servers and gateways send.  A response carries the id of the
\* request it answers; but it may be left out, repeated, or part of the reply to
\* another exchange, and there may be items that answer nothing.
Sent(y) == phase[y] \in {"posted", "delivered", "done"} /\ ids[y] # <<>>

Responses ==
  UNION {{[of |-> <<y, i>>, id |-> ids[y][i], body |-> b] :
            i \in DOMAIN ids[y], b \in Bodies} : y \in {z \in Exchanges : Sent(z)}}

Strays ==
  {[of |-> NoCall, id |-> i, body |-> "result"] : i \in {NoId, TextId, ForeignId}}
    \cup {[of |-> NoCall, id |-> NoId, body |-> b] : b \in Bodies \cup {"other"}}

Replies ==
  LET items == Responses \cup Strays
  IN  [array : {FALSE}, items : [{1} -> items]]
        \cup [array : {TRUE}, items : UNION {[1..n -> items] : n \in 0..MaxItems}]

\* What is done with a reply from here on is local to its exchange, so that one
\* at a time is enough.
Deliver(x) ==
  /\ phase[x] = "posted"
  /\ \A y \in Exchanges : phase[y] # "delivered"
  /\ phase' = [phase EXCEPT ![x] = "delivered"]
  /\ \E r \in Replies : reply' = [reply EXCEPT ![x] = r]
  /\ UNCHANGED <<nextId, mode, size, ids, outcome>>

Return(x) ==
  /\ phase[x] = "delivered"
  /\ phase' = [phase EXCEPT ![x] = "done"]
  /\ outcome' = [outcome EXCEPT ![x] = [l \in Langs |-> Read(l, x)]]
  /\ reply' = [reply EXCEPT ![x] = NoReply]
  /\ UNCHANGED <<nextId, mode, size, ids>>

Next ==
  \E x \in Exchanges :
    Request(x) \/ Batch(x) \/ Decline(x) \/ TakeId(x) \/ Post(x)
      \/ Fail(x) \/ Deliver(x) \/ Return(x)

Spec == Init /\ [][Next]_vars
-------------------------------------------------------------------------------
\* The n-th result a caller gets answers its n-th call, of this very exchange,
\* in every language, however replies are ordered, cut or mixed up.
OwnAnswers ==
  \A x \in Exchanges, l \in Langs :
    LET o == outcome[x][l]
    IN  o.kind = "results" =>
          /\ DOMAIN o.items = 1..size[x]
          /\ \A i \in 1..size[x] : o.items[i].of = <<x, i>>

\* JSON-RPC 2.0: a response has a result or an error.  A reply is complete when
\* it has one for each request and nothing else.
Complete(requested, items) ==
  /\ Len(items) = Len(requested)
  /\ IdsOf(items) = {requested[i] : i \in DOMAIN requested}
  /\ \A j \in DOMAIN items : items[j].body \in {"result", "error"}

FirstError(requested, items, o) ==
  \E i \in DOMAIN requested :
    /\ \E j \in DOMAIN items :
         items[j].id = requested[i] /\ items[j].body = "error" /\ o.items = <<items[j]>>
    /\ \A h \in 1..(i - 1), j \in DOMAIN items :
         items[j].id = requested[h] => items[j].body = "result"

\* A batch is answered only by a reply in which each request has exactly one
\* response and there is nothing else; and a complete reply, in any order, gives
\* all results, or the error of the first call that failed, in every language.
Faithful(requested, r, o) ==
  LET items == r.items
  IN  /\ o.kind = "results" =>
           /\ r.array /\ Len(items) = Len(requested)
           /\ IdsOf(items) = {requested[i] : i \in DOMAIN requested}
      /\ r.array /\ Complete(requested, items) =>
           IF \E j \in DOMAIN items : items[j].body = "error"
             THEN o.kind = "rpc" /\ FirstError(requested, items, o)
             ELSE o.kind = "results"

BatchesAreFaithful ==
  [][\A x \in Exchanges : phase[x] = "delivered" /\ mode[x] = "batch" /\ phase'[x] = "done" =>
       \A l \in Langs : Faithful(ids[x], reply[x], outcome'[x][l])]_vars

BodiesOf(items) == {items[j].body : j \in DOMAIN items}

\* Who gives results that were sent in such bodies.
Accepting(bodies) ==
  {"typescript"}
    \cup (IF bodies \subseteq {"result", "nullError"} THEN {"go"} ELSE {})
    \cup (IF bodies \subseteq {"result", "badVersion"} THEN {"rust", "python", "ruby"} ELSE {})

\* Nobody gives other results than another, and what one language gives and another
\* refuses is settled by two members of the responses: an error next to a result, which
\* TypeScript ignores unless it is an error object, Go if it is null, and nobody else;
\* and a jsonrpc that is no string, which all but Go ignore.  How the reply is cut,
\* ordered, mixed up or repeated makes no difference between them.
LanguagesAgree ==
  \A x \in Exchanges :
    LET accepted == {l \in Langs : outcome[x][l].kind = "results"}
    IN  \A l \in accepted :
          /\ \A m \in accepted : outcome[x][m] = outcome[x][l]
          /\ accepted = Accepting(BodiesOf(outcome[x][l].items))
===============================================================================
