---------------------------- MODULE HttpBatch_proofs ----------------------------
(***************************************************************************)
(* Proofs about HttpBatch: what reading a reply gives, for replies of any  *)
(* length and batches of any size, and the invariants of the exchanges.    *)
(***************************************************************************)
EXTENDS HttpBatch, FiniteSets, Functions, FunctionTheorems, FiniteSetTheorems,
        WellFoundedInduction, TLAPS

-------------------------------------------------------------------------------
(* Lemmas about the operators.                                             *)

\* The response found under an id is one of the reply and has that id.
LEMMA ByIdFinds ==
  ASSUME NEW items \in Seq(Item), NEW i \in IdsOf(items)
  PROVE  \E j \in DOMAIN items :
           items[j].id = i /\ ById(items, i) = items[j] /\ ById(items, i) \in Item
<1> DEFINE p == CHOOSE j \in DOMAIN items : items[j].id = i
<1>1. \E j \in DOMAIN items : items[j].id = i
  BY DEF IdsOf
<1>2. p \in DOMAIN items /\ items[p].id = i
  BY <1>1
<1>3. items[p] \in Item
  BY <1>2
<1>4. ById(items, i) = items[p]
  BY DEF ById
<1> QED
  BY <1>2, <1>3, <1>4

\* A set of naturals that is not empty has a least element.
LEMMA LeastExists ==
  ASSUME NEW S \in SUBSET Nat, S # {}
  PROVE  Least(S) \in S /\ \A j \in S : Least(S) <= j
<1>1. IsWellFoundedOn(OpToRel(<, Nat), Nat)
  BY NatLessThanWellFounded
<1>2. PICK x \in S : \A y \in S : ~(<<y, x>> \in OpToRel(<, Nat))
  BY <1>1, WFMin
<1>3. \A y \in S : <<y, x>> \in Nat \X Nat /\ x \in Nat /\ y \in Nat
  OBVIOUS
<1>4. \A y \in S : ~(y < x)
  BY <1>2, <1>3 DEF OpToRel
<1>5. \A y \in S : x <= y
  BY <1>3, <1>4
<1> QED
  BY <1>5 DEF Least

\* The ids of the requests of one exchange are different.
NoRepeat(requested) ==
  \A i, j \in DOMAIN requested : requested[i] = requested[j] => i = j

\* An accepted array has, for each request, exactly one response, which its
\* caller gets, and has nothing else.
LEMMA CollectedAnswers ==
  ASSUME NEW l \in Langs, NEW requested \in Seq(1..MaxId), NEW items \in Seq(Item),
         Collect(l, requested, items).kind = "results"
  PROVE  /\ Collect(l, requested, items) = Answered(InCallerOrder(requested, items))
         /\ \A i \in DOMAIN requested : requested[i] \in IdsOf(items)
         /\ IdsOf(items) = {requested[i] : i \in DOMAIN requested}
<1> DEFINE bad == {i \in DOMAIN requested : Fate(l, items, requested[i]) # "results"}
           first == requested[Least(bad)]
<1>1. bad = {}
  BY DEF Collect, RpcError, Invalid
<1>2. ~Leftover(requested, items)
  BY <1>1 DEF Collect, Invalid
<1>3. \A i \in DOMAIN requested : Fate(l, items, requested[i]) = "results"
  BY <1>1
<1>4. \A i \in DOMAIN requested : requested[i] \in IdsOf(items)
  BY <1>3 DEF Fate
<1>5. Collect(l, requested, items) = Answered(InCallerOrder(requested, items))
  BY <1>1, <1>2 DEF Collect
<1>6. IdsOf(items) \subseteq {requested[i] : i \in DOMAIN requested}
  BY <1>2 DEF Leftover
<1> QED
  BY <1>4, <1>5, <1>6

\* Two lists without repetition of the same ids are equally long.
LEMMA SameIdsSameLength ==
  ASSUME NEW requested \in Seq(1..MaxId), NEW items \in Seq(Item),
         NoRepeat(requested), Distinct(items),
         IdsOf(items) = {requested[i] : i \in DOMAIN requested}
  PROVE  Len(items) = Len(requested)
<1> DEFINE n == Len(items)
           m == Len(requested)
           f == [j \in 1..n |-> CHOOSE i \in 1..m : requested[i] = items[j].id]
           g == [i \in 1..m |-> CHOOSE j \in 1..n : items[j].id = requested[i]]
<1>1. n \in Nat /\ m \in Nat /\ DOMAIN items = 1..n /\ DOMAIN requested = 1..m
  OBVIOUS
<1>2. \A j \in 1..n : \E i \in 1..m : requested[i] = items[j].id
  BY <1>1 DEF IdsOf
<1>3. \A i \in 1..m : \E j \in 1..n : items[j].id = requested[i]
  BY <1>1 DEF IdsOf
<1>4. \A j \in 1..n : f[j] \in 1..m /\ requested[f[j]] = items[j].id
  BY <1>2
<1>5. \A i \in 1..m : g[i] \in 1..n /\ items[g[i]].id = requested[i]
  BY <1>3
<1>6. f \in Injection(1..n, 1..m)
  <2>1. f \in [1..n -> 1..m]
    BY <1>4
  <2>2. \A a, b \in 1..n : f[a] = f[b] => a = b
    BY <1>1, <1>4 DEF Distinct
  <2> HIDE DEF f
  <2> QED
    BY <2>1, <2>2 DEF Injection, IsInjective
<1>7. g \in Injection(1..m, 1..n)
  <2>1. g \in [1..m -> 1..n]
    BY <1>5
  <2>2. \A a, b \in 1..m : g[a] = g[b] => a = b
    BY <1>1, <1>5 DEF NoRepeat
  <2> HIDE DEF g
  <2> QED
    BY <2>1, <2>2 DEF Injection, IsInjective
<1>8. n <= m
  BY <1>1, <1>6, Fun_NatInjLeq DEF ExistsInjection
<1>9. m <= n
  BY <1>1, <1>7, Fun_NatInjLeq DEF ExistsInjection
<1>10. n = m
  <2> HIDE DEF f, g, n, m
  <2> QED
    BY <1>1, <1>8, <1>9
<1> QED
  BY <1>10

\* As many items as requests, and an item for each: none is a duplicate.
LEMMA CompleteIsDistinct ==
  ASSUME NEW requested \in Seq(1..MaxId), NEW items \in Seq(Item),
         NoRepeat(requested), Complete(requested, items)
  PROVE  Distinct(items)
<1> DEFINE n == Len(items)
           T == IdsOf(items)
           f == [j \in 1..n |-> items[j].id]
           g == [i \in 1..n |-> requested[i]]
<1>1. n \in Nat /\ DOMAIN items = 1..n /\ DOMAIN requested = 1..n
  BY DEF Complete
<1>2. T = {items[j].id : j \in 1..n} /\ T = {requested[i] : i \in 1..n}
  BY <1>1 DEF Complete, IdsOf
<1>3. f \in Surjection(1..n, T)
  BY <1>2 DEF Surjection
<1>4. g \in Surjection(1..n, T)
  BY <1>2 DEF Surjection
<1>5. g \in Injection(1..n, T)
  <2>1. g \in [1..n -> T]
    BY <1>2
  <2>2. \A a, b \in 1..n : g[a] = g[b] => a = b
    BY <1>1 DEF NoRepeat
  <2> HIDE DEF g, T
  <2> QED
    BY <2>1, <2>2 DEF Injection, IsInjective
<1>6. IsFiniteSet(1..n)
  BY <1>1, FS_Interval
<1>7. Cardinality(T) = Cardinality(1..n)
  <2> HIDE DEF g, T, n
  <2> QED
    BY <1>4, <1>5, <1>6, FS_Surjection
<1>8. f \in Injection(1..n, T)
  <2> HIDE DEF f, T, n
  <2> QED
    BY <1>3, <1>6, <1>7, FS_Surjection
<1>9. \A a, b \in 1..n : f[a] = f[b] => a = b
  <2> HIDE DEF f, T, n
  <2> QED
    BY <1>8, Fun_InjectionProperties
<1> QED
  BY <1>1, <1>9 DEF Distinct

\* A complete reply is indexed by every language, whatever its order.
LEMMA CompleteIsIndexed ==
  ASSUME NEW l \in Langs, NEW requested \in Seq(1..MaxId), NEW items \in Seq(Item),
         Distinct(items), Complete(requested, items)
  PROVE  Indexed(l, requested, items)
<1>1. \A j \in DOMAIN items : items[j].id \in 1..MaxId
  <2>1. \A i \in DOMAIN requested : requested[i] \in 1..MaxId
    <3> DEFINE Numbers == 1..MaxId
    <3>1. requested \in Seq(Numbers)
      OBVIOUS
    <3> HIDE DEF Numbers
    <3>2. \A i \in DOMAIN requested : requested[i] \in Numbers
      BY <3>1
    <3> QED
      BY <3>2 DEF Numbers
  <2>2. \A j \in DOMAIN items : \E i \in DOMAIN requested : items[j].id = requested[i]
    BY DEF Complete, IdsOf
  <2> QED
    BY <2>1, <2>2
<1>2. \A j \in DOMAIN items :
        items[j].body \in {"result", "error"} /\ items[j].id # NoId /\ items[j].id # TextId
  BY <1>1, BatchBounds DEF Complete, NoId, TextId
<1> QED
  BY <1>2 DEF Indexed, Decodable, Undecodable, Complete

\* What a complete reply gives: all results, or the error of the first call that
\* failed.
LEMMA CompleteIsCollected ==
  ASSUME NEW l \in Langs, NEW requested \in Seq(1..MaxId), NEW items \in Seq(Item),
         NoRepeat(requested), Distinct(items), Complete(requested, items)
  PROVE  IF \E j \in DOMAIN items : items[j].body = "error"
           THEN /\ Collect(l, requested, items).kind = "rpc"
                /\ FirstError(requested, items, Collect(l, requested, items))
           ELSE Collect(l, requested, items).kind = "results"
<1> DEFINE bad == {i \in DOMAIN requested : Fate(l, items, requested[i]) # "results"}
<1>1. \A i \in DOMAIN requested : \E j \in DOMAIN items :
        /\ items[j].id = requested[i] /\ ById(items, requested[i]) = items[j]
        /\ Fate(l, items, requested[i]) = Unwrap(l, items[j].body)
  <2> SUFFICES ASSUME NEW i \in DOMAIN requested
               PROVE  \E j \in DOMAIN items :
                        /\ items[j].id = requested[i]
                        /\ ById(items, requested[i]) = items[j]
                        /\ Fate(l, items, requested[i]) = Unwrap(l, items[j].body)
    OBVIOUS
  <2>1. requested[i] \in IdsOf(items)
    BY DEF Complete
  <2>2. PICK j \in DOMAIN items :
          items[j].id = requested[i] /\ ById(items, requested[i]) = items[j]
    BY <2>1, ByIdFinds
  <2> QED
    BY <2>1, <2>2 DEF Fate
<1>2. \A j \in DOMAIN items :
        /\ items[j].body \in {"result", "error"}
        /\ items[j].body = "error" => Unwrap(l, items[j].body) = "rpc"
        /\ items[j].body = "result" => Unwrap(l, items[j].body) = "results"
  BY DEF Complete, Unwrap, RpcErrors, Results
<1>3. \A i \in DOMAIN requested, j \in DOMAIN items :
        items[j].id = requested[i] =>
          /\ i \in bad <=> items[j].body = "error"
          /\ i \in bad => Fate(l, items, requested[i]) = "rpc"
          /\ ById(items, requested[i]) = items[j]
  <2> SUFFICES ASSUME NEW i \in DOMAIN requested, NEW j \in DOMAIN items,
                      items[j].id = requested[i]
               PROVE  /\ i \in bad <=> items[j].body = "error"
                      /\ i \in bad => Fate(l, items, requested[i]) = "rpc"
                      /\ ById(items, requested[i]) = items[j]
    OBVIOUS
  <2>1. ById(items, requested[i]) = items[j]
        /\ Fate(l, items, requested[i]) = Unwrap(l, items[j].body)
    BY <1>1 DEF Distinct
  <2>2. i \in bad <=> Fate(l, items, requested[i]) # "results"
    OBVIOUS
  <2>3. items[j].body = "error" => Fate(l, items, requested[i]) = "rpc"
    BY <2>1, <1>2
  <2>4. items[j].body # "error" => Fate(l, items, requested[i]) = "results"
    BY <2>1, <1>2
  <2> HIDE DEF bad
  <2> QED
    BY <2>1, <2>2, <2>3, <2>4
<1>4. ~Leftover(requested, items)
  BY DEF Complete, Leftover
<1>5. CASE bad = {}
  <2>1. Collect(l, requested, items).kind = "results"
    BY <1>4, <1>5 DEF Collect, Answered
  <2>2. \A j \in DOMAIN items : items[j].body # "error"
    <3> SUFFICES ASSUME NEW j \in DOMAIN items PROVE items[j].body # "error"
      OBVIOUS
    <3>1. PICK i \in DOMAIN requested : requested[i] = items[j].id
      BY DEF Complete, IdsOf
    <3> QED
      BY <3>1, <1>3, <1>5
  <2> QED
    BY <2>1, <2>2
<1>6. CASE bad # {}
  <2> DEFINE i == Least(bad)
  <2>1. bad \in SUBSET Nat
    OBVIOUS
  <2>2. i \in bad /\ \A h \in bad : i <= h
    BY <2>1, <1>6, LeastExists
  <2>3. PICK j \in DOMAIN items : items[j].id = requested[i]
    BY <2>2, <1>1
  <2>4. items[j].body = "error" /\ ById(items, requested[i]) = items[j]
        /\ Fate(l, items, requested[i]) = "rpc"
    BY <2>2, <2>3, <1>3
  <2>5. Collect(l, requested, items) = RpcError(items[j])
    BY <1>6, <2>4 DEF Collect
  <2>6. \A h \in 1..(i - 1) : h \in DOMAIN requested /\ h \notin bad
    <3>1. i \in 1..Len(requested)
      BY <2>2
    <3>2. \A h \in 1..(i - 1) : h \in 1..Len(requested) /\ ~(i <= h)
      BY <3>1
    <3> HIDE DEF i, bad
    <3> QED
      BY <2>2, <3>2
  <2>7. \A h \in 1..(i - 1), k \in DOMAIN items :
          items[k].id = requested[h] => items[k].body = "result"
    <3> HIDE DEF i, bad
    <3> SUFFICES ASSUME NEW h \in 1..(i - 1), NEW k \in DOMAIN items,
                        items[k].id = requested[h]
                 PROVE  items[k].body = "result"
      OBVIOUS
    <3>1. h \in DOMAIN requested /\ h \notin bad
      BY <2>6
    <3>2. items[k].body # "error"
      BY <3>1, <1>3
    <3> QED
      BY <3>2, <1>2
  <2>8. FirstError(requested, items, RpcError(items[j]))
    <3>1. i \in DOMAIN requested
      BY <2>2
    <3>2. RpcError(items[j]).items = <<items[j]>>
      BY DEF RpcError
    <3> HIDE DEF i, bad
    <3> QED
      BY <3>1, <3>2, <2>3, <2>4, <2>7 DEF FirstError
  <2>9. RpcError(items[j]).kind = "rpc"
    BY DEF RpcError
  <2> QED
    BY <2>4, <2>5, <2>8, <2>9
<1> QED
  BY <1>5, <1>6

\* Reading a batch is faithful in every language.
LEMMA ReadIsFaithful ==
  ASSUME NEW l \in Langs, NEW requested \in Seq(1..MaxId), NEW r \in Reply,
         NoRepeat(requested)
  PROVE  Faithful(requested, r, ReadBatch(l, requested, r))
<1> DEFINE items == r.items
           o == ReadBatch(l, requested, r)
<1>1. items \in Seq(Item)
  BY DEF Reply
<1>2. ASSUME o.kind = "results"
      PROVE  /\ r.array /\ Len(items) = Len(requested)
             /\ IdsOf(items) = {requested[i] : i \in DOMAIN requested}
  <2>1. r.array /\ Indexed(l, requested, items)
    BY <1>2 DEF ReadBatch, ReadNoArray, RpcError, Invalid
  <2>2. Collect(l, requested, items).kind = "results"
    BY <1>2, <2>1 DEF ReadBatch
  <2>3. IdsOf(items) = {requested[i] : i \in DOMAIN requested}
    BY <1>1, <2>2, CollectedAnswers
  <2>4. Distinct(items)
    BY <2>1 DEF Indexed
  <2> QED
    BY <1>1, <2>1, <2>3, <2>4, SameIdsSameLength
<1>3. ASSUME r.array, Complete(requested, items)
      PROVE  IF \E j \in DOMAIN items : items[j].body = "error"
               THEN o.kind = "rpc" /\ FirstError(requested, items, o)
               ELSE o.kind = "results"
  <2>1. Distinct(items)
    BY <1>1, <1>3, CompleteIsDistinct
  <2>2. Indexed(l, requested, items)
    BY <1>1, <1>3, <2>1, CompleteIsIndexed
  <2>3. o = Collect(l, requested, items)
    BY <1>3, <2>2 DEF ReadBatch
  <2> QED
    BY <1>1, <1>3, <2>1, <2>3, CompleteIsCollected
<1> QED
  BY <1>2, <1>3 DEF Faithful

\* What is read from a well-typed reply is a well-typed outcome, whose results, if
\* there are any, come from items of the reply with the expected ids.
LEMMA ReadBatchResult ==
  ASSUME NEW l \in Langs, NEW requested \in Seq(1..MaxId), NEW r \in Reply,
         ~r.array => Len(r.items) = 1
  PROVE  LET o == ReadBatch(l, requested, r)
         IN  /\ o \in Outcome
             /\ o.kind = "results" =>
                  /\ DOMAIN o.items = 1..Len(requested)
                  /\ \A i \in 1..Len(requested) :
                       /\ o.items[i].id = requested[i]
                       /\ \E j \in DOMAIN r.items : o.items[i] = r.items[j]
<1> DEFINE o == ReadBatch(l, requested, r)
           items == r.items
<1>1. items \in Seq(Item) /\ DOMAIN requested = 1..Len(requested)
  BY DEF Reply
<1>2. \A it \in Item : RpcError(it) \in Outcome /\ RpcError(it).kind # "results"
  BY DEF RpcError, Outcome
<1>3. Invalid \in Outcome /\ Invalid.kind # "results"
  BY DEF Invalid, Outcome
<1>4. CASE ~r.array
  <2>1. items[1] \in Item
    BY <1>1, <1>4
  <2>2. o = RpcError(items[1]) \/ o = Invalid
    BY <1>4 DEF ReadBatch, ReadNoArray
  <2> QED
    BY <2>1, <2>2, <1>2, <1>3
<1>5. CASE r.array /\ ~Indexed(l, requested, items)
  BY <1>3, <1>5 DEF ReadBatch
<1>6. CASE r.array /\ Indexed(l, requested, items)
  <2>1. o = Collect(l, requested, items)
    BY <1>6 DEF ReadBatch
  <2>2. CASE Collect(l, requested, items).kind = "results"
    <3>1. /\ o = Answered(InCallerOrder(requested, items))
          /\ \A i \in DOMAIN requested : requested[i] \in IdsOf(items)
      BY <1>1, <2>1, <2>2, CollectedAnswers
    <3>2. \A i \in 1..Len(requested) :
            /\ ById(items, requested[i]) \in Item
            /\ ById(items, requested[i]).id = requested[i]
            /\ \E j \in DOMAIN items : ById(items, requested[i]) = items[j]
      BY <1>1, <3>1, ByIdFinds
    <3>3. InCallerOrder(requested, items) = [i \in 1..Len(requested) |-> ById(items, requested[i])]
      BY <1>1 DEF InCallerOrder
    <3>4. InCallerOrder(requested, items) \in Seq(Item)
      BY <3>2, <3>3
    <3>5. o.items = InCallerOrder(requested, items) /\ o \in Outcome
      BY <3>1, <3>4 DEF Answered, Outcome
    <3> QED
      BY <3>2, <3>3, <3>5
  <2>3. CASE Collect(l, requested, items).kind # "results"
    <3> DEFINE bad == {i \in DOMAIN requested : Fate(l, items, requested[i]) # "results"}
               k == requested[Least(bad)]
    <3>1. o = Invalid \/ (Fate(l, items, k) = "rpc" /\ o = RpcError(ById(items, k)))
      BY <2>1, <2>3 DEF Collect, Answered
    <3>2. Fate(l, items, k) = "rpc" => k \in IdsOf(items)
      BY DEF Fate
    <3>3. Fate(l, items, k) = "rpc" => ById(items, k) \in Item
      BY <1>1, <3>2, ByIdFinds
    <3> QED
      BY <3>1, <3>3, <1>2, <1>3
  <2> QED
    BY <2>2, <2>3
<1> QED
  BY <1>4, <1>5, <1>6

LEMMA ReadSingleResult ==
  ASSUME NEW l \in Langs, NEW i \in 1..MaxId, NEW r \in Reply,
         ~r.array => Len(r.items) = 1
  PROVE  LET o == ReadSingle(l, i, r)
         IN  /\ o \in Outcome
             /\ o.kind = "results" =>
                  /\ DOMAIN o.items = 1..1
                  /\ o.items[1].id = i
                  /\ \E j \in DOMAIN r.items : o.items[1] = r.items[j]
<1> DEFINE o == ReadSingle(l, i, r)
           item == r.items[1]
<1>1. r.items \in Seq(Item)
  BY DEF Reply
<1>2. Invalid \in Outcome /\ Invalid.kind # "results"
  BY DEF Invalid, Outcome
<1>3. CASE r.array \/ item.id # i \/ item.body = "other"
  BY <1>2, <1>3 DEF ReadSingle
<1>4. CASE ~(r.array \/ item.id # i \/ item.body = "other")
  <2>1. item \in Item /\ 1 \in DOMAIN r.items
    BY <1>1, <1>4
  <2>2. RpcError(item) \in Outcome /\ RpcError(item).kind # "results"
    BY <2>1 DEF RpcError, Outcome
  <2>3. <<item>> \in Seq(Item) /\ DOMAIN <<item>> = 1..1 /\ <<item>>[1] = item
    BY <2>1
  <2>4. Answered(<<item>>) \in Outcome /\ Answered(<<item>>).items = <<item>>
    BY <2>3 DEF Answered, Outcome
  <2>5. o \in {Answered(<<item>>), RpcError(item), Invalid}
    BY <1>4 DEF ReadSingle
  <2> QED
    BY <2>1, <2>2, <2>3, <2>4, <2>5, <1>2, <1>4
<1> QED
  BY <1>3, <1>4
-------------------------------------------------------------------------------
(* The inductive invariant.                                                *)

\* A batch is posted with all its ids, a single request is one call.
Sized ==
  \A x \in Exchanges :
    /\ phase[x] = "idle" => size[x] = 0
    /\ phase[x] # "idle" /\ mode[x] = "single" => size[x] = 1
    /\ phase[x] \in {"posted", "delivered"} => Len(ids[x]) = size[x]
    /\ phase[x] \in {"numbering", "posted", "delivered"} => size[x] >= 1

\* Until it is done, nobody has got anything.
Early == \A x \in Exchanges : phase[x] # "done" => outcome[x] = [l \in Langs |-> Failed]

\* The transport gives no id twice.
Numbered ==
  /\ \A x \in Exchanges : \A i \in DOMAIN ids[x] : ids[x][i] <= nextId
  /\ \A x, y \in Exchanges : \A i \in DOMAIN ids[x], j \in DOMAIN ids[y] :
       ids[x][i] = ids[y][j] => x = y /\ i = j

\* An item answers the call whose id it carries, or carries no id of ours.
IsHonest(item) ==
  IF item.of = NoCall THEN item.id \notin 1..MaxId
  ELSE /\ item.of[2] \in DOMAIN ids[item.of[1]]
       /\ item.id = ids[item.of[1]][item.of[2]]

Honest ==
  \A x \in Exchanges : phase[x] = "delivered" =>
    /\ ~reply[x].array => Len(reply[x].items) = 1
    /\ \A j \in DOMAIN reply[x].items : IsHonest(reply[x].items[j])

IInv == TypeOK /\ Sized /\ Early /\ Numbered /\ Honest /\ OwnAnswers

LEMMA InitInv == Init => IInv
<1> SUFFICES ASSUME Init PROVE IInv
  OBVIOUS
<1> USE BatchBounds DEF Init
<1>1. Failed \in Outcome /\ Failed.kind # "results"
  BY DEF Failed, Outcome
<1>2. NoReply \in Reply
  BY DEF NoReply, Reply
<1>3. TypeOK
  BY <1>1, <1>2 DEF TypeOK
<1> QED
  BY <1>1, <1>3 DEF IInv, Sized, Early, Numbered, Honest, OwnAnswers

\* The results of an exchange that is not done are none.
LEMMA NothingEarly ==
  ASSUME Early, NEW x \in Exchanges, phase[x] # "done", NEW l \in Langs
  PROVE  outcome[x][l] = Failed /\ outcome[x][l].kind # "results"
BY DEF Early, Failed

\* An item with an id of one of our requests answers that request.
LEMMA HonestItem ==
  ASSUME TypeOK, Numbered, NEW item \in Item, IsHonest(item),
         NEW x \in Exchanges, NEW i \in DOMAIN ids[x], item.id = ids[x][i]
  PROVE  item.of = <<x, i>>
<1>1. ids[x] \in Seq(1..MaxId) /\ ids[x][i] \in 1..MaxId
  <2> DEFINE Numbers == 1..MaxId
  <2>1. ids[x] \in Seq(Numbers)
    BY DEF TypeOK
  <2> HIDE DEF Numbers
  <2>2. ids[x][i] \in Numbers
    BY <2>1
  <2> QED
    BY <2>1, <2>2 DEF Numbers
<1>2. item.of # NoCall
  BY <1>1 DEF IsHonest
<1>3. item.of \in Exchanges \X (1..MaxBatch)
  BY <1>2 DEF Item, Calls
<1>4. PICK y \in Exchanges, k \in 1..MaxBatch : item.of = <<y, k>>
  BY <1>3
<1>5. k \in DOMAIN ids[y] /\ ids[y][k] = ids[x][i]
  BY <1>2, <1>4 DEF IsHonest
<1>6. y = x /\ k = i
  BY <1>5 DEF Numbered
<1> QED
  BY <1>4, <1>6

LEMMA BeginStep ==
  ASSUME IInv, NEW x \in Exchanges,
         NEW m \in {"single", "batch"}, NEW n \in 1..MaxBatch, m = "single" => n = 1,
         Begin(x, m, n)
  PROVE  IInv'
<1> USE BatchBounds DEF IInv, Begin
<1>1. TypeOK'
  <2>1. Len(ids[x]) <= 0
    BY DEF TypeOK, Sized
  <2> QED
    BY <2>1 DEF TypeOK
<1>2. Sized' /\ Early'
  BY DEF TypeOK, Sized, Early
<1>3. Numbered' /\ Honest'
  BY DEF TypeOK, Numbered, Honest, IsHonest
<1>4. OwnAnswers'
  <2> SUFFICES ASSUME NEW y \in Exchanges, NEW l \in Langs, outcome[y][l].kind = "results"
               PROVE  size'[y] = size[y]
    BY DEF OwnAnswers
  <2>1. y # x
    BY NothingEarly DEF TypeOK
  <2> QED
    BY <2>1 DEF TypeOK
<1> QED
  BY <1>1, <1>2, <1>3, <1>4

LEMMA DeclineStep ==
  ASSUME IInv, NEW x \in Exchanges, Decline(x)
  PROVE  IInv'
<1> USE BatchBounds DEF IInv, Decline
<1>1. PICK o \in {Answered(<<>>), Invalid} :
        outcome' = [outcome EXCEPT ![x] = [l \in Langs |-> o]]
  OBVIOUS
<1>2. o \in Outcome /\ o.items = <<>>
  <2>1. <<>> \in Seq(Item)
    OBVIOUS
  <2>2. Answered(<<>>) \in Outcome /\ Answered(<<>>).items = <<>>
    BY <2>1 DEF Answered, Outcome
  <2>3. Invalid \in Outcome /\ Invalid.items = <<>>
    BY <2>1 DEF Invalid, Outcome
  <2> QED
    BY <2>2, <2>3
<1>3. TypeOK'
  BY <1>1, <1>2 DEF TypeOK
<1>4. Sized' /\ Early'
  BY <1>1 DEF TypeOK, Sized, Early
<1>5. Numbered' /\ Honest'
  BY DEF TypeOK, Numbered, Honest, IsHonest
<1>6. OwnAnswers'
  <2> SUFFICES ASSUME NEW y \in Exchanges, NEW l \in Langs, outcome'[y][l].kind = "results"
               PROVE  /\ DOMAIN outcome'[y][l].items = 1..size'[y]
                      /\ \A i \in 1..size'[y] : outcome'[y][l].items[i].of = <<y, i>>
    BY DEF OwnAnswers
  <2>1. CASE y = x
    <3>1. outcome'[y][l] = o /\ size'[y] = 0
      BY <1>1, <2>1 DEF TypeOK, Sized
    <3> QED
      BY <3>1, <1>2
  <2>2. CASE y # x
    BY <1>1, <2>2 DEF TypeOK, OwnAnswers
  <2> QED
    BY <2>1, <2>2
<1> QED
  BY <1>3, <1>4, <1>5, <1>6

LEMMA TakeIdStep ==
  ASSUME IInv, NEW x \in Exchanges, TakeId(x)
  PROVE  IInv'
<1> USE BatchBounds DEF IInv, TakeId, FreshId
<1> DEFINE new == Append(ids[x], nextId + 1)
           k == Len(ids[x]) + 1
<1>1. ids[x] \in Seq(1..MaxId) /\ Len(ids[x]) \in Nat /\ nextId \in Nat
  BY DEF TypeOK
<1>2. /\ ids' = [ids EXCEPT ![x] = new] /\ new \in Seq(1..MaxId)
      /\ DOMAIN new = 1..k /\ new[k] = nextId + 1 /\ Len(new) = k
      /\ \A i \in DOMAIN ids[x] : i \in DOMAIN new /\ new[i] = ids[x][i]
      /\ \A i \in DOMAIN new : i = k \/ i \in DOMAIN ids[x]
  BY <1>1 DEF TypeOK
<1>3. \A y \in Exchanges : ids'[y] = IF y = x THEN new ELSE ids[y]
  BY <1>2 DEF TypeOK
<1>4. TypeOK'
  <2>1. ids' \in [Exchanges -> Seq(1..MaxId)]
    BY <1>2 DEF TypeOK
  <2>2. \A y \in Exchanges : Len(ids'[y]) <= size[y]
    BY <1>2, <1>3 DEF TypeOK
  <2> QED
    BY <2>1, <2>2 DEF TypeOK
<1>5. Sized' /\ Early'
  BY <1>3 DEF Sized, Early
<1>6. Numbered'
  <2> DEFINE old(y, i) == i \in DOMAIN ids[y] /\ ids'[y][i] = ids[y][i] /\ ids[y][i] <= nextId
             fresh(y, i) == y = x /\ i = k /\ ids'[y][i] = nextId + 1
  <2>1. \A y \in Exchanges : \A i \in DOMAIN ids'[y] : old(y, i) \/ fresh(y, i)
    BY <1>2, <1>3 DEF Numbered
  <2>2. \A y \in Exchanges : \A i \in DOMAIN ids[y] : ids[y][i] \in Nat
    <3> SUFFICES ASSUME NEW y \in Exchanges, NEW i \in DOMAIN ids[y]
                 PROVE  ids[y][i] \in Nat
      OBVIOUS
    <3> DEFINE Numbers == 1..MaxId
    <3>1. ids[y] \in Seq(Numbers)
      BY DEF TypeOK
    <3> HIDE DEF Numbers
    <3>2. ids[y][i] \in Numbers
      BY <3>1
    <3> QED
      BY <3>2 DEF Numbers
  <2>3. \A y \in Exchanges : \A i \in DOMAIN ids'[y] : ids'[y][i] <= nextId'
    BY <1>1, <2>1, <2>2
  <2>4. ASSUME NEW y \in Exchanges, NEW z \in Exchanges,
               NEW i \in DOMAIN ids'[y], NEW j \in DOMAIN ids'[z],
               ids'[y][i] = ids'[z][j]
        PROVE  y = z /\ i = j
    <3>1. CASE old(y, i) /\ old(z, j)
      BY <2>4, <3>1 DEF Numbered
    <3>2. CASE fresh(y, i) /\ fresh(z, j)
      BY <3>2
    <3>3. ~(old(y, i) /\ fresh(z, j)) /\ ~(fresh(y, i) /\ old(z, j))
      BY <1>1, <2>2, <2>4
    <3> QED
      BY <2>1, <3>1, <3>2, <3>3
  <2> QED
    BY <2>3, <2>4 DEF Numbered
<1>7. Honest'
  <2> SUFFICES ASSUME NEW y \in Exchanges, phase[y] = "delivered",
                      NEW j \in DOMAIN reply[y].items
               PROVE  IsHonest(reply[y].items[j])'
    BY DEF Honest
  <2> DEFINE item == reply[y].items[j]
  <2>1. item \in Item /\ IsHonest(item)
    BY DEF Honest, TypeOK, Reply
  <2>2. item.of # NoCall => item.of[1] \in Exchanges
    BY <2>1 DEF Item, Calls
  <2> QED
    BY <1>2, <1>3, <2>1, <2>2 DEF IsHonest
<1>8. OwnAnswers'
  BY DEF OwnAnswers
<1> QED
  BY <1>4, <1>5, <1>6, <1>7, <1>8

LEMMA PostStep ==
  ASSUME IInv, NEW x \in Exchanges, Post(x)
  PROVE  IInv'
<1> USE BatchBounds DEF IInv, Post
<1>1. TypeOK' /\ Early' /\ Numbered' /\ Honest' /\ OwnAnswers'
  BY DEF TypeOK, Early, Numbered, Honest, IsHonest, OwnAnswers
<1>2. Sized'
  BY DEF TypeOK, Sized
<1> QED
  BY <1>1, <1>2

LEMMA FailStep ==
  ASSUME IInv, NEW x \in Exchanges, Fail(x)
  PROVE  IInv'
<1> USE BatchBounds DEF IInv, Fail
<1>1. Failed \in Outcome /\ Failed.kind # "results"
  BY DEF Failed, Outcome
<1>2. TypeOK'
  BY <1>1 DEF TypeOK
<1>3. Sized' /\ Early' /\ Numbered' /\ Honest'
  BY DEF TypeOK, Sized, Early, Numbered, Honest, IsHonest
<1>4. OwnAnswers'
  BY <1>1 DEF TypeOK, OwnAnswers
<1> QED
  BY <1>2, <1>3, <1>4

LEMMA DeliverStep ==
  ASSUME IInv, NEW x \in Exchanges, Deliver(x)
  PROVE  IInv'
<1> USE BatchBounds DEF IInv, Deliver
<1>1. PICK r \in Replies : reply' = [reply EXCEPT ![x] = r]
  OBVIOUS
<1> DEFINE items == Responses \cup Strays
<1>2. \A item \in items : item \in Item /\ IsHonest(item)
  <2>1. ASSUME NEW item \in Responses PROVE item \in Item /\ IsHonest(item)
    <3>0. PICK y \in Exchanges : \E i \in DOMAIN ids[y], b \in Bodies :
            item = [of |-> <<y, i>>, id |-> ids[y][i], body |-> b]
      BY <2>1 DEF Responses
    <3>1. PICK i \in DOMAIN ids[y], b \in Bodies :
            item = [of |-> <<y, i>>, id |-> ids[y][i], body |-> b]
      BY <3>0
    <3>2. ids[y] \in Seq(1..MaxId) /\ Len(ids[y]) <= MaxBatch
      BY DEF TypeOK
    <3>3. ids[y][i] \in 1..MaxId
      <4> DEFINE Numbers == 1..MaxId
      <4>1. ids[y] \in Seq(Numbers)
        BY <3>2
      <4> HIDE DEF Numbers
      <4>2. ids[y][i] \in Numbers
        BY <4>1
      <4> QED
        BY <4>2 DEF Numbers
    <3>4. <<y, i>> \in Calls
      BY <3>2 DEF Calls
    <3>5. item \in Item
      BY <3>1, <3>3, <3>4 DEF Item
    <3>6. item.of = <<y, i>> /\ item.of # NoCall
      BY <3>1, <3>4, NoCallIsOutside
    <3> QED
      BY <3>1, <3>5, <3>6 DEF IsHonest
  <2>2. ASSUME NEW item \in Strays PROVE item \in Item /\ IsHonest(item)
    <3>1. item.of = NoCall /\ item.id \in {NoId, TextId, ForeignId}
      BY <2>2 DEF Strays
    <3>2. \A i \in {NoId, TextId, ForeignId} : i \in 0..(MaxId + 2) /\ i \notin 1..MaxId
      BY DEF NoId, TextId, ForeignId
    <3>3. item \in Item
      BY <2>2, <3>2, BodiesAreKnown DEF Strays, Item
    <3> QED
      BY <3>1, <3>2, <3>3 DEF IsHonest
  <2> QED
    BY <2>1, <2>2
<1>3. /\ r \in Reply
      /\ ~r.array => Len(r.items) = 1
      /\ \A j \in DOMAIN r.items : IsHonest(r.items[j])
  <2>1. items \subseteq Item
    BY <1>2
  <2> HIDE DEF items
  <2>2. CASE r \in [array : {FALSE}, items : [{1} -> items]]
    <3>1. r.array = FALSE /\ r.items \in [{1} -> items]
      BY <2>2
    <3>2. {1} = 1..1
      OBVIOUS
    <3>3. r.items \in [1..1 -> Item]
      BY <2>1, <3>1, <3>2
    <3>4. r.items \in Seq(Item) /\ Len(r.items) = 1
      <4>1. \A n \in Nat : \A f \in [1..n -> Item] : f \in Seq(Item) /\ Len(f) = n
        OBVIOUS
      <4> QED
        BY <3>3, <4>1
    <3>5. r \in Reply
      BY <2>2, <3>1, <3>4 DEF Reply
    <3> QED
      BY <1>2, <3>1, <3>4, <3>5
  <2>3. CASE r \in [array : {TRUE}, items : UNION {[1..n -> items] : n \in 0..MaxItems}]
    <3>1. PICK n \in 0..MaxItems : r.items \in [1..n -> items]
      BY <2>3
    <3>2. r.items \in [1..n -> Item] /\ n \in Nat
      BY <2>1, <3>1
    <3>3. r.items \in Seq(Item)
      BY <3>2
    <3>4. r \in Reply /\ r.array
      BY <2>3, <3>3 DEF Reply
    <3> QED
      BY <1>2, <3>1, <3>4
  <2> QED
    BY <2>2, <2>3 DEF Replies, items
<1>4. TypeOK'
  BY <1>1, <1>3 DEF TypeOK
<1>5. Sized' /\ Early' /\ Numbered'
  BY DEF TypeOK, Sized, Early, Numbered
<1>6. Honest'
  <2> SUFFICES ASSUME NEW y \in Exchanges, phase'[y] = "delivered"
               PROVE  /\ ~reply'[y].array => Len(reply'[y].items) = 1
                      /\ \A j \in DOMAIN reply'[y].items : IsHonest(reply'[y].items[j])
    BY DEF Honest, IsHonest
  <2>1. y = x
    BY DEF TypeOK
  <2>2. reply'[y] = r
    BY <1>1, <2>1 DEF TypeOK
  <2> QED
    BY <1>3, <2>2
<1>7. OwnAnswers'
  BY DEF OwnAnswers
<1> QED
  BY <1>4, <1>5, <1>6, <1>7

\* What the reader of a delivered reply gets.
LEMMA ReadIsOwn ==
  ASSUME IInv, NEW x \in Exchanges, phase[x] = "delivered", NEW l \in Langs
  PROVE  LET o == Read(l, x)
         IN  /\ o \in Outcome
             /\ o.kind = "results" =>
                  /\ DOMAIN o.items = 1..size[x]
                  /\ \A i \in 1..size[x] : o.items[i].of = <<x, i>>
<1> USE BatchBounds DEF IInv
<1> DEFINE o == Read(l, x)
           r == reply[x]
<1>1. /\ ids[x] \in Seq(1..MaxId) /\ Len(ids[x]) = size[x] /\ size[x] \in Nat
      /\ size[x] >= 1 /\ DOMAIN ids[x] = 1..size[x]
  BY DEF TypeOK, Sized
<1>2. /\ r \in Reply /\ (~r.array => Len(r.items) = 1)
      /\ \A j \in DOMAIN r.items : r.items[j] \in Item /\ IsHonest(r.items[j])
  BY DEF TypeOK, Honest, Reply
<1>3. /\ o \in Outcome
      /\ o.kind = "results" =>
           /\ DOMAIN o.items = 1..size[x]
           /\ \A i \in 1..size[x] :
                /\ o.items[i].id = ids[x][i]
                /\ \E j \in DOMAIN r.items : o.items[i] = r.items[j]
  <2>1. CASE mode[x] = "single"
    <3>1. size[x] = 1
      BY <2>1 DEF Sized
    <3>2. ids[x][1] \in 1..MaxId
      <4> DEFINE Numbers == 1..MaxId
      <4>1. ids[x] \in Seq(Numbers) /\ 1 \in DOMAIN ids[x]
        BY <1>1
      <4> HIDE DEF Numbers
      <4>2. ids[x][1] \in Numbers
        BY <4>1
      <4> QED
        BY <4>2 DEF Numbers
    <3>3. o = ReadSingle(l, ids[x][1], r)
      BY <2>1 DEF Read
    <3> HIDE DEF o, r
    <3> QED
      BY <1>2, <3>1, <3>2, <3>3, ReadSingleResult
  <2>2. CASE mode[x] # "single"
    <3>1. o = ReadBatch(l, ids[x], r)
      BY <2>2 DEF Read
    <3> HIDE DEF o, r
    <3> QED
      BY <1>1, <1>2, <3>1, ReadBatchResult
  <2> QED
    BY <2>1, <2>2
<1>4. ASSUME o.kind = "results", NEW i \in 1..size[x]
      PROVE  o.items[i].of = <<x, i>>
  <2>1. PICK j \in DOMAIN r.items : o.items[i] = r.items[j]
    BY <1>3, <1>4
  <2>2. r.items[j] \in Item /\ IsHonest(r.items[j]) /\ r.items[j].id = ids[x][i]
    BY <1>2, <1>3, <1>4, <2>1
  <2>3. i \in DOMAIN ids[x]
    BY <1>1
  <2> HIDE DEF o, r
  <2> QED
    BY <2>1, <2>2, <2>3, HonestItem
<1> HIDE DEF o
<1> QED
  BY <1>3, <1>4 DEF o

LEMMA ReturnStep ==
  ASSUME IInv, NEW x \in Exchanges, Return(x)
  PROVE  IInv'
<1> USE BatchBounds DEF IInv, Return
<1>1. NoReply \in Reply
  BY DEF NoReply, Reply
<1>2. [l \in Langs |-> Read(l, x)] \in [Langs -> Outcome]
  BY ReadIsOwn
<1>3. TypeOK'
  BY <1>1, <1>2 DEF TypeOK
<1>4. Sized' /\ Early' /\ Numbered'
  BY DEF TypeOK, Sized, Early, Numbered
<1>5. Honest'
  <2>1. \A y \in Exchanges : phase'[y] = "delivered" =>
          phase[y] = "delivered" /\ reply'[y] = reply[y]
    BY DEF TypeOK
  <2>2. ids' = ids
    OBVIOUS
  <2>3. Honest
    OBVIOUS
  <2> QED
    BY ONLY <2>1, <2>2, <2>3 DEF Honest, IsHonest
<1>6. OwnAnswers'
  <2> SUFFICES ASSUME NEW y \in Exchanges, NEW l \in Langs, outcome'[y][l].kind = "results"
               PROVE  /\ DOMAIN outcome'[y][l].items = 1..size[y]
                      /\ \A i \in 1..size[y] : outcome'[y][l].items[i].of = <<y, i>>
    BY DEF OwnAnswers
  <2>1. CASE y = x
    <3>1. outcome'[y][l] = Read(l, x)
      BY <2>1 DEF TypeOK
    <3> QED
      BY <2>1, <3>1, ReadIsOwn
  <2>2. CASE y # x
    BY <2>2 DEF TypeOK, OwnAnswers
  <2> QED
    BY <2>1, <2>2
<1> QED
  BY <1>3, <1>4, <1>5, <1>6

LEMMA NextInv == IInv /\ [Next]_vars => IInv'
<1> SUFFICES ASSUME IInv, [Next]_vars PROVE IInv'
  OBVIOUS
<1>1. CASE UNCHANGED vars
  BY <1>1 DEF vars, IInv, TypeOK, Sized, Early, Numbered, Honest, IsHonest, OwnAnswers
<1>2. ASSUME NEW x \in Exchanges, Request(x) PROVE IInv'
  BY <1>2, BatchBounds, BeginStep DEF Request
<1>3. ASSUME NEW x \in Exchanges, Batch(x) PROVE IInv'
  BY <1>3, BeginStep DEF Batch
<1> QED
  BY <1>1, <1>2, <1>3, DeclineStep, TakeIdStep, PostStep, FailStep, DeliverStep,
     ReturnStep DEF Next

THEOREM Invariant == Spec => []IInv
BY InitInv, NextInv, PTL DEF Spec

\* Every exchange's record is of its type, whatever the replies.
THEOREM BatchTypeCorrect == Spec => []TypeOK
BY Invariant, PTL DEF IInv

\* For any number of exchanges, batches of any size and replies of any length:
\* the n-th result answers the n-th call.
THEOREM ResultsAreOwn == Spec => []OwnAnswers
BY Invariant, PTL DEF IInv

LEMMA ReadStepIsFaithful ==
  ASSUME IInv, [Next]_vars, NEW x \in Exchanges,
         phase[x] = "delivered", mode[x] = "batch", phase'[x] = "done", NEW l \in Langs
  PROVE  Faithful(ids[x], reply[x], outcome'[x][l])
<1>1. Return(x)
  <2>1. phase \in [Exchanges -> {"idle", "numbering", "posted", "delivered", "done"}]
    BY DEF IInv, TypeOK
  <2>2. phase'[x] # phase[x]
    OBVIOUS
  <2>3. PICK y \in Exchanges :
          Request(y) \/ Batch(y) \/ Decline(y) \/ TakeId(y) \/ Post(y)
            \/ Fail(y) \/ Deliver(y) \/ Return(y)
    BY <2>2 DEF Next, vars
  <2>4. y = x
    BY <2>1, <2>2, <2>3
       DEF Request, Batch, Begin, Decline, TakeId, Post, Fail, Deliver, Return
  <2> QED
    BY <2>3, <2>4
       DEF Request, Batch, Begin, Decline, TakeId, Post, Fail, Deliver
<1>2. outcome'[x][l] = ReadBatch(l, ids[x], reply[x])
  BY <1>1 DEF Return, Read, IInv, TypeOK
<1>3. ids[x] \in Seq(1..MaxId) /\ reply[x] \in Reply
  BY DEF IInv, TypeOK
<1>4. NoRepeat(ids[x])
  BY DEF NoRepeat, IInv, Numbered
<1> QED
  BY <1>2, <1>3, <1>4, ReadIsFaithful

\* A batch is answered only by exactly one response per request, and a complete
\* reply, in any order, gives all results or the first error, in every language.
THEOREM BatchesFaithful == Spec => BatchesAreFaithful
<1>1. IInv /\ [Next]_vars =>
        [\A x \in Exchanges :
           phase[x] = "delivered" /\ mode[x] = "batch" /\ phase'[x] = "done" =>
             \A l \in Langs : Faithful(ids[x], reply[x], outcome'[x][l])]_vars
  BY ReadStepIsFaithful
<1> QED
  BY <1>1, Invariant, PTL DEF Spec, BatchesAreFaithful
-------------------------------------------------------------------------------
(* The languages accept the same replies, but for two members of a         *)
(* response.                                                               *)

\* A result is unwrapped from those bodies and from no other.
LEMMA ResultsAreUnwrapped ==
  ASSUME NEW l \in Langs, NEW body
  PROVE  Unwrap(l, body) = "results" <=> body \in Results(l)
<1>1. CASE body \in RpcErrors(l)
  BY <1>1 DEF Unwrap, RpcErrors, Results
<1>2. CASE body \notin RpcErrors(l)
  BY <1>2 DEF Unwrap
<1> QED
  BY <1>1, <1>2

\* What all but TypeScript take for a result, it takes for one too; and only Go, which
\* takes less, decodes a body before it looks at its ids.
LEMMA ResultsOf ==
  /\ \A l \in Langs : "other" \notin Results(l) /\ Results(l) \subseteq Results("typescript")
  /\ Results("go") = {"result", "nullError"}
  /\ \A l \in {"rust", "python", "ruby"} : Results(l) = {"result", "badVersion"}
  /\ Results("go") \cap Undecodable = {}
BY DEF Results, Langs, Undecodable

\* An array that every language accepts but for the bodies.
Matching(requested, items) ==
  Distinct(items) /\ IdsOf(items) = {requested[i] : i \in DOMAIN requested}

\* What is found under the id of an item is that item.
LEMMA ByIdIsTheOne ==
  ASSUME NEW items, Distinct(items), NEW j \in DOMAIN items
  PROVE  ById(items, items[j].id) = items[j] /\ items[j].id \in IdsOf(items)
BY DEF ById, Distinct, IdsOf

\* A matching array is read as results exactly when all its bodies are results.
LEMMA MatchingIsAccepted ==
  ASSUME NEW l \in Langs, NEW requested \in Seq(1..MaxId), NEW r \in Reply
  PROVE  LET o == ReadBatch(l, requested, r)
         IN  /\ o.kind = "results" <=>
                  /\ r.array /\ Matching(requested, r.items)
                  /\ \A j \in DOMAIN r.items : r.items[j].body \in Results(l)
             /\ o.kind = "results" => o = Answered(InCallerOrder(requested, r.items))
<1> DEFINE items == r.items
           o == ReadBatch(l, requested, r)
<1>1. items \in Seq(Item)
  BY DEF Reply
<1>2. ASSUME o.kind = "results"
      PROVE  /\ r.array /\ Matching(requested, items)
             /\ \A j \in DOMAIN items : items[j].body \in Results(l)
             /\ o = Answered(InCallerOrder(requested, items))
  <2>1. r.array /\ Indexed(l, requested, items)
    BY <1>2 DEF ReadBatch, ReadNoArray, RpcError, Invalid
  <2>2. o = Collect(l, requested, items)
    BY <2>1 DEF ReadBatch
  <2>3. o = Answered(InCallerOrder(requested, items)) /\ Matching(requested, items)
    BY <1>1, <1>2, <2>1, <2>2, CollectedAnswers DEF Matching, Indexed
  <2>4. \A i \in DOMAIN requested : Fate(l, items, requested[i]) = "results"
    BY <1>2, <2>2 DEF Collect, RpcError, Invalid
  <2>5. ASSUME NEW j \in DOMAIN items
        PROVE  items[j].body \in Results(l)
    <3>1. ById(items, items[j].id) = items[j] /\ items[j].id \in IdsOf(items)
      BY <2>3, ByIdIsTheOne DEF Matching
    <3>2. PICK i \in DOMAIN requested : requested[i] = items[j].id
      BY <2>3, <3>1 DEF Matching
    <3>3. Unwrap(l, items[j].body) = "results"
      BY <2>4, <3>1, <3>2 DEF Fate
    <3> QED
      BY <3>3, ResultsAreUnwrapped
  <2> QED
    BY <2>1, <2>3, <2>5
<1>3. ASSUME r.array, Matching(requested, items),
             \A j \in DOMAIN items : items[j].body \in Results(l)
      PROVE  o.kind = "results"
  <2>1. \A j \in DOMAIN items : items[j].id \in 1..MaxId
    <3> DEFINE Numbers == 1..MaxId
    <3>1. requested \in Seq(Numbers)
      OBVIOUS
    <3> HIDE DEF Numbers
    <3>2. \A i \in DOMAIN requested : requested[i] \in Numbers
      BY <3>1
    <3>3. IdsOf(items) \subseteq Numbers
      BY <1>3, <3>2 DEF Matching
    <3> QED
      BY <3>3 DEF IdsOf, Numbers
  <2>2. \A j \in DOMAIN items :
          /\ items[j].id # NoId /\ items[j].id # TextId /\ items[j].body # "other"
          /\ l = "go" => items[j].body \notin Undecodable
    BY <1>3, <2>1, BatchBounds, ResultsOf DEF NoId, TextId
  <2>3. Indexed(l, requested, items)
    BY <1>3, <2>2 DEF Indexed, Matching, Decodable
  <2>4. ASSUME NEW i \in DOMAIN requested
        PROVE  Fate(l, items, requested[i]) = "results"
    <3>1. requested[i] \in IdsOf(items)
      BY <1>3 DEF Matching
    <3>2. PICK j \in DOMAIN items : items[j].id = requested[i]
      BY <3>1 DEF IdsOf
    <3>3. ById(items, requested[i]).body \in Results(l)
      BY <1>3, <3>2, ByIdIsTheOne DEF Matching
    <3> QED
      BY <3>1, <3>3, ResultsAreUnwrapped DEF Fate
  <2>5. ~Leftover(requested, items)
    BY <1>3 DEF Leftover, Matching
  <2>6. Collect(l, requested, items) = Answered(InCallerOrder(requested, items))
    BY <2>4, <2>5 DEF Collect
  <2> QED
    BY <1>3, <2>3, <2>6 DEF ReadBatch, Answered
<1> QED
  BY <1>2, <1>3

\* A single value is read as a result exactly when it has the id and its body is one.
LEMMA SingleIsAccepted ==
  ASSUME NEW l \in Langs, NEW i, NEW r
  PROVE  LET o == ReadSingle(l, i, r)
         IN  /\ o.kind = "results" <=> ~r.array /\ r.items[1].id = i
                                       /\ r.items[1].body \in Results(l)
             /\ o.kind = "results" => o = Answered(<<r.items[1]>>)
<1> DEFINE item == r.items[1]
           o == ReadSingle(l, i, r)
<1>1. item.body \in Results(l) => item.body # "other"
  BY ResultsOf
<1>2. Unwrap(l, item.body) = "results" <=> item.body \in Results(l)
  BY ResultsAreUnwrapped
<1>3. CASE r.array \/ item.id # i \/ item.body = "other"
  BY <1>1, <1>3 DEF ReadSingle, Invalid
<1>4. CASE ~(r.array \/ item.id # i \/ item.body = "other")
  <2>1. CASE Unwrap(l, item.body) = "results"
    BY <1>2, <1>4, <2>1 DEF ReadSingle, Answered
  <2>2. CASE Unwrap(l, item.body) # "results"
    BY <1>2, <1>4, <2>2 DEF ReadSingle, RpcError, Invalid
  <2> QED
    BY <2>1, <2>2
<1> QED
  BY <1>3, <1>4

\* LanguagesAgree, of the outcomes of one exchange.
Agreed(o) ==
  LET accepted == {l \in Langs : o[l].kind = "results"}
  IN  \A l \in accepted :
        /\ \A m \in accepted : o[m] = o[l]
        /\ accepted = Accepting(BodiesOf(o[l].items))

\* Those that take all of some bodies for results are those that accept them.
LEMMA AcceptingIs ==
  ASSUME NEW bodies, NEW l \in Langs, bodies \subseteq Results(l)
  PROVE  Accepting(bodies) = {m \in Langs : bodies \subseteq Results(m)}
<1>1. bodies \subseteq Results("typescript")
  BY ResultsOf
<1>2. \A m \in Langs : m \in Accepting(bodies) <=> bodies \subseteq Results(m)
  BY <1>1, ResultsOf DEF Accepting, Langs
<1>3. Accepting(bodies) \subseteq Langs
  BY DEF Accepting, Langs
<1> QED
  BY <1>2, <1>3

\* Outcomes agree when a language gives the same results as the others, and refuses
\* them for reasons all have but for the bodies.
LEMMA AgreedWhen ==
  ASSUME NEW o, NEW match \in BOOLEAN, NEW items, NEW bodies,
         match => BodiesOf(items) = bodies,
         \A l \in Langs : o[l].kind = "results" <=> match /\ bodies \subseteq Results(l),
         \A l \in Langs : o[l].kind = "results" => o[l] = Answered(items)
  PROVE  Agreed(o)
<1> DEFINE accepted == {l \in Langs : o[l].kind = "results"}
<1>1. ASSUME NEW l \in accepted
      PROVE  /\ \A m \in accepted : o[m] = o[l]
             /\ accepted = Accepting(BodiesOf(o[l].items))
  <2>1. match /\ bodies \subseteq Results(l) /\ BodiesOf(o[l].items) = bodies
    BY <1>1 DEF Answered
  <2>2. accepted = {m \in Langs : bodies \subseteq Results(m)}
    BY <2>1
  <2>3. accepted = Accepting(bodies)
    BY <2>1, <2>2, AcceptingIs
  <2>4. \A m \in accepted : o[m] = o[l]
    OBVIOUS
  <2> HIDE DEF accepted
  <2> QED
    BY <2>1, <2>3, <2>4
<1> QED
  BY <1>1 DEF Agreed

\* Nothing of a matching array is lost on the way to the caller.
LEMMA BodiesInCallerOrder ==
  ASSUME NEW requested, NEW items, Matching(requested, items)
  PROVE  BodiesOf(InCallerOrder(requested, items)) = BodiesOf(items)
<1> DEFINE out == InCallerOrder(requested, items)
<1>1. /\ DOMAIN out = DOMAIN requested
      /\ \A i \in DOMAIN requested : out[i] = ById(items, requested[i])
  BY DEF InCallerOrder
<1>2. \A i \in DOMAIN requested : \E j \in DOMAIN items : out[i] = items[j]
  <2> TAKE i \in DOMAIN requested
  <2>1. PICK j \in DOMAIN items : items[j].id = requested[i]
    BY DEF Matching, IdsOf
  <2> QED
    BY <1>1, <2>1, ByIdIsTheOne DEF Matching
<1>3. \A j \in DOMAIN items : \E i \in DOMAIN requested : out[i] = items[j]
  <2> TAKE j \in DOMAIN items
  <2>1. PICK i \in DOMAIN requested : requested[i] = items[j].id
    BY DEF Matching, IdsOf
  <2> QED
    BY <1>1, <2>1, ByIdIsTheOne DEF Matching
<1> HIDE DEF out
<1>4. \A b : b \in BodiesOf(out) <=> b \in BodiesOf(items)
  BY <1>1, <1>2, <1>3 DEF BodiesOf
<1> QED
  BY <1>4 DEF out, BodiesOf

\* The languages agree on every reply.
LEMMA ReadingAgrees ==
  ASSUME IInv, NEW x \in Exchanges, phase[x] = "delivered"
  PROVE  Agreed([l \in Langs |-> Read(l, x)])
<1> DEFINE o == [l \in Langs |-> Read(l, x)]
           r == reply[x]
           bodies == BodiesOf(r.items)
<1>1. r \in Reply /\ ids[x] \in Seq(1..MaxId)
  BY DEF IInv, TypeOK
<1>2. CASE mode[x] = "single"
  <2> DEFINE match == ~r.array /\ r.items[1].id = ids[x][1]
             items == <<r.items[1]>>
             body == {r.items[1].body}
  <2>1. \A l \in Langs : /\ o[l].kind = "results" <=> match /\ body \subseteq Results(l)
                         /\ o[l].kind = "results" => o[l] = Answered(items)
    BY <1>2, SingleIsAccepted DEF Read
  <2>2. BodiesOf(items) = body /\ match \in BOOLEAN
    BY DEF BodiesOf
  <2> HIDE DEF o, match, items, body
  <2>3. Agreed(o)
    BY <2>1, <2>2, AgreedWhen
  <2> QED
    BY <2>3 DEF o
<1>3. CASE mode[x] # "single"
  <2> DEFINE match == r.array /\ Matching(ids[x], r.items)
             items == InCallerOrder(ids[x], r.items)
  <2>1. \A l \in Langs : /\ o[l].kind = "results" <=> match /\ bodies \subseteq Results(l)
                         /\ o[l].kind = "results" => o[l] = Answered(items)
    BY <1>1, <1>3, MatchingIsAccepted DEF Read, BodiesOf
  <2>2. /\ match => BodiesOf(items) = bodies
        /\ match \in BOOLEAN
    BY BodiesInCallerOrder
  <2> HIDE DEF o, match, items, bodies
  <2>3. Agreed(o)
    BY <2>1, <2>2, AgreedWhen
  <2> QED
    BY <2>3 DEF o
<1> QED
  BY <1>2, <1>3

\* All exchanges that are over have been read alike.
AllAgree == \A x \in Exchanges : Agreed(outcome[x])

\* A step writes one exchange's outcomes, alike or by reading a reply.
LEMMA AgreeStep ==
  ASSUME IInv, AllAgree, [Next]_vars
  PROVE  AllAgree'
<1> DEFINE Same(v) == [l \in Langs |-> v]
<1>1. ASSUME NEW v \in {Answered(<<>>), Invalid, Failed}
      PROVE  Agreed(Same(v))
  <2>1. CASE v = Answered(<<>>)
    <3>1. BodiesOf(v.items) = {}
      BY <2>1 DEF BodiesOf, Answered
    <3>2. Accepting({}) = Langs
      BY DEF Accepting, Langs
    <3> QED
      BY <2>1, <3>1, <3>2 DEF Agreed, Answered
  <2>2. CASE v \in {Invalid, Failed}
    BY <2>2 DEF Agreed, Invalid, Failed
  <2> QED
    BY <1>1, <2>1, <2>2
<1>2. outcome \in [Exchanges -> [Langs -> Outcome]]
  BY DEF IInv, TypeOK
<1>3. ASSUME NEW x \in Exchanges, NEW o, Agreed(o), outcome' = [outcome EXCEPT ![x] = o]
      PROVE  AllAgree'
  <2>1. \A y \in Exchanges : outcome'[y] = IF y = x THEN o ELSE outcome[y]
    BY <1>2, <1>3
  <2> QED
    BY <1>3, <2>1 DEF AllAgree, Agreed
<1>4. CASE outcome' = outcome
  BY <1>4 DEF AllAgree, Agreed
<1>5. ASSUME NEW x \in Exchanges, Decline(x)
      PROVE  AllAgree'
  BY <1>1, <1>3, <1>5 DEF Decline
<1>6. ASSUME NEW x \in Exchanges, Fail(x)
      PROVE  AllAgree'
  BY <1>1, <1>3, <1>6 DEF Fail
<1>7. ASSUME NEW x \in Exchanges, Return(x)
      PROVE  AllAgree'
  BY <1>3, <1>7, ReadingAgrees DEF Return
<1>8. ASSUME NEW x \in Exchanges,
             Request(x) \/ Batch(x) \/ TakeId(x) \/ Post(x) \/ Deliver(x)
      PROVE  outcome' = outcome
  BY <1>8 DEF Request, Batch, Begin, TakeId, Post, Deliver
<1> QED
  BY <1>4, <1>5, <1>6, <1>7, <1>8 DEF Next, vars

\* In no exchange, whatever the reply, do two languages give different results; and
\* which of them give any is settled by the error and the jsonrpc member of the
\* responses (of the kinds of AllBodies), as Accepting says.
THEOREM AllLanguagesAgree == Spec => []LanguagesAgree
<1>1. ASSUME Init
      PROVE  AllAgree
  <2>1. \A x \in Exchanges, l \in Langs : outcome[x][l].kind # "results"
    BY <1>1 DEF Init, Failed
  <2> QED
    BY <2>1 DEF AllAgree, Agreed
<1>2. AllAgree => LanguagesAgree
  BY DEF AllAgree, Agreed, LanguagesAgree
<1> QED
  BY <1>1, <1>2, Invariant, AgreeStep, PTL DEF Spec
===============================================================================
