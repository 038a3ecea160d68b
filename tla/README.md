# erpc-sdk: a verification project

TLA+ specifications of the ERPC SDK, their TLC configurations, and TLAPS proofs about
them. Everything here is translated from the source under `src/`; file and line of every
definition are in `PROJECT.json` under `map`.

Run everything from this directory:

    tlc -workers 2 -config WsGoCalls.cfg MCWsGo      # and the other runs of PROJECT.json
    tlapm Delivery_proofs.tla                        # 229 obligations, seconds
    tlapm WsGo_proofs.tla                            # 2855 obligations, about 6 minutes
    tlapm WsGo_refinement.tla                        # 623 obligations, half a minute
    tlapm HttpBatch_proofs.tla                       # 955 obligations, about 2 minutes
    tlapm WsPython_proofs.tla                        # 2312 obligations, about 4 minutes
    tlapm WsTypeScript_proofs.tla                    # 614 obligations, about 1 minute
    tlapm WsRust_proofs.tla                          # 2565 obligations, about 6 minutes
    tlapm Maintenance_proofs.tla                     # 4440 obligations, about 6 minutes

## 1. The system

One SDK in five languages (`packages/go`, `rust`, `typescript`, `python`, `ruby`), a
registry of generated data with the scripts that maintain it (`registry`), and the
workflows that release it (`.github/workflows`, `scripts`).

| Part | Source | State it keeps | Operations | What is hard |
|---|---|---|---|---|
| WebSocket JSON-RPC transport and subscriptions | `packages/go/subscriptions.go`, `packages/typescript/src/transport/websocket.ts` and `src/subscriptions.ts`, `packages/rust/src/subscriptions.rs`, `packages/python/src/erpc_sdk/subscriptions.py`, `packages/ruby/lib/erpc_sdk/websocket.rb` | the current connection, the pending calls by id, the subscriptions or listeners, notifications that came early, the next id | connect on demand, request, dispatch of responses and notifications, subscribe, unsubscribe, next, close, the end of a connection | every language has its own concurrency (goroutines, an event loop, tokio tasks, asyncio, threads); connections are replaced while the old one's reader still runs; timers race answers |
| HTTP JSON-RPC transport, batches | `packages/typescript/src/transport/http.ts`, `packages/go/rpc.go`, `packages/rust/src/rpc.rs`, ... | the next id | request, batch | correlation of a batch's responses by id, whatever their order, duplicates and omissions |
| Price streams | `packages/typescript/src/price.ts`, `packages/rust/src/price.rs`, ... | a text buffer between chunks | open, next event, cancel | events split anywhere by the network |
| Chain transports (Bitcoin, NEAR, Sui, REST) | `packages/typescript/src/transport/` | none between calls | one request and its validation | as HTTP |
| Client and configuration | `client.ts`, `config.ts` | none after construction | resolve | precedence of options |
| Usage, credit, cloud | `usage.ts`, `credit.ts`, `cloud.ts` | none | REST calls | none |
| Swap and bridge | `swap.ts`, `bridge.ts`, `bridge_local.ts` | none | validate, build | integer arithmetic, byte layout |
| Catalogs, rankings | `registry/*-catalog.mjs`, generated files | data | lookup | none at run time |
| Discovery and observation | `registry/discovery.mjs`, `observer.mjs`, `pool-observer.mjs` | pending candidates, cursors, receipts in the repository | discover, observe, defer | runs that stop half-way, deferred work |
| Maintenance | `registry/maintenance-pr.mjs`, `reconcile-maintenance.mjs`, `data-promotion.mjs`, `.github/workflows/dependency-maintenance.mjs` | branches, pull requests, workflow runs | write a pull request, dispatch, reconcile, promote | others move the branch between a check and the mutation it guards |
| Release | `registry/release-prep.mjs`, `scripts/release.mjs`, `.github/workflows/release.yml` | manifests, tags, published packages | prepare, publish, recover | five registries, each may fail after others succeeded |
| Parity and hygiene checks | `registry/verify-*.mjs`, `scripts/` | none | read-only checks | none |

How they interact: a client object builds one transport per endpoint; a subscription
object holds its transport and calls its `request` for subscribe and unsubscribe, and is fed
by the transport's dispatch through a channel (Go, Rust), a queue (Python, Ruby) or a
listener (TypeScript). The registry scripts exchange data through files of the repository
and through GitHub.

What makes each correct:

- transports: a call ends once, with its own answer or for a reason of its own connection,
  and always ends; nothing of it stays behind; no notification of a live subscription is lost
  or reordered but for a stated bound; nothing panics; a socket that is given up is closed.
- batches: the n-th result is the answer to the n-th call, or the batch is refused.
- streams: the events are those of the text, however it was cut.
- maintenance and release: no mutation rests on a head that has moved; a stopped run can be
  resumed; nothing is published twice or half.

## 2. Modules

| Module | Models | Runs |
|---|---|---|
| `RpcSession` | the abstract contract of a session: `Spec` with isolation between connections, `SharedSpec` without | as a property of the runs below |
| `WsGo` | `packages/go/subscriptions.go`, whole | `ws_go_calls`, `ws_go_streams`, `ws_go_live` |
| `WsTypeScript` | `websocket.ts`, and the listeners of `subscriptions.ts` | `ws_ts`, `ws_ts_closed` |
| `WsRust` | `packages/rust/src/subscriptions.rs`, whole | `ws_rust`, `ws_rust_closed` |
| `WsPython` | `packages/python/src/erpc_sdk/subscriptions.py`, but for consumers, raw calls and `cancel_event` | `ws_python` |
| `Maintenance` | the maintenance writers, their controllers and the reconciler (`registry/maintenance-pr.mjs`, `data-promotion.mjs`, `reconcile-maintenance.mjs` and the workflows that run them) | `maintenance`, `maintenance_poller`, `maintenance_cancelled` |
| `HttpBatch` | requests and batches over HTTP in the five languages | `http_batch` |
| `Delivery` | what the streams of a subscription owe it: its notifications 1 to n, in order | in `NoNoteLost` of `WsGo` and `WsRust` |
| `Delivery_proofs` | what keeps a list of messages complete and in order | |
| `WsGo_proofs` | the inductive invariant of `WsGo` and what follows from it | |
| `WsGo_refinement` | `WsGo` implements `RpcSession!Spec` | |
| `HttpBatch_proofs` | what reading a reply gives, and the invariants of `HttpBatch` | |
| `WsPython_proofs` | the inductive invariant of `WsPython` and what follows from it | |
| `WsTypeScript_proofs`, `WsRust_proofs` | the same of those, and that each implements `RpcSession!SharedSpec` | |
| `Maintenance_proofs` | what a job has established at each of its places, and what follows from it | |
| `MC*` | instances for TLC | |

`RpcSession` says what all transports promise their callers. A call is idle, open, and then
once answered, closed, expired or unsent, never misrouted; a connection is new, up, closing
(the client sent its Close frame; answers still come) or down. `Spec` adds isolation: "closed"
is only said of calls whose own connection was left or lost. `SharedSpec` is without it, for
the transports whose connections share one table of calls.

### WsGo

One action per critical section of `t.mu`, and per operation on a channel or a socket. A
call is a goroutine that runs `Raw`, `Subscribe` or `Unsubscribe` once; its reply channel,
and the notification channel a Subscribe makes, are named after it, so `pending` maps an id
to a call and `subscriptions` a key to a subscribe. `pc` is the place in the code:

| code | actions |
|---|---|
| `ensureConnection` | `UseExisting`, or `StartDial`, `Dial`/`DialFail`, then `Install` or (another caller was faster) `Adopt` |
| `request` | `Enroll` (id and `t.pending`), `Write`/`WriteFail`, then one of `ReturnAnswer`, `ReturnSubscribed`, `ReturnUnsubscribed`, `ReturnClosed`, `Expire`; when a reply and the timer are both ready either may win, as in a Go `select` |
| `RawSubscribe`, `register` | `Register`, which hands over the orphans |
| `Unsubscribe`, `unregister` | `Unregister` under the lock, `CloseStream` after it |
| `Next` | `Receive` |
| `readLoop`, `dispatch` | `Take` under the lock and `Deliver` after it; `Ignore`; `Notice`; `ReadFail`, `ReaderExit` |
| `connectionClosed` | `ConnectionClosed`, part of `ReaderExit` and of `FinishClose` |
| `close` | `Snapshot`, `Shut`, `FinishClose` |

The peer and the network are external: `Serve`, `Grant`, `Notify` and `Break` answer in any
order, may notify before the response to a subscribe, and break a connection at any time. On
another connection the peer may give out the same key again.

### WsTypeScript

One action per task or per continuation of the event loop: a continuation runs before the
next task (`NextTask`, `Due`). Sockets have the `readyState` of a WebSocket and their events
(`OpenEvent`, `ErrorEvent`, `CloseEvent`, `ConnectTimeout`) come any time later, for a socket
that may have been replaced. A call is `Begin`, `Proceed` after its await, and one of the ways
`#waitFor` ends. Ids never repeat below 2^53, so a call stands for its id.

### WsRust

A call is a future; each connection has a writer task, fed by an unbounded channel, and a
reader task; all connections share one pending map and one broadcast channel.

| code | actions |
|---|---|
| `connect` | `UseExisting`, or `StartDial`, then `Dial` or `DialFail`; the lock of `outbound` is held across the dial (`dialer`), so nobody dials twice or closes meanwhile |
| `request` | `Enroll` (id and `pending`), `Send`/`SendFail`, then `Return`, `ReturnClosed` or `Expire`, which looks at the response first as `tokio::time::timeout` does |
| a future that is dropped at an await | `Drop`, for calls in `Impatient`; the lock goes with it, the entry in `pending` stays |
| the writer task | `WriteRequest`, `WriteClose`, `WriterStop` (drains the map), `WriterDrop` (only now is its channel closed) |
| the reader task | `Respond` and `Broadcast` (`dispatch`), `ReaderStop` (drains the map) |
| `RpcSubscription::next` | `Receive`: one `recv()`, which fails once after a lag |
| `close` | `Close` |

No caller in the repository passes a `CancellationToken` to the WebSocket `request`, so that
branch is not an action.

### WsPython

One event loop runs coroutines. An action is a coroutine from where it wakes to its next
await, so what interleaves is what happens between two awaits; a future that is set wakes its
caller only later (`Wake`), and until then the reader may read on, a timer may win (`Expire`),
the task may be cancelled (`Cancel`), or `close()` may run.

| code | actions |
|---|---|
| `_ensure_connection` | before the lock `BeginRefused`, `BeginConnected`, `BeginLocked`, `BeginDial`; under it `AcquireConnected`, `AcquireDial`; after the dial `Dialed`, `NotDialed`. asyncio's lock is fair, so only an idle lock is taken without waiting (`Idle`); which waiter is next is left open |
| `request` | `Register` (id and `_pending`, part of the actions above), `SendDone`/`SendFailed`, and `Finish` with the answer or the error |
| `_subscribe`, `unsubscribe` | `Listening`, and `ListenersAfter` in whichever step ends the call; `Wake` stores the id |
| `_read` | `ReadResponse`, `ReadNote`, `ReadEnd` with its `finally` (`Cleared`) and, for an error, `Cut` |
| `close` | `Close`, then one action per await: `CloseHandshake`, `CloseReader`, `CloseLast` |

The peers are external (`Serve`, `Notify`, `Leave`): a peer has a request once its send has
ended, answers in any order, gives out an id again once the subscription of that connection
has ended, and a broken connection may lose what is under way. Left out: the consumer of a
queue (the queue has no bound and only grows), raw calls (requests with nothing around them),
`cancel_event` and listeners a user adds to the transport.

The module makes visible, and no document excludes: a dial that is under way when `close()`
runs is stored and read afterwards; a connection the peer closes cleanly fails no call, which
then ends by its timer; the subscribe of a cancelled task leaves its listener; a notification
read between the response of a subscribe and its continuation is lost; after a reconnect an old
subscription gets the notifications of whoever was given its id.

### Maintenance

Jobs on GitHub, not threads: a job may be killed between two steps, and people act between any
two. A write never shares a step with a read it relies on, but for what GitHub itself compares
(the lease of a push, the head of a merge); the writers' checks of main before the commit and
before the dispatch are steps of their own. Reads that follow one another with no write between
them share a step where this line names them, and a change between two of them is not modelled,
one between them and what is done on them is: the branch, its pull requests and its CI runs
(`WriterBranch`), main and the pull requests (`WriterVerify`), what a controller resolves at
first (`ControllerResolve`), the tags and main (`ControllerTagCheck`), one candidate's branch,
pull request and CI runs (`CandidateOf`), the runs of both controllers (`RecControllers`,
`RecLast`). A commit is its author, its parents
and two parts of its tree, the catalog content and the version; digests, fingerprints and tree
SHAs are equality of trees.

| code | actions |
|---|---|
| the concurrency group `erpc-catalog-mutation` of the workflows | `Enqueue` (a newer run cancels the one that is pending), `StartRun`, `End` |
| data writer and release writer, `maintenance-pr.mjs` | `Trigger`, then `WriterLease`, `WriterBranch`, `WriterLeaseAgain` (release: before the commit and before the dispatch), `WriterCommit`, `WriterVerify`, `WriterPr`, `WriterDispatch` |
| `data-promotion.mjs`, and the controller of `release-preparation.yml` | `ControllerSkip`, `ControllerResolve`, `ControllerCheck`, `ControllerPolicy`, `ControllerMain`, `ControllerAgain`, `ControllerMerge`, `ControllerVerify`, `ControllerTagCheck`, `ControllerPushTags`, `ControllerDispatchRelease` |
| `reconcile-maintenance.mjs` | `RecStart`, `RecMain`, `RecCandidate` per kind, `RecControllers`, `RecRecheck`, `RecLast`, `RecLease`, `RecDispatch` |
| GitHub and its CI (external) | `CiFinish`, `CiWakes`, `Mergeable`, `MergedTree`, `MoveBranch`, `UpToDate` |
| people and runners (external) | `HumanPushMain`, `HumanPushBranch`, `HumanClosesPr`, `HumanTags`, `ToggleProtection`, `Crash`; `Publishes` is the end of `release.yml` |

It begins with a fresh repository, with a merge that no release has shipped, or with the branch
of the observer the data writer replaced, its pull request open or merged.

### HttpBatch

An exchange is one POST: `Request` or `Batch`, `TakeId` once per call (threads interleave
here), `Post`, then `Fail`, or `Deliver` and `Return`. `Read` is what the code does with a
parsed reply, one operator per phase: `Indexed` (the scan that fills `byId`), `Collect` (caller
order, first failure, `Leftover`), `Unwrap`. They run in lock-step on the same reply, so that
their outcomes can be compared. They differ in

- `Indexed`: Go decodes everything first, so that one member of the wrong type ends the batch,
  and reads an absent or null id as 0; TypeScript looks for unknown ids while it scans;
- `RpcErrors`: Go takes an error object without a code or a message for an RPC error, TypeScript
  one whose code is a fraction; a `jsonrpc` that is no string is refused only by Go;
- `Results`, the bodies a caller gets the result of: next to it TypeScript ignores every error
  that is no error object, Go a null, the others nothing;
- `ReadNoArray`: Go reports an error object that stands for the whole batch as malformed JSON,
  the others as the RPC error it is.

`AllBodies` has a kind of body for each distinction one of the five makes. Ids here never wrap:
that takes 2^53 requests. The stricter reading of the Bitcoin transports (`strictResponse` in
TypeScript, `ResponsePolicy::Bitcoin` in Rust) is not modelled.

## 3. What the runs show

| Run | Bounds | Properties |
|---|---|---|
| `ws_go_calls` | 2 raw calls, 3 connections, 1 closer | `NoReplyPanic`, `ClosedMeansClosed`, `NoPendingLeak`, `ImplementsSession` |
| `ws_go_streams` | 2 subscribes, 1 unsubscribe, 2 connections that use the same key, channel capacity 1, 2 notifications each | `TypeOK`, `NoNoteLost` |
| `ws_go_live` | 1 subscribe, 2 unsubscribes, 1 closer, 1 connection, with fairness | `NoStreamPanic`, `CallsReturn`, `UnsubscribedStreamsEnd` |
| `ws_ts` | 1 raw, 1 subscribe, 1 unsubscribe, 3 sockets, 2 closes, with fairness | `TypeOK`, `PendingIsWaiting`, `PromiseIsOfSocket`, `ListenersAreLive`, `ImplementsSharedSession`, `CallsSettle` |
| `ws_ts_closed` | the same | `ClosedMeansClosed`, violated: see section 6 |
| `ws_rust` | 1 raw (its future may be dropped), 1 subscribe, 1 unsubscribe, two of them at most, 2 connections, broadcast capacity 1, 2 notifications, 1 close | `TypeOK`, `PendingIsOwed`, `NoNoteLost`, `ImplementsSharedSession` |
| `ws_rust_closed` | the same | `ClosedMeansClosed`, violated: see section 6 |
| `ws_python` | 2 subscribes, 1 unsubscribe, 2 connections that use the same id, 2 notifications, 1 close; subscribes and connections are symmetric | `TypeOK`, `PendingIsWaiting`, `OneReader`, `ConnectionIsRead`, `CutMeansOver`, `ListenersAreLive`, `StreamsAreFaithful` |
| `maintenance` | both merges automatic, one new catalog, 2 writer runs, 2 acts of people or crashes, no poller | `TypeOK`, `VerifiedMerges`, `WriterDelivers`, `ReleaseDelivers`, `TagsFollowMain`, `HumanWorkSurvives` |
| `maintenance_poller` | the release merge automatic, the poller on, 2 writer runs, no acts, with fairness | `DispatchOnce`, `GreenIsPickedUp` |
| `maintenance_cancelled` | the same with 3 writer runs | `GreenIsHandled`, violated: see section 6 |
| `http_batch` | 2 exchanges, single or batches of up to 2 calls, 3 ids, replies of up to 3 items with 5 kinds of body | `TypeOK`, `OwnAnswers`, `LanguagesAgree`, `BatchesAreFaithful` |

Why the bounds are enough. Two calls and three connections give: two callers that dial at
once (one connection each), and a connection that replaces both while the reader of an old one
is still to run. One closer can hold a stale snapshot of each of them in turn. Two subscribes
that share a key on two connections are the smallest case in which routing by key goes wrong;
capacity 1 makes a channel full at the second notification. Two unsubscribes are what it takes
to close a channel twice. In the TypeScript instance a socket that is closing, one that is
connecting and one that is open exist at once.

In the Rust instance two
calls are one on an old connection and one on its successor, or two on the same; capacity 1
makes the second notification a lag. A batch of two is the least that has an order, three items
the least in which a complete reply has one too many, and two exchanges the least that can be
mixed up. The five kinds of body are the plain result and error, and the results that some
languages give and others refuse, one for each way in which they part: next to a null error,
next to an error that is no object, in a response whose `jsonrpc` is no string. The theorem
about `LanguagesAgree` covers all twelve.

In the Python instance two calls can dial one after the other, or find a dial under way; the
second connection can replace the first while an unsubscribe of the first is still to come; and
one id on two connections is the least with which a queue gets a stranger's notification. In
`maintenance` two writers are a run and the one that resumes or collides with it, or one of each
kind; two acts are one that breaks what was checked and one that hides it (a push to main with
protection off; a crash and an amended branch). A third writer is what it takes to cancel a
pending controller, so `maintenance_cancelled` has it.

Deadlock is not checked: every call may have ended and every connection be used up.

**Fairness.** `WsGo!Fairness`: the Go scheduler runs every goroutine, and the timer of
`context.WithTimeout` fires. Part of it is that a write to a socket returns; the code sets no
write deadline, so this is an assumption on the operating system, listed as a hazard. Nothing
is assumed of the peer: it need not answer, and a dead socket need not be noticed.
`WsTypeScript!LiveSpec`: the event loop runs continuations that are due, timers that have run
out, and the second event of a failed socket after the first.

`Maintenance!Fairness`: a started job and the reconciler take their next step, the schedule of
the poller recurs, and GitHub starts a run that is queued. Completion events (`CiWakes`) may be
lost, which is what the poller is for, and neither CI nor people have to do anything.

No liveness is checked of `WsPython`, whose instance needs symmetry too, and of `WsRust`: its tasks make the instance too large without symmetry,
which is unsound for liveness.

## 4. What is proved

### The Go transport

For every finite or infinite number of calls, connections and keys, any channel capacity and
any bound on ids and notifications, from the assumptions `KindsDisjoint`, `BoundsAreNatural`
and `NullsAreOutside` of `WsGo`:

- `TypeCorrect`, `NoPanicOnReply`, `NoPanicOnStream`, `PendingIsLive`, `ClosedIsClosed`:
  `TypeOK`, `NoReplyPanic`, `NoStreamPanic`, `NoPendingLeak`, `ClosedMeansClosed` hold always;
- `NotesNotLost`: `NoNoteLost` holds always;
- `Refinement`: `Spec => ImplementsSession`.

None of those invariants is inductive. `IInv` is `TypeOK` and four parts, each with the lemma
that a step keeps it:

- `Replies`: a reply channel is in one place. Before its call enrolls it does not exist; while
  `t.pending` (under the call's own id) or a dispatcher (`taken`) holds it, it is open and
  empty, and never both hold it. This is why the send outside the lock is safe:
  `connectionClosed` only closes what it finds in `t.pending`.
- `Ends`: whoever ends a session (a reader whose read failed, a close() past `conn.Close`)
  does it with a dead socket, and a waiting call is on the current connection or on a dead one.
  Together with the comparison in `connectionClosed`: who is told "closed" was on a dead one.
- `Owners`: a notification channel is open from `Register` until its one owner, the map or a
  single unregister, closes it.
- `Messages`: ids are handed out once, a request is answered once, and a response on the wire
  or taken by a dispatcher carries the id of the call it answers. This is what the refinement
  needs: the answer a call returns is the answer to that call.

`NoNoteLost` follows a notification through four lists: got, the channel, the orphans of its key
and the wire, put together, hold 1 to `emitted` in order. `Delivery` says this by positions, and
`Delivery_proofs` what may happen to such a list: a message goes from the head of one part to the
end of the one before (`MovedOn`), the next notification comes at the end, one of another
subscription comes or goes. To use these, a step must know whose a message is, by its key alone.
That is `DInv`, inductive together with `IInv`:

- `Installed`: a connection is installed once, and only then used. So its keys are those its peer
  gave, and a dialer that was overtaken closes a socket nobody used.
- `Channels`: where the map has a channel for a key, the key has no orphans; a subscribe that has
  not returned has had nothing. This is the hand-over in `register`: the orphans go to the
  channel at the moment the channel takes their place.
- `Streamed`: a key names one subscribe of one connection (`Grants`), which knows it by that key
  (`KeysFit`); messages on a wire name the key of that connection (`Sent`), those in an orphan
  list or a channel that of some connection (`Passed`); who has no key was sent nothing
  (`Unnotified`).

The premises of `NoNoteLost` are the code's: routing is by key, so a key that two connections
gave out is excluded (`Unshared`); a full channel loses (`overflowed`).

The refinement maps `pc` to the status of a call, the state of a socket to the life of a
connection, and the connection a call was given to its link once it has an id. Steps that are
alike to the contract (`Alike`) stutter; each of the others is one action of `RpcSession`.

### Batches

For any number of exchanges, batches of any size and replies of any length:

- `BatchTypeCorrect`, `ResultsAreOwn`: `TypeOK` and `OwnAnswers` hold always. The inductive
  invariant adds that ids are given once (`Numbered`), that an item of a delivered reply carries
  the id of the call it answers or none of ours (`Honest`, true of any server that copies ids),
  and when an exchange has all its ids (`Sized`). A result found under the id of call i of
  exchange x is therefore the answer to that call.
- `BatchesFaithful`: `Spec => BatchesAreFaithful`. It rests on lemmas about the reading itself:
  an accepted array has as many items as there are requests (`SameIdsSameLength`, two
  injections), a complete one has no duplicates (`CompleteIsDistinct`, a surjection between
  sets of one size), and the first failure in caller order exists (`LeastExists`, from the
  well-foundedness of the naturals).
- `AllLanguagesAgree`: `Spec => []LanguagesAgree`. Of each reply, the languages that give results
  give the same ones, and who gives any is settled by what stands in the responses used
  (`Accepting`): TypeScript always, Go if every error next to a result is null, Rust, Python and
  Ruby if there is none; a `jsonrpc` that is no string only keeps Go out. The languages scan
  differently, so the theorem says that order, omissions, duplicates and strangers make no
  difference between them, which needs the same lemmas (`AgreedWhen`). It covers the twelve kinds
  of `AllBodies` and the four of ids, not the distinctions section 5 names.

### The Python transport

For any number of calls, connections, ids and notifications, from the three assumptions of the
module: `TypeCorrect`, `PendingIsExact`, `ReadersAreOne`, `ConnectionIsAlwaysRead`, `CutIsOver`,
`ListenersAreExact` and `StreamsFaithful`, that is every invariant of `ws_python`. `IInv` adds to
the first six

- `Locked`: the one call that dials holds the lock, and while it does there is no connection.
  So a connection is only ever stored where there was none, which is what makes readers one.
- `Readers`: until `close()`, only the connection in use is read.
- `Futures` and `Placed`: a future that is set is that of a request under way, and such a
  request is on the connection in use or on one that is over. A reader that ends with an error
  fails all of `_pending`; by these two, what it fails was on its own connection or on an older
  one. After `close()` this no longer holds: a dial may have added a second connection.
- `Targets`: an unsubscribe works on a subscription, so only those end.

`StreamsAreFaithful` needs a second part, `SInv`, inductive together with `IInv`. Here nothing is
promised about the first notifications (those read before `Wake` has stored the id are lost), so
the numbers in a queue are an interval that begins anywhere.

- `Flow`: the numbers in the queue of a live listener end at some b, those on the wire of its
  connection are b + 1 and on, up to the last one sent while the socket is open (a lost connection
  may have lost the rest). What is taken is therefore the next, and it is put where the next
  belongs; before the id is stored it is dropped and b moves on over an empty queue.
- `Asked`, `Said`, `Stored`, `Given`, `Located`: a request is with one peer, answered once, and no
  message of a call exists before; ids and connections of messages, calls and answers agree.
- `Succession`: while a notification of one subscription is on a wire and its id belongs to
  another, the answer that will tell the other so comes after it. This is why the same
  connection cannot put a stranger's notification in a queue before its owner's unsubscribe was
  served; `Strangers` is the second half of the property in the form that is inductive. That a
  reader of another connection means the end of one's own is `Readers`, which is why `close()`
  is excepted.

`QuietKeeps` deals once with the steps that move no message (`Quiet`), which are most.

### The TypeScript transport

For any number of calls, sockets and calls of `close()`, from the three assumptions of the
module: `TypeCorrect`, `PendingIsExact`, `PromiseIsCurrent`, `ListenersAreExact`, that is every
invariant of `ws_ts`, and `SharedRefinement`: `Spec => ImplementsSharedSession`. (`ws_ts` checks
them under `LiveSpec`, which implies `Spec`.) `IInv` adds to the invariants

- `Attempts`: a connect promise is pending only while its socket may still open or close, and
  `#socket` is none that was never tried. `PromiseIsOfSocket` needs it when an old socket's event
  comes: what it clears or settles is then known to be its own attempt or one already settled.
- `Requests`: a call has one socket, is in the inbox of that peer only, and is not there once it
  was served. So an answer that is read belongs to a call that was sent, which the refinement
  needs to map the step to `RpcSession!Serve` and `Answer`.
- `Targets`: an unsubscribe works on a subscription. Only then does its end leave `#listeners`
  exact.

### The Rust transport

For any number of calls, connections, keys and notifications and any capacity of the broadcast
channel: `TypeCorrect`, `PendingOwed` (`PendingIsOwed`), `NotesNotLost` (`NoNoteLost`) and
`SharedRefinement`, that is every property of `ws_rust`. `PendingIsOwed`
alone says nothing about who may drain the map; `IInv` adds

- `Counted` and `Numbered`: `next_id` is the number of ids handed out, no two calls have the
  same, and a call has none before it enrolls. Without them an `insert` could replace the
  sender of another call, whose receiver would then see its channel closed.
- `Oneshots`: a channel that is open and empty is in the map, under its call's own id.
- `Connections`: a writer that runs is that of the connection in use or of one that was given
  up, so whoever drains the map does it after the end of some connection; this is what the
  abstract `Close` asks for.
- `Requests`, `Wires`, `Answers`: a request is in one channel, once, then with one peer, then
  answered; a response carries the id of its call; a full oneshot channel holds the answer to
  its call.

`NotesNotLost` has `DInv` besides, with the parts `Grants`, `Sent`, `Taken`, `KeysFit` and
`Unnotified` that the Go transport has too. There is no `Unshared` among the premises: every
notification goes to every receiver, each of which exists from before its subscribe is sent and
looks at the key itself, so a key that another connection gives out as well brings strangers but
takes nothing away.

That the close frame is no request (`CloseFrame \notin Calls`) is part of `NullsAreOutside`.

### Maintenance

For any catalogs, any number of writer runs, acts of people and crashes, with or without the
poller: every safety property of `maintenance` and `maintenance_poller`. `TypeCorrect`,
`MergesAreVerified`, `WritersDeliver`, `ReleasesDeliver`, `TagsAreOrdered`,
`ControllersDispatchedOnce` and the action property `HumanWorkIsKept`.

The jobs act on reads that may be out of date, so none of these is inductive: at the time a run
reports success, what it says was looked up several steps ago. `IInv` has three parts.

- `State`: what is true of GitHub whoever acts. Commits, the past of main, CI results, tags and
  publications only grow; main's version never goes back (`Trunk`), because a data candidate
  keeps the version of a base that is on main; main is one version ahead of the last tag at
  most (`Tags`); only the bot's own commit passes CI for a candidate (`Checks`); a controller's
  run is of a CI run that has ended (`Runs`).
- `Progress`: what a job has established at its place in the code and nobody can take back.
  `Writing`: nobody owns the branch about to be replaced, and after the push the head is the
  bot's commit unless a person has replaced it. `Controlling`: from the checks on, CI has
  succeeded and the version before was published; from the merge on, the merge is on main; from
  `ControllerTagCheck` on it has been verified; at the dispatch the tag is there.
  `Reconciling`: candidates are green, and after the last look at the runs nobody else
  dispatches a controller in the reconciler's name.
- `Promises`: each run that has ended with success stands to what it reported.

`KeptStep` says once and for all actions what a step never takes back; with it each action
needs only its own variables. `HumanWorkIsKept` follows from `Writing` (the lease of the push
is on a commit that is not a person's) and needs no more than one step. `TagsAreOrdered` rests
on `MergeVersion`: a merge that passes the guards of `ControllerMerge` has main's version or the
next.

### Only model-checked

- Liveness (`CallsReturn`, `UnsubscribedStreamsEnd`, `CallsSettle`, `GreenIsPickedUp`) and
  ENABLED: TLAPS has no rules for them here.
- The findings of section 6, whose counterexamples TLC finds.

## 5. Not modelled

- The Ruby transport, discovery and observation, dependency maintenance, the incremental
  parser of price streams: they have state worth modelling, see the plan.
- `release.yml` and its recovery, the rewriting of manifests: `Maintenance` ends with the
  dispatch of publication and takes its evidence for granted.
- Client and configuration, usage, credit, cloud, swap quotes, chain transports: one call in,
  one request out, no state between calls.
- Bridges built locally, catalogs, rankings, parity and hygiene checks: functions of data files
  and byte layouts. A model would repeat them.

Within the modelled files: the encoding of messages, redaction of secrets, texts of errors,
typed wrappers around `Raw` and `RawSubscribe`; in TypeScript the content of notifications,
batch frames and Blob decoding; in Python what section 2 names; in the maintenance scripts how
a candidate is made and replayed, artifacts, pagination and the validation of GitHub's answers,
and a read that fails, which ends a job as a guard that does not hold does. In `HttpBatch` what
JSON parsers make of the same bytes (text after the value, a member given twice or in another
case, numbers beyond 64 bits, ids written `1.0` or `true`), and the decoding of a single result
into the caller's type.

## 6. Findings

`ws_ts_closed`: the TypeScript `close` listener does not ask whether its socket is still
`#socket` (`websocket.ts:140`). After `close()` and a reconnect, the late close event of the
old socket clears `#socket`, `#connectPromise` and `#pending` of the new one, so calls in
flight there are rejected with "ERPC WebSocket connection closed" while their connection is
open, and the open socket is no longer reachable from the transport. This is why the run
`ws_ts` compares with `SharedSpec` and not with `Spec`.

`ws_rust_closed`: in Rust too the pending map outlives its connection, and the reader
(`subscriptions.rs:193`) and the writer (`:150`) of an old one drain all of it when they end. A
call alive on the new connection is told "ERPC WebSocket connection closed". The Go transport
compares connections first (`subscriptions.go:280`), and `ws_go_calls` shows the difference.

`maintenance_cancelled`: the runbook calls the poller "a fallback for missed workflow completion
callbacks" (`weekly-maintenance.md:42`). A controller that waits in the concurrency group is
cancelled by GitHub when a newer run arrives, before any of its jobs has started;
`controllerDecision` (`reconcile-maintenance.mjs:420`) takes it for one that failed and leaves it
to a person, so a green candidate may stay where it is. With two writers this cannot happen, and
`maintenance_poller` shows that a controller run then exists for every green candidate.

Observed and no more than that, of `HttpBatch`. A result next to an error that is no error
object (`"error": "refused"`) is given to the caller by TypeScript (`http.ts:71-75`, `320-332`)
and refused by the other four; a null error is ignored by TypeScript and Go only. An error object
without a code or a message is an RPC error with zeros in Go (`rpc.go:116-120`, `239`) and an
invalid response elsewhere, or a success in TypeScript if a result stands next to it. A `jsonrpc`
that is no string is refused by Go alone (`rpc.go:110`). A server that rejects a whole batch with one error object
is reported by Go as malformed JSON (`rpc.go:222`), by the other four as its RPC error.

## 7. Plan

1. `WsRuby`: threads, a monitor and a reader thread that clears the connection and fails the
   calls in two critical sections; against `RpcSession!SharedSpec`. The notifications of
   `WsTypeScript`, with its listeners, in the same instance.
2. Smaller instances of `WsRust` and `WsPython` for the liveness of their calls (the lock a
   dropped future releases, a connection that closes cleanly), and `WsPython` against
   `RpcSession!SharedSpec`.
3. `PriceStream`: the incremental event parser against a split of the whole text.
4. `Discovery`: pending candidates and cursors over runs that stop anywhere. `Release`:
   publication to five registries and its recovery, behind `Maintenance!Publishes`.
5. Proofs: every invariant, action property and refinement that a run checks is a theorem; what
   items 1 to 4 add is to be proved with it, first that `WsPython` implements `SharedSpec`.
