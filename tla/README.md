# A verification of node-xmpp-bosh

node-xmpp-bosh connects XMPP clients that can only speak HTTP (BOSH, XEP-0124
and XEP-0206) or WebSocket to XMPP servers. It brings its own BOSH client,
Strophe, with which its tests drive it. This directory holds TLA+ modules
translated from `src/src/*.js` and `src/strophe/*.js`, the TLC configurations
that check them and TLAPS proofs of what matters most. Paths below are relative
to the repository.

## The system

```
 Strophe client (strophe.js, XMLHttpRequest.js)
      │ HTTP: POST, or GET (JSONP)
 http-server.js ───────── bosh.js ── session.js (response.js)   ┐
 (bosh-request-parser.js)               └─ stream.js            ├─ events ─ xmpp-proxy-connector.js ─ xmpp-proxy.js ── XMPP server
 WebSocket client ──────────────── websocket.js                 ┘           (lookup-service.js, stream-parser.js, starttls.js)
```

JavaScript runs every handler to its end, so within a process nothing
interleaves inside a handler. What interleaves is handlers: HTTP requests (which
overtake one another and are repeated), events of the XMPP side, `nextTick`
callbacks, and timers.

| component | state | operations | what makes it correct |
|---|---|---|---|
| HTTP server (`http-server.js`) | two lists of callbacks, swapped by a timer | take in, limit and time out POST requests, take GET requests, parse | every request has one outcome, in time; none is forgotten |
| request parser (`bosh-request-parser.js`) | one expat parser for all requests | parse, reset | a request leaves nothing behind for the next |
| BOSH front end (`bosh.js`, `helper.js`) | the two stores | session creation, routing of requests to session and stream, handlers of the connector's events | each request and event reaches the right session or is told there is none |
| session (`session.js`, `response.js`) | held HTTP responses, requests queued behind a missing rid, what is pending, the cache of unacknowledged replies, timers | hold, queue, process in rid order, stitch and send, answer repeated requests, acknowledge and trim, time out, terminate | see below |
| streams of a session (`stream.js`, parts of `session.js` and `bosh.js`) | table of streams, whose turn it is, counters | add, restart, terminate, look up, serve in turn | all tables agree, no stream starves, requests reach the stream they are for |
| connector and proxy (`xmpp-proxy-connector.js`, `xmpp-proxy.js`, `stream-parser.js`, `lookup-service.js`, `starttls.js`) | entry, pending nodes, socket, TLS, parser, flags | resolve, connect, buffer, STARTTLS, restart, terminate | nodes are written once and in order; nothing is reported of a stream that is over; nothing leaks |
| WebSocket front end (`websocket.js`) | connections, their XMPP stream, pings | open, close, restart, respond, ping | a stream ends once, with one close tag, and leaves nothing |
| Strophe, requests (`strophe.js`, `XMLHttpRequest.js`) | queue of requests, data to be sent, errors, timers | send, time out, retry with backoff, give up, poll, disconnect | a reply is handled once, no rid is lost, everything comes to an end |
| Strophe, login (`strophe.js`) | handler lists, timed handlers, what is awaited | SASL by each mechanism, bind, session, legacy login, `sendIQ` | one verdict, no dead end, one outcome of an IQ |
| options, entry points, logging, utilities, statistics pages, digests and encodings of the client | configuration | | not modelled |

The session is the program's core. It must answer every HTTP request exactly
once, hold no more requests than agreed, pass the client's nodes on once and in
rid order whatever the order of arrival, and deliver the server's stanzas
without loss, repetition or reordering although replies are lost and repeated.
What makes that hard is the number of orders: a request can be new, ahead of a
gap, repeated while queued, repeated while held, or repeated after it was
answered; its response object can be used by a stanza, a newer request, a
timeout, or the end of the session; sending is deferred to the next tick.

## The modules

| module | models | runs |
|---|---|---|
| `Session` | `session.js`, `response.js`, the single-stream part of `stream.js`, and the handlers of `bosh.js` that drive them | `Session` |
| `BoshChannel` | `Session` composed with a client that keeps to XEP-0124 and a network | `BoshChannel`, `Missed_held` |
| `Channel` | abstract: a reliable channel; `BoshChannel` implements it | as a property |
| `Streams` | a session with several streams: `stream.js`, the stream-wise parts of `session.js` and `bosh.js`, and the connector's table | `Streams`, `Streams_end` |
| `XmppProxy` | the connector's entry of a stream, proxy, parser, lookup, STARTTLS, and the socket and server around them | `Proxy`, `Proxy_tls` |
| `WebSocket` | `websocket.js` with the counter of `stream.js` | `WebSocket` |
| `RequestParser` | `bosh-request-parser.js` under `parse_request`, as operators | in `HttpServer` |
| `HttpServer` | the intake of requests, with the parser of `RequestParser` | `HttpServer` |
| `Strophe` | the client's requests: `strophe.js`, `XMLHttpRequest.js` | `Strophe` |
| `StropheLogin` | the client's login, handlers and IQs | `StropheLogin`, `Login_iq` |
| `SequenceLemmas` | facts about sequences and folds the proofs use | proofs |
| `SessionProofs` | theorems about `Session`: types, replies, and the order and account of requests and stanzas | proofs |
| `ChannelProofs` | theorems about `BoshChannel`, on those of `SessionProofs` | proofs |
| `FrontEndProofs` | theorems about `HttpServer` and `WebSocket` | proofs |
| `StreamsProofs`, `XmppProxyProofs`, `StropheProofs` | theorems about the module of that name | proofs |
| `LoginProofs` | theorems about `StropheLogin` | proofs |

The cfg files instantiate the modules directly: every parameter of a model is a
number, a set of kinds, or a set of model values.

### Session

`session` is a record with the JavaScript fields under their own names (`rid`,
`hold`, `ack`, `res`, `queued_requests`, `unacked_responses`, `max_rid_sent`,
`pending_stanzas`, `pending_bosh_responses`, `has_next_tick`, `first_response`,
`timeout`) and, behind them, history: which rid arrived on which connection, the
replies of each connection, the nodes passed on, and what was acknowledged,
reported, dropped or trimmed. `status` says which store the session is in.

Each function of `session.js` that changes state is an operator from record to
record with the function's name; an action composes them in the order of the
calls. So `Request` is `handle_acks` (with the reset of the inactivity timer),
`add_held_http_connection`, `process_requests`, `respond_to_extra_held`: the
whole handler of `bosh.js` and what it calls. `process_requests` is a loop in the
code; here it is the set of rids the loop takes (`Runnable`), with a terminate
request splitting it in two. Sending several bodies at once (`SendOnFirst`) is
the loop of `send_pending_responses` in one step.

Choices a reader should know of:

- `pending_stitched_responses` is filled and emptied inside one loop and is not
  state between handlers. A body is its kind and its stanzas; wording,
  conditions, and the `ack` attribute are left out.
- a terminate request passes its nodes on before the session ends.
- `NextTick` is a separate action and may run after other handlers; the runtime
  runs it earlier, so the model allows more orders.
- `RequestTimeout` takes the response that came first: all wait equally long.
- `InactivityTimeout` needs `res` to be empty: a response waits at most
  `inactivity` seconds and the timer of the session is 10 seconds longer.
- `CreateRefused` is a session whose host the connector refuses inside the
  `stream-add` event, before the handler has sent the creation response.
- of the connector, `Session` assumes that it is silent about a stream that is
  over. That is `SilentWhenOver` of `XmppProxy`.
- rids are whole numbers, as XEP-0124 has it; the code converts a rid with
  `toNumber` and compares it (`helper.js:169-171`, `session.js:254-256`), so it
  takes 3.5 too. Such a request is held and queued, `process_requests` never
  comes to it (`session.js:344`), and once the session is at 3 the next request
  fails the assertion at `session.js:1095` and gets no answer. Everything said
  of `Session` is said of clients that send whole numbers.

### BoshChannel and Channel

The client (external) numbers its requests, keeps in the window, keeps up to
`hold` requests open, repeats requests whose connection broke and reads replies
in rid order. There are three kinds of network, one of which a behaviour picks
at its start: `overtaking` (requests overtake one another and may be lost),
`losing` (requests stay in order, a connection breaks with the reply on its way)
and `cutting` (in order, a connection breaks while the server holds its
request). `Channel` knows only what was sent and what was delivered; the
refinement maps `delivered` to the stanzas of the replies the client has read
without a gap.

### Streams

Streams are numbered in the order in which they are added; 0 is the null stream.
The connector's table (`connector`) is the other half of the same record,
because its entries and the session's streams must come and go together. The
queue of requests, `process_requests` and the round robin
(`_stitch_new_response`, `next_stream`) are as in the code; the cache of
replies, repeated requests, acknowledgements and the inactivity timer in detail
are those of `Session` and left out here. `passed` counts how often another
stream was served while one waited, `target` and `nodes` record for whom a
request was and whom its nodes reached.

The store is one table for all sessions, and `get_stream` does not look whose
stream it finds (`stream.js:168-172`). The model has one session and takes its
client to name only streams of that session that it was told of (`named`);
names are random.

`emit_nodes_event` to the null stream reaches every stream the connector has.
That is why `delete_stream` must empty the nodes of the requests that were
queued for the stream: the mutant `delete_stream_broadcast` is a session that
only clears the reference.

### XmppProxy

`link` is the connector's entry, the proxy and its socket; `peer` is what the
client and the server have done. A data event is an item (`open`, `features`,
an offer or requirement of STARTTLS, `proceed`, `success`, `stanza`, `close`,
`huge` for one that exceeds the size limit). The parser is `fresh` (no root
element), in a `stream`, `spent` (its root element closed: what follows is not
well formed) or `ended`. A write on a socket whose peer is gone is lost or
throws, nondeterministically. A socket is `dead` when it has learned that its
peer is gone; it delivers no data then, and its `close` event comes later.
`end()` closes this side only (`ended`): the code never destroys a socket, so
the rest is for the server to do, and the model lets it keep its side open for
good. The `close` of a secured connection reaches the proxy or does not: `pipe`
(`starttls.js:50-76`) does not forward it, and what the TLS pair of the runtime
does is not in the repository. A server that is not `Orderly` sends anything at
any time.

### WebSocket, HttpServer, RequestParser

`WebSocket` keeps the fields of `sstate` for each connection and the
connector's view of its stream. A pong comes at once or not at all. When
`Late`, a timer may run noticeably after its time, which matters because the
code compares a difference of dates with twice the interval.

`HttpServer` has a clock; the timer runs every `Period` ticks. When a request
has arrived it is read by the one parser that the earlier ones have left
(`server.parser`). `RequestParser` abstracts XML to a sequence of tags; `Read`
tabulates once, for every parser a request can leave behind, what each text of
up to `MaxLength` fragments does to it. The reference definition with which
every reading is compared says with `Balanced` what well-formed XML is.

### Strophe and StropheLogin

`Strophe` is one connection of the client: the queue `_requests`, the data that
waits for the idle function, the error count, the timer of `disconnect()`, and
the HTTP exchanges that can still end (`listening`: an exchange whose handler
has not been removed by `abort`). Functions of the code are operators from
record to record; `_removeRequest` runs `_throttledRequestHandler`, which runs
`_processRequest` on the first and the second request, as in the code. Times are
abstracted to what the code compares: a request's age is young, late (beyond
`SECONDARY_TIMEOUT`) or overdue (beyond `TIMEOUT`), and a request presumed dead
is so for a short or a long time. A life is the time between two resets of the
request id; the random first id is one that is out of the window of every
earlier one. The server (external) gives each exchange a reply, with or without
a body, or none, at any time, with a status for each class that
`_onRequestStateChange` tells apart: 200, 302 for any other below 400, 404 for
4xx, 503 for 5xx and for errors of the network (`XMLHttpRequest.js:229`). A request whose reply has a status of the second
class leaves the queue and nothing else happens: its id is `dropped`.

`StropheLogin` is the meaning of the replies. A handler is named for its
callback; no list ever holds two of a kind, so lists are sets. Handlers that are
added or deleted wait in `addHandlers` and `removeHandlers` for the next body,
and in `addTimeds` and `removeTimeds` for the idle function, in the order the
code merges them, which differs. The server sends any stanza at any time, SASL
stanzas one in a body; a reply may have no body. `ignored` records that a reply
before the end of the login led nowhere: it had no body, or none of its stanzas
was taken by a handler that has a case for it (`HasCase`).

## The runs

Passing runs:

| run | what it shows |
|---|---|
| `Session` | any client whose rids are whole numbers (also outside the window; too many attributes, terminations, repeats of what was processed), any interleaving with stanzas and timers: what is held, queued, answered, kept and reported; every HTTP request is answered when timers run |
| `BoshChannel` | session, client and an overtaking or losing network implement `Channel`, liveness included; nodes arrive; a correct client is never refused; no reply is misread |
| `Streams` | up to three streams that are added, restarted and ended by clients, refused, closed by servers: the session's list, the store, its count and the connector agree (`TablesAgree`); no stream is served twice while another waits (`NotPassedOver`); no request's nodes reach another stream, whatever ended meanwhile (`NotMixed`) |
| `Proxy` | any server, one that never closes its side included: silence after the end, order of the nodes; the proxy closes its side of a stream that is over; while the connection is in the clear, the end is reported |
| `Proxy_tls` | an orderly server: STARTTLS is invisible and undisturbed (`TlsHidden`), restarts are reported |
| `WebSocket` | one end, one close tag, dead connections close; nothing is left of a connection that has closed, for clients that stop after a message that cannot be parsed, and the count of streams is not too high |
| `HttpServer` | one outcome per request, not too early, none forgotten, lists kept clean; the parser is clean after every request and accepts by the request alone, in whatever order requests of whatever text are read |
| `Strophe` | two lives of the client's connection: a reply is handled once however often its request is repeated, no request id is given up while connected, but for those whose reply has a status below 400 other than 200; requests leave the queue and a disconnecting connection ends although the server is silent |
| `StropheLogin` | every mechanism, against a server that says anything: one verdict; before it there is a request under way and a handler for its answer, unless a reply led nowhere; an answered IQ does not time out |

Runs that end in a violation, each a place where the code does not do what a
comment of the repository says:

| run | what it shows |
|---|---|
| `Missed_held` | a connection breaks while its request is held. The repeated request is answered empty (`session.js:1117`) and the next stanza is written to the dead connection. The client has an answer for that rid and never learns of the stanza. |
| `Streams_end` | a session adds a second stream when the connector reports the end of the first (its server cannot be reached, or has closed the connection). The session goes on, and the client knows the first stream by name. The terminate response the comment at `bosh.js:276` announces is queued under the stream's name and deleted with the stream in the next line. |
| `Login_iq` | an IQ times out before any body has come since it was sent. Its handler is not yet in the list, so deleting it finds nothing; it is added afterwards, and the IQ is both timed out and answered (`strophe.js:1865`). |

Some properties of the passing runs hold only under a condition that the cfg or
the module states, because the code does not do better:

- `StanzaKept` needs `RepeatsAhead = FALSE`: a request that is repeated while a
  lower rid is missing is held a second time, and the second reply on its rid
  replaces the first one in the cache. `BoshChannel` runs with `TRUE`.
- `ReplyNotMissed` needs a first rid for which `rid - window` is not 0 at the
  wrong time: 0 is taken for a missing ack and the cache is purged up to
  `rid - 1`. With window 3 and first rid 1 the property fails.
- `NothingLeft` of `WebSocket` needs `GoesOn = FALSE`: a client's close tag
  after a message that could not be parsed is taken for the answer to a close
  tag that was never sent (`websocket.js:245-246`), and the XMPP stream stays
  open.
- the count in `NothingLeft` is an upper bound only. Every WebSocket connection
  that closes is subtracted from the count of active streams, also one that
  opened none, so the count can fall below the truth.
- `NoneForgotten` of `HttpServer` allows two periods: the 15 seconds of the
  comment at `http-server.js:164` are 15 to 30 in the code.
- a WebSocket client that has just connected is disconnected after one
  unanswered ping if the timer is late (`Late`); `DeadConnectionCloses` holds
  with and without.
- `QueueAhead` and `EveryRequestAnswered` are false of clients that use
  fractional rids, which the model does not have: see `Session` above.
- `SocketReleased` says that the proxy closes its side. It does not say that the
  socket goes: `end()` waits for the server, without a timer.
- `EndReported` is confined to connections in the clear, and to a peer of which
  the socket knows that it is gone; no timer of the code looks for one that
  vanished in silence.
- `NoRidSkipped` excepts ids whose reply had a status below 400 other than 200
  (`strophe.js:2326-2329` takes the request off the queue, `2356-2359` does
  nothing further): what the client sends later stands behind a gap.
- `LoginGoesOn` excepts logins in which a reply led nowhere. Before
  authentication the client does not poll, so a reply without a body
  (`strophe.js:2565` for the first one), one no handler waits for, a bind
  without a jid (`strophe.js:2972`) or an answer to the session or to legacy
  authentication that is neither result nor error (`strophe.js:3008-3015`,
  `3059-3065`) leaves it without a request, a handler or a report.

Met while modelling and stated by no run: a reply on a greater rid first leaves
a hole in `unacked_responses`, which `session.js:149-151` excludes; a session
that is terminated twice in one run of `process_requests` is counted out twice
(`session.js:1160`); `MAX_STREAMS_PER_SESSION` admits one stream more
(`session.js:1145`), and `NotPassedOver` and `TablesAgree` hold with that. In
Strophe: the idle function sends without a look at the window; `disconnect()`
before the first reply does nothing; data that was queued when a connection ended
is sent by the next one; the last backoff (125 s) exceeds `TIMEOUT` (66 s), so
the last retry is never sent; timed handlers added before authentication are
dropped silently; an IQ has no outcome when the connection ends.

### Bounds, and why they are enough

- Rids up to 4 with a window of 2 have requests below, at, inside, at the end of
  and beyond the window, a gap with two requests queued behind it, and an ack of
  a later reply. Four connections allow a repeated request beside a gap. The
  channel runs go to rid 6 and 8 connections, so that the window moves past its
  start.
- Two stanzas are enough for order, loss and repetition. Two BOSH connections
  (`MaxBoshConnections`) are what the code's default is; `hold` is 2 and 0 in
  `Session`, for two held responses and for the clamp to 1.
- Two broken connections in the channel run: the connection of a repeated
  request can break as well.
- Three streams, two of them at most at the limit, so that one is admitted over
  it, one can be added after another has ended, and the round robin has a stream
  on either side of the one that is deleted.
- One stream in `XmppProxy`, since streams share nothing there; two nodes, one
  restart, four items. Two WebSocket connections, for the shared counter; two
  messages each cover open and restart, open and close, and a second close. Two
  requests in `HttpServer` for the indices in the lists and for a parser that has
  been used; a period of 2 ticks and three periods cover both lists. Five
  fragments are the shortest requests that leave the wrapper, come back and carry
  a body.
- `Strophe`: the code's 60 s, five sends and four errors make backoffs up to
  125 s, of which only the last exceeds `TIMEOUT`, and errors end the connection
  before the sends do. `Wait = 20`, `MaxSends = 3` and `MaxErrors = 1` keep both
  relations (backoffs 8 and 27 s against 22 s, as 8, 27, 64 and 125 s against
  66 s). Two requests fill the queue:
  the code keeps two under way. Two lives are a connection and one that meets
  what the first has left.
- `StropheLogin`: two IQs, so that handlers of both are in the lists when a body
  answers both; two connections, because `do_bind` and `do_session` survive one
  that was not reset; the offers are one for each branch of `_connect_cb`.
- `MaxMessages`, `MaxEvents`, `MaxPongs`, `MaxItems`, `MaxNodes`, `MaxRestarts`,
  `MaxPolls`, `MaxData`, `MaxFaults`, `MaxRid`, `MaxConn`, `MaxStanza`,
  `MaxStreams`, `MaxTime`, `MaxLength`, `MaxRequests`, `MaxLives` are the bounds.
  All are conditions of actions of the environment, but `MaxRequests`: a program
  that has used up the request ids of a life builds no further request (`MayBuild`).
  Runs stop at their bounds, hence `CHECK_DEADLOCK FALSE`.

### Fairness

- `Session!FairSpec`: the `nextTick` callback and the timers of held responses
  run. Node guarantees both. No client and no server is obliged to do anything.
- `BoshChannel!ChannelSpec`: something among what goes on by itself happens as
  long as anything can: reading, repeating, polling, delivery, the callback. No
  timer, stanza or request with nodes is obliged to occur.
- `XmppProxy!FairSpec`: resolving and connecting come to an end, arrived data is
  read, a socket that knows its peer to be gone emits `close`. That a peer goes,
  even after this side was closed, is not assumed. `AnsweringSpec` adds that the
  server answers and completes the handshake; only `RestartReported` needs it.
- `WebSocket!FairSocketSpec`: the ping timer runs, and a connection that was destroyed
  or whose close was begun closes (the library gives up after a while).
- `Strophe!FairSpec`: the idle function runs every 100 ms (`idle` changes with
  each run, so that one which changes nothing counts), timers come due, and
  requests grow old. The server need not answer and the program need not do
  anything.

## What is proved

For every value of the constants, under the named assumptions of each module
(`BoundsAssumption`, `OptionsAssumption` and `ClientAssumption` of `Session`,
and their like in the others), which TLC evaluates in the runs:

| theorem | statement |
|---|---|
| `SessionProofs!TypeCorrect` | `Spec => []TypeOK` |
| `SessionProofs!AnswersOnce` | `Spec => []AnsweredOnce`: each request that arrived is held once and unanswered, or answered once and not held |
| `SessionProofs!HoldsWithinHold` | `Spec => []HeldWithinHold`: the policy branch of `add_held_http_connection` is dead code |
| `SessionProofs!QueueIsAhead` | `Spec => []QueueAhead`: what is queued waits for a missing rid, for clients whose rids are whole numbers |
| `SessionProofs!NodesAreInOrder` | `Spec => NodesInOrder`: nodes are passed on once and in rid order (an action property) |
| `SessionProofs!NothingStalls` | `Spec => []NoStall`: something pending is not forgotten |
| `SessionProofs!StanzasAreInOrder` | `Spec => []StanzaOrder`: the reply to the lower rid has the lower stanzas |
| `SessionProofs!StanzasAreKept` | `~RepeatsAhead => (Spec => []StanzaKept)`: no stanza is lost |
| `SessionProofs!SilenceIsReported` | `~RepeatsAhead => (Spec => []SilenceReported)`: what was not acknowledged is reported |
| `SessionProofs!AcknowledgedIsNotReported` | the half of it that needs no hypothesis: nothing acknowledged is reported |
| `SessionProofs!NothingIsLeftBehind` | `Spec => []NothingLeftBehind`: a session that is over holds nothing and has no timer |
| `ChannelProofs!NeverRefuses` | no "terminate" in `Kinds`: `ChannelSpec => []NeverRefused`: a client that keeps to the window is not refused, on any network |
| `ChannelProofs!RepliesAreNotMissed` | also no "cutting" in `Networks` and `WindowSize <= InitRid + 1`: `ChannelSpec => []ReplyNotMissed`: the reply the client reads for a rid has all that was sent on it |
| `StreamsProofs!TablesHold` | `Spec => []TablesAgree`: the session's list of streams, the store, the count and the connector agree |
| `StreamsProofs!TurnsHold` | `Spec => []NotPassedOver`: no stream is served twice while another waits |
| `StreamsProofs!TargetsHold` | `Spec => []NotMixed`: no request's nodes reach another stream |
| `XmppProxyProofs!ProxyInvariant` | the inductive invariant of the proxy, types included |
| `XmppProxyProofs!SilentAfterTheEnd` | `Spec => []SilentWhenOver` |
| `XmppProxyProofs!NodesInOrderOnTheWire` | `Spec => []NodesKeepOrder` |
| `XmppProxyProofs!TlsIsHidden` | `Orderly => (Spec => []TlsHidden)`: STARTTLS is invisible to the client and undisturbed by it |
| `FrontEndProofs!SocketTypeCorrect`, `!SocketInvariant` | types, and the inductive invariant of a connection |
| `FrontEndProofs!CloseTagLast` | `SocketSpec => []NothingAfterClose` |
| `FrontEndProofs!EndedOnlyOnce` | `SocketSpec => []EndsOnce` |
| `FrontEndProofs!NothingIsLeft` | `~GoesOn => (SocketSpec => []NothingLeft)` |
| `FrontEndProofs!IntakeInvariant` | the inductive invariant of the two lists |
| `FrontEndProofs!OneOutcomeEach` | `Spec => []OneOutcome` |
| `FrontEndProofs!NoneIsForgotten` | `Spec => []NoneForgotten` |
| `FrontEndProofs!ListsAreCleared` | `Spec => []CallbacksCleared` |
| `FrontEndProofs!TimeEnough` | `Spec => TimeToArrive` (an action property) |
| `FrontEndProofs!ParserIsClean` | `Spec => []ParserClean`: whatever was read, the parser that is left reads the next request as a new one would |
| `StropheProofs!EngineInvariant` | the inductive invariant of the request engine |
| `StropheProofs!CallbackOnce` | `Spec => []HandledOnce` |
| `StropheProofs!NoIdIsLost` | `LastIsTooLate => (Spec => []NoRidSkipped)`: every id has its reply, is still tried, or was dropped for a status below 400 other than 200 |
| `LoginProofs!LoginHolds` | the inductive invariant of the login |
| `LoginProofs!VerdictIsOne` | `Spec => []OneVerdict`: a connection is told of one outcome of its login |
| `LoginProofs!NoLoginIsForgotten` | `Spec => []LoginGoesOn`: until the verdict, or until a reply led nowhere, a request is under way and a handler waits for its answer |
| `LoginProofs!AnsweredIsFinal` | `Spec => []NoTimeoutAfterReply` |

### The hypotheses of theorems

Seven theorems have one, and each is a condition of the code or of its peers:
- `~RepeatsAhead` (`StanzasAreKept`, `SilenceIsReported`): no client repeats a
  request that still waits for a lower rid. With such clients both properties
  are false, as TLC shows on the cfg of run `Session` with
  `RepeatsAhead = TRUE`: the rid is then held twice, and `unacked_responses`
  keeps one reply per rid. All other theorems about `Session` hold for both.
- `Orderly` (`TlsIsHidden`): client and server keep to RFC 6120, as
  `ClientMaySpeak` and `ServerMaySend` say it. A server that sends a second
  stream tag unasked makes the proxy report a restart, and a client that speaks
  before it has features can follow `<starttls/>` with a node. The other
  theorems about `XmppProxy` hold for any client and server.
- `~GoesOn` (`NothingIsLeft`): see the runs. It is false otherwise.
- `LastIsTooLate` (`NoIdIsLost`) says that the backoff before the last send is
  longer than `TIMEOUT`: 125 s against 66 s in the code, 27 s against 22 s in the
  cfg. A request whose sends are used up is taken out of the queue alone, and
  its id would be lost; the hypothesis is why the connection ends first.
- no `"terminate"` in `Kinds` (`NeverRefuses`, `RepliesAreNotMissed`): the client
  does not end the session itself. `NeverRefused` says that the session is open
  or not yet created, which a client's own `terminate` makes false.
- no `"cutting"` in `Networks` (`RepliesAreNotMissed`): no connection breaks
  while its request is held. It is false otherwise: run `Missed_held`.
- `WindowSize <= InitRid + 1` (`RepliesAreNotMissed`): with a larger window
  `rid - window` is 0 for a request whose predecessors may be unread, and
  `handle_acks` (`session.js:985` and `1010`) takes the 0 for a missing ack and
  forgets their replies. TLC finds the loss with window 3 and first rid 1.
  The option `WINDOW_SIZE` is 2 by default, for which the hypothesis holds for
  every first rid.

### The arguments

**Types and replies of the session.** `TypeCorrect` goes operator by operator:
one lemma says of each that it takes session records to session records; an
action then is a composition of lemmas. The delicate places are `Min`/`Max` of
sets of rids (`LeastRid`, `GreatestRid`), and `InsertByRid`.
`AnsweredOnce` by itself is not inductive, because a handler passes through
states in which one response more than `hold` is held, and because a reply is
given to a connection only if that connection is still unanswered. The
inductive invariant `HeldInv` is `AnsweredOnce` and the bound of `hold` on the
held responses, on top of `TypeOK`. Under it every operator falls into one of
two classes: it *only sends* (`OnlySends`: the held connections shrink, and
exactly those that leave get their one reply; nothing else of the record
matters), or it *takes in* one new connection and holds or answers it. The
classes compose, so an action is a chain of steps of the two classes, and the
last operator, `respond_to_extra_held`, restores the bound.

**The queue of the session** (`QueueInv`). Beside `QueueAhead` it says that the
nodes of rids above the session's are untouched, that a session that does not
exist has rid 0, and `Moving`: nothing is pending, or a callback is scheduled,
or all that is held waits for a missing rid. `process_requests` is the only
operator that moves the rid; `ProcessRequestsTakes` says that it takes a run
without a gap and stops only before a missing rid, and that it leaves the
session *quiet* (nothing is pending or nothing is held) if it took anything.
For all other operators it is enough that they leave the rid and the nodes alone
and queue nothing (`KeepsQueue`). `NodesInOrder` follows from the same steps.

**The order of stanzas** (`OrderInv`). `StanzaOrder` speaks of replies, but a
reply can be sent again from the cache, so the invariant is about what is *on* a
rid: in the cache or in a reply to it. What is on a lower rid is lower
(`Ordered`). New stanzas get on a rid only by `send_pending_responses`, which uses
the first held response, all pending ones in one reply; so `res` is sorted
(`Sorted`), nothing is on a rid above `max_rid_sent` (`Bounded`) or above that
of a held response (`HeldAbove`), and what is pending is above all that is on
any rid (`PendingLast`). Most operators only make the sets on rids smaller or
leave them (`Fades`), and have one lemma each that says so; sending what is
pending, holding a response and taking in a stanza have a proof of their own.

**The account of stanzas** (`SettledInv`). No stanza may leave both the queue and
the cache unless it is acknowledged or trimmed. A cached reply is overwritten by
the next reply to the same rid, so the invariant says that no rid is held twice
(`Distinct`), that nothing is cached on a rid that is held (`Clear`), and that
nothing is held or cached on a rid that has not been received (`Fresh`).
The last is where `~RepeatsAhead` is used: `Request` may then assume that the rid
is new. What is acknowledged is not carried any more, which is why a
`no-client` event never names it: this half rests on `OrderInv` (a stanza is on
one rid) and needs no hypothesis.

**The channel** (`ChannelInv`, then `MemoryInv`). `NeverRefused` needs a joint
invariant of the three parts (`ClientGood`, `JointGood`), on top of the session's
`TypeOK`, `HeldInv` and `QueueInv`. A rid the client has used was either recorded
by the session (processed or queued, `Recorded`) or has not yet come, a request
that came was recorded for good (`Came`), and one that was read had come. From
that the session has processed everything up to what the client has read without a
gap, so its rid is at least there, and all that the client may send lies within one
window above and below it. One lemma classifies what a step does to the
session: it *passes* (`Passes`: the rid grows, what is recorded stays so, nothing
arrives) or it *takes one request in* (`TakesRequest`); the client's half sees
only these two.

`ReplyNotMissed` adds what the session remembers (`Memory`): a response is held
for the only request with its rid (`Alone`), and what was replied on a rid is
what the cache has, if it has anything (`Remembered`), so that a repeated reply
carries the same stanzas. On a network that overtakes and loses requests no
request arrives twice (`OnePlace`), which is all it takes. Where replies are
lost, a reply that is not read must still be in the cache (`UnreadKnown`).
Requests are in order there, so that the acknowledgment under way is at most a window
below the rid it comes with, and everything in the cache lies in two windows
(`Covered`): the limit of four windows at which the session turns
acknowledgments off is out of reach, and what is purged was read.

**The proxy** (`ProxyInv`). `SilentWhenOver` speaks of events; it is inductive
with the facts (`LinkInv`) that a proxy whose entry is gone is not connected, or
will terminate when it connects, and that whatever its socket still delivers is
not parsed (`Deaf`). The nodes
that are written, buffered in the socket and pending in the entry are, one
after the other, the nodes of the client (`Numbered`).

`TlsIsHidden` has an invariant of its own (`Hidden`), in four parts. *Counted*:
of the stream tags that were read or are still to come, one starts the stream,
one follows the handshake and is suppressed, and the client has asked for the
others, so that none is left over to be reported. *Shaken*: nothing arrives
between `<proceed/>` and the end of the handshake. *Offered*: STARTTLS is offered
once and before anything else, and from then until the new stream the client
has no features, so an orderly client does not speak. *Undisturbed* is the
second half of the property. Most operators are *calm*: they touch nothing the
invariant is about (`CalmHidden`).

**The WebSocket front end** (`SocketInv`, `StreamInv`). Every action changes one
connection and the count; the steps are classified once (`NextSteps`) and each
part of the invariant is shown of the record a step leaves. `NothingLeft` needs
`StreamKnown`: the connector has a stream only between the tags of the client.

**The intake** (`IntakeInv`). The first list has the callbacks of requests born
in this period, the second those of the one before, each at the index the request
remembers, and every request that still arrives is in one of them. The time of the last swap is
computed from the clock (`start`), and everything about time follows from it.

**The parser** (`ParserInv`). A request can leave one of three parsers behind:
a new one, or one that is inside the root element of all requests with nothing
open and that has told of a body with or without a child. `RequestLeaves`
says so of every text: the parser's fields keep their types, and once an element
has begun one has begun, through every fragment (`FeedTypes`, and the fold of
`parse`); what is left can then be read off the last fragment, the end of the
wrapper.

**The streams of a session** (`StreamsInv`). The three properties need each
other: the tables must agree for a stream that ends to be found, nothing that is
queued may be for a stream that has ended (`Queued`), and a stream that was
served while another waits comes after it in the order that `next_stream` gives
(`InTurn`). `Records` is the set of sessions that satisfy all of it, and every
function of the code leads from `Records` to `Records`.

**The login** (`LoginInv`). Handlers come and go through three lists, so what
counts is which there will be at the next merge (`Coming`). The invariant lists
the sets of login handlers that ever wait together (`Steps`, nine of them), says
that the references the client keeps are to these (`Referred`: otherwise one
would be left behind by `Forget`), and that the verdict comes with the last
(`InStep`). `Asked` adds that a request is under way, unless a reply led nowhere
(`RunEndsThere` is the lemma for handlers without a case). Of IQs it says that
one which was answered has no timer and gets none (`Timed`). Which handlers a
stanza hits depends on names, hence `IqsAssumption`: ids of IQs are unique
(`getUniqueId`) and none is the id of an IQ of the login.

**Loops.** The loops of the code are folds of the community modules, whose
definition is by recursion. `SequenceLemmas` shows that the recursive equation
has a solution (`Solvable`) and that a fold whose every step leads from one set to the
next ends in the last (`FoldLeftReaches`), by a least counterexample
(`LeastNumber`) in place of induction. A fold over a set is unfolded where the
set has at most one element (a stanza hits one handler).

**The request engine** (`EngineInv`). An id is at one place of the queue and in
one exchange that is listened to; what is queued or under way has no reply; an
id without a reply is queued or was dropped (`Taken`); ids of earlier lives are
below the first id of this one. Each operator (`_processRequest`,
`_throttledRequestHandler`, `_removeRequest`, the handlers of an exchange) keeps
the invariant by itself, so that the actions, which compose them, do.

### What is only model-checked

- liveness (`EveryRequestAnswered`, `NodesArrive` and the others under
  fairness), and the refinement of `Channel`: `delivered` is defined by recursion
  over the replies, and its liveness part needs fairness.
- `ResultIsContents`: that the parser's verdict is that of the reference
  definition (`Balanced`) for *every* text relates two recursive definitions
  over its length.

## What is not modelled

- a session with several streams whose replies are also lost and repeated at the
  same time: `Session` has the one, `Streams` the other. They share the queue
  of requests and the held responses, and nothing in the cache of replies depends
  on streams.
- clients with fractional rids, which the code accepts and does not serve.
- a request that names a stream of another session. The code would find it
  (`stream.js:168-172`): sessions share the table of streams and the counts.
- PIDGIN mode (`PidginCompatible`) is in the model and off in every run.
- sizes in bytes: `MAX_DATA_HELD` counts parts, `max_xmpp_stanza_size` is the
  item `huge`.
- the routes that answer at once (options, statistics, favicon, cross-domain
  policy), the option table, logging, process start: no state.
- a second STARTTLS on a stream that is already secure, and the events of the
  sockets under TLS but for data and `close`.
- of Strophe: replies with a status from 600 and those whose text is not XML;
  the exception of a delayed send whose request was aborted
  (`XMLHttpRequest.js:134-137`), which leaves a timer callback and changes no
  state; handlers that throw, among them that of an IQ whose answer is neither
  result nor error (`strophe.js:1849-1854`); timed handlers of the program other than those
  of `sendIQ`, the builder and the helpers for XML and JIDs (no state), MD5 and
  base64 (functions over bytes, opaque here).
- dead code: `_on_no_client_found` (no caller), `enqueue_report_if_reqd` (its
  call is commented out at `session.js:382`), the route filter of the lookup
  (never passed). The branch before `session.js:1128` is not taken for the rids of
  the model, which were checked before; the comment there says that control does
  reach it, and does not say how.
- tests and stress tools: read as evidence.

## The plan

The order is by importance.

1. **Done.** `Session`, then `BoshChannel` and `Channel` (the composition and the
   refinement); `XmppProxy`; `WebSocket`; `HttpServer` composed with
   `RequestParser`; `Streams`; `Strophe`; `StropheLogin`. Proofs of type
   correctness and of one reply per request.
2. **Done.** Proofs of every safety property that a passing run checks, but for
   `ResultIsContents`; of the refinement of `Channel`, TLC has the last word.
3. `Gateway`: `Session` (or its abstraction) and `XmppProxy` composed over their
   events, with an abstract specification of an end-to-end stream, so that the
   assumption `SilentWhenOver` is discharged inside one module.
4. `StanzaSize`: the limit on stanza sizes over chunks, against `README.md:88`.
