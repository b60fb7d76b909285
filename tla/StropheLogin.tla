---------------------------- MODULE StropheLogin ----------------------------
(***************************************************************************)
(* The login of the BOSH client in strophe/strophe.js and the handlers it  *)
(* works with: the stanza handlers of each step of SASL, of the binding    *)
(* and of legacy authentication, the handlers and timers of sendIQ, and    *)
(* the lists through which handlers come and go.  How requests are sent    *)
(* and given up is in Strophe; here each gets one reply or the connection  *)
(* ends.  A reply has a body of stanzas, a body of type terminate or, its  *)
(* text being empty, no body at all.                                       *)
(*                                                                         *)
(* A handler is named for its callback: no list ever holds two of a kind.  *)
(***************************************************************************)
EXTENDS Integers, Sequences, SequencesExt, FiniteSetsExt

CONSTANTS
  Offers,    \* the sets of mechanisms a server may offer
  Iqs,       \* the IQs the program sends with sendIQ and a timeout
  MaxLives   \* bound: times the program connects

ASSUME LoginAssumption ==
  /\ Offers \subseteq SUBSET {"ANONYMOUS", "DIGEST-MD5", "PLAIN", "other"}
  /\ MaxLives \in Nat \ {0}

VARIABLE connection
vars == << connection >>

(* The system handlers, by the stanza they match: its name or its id.      *)
Matches ==
  [challenge1 |-> "challenge", challenge2 |-> "challenge", success |-> "success",
   failure |-> "failure", features |-> "stream:features", bind |-> "_bind_auth_2",
   session |-> "_session_auth_2", auth1 |-> "_auth_1", auth2 |-> "_auth_2"]
LoginHandlers == DOMAIN Matches

(* The ids of IQs are unique; those of the login are reserved.             *)
ASSUME IqsAssumption ==
  Iqs \intersect (LoginHandlers \union {Matches[hand] : hand \in LoginHandlers}) = {}

(* What a stanza says, where a handler looks at it.  The answer to a bind  *)
(* may lack the bind ("nobind") or have one without a jid ("nojid"); the   *)
(* other answers of the login may be of a type that is neither.            *)
Stanzas ==
  {[key |-> k, type |-> "none"] : k \in {"challenge", "success", "failure"}}
    \union {[key |-> "stream:features", type |-> t] : t \in {"none", "bind", "session", "both"}}
    \union {[key |-> "_bind_auth_2", type |-> t] : t \in {"result", "error", "nobind", "nojid"}}
    \union {[key |-> k, type |-> t] :
              k \in {"_session_auth_2", "_auth_1", "_auth_2"}, t \in {"result", "error", "other"}}
    \union {[key |-> i, type |-> t] : i \in Iqs, t \in {"result", "error"}}

IqStanzas == {s \in Stanzas : s.key \in Iqs}

(* SASL is in lockstep: of its stanzas a body brings one at a time.        *)
Bodies ==
  {<< >>} \union {<< s >> : s \in Stanzas}
    \union {<< s, t >> : s, t \in IqStanzas}
-----------------------------------------------------------------------------
(* The lists.  What is added or deleted takes effect with the next body,   *)
(* or at the next run of the idle function.                                *)

addHandler(c, new) == [c EXCEPT !.addHandlers = @ \union new]
deleteHandler(c, old) == [c EXCEPT !.removeHandlers = @ \union old]
addTimedHandler(c, i) == [c EXCEPT !.addTimeds = @ \union {i}]
deleteTimedHandler(c, i) == [c EXCEPT !.removeTimeds = @ \union {i}]

_addSysHandler(c, new) == addHandler(c, new)

MergeHandlers(c) ==
  [c EXCEPT !.handlers = (@ \ c.removeHandlers) \union c.addHandlers,
            !.addHandlers = {}, !.removeHandlers = {}]

(* Mutant: removes before it adds, as for the stanza handlers.             *)
MergeTimeds_removing_first(c) ==
  [c EXCEPT !.timedHandlers = (@ \ c.removeTimeds) \union c.addTimeds,
            !.addTimeds = {}, !.removeTimeds = {}]

MergeTimeds(c) ==
  [c EXCEPT !.timedHandlers = (@ \union c.addTimeds) \ c.removeTimeds,
            !.addTimeds = {}, !.removeTimeds = {}]

(* References to handlers the client means to delete later.                *)
Keep(c, field, hand) == [c EXCEPT !.refs[field] = {hand}]
Delete(c, field) == deleteHandler(c, c.refs[field])
Forget(c, field) == [Delete(c, field) EXCEPT !.refs[field] = {}]

(* The success and the failure handler of the step that comes next.        *)
AwaitSuccess(c) == Keep(_addSysHandler(c, {"success"}), "success", "success")
AwaitFailure(c) == Keep(_addSysHandler(c, {"failure"}), "failure", "failure")
AwaitChallenge(c, hand) == Keep(_addSysHandler(c, {hand}), "challenge", hand)
-----------------------------------------------------------------------------
send(c) == [c EXCEPT !._data = TRUE]
_sendRestart(c) == send(c)

_changeConnectStatus(c, status) == [c EXCEPT !.reported[status] = IF @ < 2 THEN @ + 1 ELSE @]

_doDisconnect(c) ==
  [c EXCEPT !.authenticated = FALSE, !.disconnecting = FALSE, !.connected = FALSE,
            !.handlers = {}, !.addHandlers = {}, !.removeHandlers = {},
            !.timedHandlers = {}, !.addTimeds = {}, !.removeTimeds = {}]

disconnect(c) ==
  IF c.connected THEN [c EXCEPT !.disconnecting = TRUE, !.dataRequests = @ + 1] ELSE c

Requests(c) == c.connectRequests + c.dataRequests
-----------------------------------------------------------------------------
(* The steps of the login.                                                 *)

_connect_cb(c, offer) ==
  LET t == _changeConnectStatus(disconnect(c), "CONNFAIL")
  IN CASE offer = {} -> [c EXCEPT !.connectRequests = @ + 1]
       [] ~c.node /\ "ANONYMOUS" \in offer -> send(AwaitFailure(AwaitSuccess(c)))
       [] offer # {} /\ ~c.node /\ "ANONYMOUS" \notin offer -> t
       [] c.node /\ "DIGEST-MD5" \in offer -> send(AwaitFailure(AwaitChallenge(c, "challenge1")))
       [] c.node /\ "PLAIN" \in offer /\ "DIGEST-MD5" \notin offer ->
            send(AwaitFailure(AwaitSuccess(c)))
       [] OTHER -> send(_addSysHandler(c, {"auth1"}))

_sasl_challenge1_cb(c) ==
  send(AwaitFailure(AwaitSuccess(AwaitChallenge(Delete(c, "failure"), "challenge2"))))

(* Mutant: forgets that the success handler has just been deleted.         *)
_sasl_challenge2_cb_deaf(c) ==
  send(AwaitFailure(Delete(Delete(c, "success"), "failure")))

_sasl_challenge2_cb(c) ==
  send(AwaitFailure(AwaitSuccess(Delete(Delete(c, "success"), "failure"))))

_sasl_success_cb(c) ==
  _sendRestart(_addSysHandler(Forget(Forget(c, "failure"), "challenge"), {"features"}))

(* Mutant: the success handler survives the failure.                       *)
_sasl_failure_cb_keeping(c) == _changeConnectStatus(Forget(c, "challenge"), "AUTHFAIL")

_sasl_failure_cb(c) ==
  _changeConnectStatus(Forget(Forget(c, "success"), "challenge"), "AUTHFAIL")

(* do_bind and do_session are set here and cleared by reset only.          *)
_sasl_auth1_cb(c, features) ==
  LET t == [c EXCEPT !.do_bind = @ \/ features \in {"bind", "both"},
                     !.do_session = @ \/ features \in {"session", "both"}]
  IN IF t.do_bind THEN send(_addSysHandler(t, {"bind"}))
     ELSE _changeConnectStatus(t, "AUTHFAIL")

Authenticated(c) == _changeConnectStatus([c EXCEPT !.authenticated = TRUE], "CONNECTED")

(* To an answer it has no case for a handler does nothing, and goes.       *)
_sasl_bind_cb(c, type) ==
  CASE type \in {"error", "nobind"} -> _changeConnectStatus(c, "AUTHFAIL")
    [] type = "nojid" -> c
    [] type = "result" /\ c.do_session -> send(_addSysHandler(c, {"session"}))
    [] type = "result" /\ ~c.do_session -> Authenticated(c)

_sasl_session_cb(c, type) ==
  CASE type = "result" -> Authenticated(c)
    [] type = "error" -> _changeConnectStatus(c, "AUTHFAIL")
    [] type = "other" -> c

_auth1_cb(c) == send(_addSysHandler(c, {"auth2"}))

_auth2_cb(c, type) ==
  CASE type = "result" -> Authenticated(c)
    [] type = "error" -> disconnect(_changeConnectStatus(c, "AUTHFAIL"))
    [] type = "other" -> c

(* The callbacks and errbacks of IQs that have been answered or timed out. *)
Outcome(c, iqs, what) ==
  [c EXCEPT !.outcome = [i \in Iqs |-> IF i \in iqs /\ Len(@[i]) < 2
                                       THEN Append(@[i], what) ELSE @[i]]]

IqAnswered(c, i) == Outcome(deleteTimedHandler(c, i), {i}, "answered")
IqsTimedOut(c, iqs) == Outcome(deleteHandler(c, iqs), iqs, "timeout")
-----------------------------------------------------------------------------
isMatch(hand, stanza) ==
  IF hand \in Iqs THEN hand = stanza.key ELSE Matches[hand] = stanza.key

(* No callback of the login or of an IQ asks to be run again.              *)
run(c, hand, stanza) ==
  CASE hand = "challenge1" -> _sasl_challenge1_cb(c)
    [] hand = "challenge2" -> _sasl_challenge2_cb(c)
    [] hand = "success" -> _sasl_success_cb(c)
    [] hand = "failure" -> _sasl_failure_cb(c)
    [] hand = "features" -> _sasl_auth1_cb(c, stanza.type)
    [] hand = "bind" -> _sasl_bind_cb(c, stanza.type)
    [] hand = "session" -> _sasl_session_cb(c, stanza.type)
    [] hand = "auth1" -> _auth1_cb(c)
    [] hand = "auth2" -> _auth2_cb(c, stanza.type)
    [] hand \in Iqs -> IqAnswered(c, hand)

Hit(c, stanza) ==
  {hand \in c.handlers : isMatch(hand, stanza) /\ (c.authenticated \/ hand \notin Iqs)}

Dispatch(c, stanza) ==
  LET hit == Hit(c, stanza)
  IN FoldSet(LAMBDA hand, t : run(t, hand, stanza), [c EXCEPT !.handlers = @ \ hit], hit)

_dataRecv(c, body) ==
  LET t == MergeHandlers(c)
  IN IF c.disconnecting /\ Requests(c) = 0 THEN _doDisconnect(t)
     ELSE FoldLeft(Dispatch, t, body)

(* A body with type='terminate'.                                           *)
Terminated(c) ==
  LET t == MergeHandlers(c)
  IN IF c.disconnecting /\ Requests(c) = 0 THEN _doDisconnect(t)
     ELSE IF c.disconnecting THEN t
     ELSE disconnect(_changeConnectStatus(t, "CONNFAIL"))

(* due: the timers whose period is over.  Without authentication the       *)
(* timers of the program are neither run nor kept.                         *)
_onIdle(c, due) ==
  LET m == MergeTimeds(c)
      fired == IF m.authenticated THEN m.timedHandlers \intersect due ELSE {}
      t == IqsTimedOut([m EXCEPT !.timedHandlers = IF m.authenticated THEN @ \ due ELSE {}], fired)
      polls == t.authenticated /\ Requests(t) = 0 /\ ~t._data /\ ~t.disconnecting
  IN IF Requests(t) < 2 /\ (t._data \/ polls)
     THEN [t EXCEPT !.dataRequests = @ + 1, !._data = FALSE] ELSE t

reset(c) == [_doDisconnect(c) EXCEPT !.do_bind = FALSE, !.do_session = FALSE]
-----------------------------------------------------------------------------
(* lives, reported, ignored and outcome are history.  ignored: before the  *)
(* login was over a reply led nowhere: it had no body, or no stanza that   *)
(* a handler waits for and has a case for.                                 *)
HasCase(hand, type) ==
  ~(hand = "bind" /\ type = "nojid") /\ ~(hand \in {"session", "auth2"} /\ type = "other")
LeadsOn(c, stanza) == \E hand \in Hit(c, stanza) : HasCase(hand, stanza.type)
LedNowhere(c, body) ==
  ~c.authenticated /\ \A s \in ToSet(body) : ~LeadsOn(MergeHandlers(c), s)

NothingReported == [s \in {"CONNECTED", "AUTHFAIL", "CONNFAIL"} |-> 0]

Init ==
  connection =
    [node |-> FALSE, connected |-> FALSE, authenticated |-> FALSE, disconnecting |-> FALSE,
     do_bind |-> FALSE, do_session |-> FALSE,
     handlers |-> {}, addHandlers |-> {}, removeHandlers |-> {},
     timedHandlers |-> {}, addTimeds |-> {}, removeTimeds |-> {},
     refs |-> [f \in {"success", "failure", "challenge"} |-> {}],
     _data |-> FALSE, connectRequests |-> 0, dataRequests |-> 0,
     lives |-> 0, reported |-> NothingReported, ignored |-> FALSE,
     outcome |-> [i \in Iqs |-> << >>], sent |-> {}]

(* A connection that is used again should be reset first.                  *)
Connect ==
  /\ ~connection.connected /\ Requests(connection) = 0 /\ connection.lives < MaxLives
  /\ \E node \in BOOLEAN, c \in {connection, reset(connection)} :
       connection' = [c EXCEPT !.node = node, !.disconnecting = FALSE, !.authenticated = FALSE,
                               !.connectRequests = 1, !.lives = @ + 1, !.ignored = FALSE,
                               !.reported = NothingReported]

ConnectReply ==
  /\ connection.connectRequests > 0
  /\ LET c == [connection EXCEPT !.connectRequests = @ - 1, !.connected = TRUE]
     IN \/ \E offer \in Offers : connection' = _connect_cb(c, offer)
        \/ connection' = _changeConnectStatus(c, "CONNFAIL")
        \/ connection' = [c EXCEPT !.ignored = TRUE]   \* no body

Reply ==
  /\ connection.dataRequests > 0
  /\ LET c == [connection EXCEPT !.dataRequests = @ - 1]
     IN \/ \E body \in Bodies :
             connection' = [_dataRecv(c, body) EXCEPT !.ignored = @ \/ LedNowhere(c, body)]
        \/ connection' = Terminated(c)
        \/ connection' = [c EXCEPT !.ignored = @ \/ ~c.authenticated]   \* no body

(* Errors or silence have made Strophe give the connection up.             *)
ConnectionEnds ==
  /\ Requests(connection) > 0
  /\ connection' = [_doDisconnect(connection) EXCEPT !.connectRequests = 0, !.dataRequests = 0]

Disconnect ==
  /\ connection.connected /\ ~connection.disconnecting
  /\ connection' = disconnect(connection)

sendIQ(i) ==
  /\ connection.authenticated /\ i \notin connection.sent
  /\ connection' = send(addTimedHandler(addHandler([connection EXCEPT !.sent = @ \union {i}], {i}), i))

OnIdle == \E due \in SUBSET Iqs : connection' = _onIdle(connection, due)

Next ==
  \/ Connect \/ ConnectReply \/ Reply \/ ConnectionEnds \/ Disconnect \/ OnIdle
  \/ \E i \in Iqs : sendIQ(i)

Spec == Init /\ [][Next]_vars
-----------------------------------------------------------------------------
(* A login succeeds or fails, and does so at most once, whatever stanzas   *)
(* the server sends, one at a time.                                        *)
OneVerdict == connection.reported["CONNECTED"] + connection.reported["AUTHFAIL"] <= 1

Awaited == (connection.handlers \ connection.removeHandlers) \union connection.addHandlers

(* Before the login is over the client does not poll: it must always have  *)
(* a request with the server, or something to send, and a handler for the  *)
(* answer.  Unless a reply led nowhere: after one with no body, one that   *)
(* no handler waits for, a bind without a jid or an answer to the session  *)
(* or to legacy authentication that is neither result nor error, the       *)
(* client may sit there with no request and no report.                     *)
LoginGoesOn ==
  (/\ connection.connected /\ ~connection.disconnecting /\ ~connection.authenticated
   /\ connection.reported = NothingReported /\ ~connection.ignored)
  => \/ connection.connectRequests > 0
     \/ /\ connection.dataRequests > 0 \/ connection._data
        /\ \E hand \in LoginHandlers \intersect Awaited :
             Matches[hand] \notin {"failure"}

Then(i, first, second) == connection.outcome[i] = << first, second >>

(* An IQ that has been answered does not time out any more.                *)
NoTimeoutAfterReply == \A i \in Iqs : ~Then(i, "answered", "timeout")

(* strophe.js 1865: "get rid of normal handler".  An IQ that has timed out *)
(* is not answered any more.                                               *)
NoReplyAfterTimeout == \A i \in Iqs : ~Then(i, "timeout", "answered")
=============================================================================
