------------------------------ MODULE Strophe ------------------------------
(***************************************************************************)
(* The request engine of the BOSH client in strophe/strophe.js, over the   *)
(* XMLHttpRequest of strophe/XMLHttpRequest.js: which requests are queued, *)
(* sent, given up, sent again and answered, and how a connection ends.     *)
(* What the replies mean for the login is in StropheLogin; here a reply    *)
(* brings the stream features, completes the login, ends the session, is   *)
(* an empty body or has no body at all ("null").  Of the statuses of HTTP  *)
(* 302 stands for those below 400 other than 200, 404 for those from 400   *)
(* and 503 for those from 500; an exchange that fails has status 503 too   *)
(* (XMLHttpRequest.js 204-209).                                            *)
(*                                                                         *)
(* A function of the code that changes the connection is an operator from  *)
(* a record to a record.  Time is abstracted to what the code compares:    *)
(* the age of a request and the time it has been presumed dead.            *)
(***************************************************************************)
EXTENDS Integers, Sequences, SequencesExt, FiniteSetsExt

CONSTANTS
  MaxRequests,  \* bound: request ids of one life of the connection
  MaxLives,     \* bound: lives, from one reset of the request id to the next
  Wait,         \* Connection.wait in seconds
  Window,       \* Connection.window
  MaxSends,     \* a request is sent again until this many sends (5)
  MaxErrors     \* errors that are put up with (4)

ASSUME StropheAssumption ==
  /\ MaxRequests \in Nat \ {0} /\ MaxLives \in Nat \ {0} /\ Wait \in Nat
  /\ Window \in Nat \ {0} /\ MaxSends \in Nat \ {0} /\ MaxErrors \in Nat

VARIABLES
  connection,
  idle          \* changes whenever the idle function has run

vars == << connection, idle >>

(* A new life starts at a random request id: here one that is out of the   *)
(* window of every earlier one.                                            *)
Span == MaxRequests + Window
Rid == {life * Span + n : life \in 0..(MaxLives - 1), n \in 1..MaxRequests}

(* age: "none" before the request is posted, "late" beyond                 *)
(* SECONDARY_TIMEOUT, "overdue" beyond TIMEOUT.  dead: whether             *)
(* _restartRequest has marked it, "long" beyond SECONDARY_TIMEOUT.         *)
(* xhr: "delayed" is opened and waits for its backoff, "failed" and        *)
(* "refused" are done with a status from 500 and 400.                      *)
Request(rid, func, sends) ==
  [rid |-> rid, func |-> func, sends |-> sends, age |-> "none", dead |-> "no", xhr |-> "unsent"]

(* An HTTP exchange: whose rid, for the how manieth time, and the callback. *)
Exchange(req) == [rid |-> req.rid, sends |-> req.sends, func |-> req.func]

(* TIMEOUT is 1.1 times wait; the backoff of the n-th retry is n^3 seconds. *)
BackoffFits(n) == n * n * n <= (11 * Wait) \div 10

TimedOut(req) == req.age = "overdue" \/ req.dead = "long" \/ req.xhr = "failed"
-----------------------------------------------------------------------------
(* The end of a connection.                                                *)

NewLife(c) ==
  LET rid == IF c.life > MaxLives THEN c.rid ELSE c.life * Span + 1
  IN [c EXCEPT !.life = IF @ > MaxLives THEN @ ELSE @ + 1, !.rid = rid, !.first = rid,
               !.dropped = {}]

(* The requests that are still queued, and what is to be sent, are kept.   *)
_doDisconnect(c) ==
  [NewLife(c) EXCEPT !.authenticated = FALSE, !.disconnecting = FALSE,
                     !.connected = FALSE, !.timer = "none"]

_onDisconnectTimeout(c) ==
  _doDisconnect([c EXCEPT !._requests = << >>,
                          !.listening = @ \ {Exchange(r) : r \in ToSet(c._requests)}])

_hitError(c) ==
  LET t == [c EXCEPT !.errors = @ + 1]
  IN IF t.errors > MaxErrors THEN _onDisconnectTimeout(t) ELSE t
-----------------------------------------------------------------------------
(* The queue of requests.  Positions count from 1.                         *)

Replace(c, i, req) == [c EXCEPT !._requests[i] = req]

(* An unsent request is opened, and sent at once or after a backoff.       *)
Post(c, i) ==
  LET req == c._requests[i]
      posted == [req EXCEPT !.age = "young", !.sends = @ + 1,
                            !.xhr = IF req.sends > 1 THEN "delayed" ELSE "sent"]
      t == Replace(c, i, posted)
  IN IF req.xhr # "unsent" THEN c
     ELSE IF posted.xhr = "sent" THEN [t EXCEPT !.listening = @ \union {Exchange(posted)}]
     ELSE t

(* Mutant: the handler of the aborted exchange stays in place.             *)
_processRequest_listening(c, i) ==
  LET req == c._requests[i]
      again == Replace(c, i, Request(req.rid, req.func, req.sends))
  IN IF req.sends > MaxSends THEN _onDisconnectTimeout(c)
     ELSE Post(IF TimedOut(req) THEN again ELSE c, i)

(* A request that has failed or timed out is aborted and made anew.        *)
_processRequest(c, i) ==
  LET req == c._requests[i]
      again == [Replace(c, i, Request(req.rid, req.func, req.sends))
                EXCEPT !.listening = @ \ {Exchange(req)}]
  IN IF req.sends > MaxSends THEN _onDisconnectTimeout(c)
     ELSE Post(IF TimedOut(req) THEN again ELSE c, i)

_throttledRequestHandler(c) ==
  LET first == _processRequest(c, 1)
      apart == first._requests[2].rid - first._requests[1].rid
  IN IF c._requests = << >> THEN c
     ELSE IF Len(first._requests) > 1 /\ apart < Window /\ -apart < Window
          THEN _processRequest(first, 2) ELSE first

_removeRequest(c, i) == _throttledRequestHandler([c EXCEPT !._requests = RemoveAt(@, i)])

_restartRequest(c, i) ==
  _processRequest([c EXCEPT !._requests[i].dead = IF @ = "no" THEN "yes" ELSE @], i)

(* _buildBody and push: the next request id is taken.                      *)
MayBuild(c) == c.life <= MaxLives /\ c.rid < c.first + MaxRequests
Push(c, func) ==
  IF MayBuild(c)
  THEN [c EXCEPT !._requests = Append(@, Request(c.rid, func, 0)), !.rid = @ + 1]
  ELSE c
-----------------------------------------------------------------------------
(* What the program asks for.                                              *)

_queueData(c) == [c EXCEPT !._data = TRUE]

send(c) == _throttledRequestHandler(_queueData(c))

_sendTerminate(c) == _throttledRequestHandler(Push([c EXCEPT !.disconnecting = TRUE], "_dataRecv"))

(* Mutant: relies on the server's answer to the terminate request.         *)
disconnect_trusting(c) == IF c.connected THEN _sendTerminate(c) ELSE c

disconnect(c) ==
  IF c.connected THEN _sendTerminate([c EXCEPT !.timer = IF @ = "due" THEN @ ELSE "set"]) ELSE c
-----------------------------------------------------------------------------
(* Replies with status 200.                                                *)

(* Until the features come, the client polls with the same callback; with  *)
(* features that its JID is no good for it disconnects.                    *)
_connect_cb(c, body) ==
  LET t == [c EXCEPT !.connected = TRUE]
  IN CASE body \in {"null", "terminate"} -> t
       [] body = "features" -> send(t)
       [] body = "badjid" -> disconnect(t)
       [] OTHER -> _throttledRequestHandler(Push(t, "_connect_cb"))

_dataRecv(c, body) ==
  IF body = "null" THEN c
  ELSE IF c.disconnecting /\ c._requests = << >> THEN _doDisconnect(c)
  ELSE IF body = "terminate" THEN IF c.disconnecting THEN c ELSE disconnect(c)
  ELSE IF body = "login" /\ c.connected THEN [c EXCEPT !.authenticated = TRUE] ELSE c

Func(c, x, body) ==
  LET t == [c EXCEPT !.handled[x.rid] = IF @ < 2 THEN @ + 1 ELSE @]
  IN [(IF x.func = "_connect_cb" THEN _connect_cb(t, body) ELSE _dataRecv(t, body))
      EXCEPT !.errors = 0]

(* A request answered with 200 has left the queue.  If it was the second,  *)
(* or the next one is late, that one is restarted; should the queue have   *)
(* been emptied meanwhile, the access to it throws.                        *)
Succeeded(c, i, x, body) ==
  LET t == IF i = 0 THEN _throttledRequestHandler(c) ELSE _removeRequest(c, i)
      late == t._requests # << >> /\ t._requests[1].age \in {"late", "overdue"}
  IN IF i = 2 /\ t._requests = << >> THEN t
     ELSE Func(IF i = 2 \/ (i = 1 /\ late) THEN _restartRequest(t, 1) ELSE t, x, body)

(* Mutant: a failed request is taken off the queue like a refused one.     *)
Errored_dropping(c, i, x, status) ==
  LET t == _hitError(IF i = 0 THEN c ELSE _removeRequest(c, i))
  IN IF status = 404 THEN _doDisconnect(t) ELSE t

(* A status from 400 ends the connection, one from 500 is tried again.     *)
Errored(c, i, x, status) ==
  LET gone == status = 404 \/ x.sends > MaxSends
      failed == IF i = 0 THEN c ELSE [c EXCEPT !._requests[i].xhr = "failed"]
      t == _hitError(IF ~gone THEN failed
                     ELSE IF i = 0 THEN _throttledRequestHandler(c) ELSE _removeRequest(c, i))
  IN IF status = 404 THEN _doDisconnect(t)
     ELSE IF gone THEN t ELSE _throttledRequestHandler(t)

(* Any other status below 400 takes the request off the queue and does     *)
(* nothing else: no callback runs, no error is counted.                    *)
Dropped(c, i, x) ==
  LET t == IF i = 0 THEN _throttledRequestHandler(c) ELSE _removeRequest(c, i)
  IN [t EXCEPT !.dropped = @ \union {x.rid}]

(* While disconnecting an error is only counted.                           *)
ErroredWhileDisconnecting(c, i, status) ==
  _hitError(IF i = 0 THEN c
            ELSE [c EXCEPT !._requests[i].xhr = IF status = 404 THEN "refused" ELSE "failed"])

(* The exchange x ends; i is the place of its request, 0 if it has none.   *)
_onRequestStateChange(c, x, status, body) ==
  LET heard == [c EXCEPT !.listening = @ \ {x}]
      places == {j \in DOMAIN c._requests : Exchange(c._requests[j]) = x /\ c._requests[j].xhr = "sent"}
      i == IF places = {} THEN 0 ELSE CHOOSE j \in places : TRUE
  IN IF status = 200 THEN Succeeded(heard, i, x, body)
     ELSE IF status = 302 THEN Dropped(heard, i, x)
     ELSE IF c.disconnecting THEN ErroredWhileDisconnecting(heard, i, status)
     ELSE Errored(heard, i, x, status)
-----------------------------------------------------------------------------
NewConnection ==
  [life |-> 1, rid |-> 1, first |-> 1, authenticated |-> FALSE, disconnecting |-> FALSE,
   connected |-> FALSE, errors |-> 0, paused |-> FALSE, _data |-> FALSE,
   _requests |-> << >>, timer |-> "none", listening |-> {},
   handled |-> [r \in Rid |-> 0], dropped |-> {}]

Init == connection = NewConnection /\ idle = FALSE

(* The program connects, or resets, when no connection is open or on its   *)
(* way.                                                                    *)
Idle(c) ==
  /\ ~c.connected /\ ~c.disconnecting /\ MayBuild(c)
  /\ \A r \in ToSet(c._requests) : r.func # "_connect_cb"

Connect ==
  /\ Idle(connection)
  /\ connection' = _throttledRequestHandler(
       Push([connection EXCEPT !.authenticated = FALSE, !.errors = 0], "_connect_cb"))

(* The request id of the session takes the place of the random one.        *)
Attach ==
  /\ Idle(connection) /\ connection.rid = connection.first
  /\ connection' = [connection EXCEPT !.authenticated = TRUE, !.connected = TRUE]

Reset ==
  /\ Idle(connection)
  /\ connection' =
       [NewLife(connection) EXCEPT !.authenticated = FALSE, !.disconnecting = FALSE,
          !.connected = FALSE, !.errors = 0, !._requests = << >>, !.timer = "none"]

Send ==
  /\ connection.authenticated
  /\ connection' = send(connection)

Disconnect ==
  /\ connection.connected
  /\ connection' = disconnect(connection)

PauseOrResume == connection' = [connection EXCEPT !.paused = ~@]

(* Mutant: looks only at the time a request has been presumed dead.        *)
CheckTimeouts_dead_only(c) ==
  IF c._requests # << >> /\ c._requests[1].dead = "long" THEN _throttledRequestHandler(c) ELSE c

(* The first request is restarted when it is dead or overdue.              *)
CheckTimeouts(c) ==
  LET dead == c._requests # << >> /\ c._requests[1].dead = "long"
      overdue == c._requests # << >> /\ c._requests[1].age = "overdue"
      t == IF dead THEN _throttledRequestHandler(c) ELSE c
  IN IF overdue THEN _throttledRequestHandler(t) ELSE t

(* Every 100 ms: timed handlers, a poll if nothing is under way, what is   *)
(* to be sent, and timeouts.                                               *)
_onIdle(c) ==
  LET t == IF c.timer = "due" THEN _onDisconnectTimeout(c) ELSE c
      polls == t.authenticated /\ t._requests = << >> /\ ~t._data /\ ~t.disconnecting
      pending == [t EXCEPT !._data = @ \/ polls]
      built == [Push(pending, "_dataRecv") EXCEPT !._data = FALSE]
  IN CheckTimeouts(
       IF pending._data /\ Len(t._requests) < 2 /\ ~t.paused /\ MayBuild(t)
       THEN _processRequest(built, Len(built._requests)) ELSE pending)

OnIdle ==
  /\ connection' = _onIdle(connection)
  /\ idle' = ~idle

(* The network and the server: an exchange ends at any time, or never.     *)
Reply ==
  \E x \in connection.listening :
    \/ \E body \in {"null", "empty", "login", "terminate"} \union
                  (IF x.func = "_connect_cb" THEN {"features", "badjid"} ELSE {}) :
         connection' = _onRequestStateChange(connection, x, 200, body)
    \/ \E status \in {302, 404, 503} : connection' = _onRequestStateChange(connection, x, status, "none")

(* sendFunc after its backoff.  Nothing else can come between this and the *)
(* comparison with TIMEOUT, if the backoff is the shorter of the two.  For *)
(* a request that was aborted meanwhile sendFunc throws out of its timer   *)
(* (XMLHttpRequest.js 134-137): it leaves the connection as it is, and     *)
(* what the exception does to the program is not modelled.                 *)
Backoff(req) == req.sends - 1
SendLater ==
  \E i \in DOMAIN connection._requests :
    LET req == connection._requests[i]
    IN /\ req.xhr = "delayed" /\ BackoffFits(Backoff(req))
       /\ Backoff(req) * Backoff(req) * Backoff(req) > Wait \div 10 => req.age # "young"
       /\ connection' = [connection EXCEPT !._requests[i].xhr = "sent",
                                           !.listening = @ \union {Exchange(req)}]

(* Time passes.                                                            *)
GetOlder(i) ==
  /\ i \in DOMAIN connection._requests
  /\ LET req == connection._requests[i]
     IN \/ /\ req.age = "young"
           /\ connection' = [connection EXCEPT !._requests[i].age = "late"]
        \/ /\ req.age = "late"
           /\ req.xhr = "delayed" => ~BackoffFits(Backoff(req))
           /\ connection' = [connection EXCEPT !._requests[i].age = "overdue"]
        \/ /\ req.dead = "yes" /\ req.age # "young"
           /\ connection' = [connection EXCEPT !._requests[i].dead = "long"]

TimerDue ==
  /\ connection.timer = "set"
  /\ connection' = [connection EXCEPT !.timer = "due"]

Next ==
  \/ OnIdle
  \/ /\ \/ Connect \/ Attach \/ Reset \/ Send \/ Disconnect \/ PauseOrResume
        \/ Reply \/ SendLater \/ TimerDue
        \/ \E i \in 1..3 : GetOlder(i)
     /\ UNCHANGED idle

Spec == Init /\ [][Next]_vars

(* The idle function runs again and again, and time passes.  The server    *)
(* need not answer.                                                        *)
FairSpec ==
  /\ Spec
  /\ WF_idle(idle' = ~idle)
  /\ WF_connection(SendLater) /\ WF_connection(TimerDue)
  /\ WF_connection(\E i \in 1..3 : GetOlder(i))
-----------------------------------------------------------------------------
(* However often a request is given up and sent again, its callback gets   *)
(* one reply.                                                              *)
HandledOnce == \A r \in Rid : connection.handled[r] <= 1

Queued(r) == \E req \in ToSet(connection._requests) : req.rid = r

(* The server takes requests in the order of their ids, without a gap: an  *)
(* id that was taken must be answered or still be tried.  The one loss is  *)
(* that of a request answered with a status below 400 other than 200: the  *)
(* code gives it up without a word (strophe.js 2326-2359), and whatever is *)
(* sent later stands behind a gap.                                         *)
NoRidSkipped ==
  connection.connected =>
    \A r \in connection.first..(connection.rid - 1) :
      connection.handled[r] > 0 \/ Queued(r) \/ r \in connection.dropped

(* A request does not stay in the queue for ever, also when the server     *)
(* does not answer.                                                        *)
RequestEnds == \A r \in Rid : Queued(r) ~> ~Queued(r)

(* strophe.js 2023-2024: "A timeout handler makes sure that disconnection  *)
(* happens even if the BOSH server does not respond."                      *)
DisconnectEnds == connection.disconnecting ~> ~connection.connected
=============================================================================
