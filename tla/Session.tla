------------------------------ MODULE Session ------------------------------
(***************************************************************************)
(* One BOSH session (src/session.js) with its only stream (src/stream.js), *)
(* driven by the front end of src/bosh.js: HTTP requests of the client,    *)
(* events of the XMPP connector, the nextTick callback and the timers.     *)
(* JavaScript runs every handler to its end, so a handler is one action.   *)
(*                                                                         *)
(* Each function of session.js that changes state is an operator from a    *)
(* session record to a session record, under the function's name; the      *)
(* actions compose them in the order of the calls.  The fields of the      *)
(* record have the names of the JavaScript fields; the last seven record   *)
(* what the program made visible (HTTP replies, 'nodes',                   *)
(* 'response-acknowledged' and 'no-client' events) and what it dropped.    *)
(*                                                                         *)
(* Clients are those whose rids are whole numbers, as XEP-0124 has it, and *)
(* nothing below is said of others.  The code takes fractions too          *)
(* (toNumber, is_valid_packet): a request with rid 3.5 is held and queued, *)
(* process_requests never comes to it, and when the session is at 3 the    *)
(* next request fails the assertion at session.js 1095, unanswered.        *)
(***************************************************************************)
EXTENDS Integers, Sequences, SequencesExt

CONSTANTS
  MaxRid,              \* bound: request ids are 1..MaxRid
  MaxConn,             \* bound: HTTP requests that reach the server
  MaxStanza,           \* bound: stanzas the XMPP server sends
  InitRid,             \* rid of the session creation request
  WindowSize,          \* options.WINDOW_SIZE
  MaxBoshConnections,  \* options.MAX_BOSH_CONNECTIONS
  PidginCompatible,    \* options.PIDGIN_COMPATIBLE
  HoldAttrs,           \* 'hold' attributes clients ask for
  AckModes,            \* may the creation request carry 'ack'?
  Acks,                \* 'ack' attributes of requests; 0 stands for none
  Kinds,               \* the kinds of request clients make
  RepeatsAhead         \* do clients repeat a request that waits for a lower rid?

Rid == 1..MaxRid
Conn == 1..MaxConn
Stanza == 1..MaxStanza

ASSUME BoundsAssumption ==
  /\ MaxRid \in Nat /\ MaxConn \in Nat \ {0} /\ MaxStanza \in Nat
  /\ InitRid \in Rid
ASSUME OptionsAssumption ==
  /\ WindowSize \in Nat \ {0}
  /\ MaxBoshConnections \in Nat \ {0}
  /\ PidginCompatible \in BOOLEAN
ASSUME ClientAssumption ==
  /\ HoldAttrs \subseteq Int
  /\ AckModes \subseteq BOOLEAN
  /\ Acks \subseteq Nat
  /\ Kinds \subseteq {"poll", "data", "restart", "terminate"}
  /\ RepeatsAhead \in BOOLEAN

VARIABLE session

(* A <body/> the server sends: what it says and the stanzas it carries.    *)
BodyKind == {"none", "create", "data", "empty", "terminate", "stream-terminate"}
Body == [kind : BodyKind, stanzas : Seq(Stanza)]
Bare(k) == [kind |-> k, stanzas |-> << >>]
NoBody == Bare("none")

(* A held HTTP response object (response.js); conn says whose it is.       *)
Response == [rid : Rid, conn : Conn]

(* queued_requests[rid]: "none", or what is left of the request's node.    *)
Queued == {"none", "body", "poll", "data", "restart", "terminate"}

Status == {"none", "open", "terminated", "expired"}

Larger(a, b) == IF a >= b THEN a ELSE b
Smaller(a, b) == IF a <= b THEN a ELSE b
StanzasOf(body) == {body.stanzas[i] : i \in DOMAIN body.stanzas}
UnackedRids(s) == {r \in Rid : s.unacked_responses[r] # NoBody}

-----------------------------------------------------------------------------
(* Sending.                                                                *)

(* The effect of ro_i.send for i in 1..Len(bodies): the first held         *)
(* responses go out, one body each, in rid order.                          *)
SendOnFirst(s, bodies) ==
  LET n == Len(bodies)
      last(r) == {i \in 1..n : s.res[i].rid = r
                                /\ \A j \in (i + 1)..n : s.res[j].rid # r}
      on(c) == {i \in 1..n : s.res[i].conn = c}
  IN IF n = 0 THEN s ELSE
     [s EXCEPT
       !.res = SubSeq(@, n + 1, Len(@)),
       !.unacked_responses =
          [r \in Rid |-> IF last(r) = {} THEN @[r] ELSE bodies[CHOOSE i \in last(r) : TRUE]],
       !.max_rid_sent = Larger(@, s.res[n].rid),
       !.replies =
          [c \in Conn |-> IF on(c) = {} THEN @[c]
                          ELSE Append(@[c], bodies[CHOOSE i \in on(c) : TRUE])]]

_send_no_requeue(s, ro, body) ==
  [s EXCEPT !.unacked_responses[ro.rid] = body,
            !.max_rid_sent = Larger(@, ro.rid),
            !.replies[ro.conn] = Append(@, body)]

(* A reply that the session does not remember.                             *)
_send_immediate(s, c, body) == [s EXCEPT !.replies[c] = Append(@, body)]

Empties(n) == [i \in 1..n |-> Bare("empty")]

(* What successive calls of _stitch_response_for_stream return: one body   *)
(* per pending BOSH response, the first with every pending stanza.         *)
Stitched(s) ==
  LET bosh == s.pending_bosh_responses
      n == IF bosh # << >> THEN Len(bosh) ELSE IF s.pending_stanzas # << >> THEN 1 ELSE 0
  IN [i \in 1..n |-> [kind |-> IF bosh # << >> THEN bosh[i] ELSE "data",
                      stanzas |-> IF i = 1 THEN s.pending_stanzas ELSE << >>]]

(* Mutant: stitches a body even when there is no response to send it on.   *)
send_pending_unchecked(s) ==
  LET n == Len(Stitched(s))
      m == Smaller(Len(s.res), n)
  IN IF n = 0 THEN s ELSE
     [SendOnFirst(s, SubSeq(Stitched(s), 1, m)) EXCEPT
       !.pending_stanzas = << >>,
       !.pending_bosh_responses = SubSeq(@, n + 1, Len(@))]

send_pending_responses(s) ==
  LET n == Smaller(Len(s.res), Len(Stitched(s)))
  IN IF n = 0 THEN s ELSE
     [SendOnFirst(s, SubSeq(Stitched(s), 1, n)) EXCEPT
       !.pending_stanzas = << >>,
       !.pending_bosh_responses = SubSeq(@, n + 1, Len(@))]

(* Mutant: lets one response too many be held.                             *)
respond_to_extra_late(s) ==
  IF Len(s.res) <= s.hold + 1 THEN s
  ELSE SendOnFirst(s, Empties(Len(s.res) - s.hold - 1))

respond_to_extra_held(s) ==
  IF Len(s.res) <= s.hold THEN s
  ELSE SendOnFirst(s, Empties(Len(s.res) - s.hold))

try_sending(s) == [s EXCEPT !.has_next_tick = TRUE]

enqueue_bosh_response(s, kind) ==
  LET queued == [s EXCEPT !.pending_bosh_responses = Append(@, kind)]
  IN IF PidginCompatible /\ s.first_response
     THEN [queued EXCEPT !.first_response = FALSE]
     ELSE try_sending(queued)

enqueue_stanza(s, st) ==
  try_sending([s EXCEPT !.pending_stanzas = Append(@, st)])

-----------------------------------------------------------------------------
(* Ending.                                                                 *)

delete_stream(s) ==
  [s EXCEPT !.dropped = @ \union {s.pending_stanzas[i] : i \in DOMAIN s.pending_stanzas},
            !.pending_stanzas = << >>,
            !.pending_bosh_responses = << >>,
            !.queued_requests = [r \in Rid |-> IF @[r] = "none" THEN "none" ELSE "body"]]

(* The stream is deleted, the first held response says terminate, the      *)
(* others are cleaned up, and the store forgets the session.               *)
end_session(s, why) ==
  LET gone == delete_stream(s)
      bodies == [i \in 1..Len(s.res) |-> IF i = 1 THEN Bare("terminate") ELSE Bare("empty")]
  IN [SendOnFirst(gone, bodies) EXCEPT !.status = why, !.timeout = FALSE]

-----------------------------------------------------------------------------
(* Receiving.                                                              *)

(* An attribute of 0 is falsy in JavaScript, like one that is absent; and  *)
(* so is rid - window when it is 0.                                        *)
handle_acks(s, rid, attr) ==
  LET given == IF s.ack THEN attr ELSE rid - WindowSize
      ack == IF given = 0 THEN rid - 1 ELSE given
      keys == UnackedRids(s)
      overflow == Cardinality(keys) > 4 * WindowSize
      kept == {r \in keys : overflow => Cardinality({q \in keys : q > r}) < WindowSize}
      stanzas(rids) == UNION {StanzasOf(s.unacked_responses[r]) : r \in rids}
  IN [s EXCEPT
       !.ack = @ /\ ~overflow,
       !.unacked_responses = [r \in Rid |-> IF r \in kept /\ r > ack THEN @[r] ELSE NoBody],
       !.acknowledged = @ \union stanzas({r \in kept : r <= ack}),
       !.trimmed = @ \union stanzas(keys \ kept)]

(* Mutant: leaves the repeated request in the queue.                       *)
handle_broken_undeleted(s, rid, c) ==
  LET known == s.unacked_responses[rid]
  IN _send_immediate(s, c, IF known # NoBody THEN known ELSE Bare("empty"))

(* Mutant: passes the nodes of the repeated request on once more.          *)
handle_broken_processing(s, rid, c) ==
  LET known == s.unacked_responses[rid]
      again == IF s.queued_requests[rid] = "data" THEN 1 ELSE 0
  IN _send_immediate([s EXCEPT !.queued_requests[rid] = "none", !.nodes[rid] = @ + again], c,
                     IF known # NoBody THEN known ELSE Bare("empty"))

(* Mutant: does not look for the reply it sent the first time.             *)
handle_broken_forgetting(s, rid, c) ==
  _send_immediate([s EXCEPT !.queued_requests[rid] = "none"], c, Bare("empty"))

(* A repeated request: answered at once, with the cached reply if there is *)
(* one.  The out-of-range branch of the code is not taken for the rids of  *)
(* the model, since is_valid_packet has refused a rid below the window.    *)
handle_broken_connections(s, rid, c) ==
  LET known == s.unacked_responses[rid]
  IN _send_immediate([s EXCEPT !.queued_requests[rid] = "none"], c,
                     IF known # NoBody THEN known ELSE Bare("empty"))

(* res stays sorted: before the first entry whose rid is not smaller.      *)
InsertByRid(res, ro) ==
  LET notSmaller == {i \in DOMAIN res : res[i].rid >= ro.rid}
  IN InsertAt(res, IF notSmaller = {} THEN Len(res) + 1 ELSE Min(notSmaller), ro)

(* Mutant: holds a response although one with a greater rid was used.      *)
add_held_overtaken(s, rid, c) ==
  [s EXCEPT !.res = InsertByRid(@, [rid |-> rid, conn |-> c])]

(* The policy branch (more than MAX_BOSH_CONNECTIONS held) is dead: see    *)
(* HeldWithinHold.                                                         *)
add_held_http_connection(s, rid, c) ==
  LET ro == [rid |-> rid, conn |-> c]
  IN IF rid < s.max_rid_sent
     THEN _send_no_requeue(s, ro, Bare("empty"))
     ELSE [s EXCEPT !.res = InsertByRid(@, ro)]

(* Mutant: takes one request only.                                         *)
RunnableOne(s) == {r \in Rid : r = s.rid + 1 /\ s.queued_requests[r] # "none"}

(* The rids process_requests takes: those queued without a gap.            *)
Runnable(s) ==
  {r \in Rid : r > s.rid /\ \A q \in (s.rid + 1)..r : s.queued_requests[q] # "none"}

(* Mutant: does not try to send what is pending.                           *)
ProcessRunQuietly(s, run) ==
  IF run = {} THEN s ELSE
  [s EXCEPT !.rid = Max(run),
            !.queued_requests = [r \in Rid |-> IF r \in run THEN "none" ELSE @[r]],
            !.nodes = [r \in Rid |-> IF r \in run /\ s.queued_requests[r] = "data"
                                     THEN @[r] + 1 ELSE @[r]]]

(* _process_one_request for the rids of run, none of which terminates.     *)
ProcessRun(s, run) ==
  IF run = {} THEN s ELSE
  send_pending_responses(
    [s EXCEPT !.rid = Max(run),
              !.queued_requests = [r \in Rid |-> IF r \in run THEN "none" ELSE @[r]],
              !.nodes = [r \in Rid |-> IF r \in run /\ s.queued_requests[r] = "data"
                                       THEN @[r] + 1 ELSE @[r]]])

(* process_requests.  A terminate request first passes its nodes on; what  *)
(* was queued behind it has become an empty body and only moves rid.       *)
process_requests(s) ==
  LET run == Runnable(s)
      ends == {r \in run : s.queued_requests[r] = "terminate"}
      t == Min(ends)
      before == ProcessRun(s, {r \in run : r < t})
      taken == [before EXCEPT !.rid = t, !.queued_requests[t] = "none", !.nodes[t] = @ + 1]
  IN IF ends = {} THEN ProcessRun(s, run)
     ELSE ProcessRun(end_session(taken, "terminated"), {r \in run : r > t})

-----------------------------------------------------------------------------
EmptySession ==
  [status |-> "none", rid |-> 0, hold |-> 1, ack |-> FALSE, res |-> << >>,
   queued_requests |-> [r \in Rid |-> "none"],
   unacked_responses |-> [r \in Rid |-> NoBody],
   max_rid_sent |-> 0, pending_stanzas |-> << >>, pending_bosh_responses |-> << >>,
   has_next_tick |-> FALSE, first_response |-> TRUE, timeout |-> FALSE,
   arrived |-> << >>, replies |-> [c \in Conn |-> << >>],
   nodes |-> [r \in Rid |-> 0], stanza_no |-> 0,
   acknowledged |-> {}, no_client |-> {}, dropped |-> {}, trimmed |-> {}]

Init == session = EmptySession

NextConn == Len(session.arrived) + 1
MayArrive == NextConn <= MaxConn

(* The request's connection is the next one; arrived keeps its rid.        *)
Arrive(s, rid) == [s EXCEPT !.arrived = Append(@, rid)]

(* Mutant: takes a 'hold' of 0 as it is.                               *)
clamp_hold_above(h) == Smaller(h, MaxBoshConnections)

clamp_hold(h) == Smaller(IF h <= 0 THEN 1 ELSE h, MaxBoshConnections)

NewSession(h, a) ==
  add_held_http_connection(
    Arrive([EmptySession EXCEPT !.status = "open", !.rid = InitRid,
                                !.max_rid_sent = InitRid - 1,
                                !.hold = clamp_hold(h), !.ack = a, !.timeout = TRUE],
           InitRid),
    InitRid, 1)

EmitNodes(s, rid, kind) ==
  IF kind = "data" THEN [s EXCEPT !.nodes[rid] = @ + 1] ELSE s

(* The session creation request.                                           *)
CreateSession(h, a, kind) ==
  /\ session.status = "none"
  /\ session' = respond_to_extra_held(
                  EmitNodes(enqueue_bosh_response(NewSession(h, a), "create"), InitRid, kind))

(* As above, but the connector closes the stream inside 'stream-add' (the  *)
(* host is refused by the connector's rules): _on_terminate runs first and *)
(* send_creation_response finds no response object.                        *)
CreateRefused(h, a, kind) ==
  /\ session.status = "none"
  /\ LET told == enqueue_bosh_response(NewSession(h, a), "stream-terminate")
     IN session' = EmitNodes(end_session(told, "terminated"), InitRid, kind)

(* Mutant: refuses the last rid of the window.                             *)
InWindowExclusive(rid) == rid >= session.rid - WindowSize /\ rid < session.rid + WindowSize

(* is_valid_packet: the rid, a whole number here, is within WindowSize of  *)
(* the session's.                                                          *)
InWindow(rid) == rid >= session.rid - WindowSize /\ rid <= session.rid + WindowSize

(* What every valid request does first.                                    *)
Accept(rid, attr, kind) ==
  handle_acks([Arrive(session, rid) EXCEPT !.timeout = TRUE, !.queued_requests[rid] = kind],
              rid, attr)

(* A request with a new rid, whether or not those below it have come.      *)
Request(rid, attr, kind) ==
  /\ session.status = "open" /\ MayArrive
  /\ InWindow(rid) /\ rid > session.rid
  /\ RepeatsAhead \/ session.queued_requests[rid] = "none"
  /\ \E accepted \in {Accept(rid, attr, kind)} :
     \E held \in {add_held_http_connection(accepted, rid, NextConn)} :
     \E processed \in {process_requests(held)} :
       session' = respond_to_extra_held(processed)

(* As above, but the request names a stream that is not there.             *)
RequestForDeletedStream(rid, attr) ==
  /\ session.status = "open" /\ MayArrive
  /\ InWindow(rid) /\ rid > session.rid
  /\ RepeatsAhead \/ session.queued_requests[rid] = "none"
  /\ \E accepted \in {Accept(rid, attr, "body")} :
     \E told \in {_send_immediate(accepted, NextConn, Bare("terminate"))} :
     \E processed \in {process_requests(told)} :
       session' = respond_to_extra_held(processed)

(* A request whose rid was processed before: its connection had broken.    *)
RepeatedRequest(rid, attr, kind) ==
  /\ session.status = "open" /\ MayArrive
  /\ InWindow(rid) /\ rid <= session.rid
  /\ \E accepted \in {Accept(rid, attr, kind)} :
     \E told \in {handle_broken_connections(accepted, rid, NextConn)} :
     \E sent \in {send_pending_responses(told)} :
       session' = respond_to_extra_held(sent)

(* A request outside the window, or of more than 20 attributes, ends the   *)
(* session.                                                                *)
InvalidRequest(rid, overloaded) ==
  /\ session.status = "open" /\ MayArrive
  /\ overloaded \/ ~InWindow(rid)
  /\ session' = _send_immediate(end_session(Arrive(session, rid), "terminated"),
                                NextConn, Bare("terminate"))

(* A request for a session that is gone.                                   *)
UnknownSession ==
  /\ session.status \in {"terminated", "expired"} /\ MayArrive
  /\ session' = _send_immediate(Arrive(session, InitRid), NextConn, Bare("terminate"))

(* The callback of try_sending.                                            *)
NextTick ==
  /\ session.has_next_tick
  /\ session' = send_pending_responses([session EXCEPT !.has_next_tick = FALSE])

(* _on_response: a stanza of the XMPP server; a <stream:error/> also       *)
(* queues the stream's terminate response.                                 *)
OnResponse(error) ==
  /\ session.status = "open" /\ session.stanza_no < MaxStanza
  /\ LET st == session.stanza_no + 1
         queued == enqueue_stanza([session EXCEPT !.stanza_no = st], st)
     IN session' = IF error THEN enqueue_bosh_response(queued, "stream-terminate") ELSE queued

(* _on_terminate: the XMPP server closed the stream.                       *)
OnTerminate ==
  /\ session.status = "open"
  /\ session' = end_session(enqueue_bosh_response(session, "stream-terminate"), "terminated")

(* Mutant: answers the request but leaves its response among the held.     *)
RequestTimeoutUnspliced ==
  \E i \in DOMAIN session.res :
    /\ \A j \in DOMAIN session.res : session.res[i].conn <= session.res[j].conn
    /\ session' = _send_no_requeue(session, session.res[i], Bare("empty"))

(* Mutant: takes the first position of res for "not found".                *)
RequestTimeoutNotFirst ==
  \E i \in DOMAIN session.res :
    /\ \A j \in DOMAIN session.res : session.res[i].conn <= session.res[j].conn
    /\ i > 1
    /\ session' = _send_no_requeue([session EXCEPT !.res = RemoveAt(@, i)],
                                   session.res[i], Bare("empty"))

(* _on_request_timeout_callback.  Every response waits equally long, so    *)
(* the one that came first is due first.                                   *)
RequestTimeout ==
  \E i \in DOMAIN session.res :
    /\ \A j \in DOMAIN session.res : session.res[i].conn <= session.res[j].conn
    /\ session' = _send_no_requeue([session EXCEPT !.res = RemoveAt(@, i)],
                                   session.res[i], Bare("empty"))

(* Mutant: reports what was sent, and forgets what never was.              *)
InactivityTimeoutSentOnly ==
  /\ session.timeout /\ session.res = << >>
  /\ LET bodies == {session.unacked_responses[r] : r \in UnackedRids(session)}
     IN session' = end_session([session EXCEPT !.no_client = @ \union
                                  UNION {StanzasOf(b) : b \in bodies}], "expired")

(* The 'no-client' events: what was sent and never acknowledged, and what  *)
(* would have been sent next.                                              *)
Unreported(s) ==
  {s.unacked_responses[r] : r \in UnackedRids(s)}
    \union (IF Stitched(s) = << >> THEN {} ELSE {Stitched(s)[1]})

Told(s) ==
  [s EXCEPT !.no_client = @ \union UNION {StanzasOf(b) : b \in Unreported(s)},
            !.pending_stanzas = << >>]

(* _on_session_inactivity_timeout_callback.  It is due inactivity + 10     *)
(* seconds after the last valid request, and a held response times out     *)
(* after wait <= inactivity seconds: none can be left.                     *)
InactivityTimeout ==
  /\ session.timeout /\ session.res = << >>
  /\ session' = end_session(Told(session), "expired")

Next ==
  \/ \E h \in HoldAttrs, a \in AckModes, kind \in Kinds \intersect {"poll", "data"} :
        CreateSession(h, a, kind) \/ CreateRefused(h, a, kind)
  \/ \E rid \in Rid, attr \in (IF session.ack THEN Acks ELSE {0}) :
        \/ \E kind \in Kinds : Request(rid, attr, kind) \/ RepeatedRequest(rid, attr, kind)
        \/ RequestForDeletedStream(rid, attr)
  \/ \E rid \in Rid, overloaded \in BOOLEAN : InvalidRequest(rid, overloaded)
  \/ UnknownSession
  \/ NextTick
  \/ \E error \in BOOLEAN : OnResponse(error)
  \/ OnTerminate
  \/ RequestTimeout
  \/ InactivityTimeout

Spec == Init /\ [][Next]_session

(* The runtime runs its callbacks and timers; nothing obliges the client   *)
(* or the XMPP server to do anything.                                      *)
FairSpec == Spec /\ WF_session(NextTick) /\ WF_session(RequestTimeout)
-----------------------------------------------------------------------------
SessionRecord ==
    [status : Status, rid : 0..MaxRid, hold : 1..MaxBoshConnections, ack : BOOLEAN, res : Seq(Response),
     queued_requests : [Rid -> Queued], unacked_responses : [Rid -> Body],
     max_rid_sent : 0..MaxRid, pending_stanzas : Seq(Stanza),
     pending_bosh_responses : Seq({"create", "stream-terminate"}),
     has_next_tick : BOOLEAN, first_response : BOOLEAN, timeout : BOOLEAN,
     arrived : Seq(Rid), replies : [Conn -> Seq(Body)], nodes : [Rid -> Nat],
     stanza_no : 0..MaxStanza, acknowledged : SUBSET Stanza, no_client : SUBSET Stanza,
     dropped : SUBSET Stanza, trimmed : SUBSET Stanza]

TypeOK == session \in SessionRecord

(* Between handlers a session holds at most hold responses, hence never    *)
(* more than MAX_BOSH_CONNECTIONS: respond_to_extra_held_response_objects  *)
(* undoes what add_held_http_connection did, and the policy branch of the  *)
(* latter (session.js 453-465) is never taken.                             *)
HeldWithinHold ==
  Len(session.res) <= session.hold /\ session.hold <= MaxBoshConnections

(* What is queued waits for a lower rid that has not come.  So the         *)
(* assertion of handle_broken_connections (session.js 1095) does not fail, *)
(* as long as every rid the client uses is a whole number: see above.      *)
QueueAhead ==
  \A r \in Rid : session.queued_requests[r] # "none" => r > session.rid + 1

(* An HTTP request is held or answered, never both, and res.end is called  *)
(* once on it, whichever of a stanza, a timeout, a newer request, a broken *)
(* connection or the end of the session comes first.                       *)
HeldConns(s) == {s.res[i].conn : i \in DOMAIN s.res}

OneReplyEach(s, conns) ==
  /\ \A i, j \in DOMAIN s.res : s.res[i].conn = s.res[j].conn => i = j
  /\ HeldConns(s) \subseteq conns
  /\ \A c \in Conn :
       Len(s.replies[c]) = IF c \in conns \ HeldConns(s) THEN 1 ELSE 0

AnsweredOnce == OneReplyEach(session, DOMAIN session.arrived)

(* A session that has ended holds no request and has no timer running.     *)
NothingLeftBehind ==
  session.status \in {"terminated", "expired"} => session.res = << >> /\ ~session.timeout

(* Something pending is not forgotten: either a callback will send it, or  *)
(* every held request waits behind a missing rid (whose arrival sends it), *)
(* or a Pidgin client has sent nothing after its creation request.         *)
NoStall ==
  \/ session.pending_stanzas = << >> /\ session.pending_bosh_responses = << >>
  \/ session.has_next_tick
  \/ \A i \in DOMAIN session.res : session.res[i].rid > session.rid + 1
  \/ PidginCompatible /\ session.rid = InitRid

(* A client that orders what it gets by rid sees the stanzas in the order  *)
(* of the XMPP server, whatever the order of arrival of its requests.      *)
StanzaOrder ==
  \A c, d \in DOMAIN session.arrived :
    session.arrived[c] < session.arrived[d] =>
      \A b \in {session.replies[c][i] : i \in DOMAIN session.replies[c]} :
      \A e \in {session.replies[d][i] : i \in DOMAIN session.replies[d]} :
        \A x \in StanzasOf(b), y \in StanzasOf(e) : x < y

(* While the session is open, a stanza that was neither acknowledged nor   *)
(* trimmed (the client stopped acknowledging) is pending or can be resent. *)
StanzaKept ==
  session.status = "open" =>
    \A st \in 1..session.stanza_no :
      \/ \E i \in DOMAIN session.pending_stanzas : session.pending_stanzas[i] = st
      \/ \E r \in Rid : st \in StanzasOf(session.unacked_responses[r])
      \/ st \in session.acknowledged \union session.trimmed

(* When the client falls silent, every stanza it has not acknowledged is   *)
(* reported in a 'no-client' event, and none that it has.                  *)
SilenceReported ==
  session.status = "expired" =>
    /\ 1..session.stanza_no \subseteq session.acknowledged \union session.trimmed
                                        \union session.no_client
    /\ session.no_client \intersect session.acknowledged = {}

(* The nodes of a request go to the XMPP server once, and in rid order:    *)
(* whatever is repeated or overtaken, a request's nodes are passed on only *)
(* when the session's rid moves past it.                                   *)
NodesInOrder ==
  [][\A r \in Rid : session'.nodes[r] # session.nodes[r] =>
       /\ session.nodes[r] = 0 /\ session'.nodes[r] = 1
       /\ session.rid < r /\ r <= session'.rid]_session

(* Every HTTP request that reaches the session gets its reply, of clients  *)
(* whose rids are whole numbers.                                           *)
EveryRequestAnswered ==
  \A c \in Conn : c \in DOMAIN session.arrived ~> session.replies[c] # << >>
=============================================================================
