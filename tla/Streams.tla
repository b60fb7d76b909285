------------------------------ MODULE Streams ------------------------------
(***************************************************************************)
(* A BOSH session with several streams: src/stream.js, the stream-wise     *)
(* parts of src/session.js and of src/bosh.js, and the table that the XMPP *)
(* connector keeps of the same streams.  What Session models (the cache of *)
(* replies, repeated and invalid requests, acknowledgements) is left out.  *)
(*                                                                         *)
(* As in Session, a function of the code that changes state is an operator *)
(* from a record to a record.  Streams are numbered in the order in which  *)
(* they are added; 0 stands for the null stream.                           *)
(***************************************************************************)
EXTENDS Integers, Sequences, SequencesExt, FiniteSetsExt

CONSTANTS
  MaxRid,                  \* bound: request ids are 1..MaxRid
  MaxStreams,              \* bound: streams that are ever added
  MaxStanza,               \* bound: stanzas of the XMPP servers
  WindowSize,              \* options.WINDOW_SIZE
  MAX_STREAMS_PER_SESSION, \* options.MAX_STREAMS_PER_SESSION
  Hold                     \* the session's hold

Rid == 1..MaxRid
Stream == 1..MaxStreams

ASSUME StreamsAssumption ==
  /\ MaxRid \in Nat \ {0} /\ MaxStreams \in Nat \ {0} /\ MaxStanza \in Nat
  /\ WindowSize \in Nat \ {0} /\ Hold \in Nat \ {0}
  /\ MAX_STREAMS_PER_SESSION \in Nat \ {0}

VARIABLE session

(* queued_requests[rid]: the node's kind and the stream that was found     *)
(* when the request arrived.  A "refused" request adds a stream to a host  *)
(* the connector refuses at once; a "body" has nothing left in it.         *)
Kinds == {"data", "restart", "terminate", "add", "refused"}
NoRequest == [kind |-> "none", stream |-> 0]

(* The connector's entry: none yet, connecting, connected, closed by the   *)
(* XMPP server, released by the session.                                   *)
Entry == {"none", "opening", "up", "closed", "released"}
Open(s) == {st \in Stream : s.connector[st] \in {"opening", "up"}}

HasPending(s, st) == s.pending_stanzas[st] > 0 \/ s.pending_bosh_responses[st] # << >>
-----------------------------------------------------------------------------
(* Sending.                                                                *)

try_sending(s) == [s EXCEPT !.has_next_tick = TRUE]

enqueue_bosh_response(s, st, kind) ==
  try_sending([s EXCEPT !.pending_bosh_responses[st] = Append(@, kind)])

send_stream_terminate_response(s, st) == enqueue_bosh_response(s, st, "terminate")

(* The first held response goes out (rids are unique: res is a set).       *)
Reply(s) ==
  [s EXCEPT !.res = @ \ {Min(@)}, !.max_rid_sent = IF @ > Min(s.res) THEN @ ELSE Min(s.res)]

(* Who was passed over: how often each stream was served while st waited.  *)
Passed(s, st) ==
  [x \in Stream |-> [y \in Stream |->
    IF x = st \/ ~HasPending(s, x) THEN 0
    ELSE s.passed[x][y] + (IF y = st THEN 1 ELSE 0)]]

(* _stitch_response_for_stream, for the stream at position pos.            *)
Stitch(s, pos) ==
  LET st == s.streams[pos + 1]
      bosh == s.pending_bosh_responses[st]
      last == bosh # << >> /\ Head(bosh) = "terminate"
  IN [Reply(s) EXCEPT
       !.next_stream = (pos + 1) % Len(s.streams),
       !.pending_stanzas[st] = 0,
       !.pending_bosh_responses[st] = IF @ = << >> THEN @ ELSE Tail(@),
       !.named = @ \union {st},
       !.told = IF last THEN @ \union {st} ELSE @,
       !.passed = Passed(s, st)]

(* One round of send_pending_responses: the next stream in turn that has   *)
(* something pending, if there is one and a response to send it on.        *)
_stitch_new_response(s) ==
  LET len == Len(s.streams)
      at(d) == (s.next_stream + d) % len
      turns == {d \in 0..(len - 1) : HasPending(s, s.streams[at(d) + 1])}
  IN IF s.res = {} \/ len = 0 THEN s
     ELSE IF turns = {} THEN [s EXCEPT !.next_stream = @ % len]
     ELSE Stitch(s, at(Min(turns)))

send_pending_responses(s) ==
  FoldLeft(LAMBDA t, r : _stitch_new_response(t), s, SetToSeq(s.res))

(* All but the last Hold held responses go out.                            *)
respond_to_extra_held(s) ==
  LET extra == {r \in s.res : Cardinality({q \in s.res : q >= r}) > Hold}
  IN IF extra = {} THEN s
     ELSE [s EXCEPT !.res = @ \ extra,
                    !.max_rid_sent = IF @ > Max(extra) THEN @ ELSE Max(extra)]
-----------------------------------------------------------------------------
(* Adding and ending.                                                      *)

(* The positions of a stream; they count from 0 in the code.               *)
Positions(s, st) == {i \in DOMAIN s.streams : s.streams[i] = st}

Without(s, st) ==
  IF Positions(s, st) = {} THEN s.streams ELSE RemoveAt(s.streams, Min(Positions(s, st)))

(* Requests of a stream that goes have nothing left in them.               *)
Emptied(s, st) ==
  [r \in Rid |-> IF s.queued_requests[r].stream = st
                 THEN [kind |-> "body", stream |-> 0] ELSE s.queued_requests[r]]

(* Mutant: keeps next_stream although the streams behind it move up.       *)
delete_stream_unshifted(s, st) ==
  [s EXCEPT
    !.pending_stanzas[st] = 0,
    !.pending_bosh_responses[st] = << >>,
    !.streams = Without(s, st),
    !.queued_requests = Emptied(s, st)]

(* Mutant: takes the stream away from queued requests, but not their nodes. *)
delete_stream_broadcast(s, st) ==
  [s EXCEPT
    !.pending_stanzas[st] = 0,
    !.pending_bosh_responses[st] = << >>,
    !.next_stream = IF \E i \in Positions(s, st) : i <= @ THEN @ - 1 ELSE @,
    !.streams = Without(s, st),
    !.queued_requests = [r \in Rid |-> IF @[r].stream = st THEN [@[r] EXCEPT !.stream = 0] ELSE @[r]]]

(* next_stream moves back if the stream stands before it.                  *)
delete_stream(s, st) ==
  [s EXCEPT
    !.pending_stanzas[st] = 0,
    !.pending_bosh_responses[st] = << >>,
    !.next_stream = IF \E i \in Positions(s, st) : i <= @ THEN @ - 1 ELSE @,
    !.streams = Without(s, st),
    !.queued_requests = Emptied(s, st)]

(* Stream.terminate and the store's handler of it.                         *)
stream_terminate(s, st) ==
  [delete_stream(s, st) EXCEPT !._sn_state = @ \ {st}, !.sn_length = @ - 1]

(* Session.terminate: every held response is used up.                      *)
session_terminate(s) ==
  [s EXCEPT !.streams = << >>, !.res = {}, !.timeout = FALSE,
            !.status = "terminated", !.sid_length = @ - 1]

TerminateIfEmpty(s) == IF s.streams = << >> THEN session_terminate(s) ELSE s

(* Mutant: does not tell the connector.                                    *)
terminate_quietly(s, st, why) == stream_terminate(s, st)

(* A stream goes, on this side and in the connector's table.               *)
TerminateStream(s, st, why) ==
  [stream_terminate(s, st) EXCEPT !.connector[st] = why]

(* _on_terminate: the connector has dropped its entry.                     *)
_on_terminate(s, st) ==
  TerminateIfEmpty(TerminateStream(send_stream_terminate_response(s, st), st, "closed"))

(* The nodes of a request reach the streams the connector has.             *)
emit_nodes_event(s, rid, st) ==
  [s EXCEPT !.nodes[rid] = @ \union
     ((IF st = 0 THEN ToSet(s.streams) ELSE {st}) \intersect Open(s))]

release(s, st) == TerminateStream(s, st, "released")

(* The nodes, if any, are emitted before the streams go.                   *)
handle_client_stream_terminate_request(s, st, rid, hasNodes) ==
  LET targets == IF st = 0 THEN s.streams ELSE << st >>
      emitted == IF hasNodes THEN emit_nodes_event(s, rid, st) ELSE s
      told == IF Len(targets) = Len(s.streams) THEN emitted
              ELSE send_stream_terminate_response(emitted, st)
  IN TerminateIfEmpty(FoldLeft(release, told, targets))

is_max_streams_violation(s) == Len(s.streams) > MAX_STREAMS_PER_SESSION

(* StreamStore.add_stream and the connector's stream_add, which refuses a  *)
(* host before it returns.                                                 *)
add_stream(s, rid, refused) ==
  LET st == s.added + 1
      t == [s EXCEPT !.added = st, !.streams = Append(@, st),
                     !._sn_state = @ \union {st}, !.sn_length = @ + 1,
                     !.connector[st] = "opening"]
  IN IF refused THEN _on_terminate(t, st) ELSE emit_nodes_event(t, rid, st)
-----------------------------------------------------------------------------
(* _process_one_request.  A restart without a stream and an add over the   *)
(* limit become terminate requests.                                        *)
_process_one_request(s, rid) ==
  LET req == s.queued_requests[rid]
      t == [s EXCEPT !.rid = rid, !.queued_requests[rid] = NoRequest]
      ends == \/ req.kind = "terminate"
              \/ req.kind = "restart" /\ req.stream = 0
              \/ req.kind \in {"add", "refused"} /\ is_max_streams_violation(s)
      processed ==
        IF ends THEN handle_client_stream_terminate_request(t, req.stream, rid, req.kind # "restart")
        ELSE IF req.kind \in {"add", "refused"} THEN add_stream(t, rid, req.kind = "refused")
        ELSE IF req.kind = "data" THEN emit_nodes_event(t, rid, req.stream) ELSE t
  IN send_pending_responses(processed)

(* What process_requests takes: the rids that were queued when it started  *)
(* and come next, whatever happens to the session on the way.              *)
Runnable(s) ==
  {r \in Rid : r > s.rid /\ \A q \in (s.rid + 1)..r : s.queued_requests[q] # NoRequest}

process_requests(s) ==
  FoldLeft(_process_one_request, s,
           [i \in 1..(Max({s.rid} \union Runnable(s)) - s.rid) |-> s.rid + i])

add_held_http_connection(s, rid) ==
  IF rid < s.max_rid_sent THEN s ELSE [s EXCEPT !.res = @ \union {rid}]

get_only_stream(s) == IF Len(s.streams) = 1 THEN s.streams[1] ELSE 0

(* The store is one table for all sessions, and the code does not look     *)
(* whose stream it finds.  Names are random; a client has those it was     *)
(* told of, all of its own session, and Request has no others.             *)
get_stream(s, name) == IF name \in s._sn_state THEN name ELSE 0

(* The request is answered at once; its rid still counts.                  *)
send_invalid_stream_terminate_response(s, rid) ==
  [s EXCEPT !.queued_requests[rid] = [kind |-> "body", stream |-> 0]]
-----------------------------------------------------------------------------
EmptySession ==
  [status |-> "none", rid |-> 0, res |-> {}, max_rid_sent |-> 0,
   queued_requests |-> [r \in Rid |-> NoRequest], streams |-> << >>, next_stream |-> 0,
   pending_stanzas |-> [st \in Stream |-> 0],
   pending_bosh_responses |-> [st \in Stream |-> << >>],
   has_next_tick |-> FALSE, timeout |-> FALSE,
   _sn_state |-> {}, sn_length |-> 0, sid_length |-> 0,
   connector |-> [st \in Stream |-> "none"],
   added |-> 0, stanzas |-> 0, named |-> {}, told |-> {},
   target |-> [r \in Rid |-> 0], nodes |-> [r \in Rid |-> {}],
   passed |-> [x \in Stream |-> [y \in Stream |-> 0]]]

Init == session = EmptySession

(* The session creation request, rid 1, brings the first stream.           *)
CreateSession ==
  /\ session.status = "none"
  /\ LET s == [EmptySession EXCEPT !.status = "open", !.rid = 1, !.sid_length = 1,
                                   !.res = {1}, !.timeout = TRUE]
     IN session' = enqueue_bosh_response(add_stream(s, 1, FALSE), 1, "create")

(* A new request.  The client names a stream of its session that it has    *)
(* been told of, or none.                                                  *)
Request(rid, kind, name) ==
  LET s == [session EXCEPT !.timeout = TRUE]
      stream == IF name = 0 THEN get_only_stream(s) ELSE get_stream(s, name)
      queued ==
        IF name # 0 /\ stream = 0
        THEN send_invalid_stream_terminate_response(s, rid)
        ELSE add_held_http_connection(
               [s EXCEPT !.queued_requests[rid] = [kind |-> kind, stream |-> stream],
                         !.target[rid] = IF kind \in {"data", "terminate"} THEN stream ELSE 0], rid)
      adds == {r \in Rid : s.queued_requests[r].kind \in {"add", "refused"}}
  IN /\ s.status = "open"
     /\ rid > s.rid /\ rid <= s.rid + WindowSize /\ s.queued_requests[rid] = NoRequest
     /\ kind \in {"add", "refused"} => s.added + Cardinality(adds) < MaxStreams
     /\ session' = respond_to_extra_held(process_requests(queued))

NextTick ==
  /\ session.has_next_tick
  /\ session' = send_pending_responses([session EXCEPT !.has_next_tick = FALSE])

send_stream_add_response(s, st) == enqueue_bosh_response(s, st, "add")

(* _on_stream_added: the XMPP server has taken the stream.                 *)
OnStreamAdded(st) ==
  /\ session.connector[st] = "opening"
  /\ LET s == [session EXCEPT !.connector[st] = "up"]
     IN session' = IF Len(s.streams) > 1 THEN send_stream_add_response(s, st) ELSE s

(* _on_response: a stanza; a stream error also queues the end.             *)
OnResponse(st, error) ==
  /\ session.connector[st] = "up" /\ session.stanzas < MaxStanza
  /\ LET s == try_sending([session EXCEPT !.stanzas = @ + 1, !.pending_stanzas[st] = @ + 1])
     IN session' = IF error THEN send_stream_terminate_response(s, st) ELSE s

OnTerminate(st) ==
  /\ st \in Open(session)
  /\ session' = _on_terminate(session, st)

(* _on_request_timeout_callback of one of the responses held.              *)
RequestTimeout ==
  \E rid \in session.res :
    session' = [session EXCEPT !.res = @ \ {rid},
                               !.max_rid_sent = IF @ > rid THEN @ ELSE rid]

InactivityTimeout ==
  /\ session.timeout /\ session.res = {}
  /\ session' = handle_client_stream_terminate_request(session, 0, 1, FALSE)

Next ==
  \/ CreateSession
  \/ \E rid \in Rid, kind \in Kinds, name \in session.named \union {0} : Request(rid, kind, name)
  \/ \E st \in Stream :
       OnStreamAdded(st) \/ OnTerminate(st) \/ \E error \in BOOLEAN : OnResponse(st, error)
  \/ NextTick
  \/ RequestTimeout
  \/ InactivityTimeout

Spec == Init /\ [][Next]_session
-----------------------------------------------------------------------------
(* The four tables of streams agree: what the session lists, what the      *)
(* store has, what it counts, and what the connector holds a connection    *)
(* for.  No XMPP connection outlives its stream, and none is missing.      *)
TablesAgree ==
  /\ ToSet(session.streams) = session._sn_state
  /\ session._sn_state = Open(session)
  /\ session.sn_length = Cardinality(session._sn_state)
  /\ Len(session.streams) = session.sn_length

(* Round robin: no stream is served twice while another one waits, though  *)
(* streams come and go between two turns (session.js 747-748: "Processing  *)
(* streams one after another avoids starvation of any one stream").        *)
NotPassedOver ==
  \A x, y \in Stream : session.passed[x][y] <= 1

(* The nodes of a request for one stream, named or the only one when it    *)
(* came, reach no other stream, whatever has ended before it is processed. *)
NotMixed ==
  \A r \in Rid : session.target[r] # 0 => session.nodes[r] \subseteq {session.target[r]}

(* bosh.js 276: "We send a terminate response to the client."  The client  *)
(* of a session that goes on is told, or will be, when a stream it knows   *)
(* of has ended on the XMPP server's side.                                 *)
EndTold ==
  \A st \in session.named :
    session.status = "open" /\ session.connector[st] = "closed" =>
      \/ st \in session.told
      \/ \E i \in DOMAIN session.pending_bosh_responses[st] :
           session.pending_bosh_responses[st][i] = "terminate"
=============================================================================
