----------------------------- MODULE HttpServer -----------------------------
(***************************************************************************)
(* How POST requests are taken in (src/http-server.js 120-186, 294-303):   *)
(* their parts are collected until 'end', until there is too much of them  *)
(* or until they time out.  Two lists hold the callbacks of the requests   *)
(* that came in this period and in the last; a timer swaps them.  What has *)
(* arrived is read by the one parser of RequestParser, in which requests   *)
(* by GET (99-118) take turns with them.                                   *)
(***************************************************************************)
EXTENDS RequestParser

CONSTANTS
  Requests,      \* POST requests
  NoCallback,    \* a cleared entry of a list
  Period,        \* ticks between two calls of handle_request_timeout
  MaxTime,       \* bound: how long the clock runs
  MAX_DATA_HELD  \* options.MAX_DATA_HELD, in parts

ASSUME IntakeAssumption ==
  /\ Period \in Nat \ {0} /\ MaxTime \in Nat /\ MAX_DATA_HELD \in Nat
  /\ NoCallback \notin Requests

VARIABLES
  now,       \* the clock
  server     \* what became of each request, and the two lists of callbacks

vars == <<now, server>>

Outcome == {"none", "receiving", "handled", "bad-request", "too-large", "timed-out"}

(* says: whether a request that was read is a <body>, by the reference     *)
(* definition.  outcomes and says are history.                             *)
Request == [state : Outcome, born : 0..MaxTime, idx : Nat,
            parts : 0..(MAX_DATA_HELD + 1), outcomes : Nat, says : BOOLEAN]

Lists == Seq(Requests \union {NoCallback})

TypeOK ==
  /\ now \in 0..MaxTime
  /\ server \in [requests : [Requests -> Request], req_list1 : Lists, req_list2 : Lists,
                 parser : ParserType]

Init ==
  /\ now = 0
  /\ server = [requests |-> [r \in Requests |->
                              [state |-> "none", born |-> 0, idx |-> 0,
                               parts |-> 0, outcomes |-> 0, says |-> FALSE]],
               req_list1 |-> << >>, req_list2 |-> << >>, parser |-> Fresh]

(* What requests can make of the parser that an earlier one has left.      *)
Left(child, parsedBody) ==
  [Fresh EXCEPT !.started_ = TRUE, !.child = child, !.parsedBody = parsedBody]
Read == [p \in {Fresh, Left(FALSE, "empty"), Left(TRUE, "body")} |-> Readings(p)]

(* The entries of a list that hold the callbacks of R are cleared.         *)
Cleared(list, R) ==
  [i \in DOMAIN list |->
     IF list[i] \in R /\ i = server.requests[list[i]].idx THEN NoCallback ELSE list[i]]

Decided(s, R, outcome) ==
  [s EXCEPT !.requests = [r \in Requests |->
     IF r \in R
     THEN [s.requests[r] EXCEPT !.state = outcome, !.outcomes = s.requests[r].outcomes + 1]
     ELSE s.requests[r]]]

(* Mutant: the callback is not wrapped in once().                          *)
_on_end_callback_again(s, R, outcome) ==
  [Decided(s, R, outcome) EXCEPT !.req_list1 = Cleared(@, R), !.req_list2 = Cleared(@, R)]

(* Mutant: looks for its entry only in the list it was put in.             *)
_on_end_callback_first_list(s, R, outcome) ==
  LET first == {r \in R : s.requests[r].state = "receiving"}
  IN [Decided(s, first, outcome) EXCEPT !.req_list1 = Cleared(@, first)]

(* The callbacks of the requests in R.  Each runs once, whatever calls it  *)
(* first, and changes nothing but its own request and its own entry.       *)
_on_end_callback(s, R, outcome) ==
  LET first == {r \in R : s.requests[r].state = "receiving"}
  IN [Decided(s, first, outcome) EXCEPT !.req_list1 = Cleared(@, first),
                                        !.req_list2 = Cleared(@, first)]

handle_post_bosh_request(r) ==
  /\ server.requests[r].state = "none"
  /\ server' = [server EXCEPT !.req_list1 = Append(@, r),
                              !.requests[r] = [@ EXCEPT !.state = "receiving", !.born = now,
                                                        !.idx = Len(server.req_list1) + 1]]
  /\ UNCHANGED now

(* What was read along with the part that was too much still arrives; a    *)
(* request whose connection was destroyed by a timeout is silent.          *)
Arriving(r) == server.requests[r].state \in {"receiving", "too-large"}

(* 'data'                                                                  *)
OnData(r) ==
  /\ Arriving(r) /\ server.requests[r].parts <= MAX_DATA_HELD
  /\ LET counted == [server EXCEPT !.requests[r].parts = @ + 1]
     IN server' = IF counted.requests[r].parts > MAX_DATA_HELD
                  THEN _on_end_callback(counted, {r}, "too-large") ELSE counted
  /\ UNCHANGED now

(* The request is parsed and passed on, or refused, if its callback runs.  *)
Parsed(s, r, reading) ==
  LET outcome == IF reading.after.result = "body" THEN "handled" ELSE "bad-request"
      t == _on_end_callback(s, {r}, outcome)
  IN IF t = s THEN s
     ELSE [t EXCEPT !.parser = reading.after.parser, !.requests[r].says = reading.says]

(* 'end'                                                                   *)
OnEnd(r) ==
  /\ Arriving(r)
  /\ \E reading \in Read[server.parser] : server' = Parsed(server, r, reading)
  /\ UNCHANGED now

(* A request by GET is read at once and has no place in the lists.         *)
handle_get_bosh_request(r) ==
  /\ server.requests[r].state = "none"
  /\ \E reading \in Read[server.parser] :
       server' = Parsed([server EXCEPT !.requests[r].state = "receiving"], r, reading)
  /\ UNCHANGED now

Callbacks(list) == {r \in Requests : \E i \in DOMAIN list : list[i] = r}

(* Mutant: times out the requests of the current period.                   *)
handle_request_timeout_hasty(s) ==
  LET t == _on_end_callback(s, Callbacks(s.req_list1), "timed-out")
  IN [t EXCEPT !.req_list2 = t.req_list1, !.req_list1 = << >>]

(* Mutant: forgets the requests of the current period.                     *)
handle_request_timeout_forgetful(s) ==
  LET t == _on_end_callback(s, Callbacks(s.req_list2), "timed-out")
  IN [t EXCEPT !.req_list2 = << >>, !.req_list1 = << >>]

handle_request_timeout(s) ==
  LET t == _on_end_callback(s, Callbacks(s.req_list2), "timed-out")
  IN [t EXCEPT !.req_list2 = t.req_list1, !.req_list1 = << >>]

Tick ==
  /\ now < MaxTime
  /\ now' = now + 1
  /\ server' = IF now' % Period = 0 THEN handle_request_timeout(server) ELSE server

Next ==
  \/ \E r \in Requests :
       \/ handle_post_bosh_request(r) \/ handle_get_bosh_request(r)
       \/ OnData(r) \/ OnEnd(r)
  \/ Tick

Spec == Init /\ [][Next]_vars
-----------------------------------------------------------------------------
(* A request is handled, refused or dropped: one of them, once, although   *)
(* 'end', the limit and the timer race for it.                             *)
OneOutcome ==
  \A r \in Requests :
    server.requests[r].outcomes =
      IF server.requests[r].state \in {"none", "receiving"} THEN 0 ELSE 1

(* A request has a whole period to arrive in.                              *)
TimeToArrive ==
  [][\A r \in Requests :
       /\ server'.requests[r].state = "timed-out"
       /\ server.requests[r].state # "timed-out"
       => now' - server.requests[r].born > Period]_vars

(* No request outlives its second period: none is forgotten in the swap.   *)
(* (The 15 seconds of the comment at http-server.js 164 are a period: the  *)
(* code lets a request take up to two.)                                    *)
NoneForgotten ==
  \A r \in Requests :
    server.requests[r].state = "receiving" => now - server.requests[r].born < 2 * Period

(* The lists keep the callbacks of the requests that still arrive, and of  *)
(* no other: those hold on to the parts of their requests.                 *)
CallbacksCleared ==
  \A r \in Requests :
    LET in(list) == \E i \in DOMAIN list : list[i] = r
    IN server.requests[r].state = "receiving" <=> in(server.req_list1) \/ in(server.req_list2)

(* No request leaves anything behind for the next: the parser is inside    *)
(* <bosh> with no element open, so that the assertion of                   *)
(* _handle_start_element (bosh-request-parser.js 74) holds.                *)
ParserClean == Clean(server.parser)

(* A request is accepted for what it says alone, not for what came before. *)
ResultIsContents ==
  \A r \in Requests :
    /\ server.requests[r].state = "handled" => server.requests[r].says
    /\ server.requests[r].state = "bad-request" => ~server.requests[r].says
=============================================================================
