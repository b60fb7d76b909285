---------------------------- MODULE LoginProofs ----------------------------
(***************************************************************************)
(* Proofs about StropheLogin, for every set of offers, every set of IQs    *)
(* and any number of connections.                                          *)
(*                                                                         *)
(* Handlers come and go through three lists, so what counts is Coming: the *)
(* handlers there will be when the next body is merged.  The invariant     *)
(* names the sets of login handlers that are ever coming (Steps), one for  *)
(* each point of the login, says that the references the client keeps are  *)
(* to the handlers of that point (Referred: otherwise Forget would leave   *)
(* one behind), and ties the verdict to the end of the login.              *)
(***************************************************************************)
EXTENDS StropheLogin, SequenceLemmas

Hands == LoginHandlers \union Iqs
Fields == {"success", "failure", "challenge"}
Statuses == {"CONNECTED", "AUTHFAIL", "CONNFAIL"}

(* The type of the connection.                                             *)
LoginRecord ==
  [node : BOOLEAN, connected : BOOLEAN, authenticated : BOOLEAN, disconnecting : BOOLEAN,
   do_bind : BOOLEAN, do_session : BOOLEAN,
   handlers : SUBSET Hands, addHandlers : SUBSET Hands, removeHandlers : SUBSET Hands,
   timedHandlers : SUBSET Iqs, addTimeds : SUBSET Iqs, removeTimeds : SUBSET Iqs,
   refs : [Fields -> SUBSET Hands],
   _data : BOOLEAN, connectRequests : 0..1, dataRequests : Nat,
   lives : Nat, reported : [Statuses -> 0..2], ignored : BOOLEAN,
   outcome : [Iqs -> Seq({"answered", "timeout"})], sent : SUBSET Iqs]

(* The handlers there will be at the next merge, and those of the login.   *)
Coming(c) == (c.handlers \ c.removeHandlers) \union c.addHandlers
Step(c) == Coming(c) \intersect LoginHandlers

(* The sets of login handlers that ever wait together.                     *)
Steps ==
  {{}, {"success", "failure"}, {"challenge1", "failure"}, {"challenge2", "success", "failure"},
   {"auth1"}, {"auth2"}, {"features"}, {"bind"}, {"session"}}

Verdicts(c) == c.reported["CONNECTED"] + c.reported["AUTHFAIL"]

(* The references are to the handlers that are coming.                     *)
Referred(c) ==
  /\ "success" \in Coming(c) => c.refs["success"] = {"success"}
  /\ "failure" \in Coming(c) => c.refs["failure"] = {"failure"}
  /\ "challenge1" \in Coming(c) => c.refs["challenge"] = {"challenge1"}
  /\ "challenge2" \in Coming(c) => c.refs["challenge"] = {"challenge2"}

(* No handler of the login is left when it is over, nor before it begins.  *)
InStep(c) ==
  /\ Step(c) \in Steps
  /\ Referred(c)
  /\ Verdicts(c) = 0 \/ (Verdicts(c) = 1 /\ Step(c) = {})
  /\ ~c.connected => Step(c) = {}
  /\ c.connectRequests > 0 => Step(c) = {} /\ Verdicts(c) = 0

(* What LoginGoesOn says, with the steps for the handlers.                 *)
Asked(c) ==
  \/ ~c.connected \/ c.disconnecting \/ c.authenticated \/ c.ignored
  \/ c.connectRequests > 0
  \/ c.reported # NothingReported
  \/ (c.dataRequests > 0 \/ c._data) /\ Step(c) # {}

(* The timers there will be when the idle function runs.                   *)
Ticking(c) == (c.timedHandlers \union c.addTimeds) \ c.removeTimeds

(* An IQ that was answered has no timer, and none will get one again.      *)
Timed(c) ==
  \A i \in Iqs :
    /\ i \notin c.sent =>
         /\ c.outcome[i] = << >>
         /\ i \notin c.timedHandlers \union c.addTimeds
         /\ i \notin c.handlers \union c.addHandlers
    /\ c.outcome[i] # << >> /\ c.outcome[i][1] = "answered" => i \notin Ticking(c)
    /\ c.outcome[i] # << "answered", "timeout" >>

(* What the callbacks of the login leave alone, besides the lists.         *)
SameRest(t, c) ==
  /\ t.connected = c.connected /\ t.connectRequests = c.connectRequests
  /\ t.ignored = c.ignored /\ t.outcome = c.outcome /\ t.sent = c.sent
  /\ t.timedHandlers = c.timedHandlers /\ t.addTimeds = c.addTimeds
  /\ t.removeTimeds = c.removeTimeds

SameMood(t, c) ==
  /\ t._data = c._data /\ t.reported = c.reported
  /\ t.authenticated = c.authenticated /\ t.disconnecting = c.disconnecting
  /\ t.dataRequests = c.dataRequests /\ t.do_session = c.do_session

SameLists(t, c) ==
  /\ t.handlers = c.handlers /\ t.addHandlers = c.addHandlers
  /\ t.removeHandlers = c.removeHandlers /\ t.refs = c.refs

-----------------------------------------------------------------------------
(* The names, and that no IQ has one of them.                              *)
LEMMA HandlerNames ==
  /\ LoginHandlers = {"challenge1", "challenge2", "success", "failure", "features",
                      "bind", "session", "auth1", "auth2"}
  /\ LoginHandlers \subseteq Hands /\ Iqs \subseteq Hands
  /\ Iqs \intersect LoginHandlers = {}
<1>1. LoginHandlers = {"challenge1", "challenge2", "success", "failure", "features",
                      "bind", "session", "auth1", "auth2"}
  BY DEF LoginHandlers, Matches
<1>2. QED BY <1>1, IqsAssumption DEF Hands

(* The key every login handler matches; no IQ has it for an id.            *)
LEMMA HandlerKeys ==
  /\ Matches["challenge1"] = "challenge" /\ Matches["challenge2"] = "challenge"
  /\ Matches["success"] = "success" /\ Matches["failure"] = "failure"
  /\ Matches["features"] = "stream:features" /\ Matches["bind"] = "_bind_auth_2"
  /\ Matches["session"] = "_session_auth_2"
  /\ Matches["auth1"] = "_auth_1" /\ Matches["auth2"] = "_auth_2"
BY DEF Matches

(* addHandler: only the list of additions grows.                           *)
LEMMA AddsHandlers ==
  ASSUME NEW c \in LoginRecord, NEW new \in SUBSET Hands
  PROVE  /\ addHandler(c, new) \in LoginRecord
         /\ addHandler(c, new).addHandlers = c.addHandlers \union new
         /\ addHandler(c, new).handlers = c.handlers
         /\ addHandler(c, new).removeHandlers = c.removeHandlers
         /\ addHandler(c, new).refs = c.refs
         /\ SameRest(addHandler(c, new), c) /\ SameMood(addHandler(c, new), c)
<1> DEFINE v == c.addHandlers \union new
<1>1. v \in SUBSET Hands BY DEF LoginRecord
<1>2. addHandler(c, new) = [c EXCEPT !.addHandlers = v] BY DEF addHandler
<1>3. v = c.addHandlers \union new OBVIOUS
<1> HIDE DEF v
<1>4. QED BY <1>1, <1>2, <1>3 DEF LoginRecord, SameRest, SameMood

(* deleteHandler: only the list of removals grows.                         *)
LEMMA DeletesHandlers ==
  ASSUME NEW c \in LoginRecord, NEW old \in SUBSET Hands
  PROVE  /\ deleteHandler(c, old) \in LoginRecord
         /\ deleteHandler(c, old).removeHandlers = c.removeHandlers \union old
         /\ deleteHandler(c, old).handlers = c.handlers
         /\ deleteHandler(c, old).addHandlers = c.addHandlers
         /\ deleteHandler(c, old).refs = c.refs
         /\ SameRest(deleteHandler(c, old), c) /\ SameMood(deleteHandler(c, old), c)
<1> DEFINE v == c.removeHandlers \union old
<1>1. v \in SUBSET Hands BY DEF LoginRecord
<1>2. deleteHandler(c, old) = [c EXCEPT !.removeHandlers = v] BY DEF deleteHandler
<1>3. v = c.removeHandlers \union old OBVIOUS
<1> HIDE DEF v
<1>4. QED BY <1>1, <1>2, <1>3 DEF LoginRecord, SameRest, SameMood

(* Setting a reference.                                                    *)
Referring(c, f, to) == [c EXCEPT !.refs[f] = to]

(* A reference is set, and nothing else.                                   *)
LEMMA SetsReference ==
  ASSUME NEW c \in LoginRecord, NEW f \in Fields, NEW to \in SUBSET Hands
  PROVE  LET t == Referring(c, f, to) IN
         /\ t \in LoginRecord
         /\ t.refs \in [Fields -> SUBSET Hands]
         /\ t.refs[f] = to /\ \A g \in Fields : g # f => t.refs[g] = c.refs[g]
         /\ t.handlers = c.handlers /\ t.addHandlers = c.addHandlers
         /\ t.removeHandlers = c.removeHandlers
         /\ SameRest(t, c) /\ SameMood(t, c)
<1> DEFINE v == [c.refs EXCEPT ![f] = to]
           t == Referring(c, f, to)
<1>1. v \in [Fields -> SUBSET Hands] BY DEF LoginRecord
<1>2. v[f] = to /\ \A g \in Fields : g # f => v[g] = c.refs[g] BY DEF LoginRecord
<1>3. t = [c EXCEPT !.refs = v] BY DEF LoginRecord, Referring
<1> HIDE DEF v, t
<1>4. /\ t \in LoginRecord /\ t.refs = v /\ t.handlers = c.handlers /\ t.addHandlers = c.addHandlers
      /\ t.removeHandlers = c.removeHandlers
      /\ SameRest(t, c) /\ SameMood(t, c)
  BY <1>1, <1>3 DEF LoginRecord, SameRest, SameMood
<1>5. QED BY <1>1, <1>2, <1>4 DEF t

(* A handler that is added and kept a reference to.                        *)
LEMMA Awaits ==
  ASSUME NEW c \in LoginRecord, NEW f \in Fields, NEW h \in LoginHandlers
  PROVE  LET t == Keep(_addSysHandler(c, {h}), f, h) IN
         /\ t \in LoginRecord
         /\ t.handlers = c.handlers /\ t.addHandlers = c.addHandlers \union {h}
         /\ t.removeHandlers = c.removeHandlers
         /\ t.refs[f] = {h} /\ \A g \in Fields : g # f => t.refs[g] = c.refs[g]
         /\ SameRest(t, c) /\ SameMood(t, c)
<1> DEFINE a == addHandler(c, {h})
           t == Referring(a, f, {h})
<1>1. {h} \in SUBSET Hands BY HandlerNames
<1>2. /\ a \in LoginRecord /\ a.addHandlers = c.addHandlers \union {h} /\ a.handlers = c.handlers
      /\ a.removeHandlers = c.removeHandlers /\ a.refs = c.refs
      /\ SameRest(a, c) /\ SameMood(a, c)
  BY <1>1, AddsHandlers
<1> HIDE DEF a
<1>3. /\ t \in LoginRecord
      /\ t.refs[f] = {h} /\ \A g \in Fields : g # f => t.refs[g] = a.refs[g]
      /\ t.handlers = a.handlers /\ t.addHandlers = a.addHandlers
      /\ t.removeHandlers = a.removeHandlers
      /\ SameRest(t, a) /\ SameMood(t, a)
  BY <1>1, <1>2, SetsReference
<1>4. Keep(_addSysHandler(c, {h}), f, h) = t BY Zenon DEF Keep, _addSysHandler, Referring, a
<1> HIDE DEF t
<1>5. SameRest(t, c) /\ SameMood(t, c) BY <1>2, <1>3 DEF SameRest, SameMood
<1>6. QED BY <1>2, <1>3, <1>4, <1>5

(* Deleting what a reference is to.                                        *)
LEMMA Deletes ==
  ASSUME NEW c \in LoginRecord, NEW f \in Fields
  PROVE  LET t == Delete(c, f) IN
         /\ t \in LoginRecord
         /\ t.handlers = c.handlers /\ t.addHandlers = c.addHandlers
         /\ t.removeHandlers = c.removeHandlers \union c.refs[f]
         /\ t.refs = c.refs
         /\ SameRest(t, c) /\ SameMood(t, c)
<1>1. c.refs[f] \in SUBSET Hands BY DEF LoginRecord
<1> DEFINE old == c.refs[f]
<1>2. Delete(c, f) = deleteHandler(c, old) BY DEF Delete
<1> HIDE DEF old
<1>3. old \in SUBSET Hands BY <1>1 DEF old
<1>4. QED BY <1>2, <1>3, DeletesHandlers DEF old

(* ... and dropping the reference.                                         *)
LEMMA Forgets ==
  ASSUME NEW c \in LoginRecord, NEW f \in Fields
  PROVE  LET t == Forget(c, f) IN
         /\ t \in LoginRecord
         /\ t.handlers = c.handlers /\ t.addHandlers = c.addHandlers
         /\ t.removeHandlers = c.removeHandlers \union c.refs[f]
         /\ t.refs[f] = {} /\ \A g \in Fields : g # f => t.refs[g] = c.refs[g]
         /\ SameRest(t, c) /\ SameMood(t, c)
<1> DEFINE a == Delete(c, f)
           t == Referring(a, f, {})
<1>1. {} \in SUBSET Hands OBVIOUS
<1>2. /\ a \in LoginRecord
      /\ a.handlers = c.handlers /\ a.addHandlers = c.addHandlers
      /\ a.removeHandlers = c.removeHandlers \union c.refs[f]
      /\ a.refs = c.refs /\ SameRest(a, c) /\ SameMood(a, c)
  BY Deletes
<1> HIDE DEF a
<1>3. /\ t \in LoginRecord
      /\ t.refs[f] = {} /\ \A g \in Fields : g # f => t.refs[g] = a.refs[g]
      /\ t.handlers = a.handlers /\ t.addHandlers = a.addHandlers
      /\ t.removeHandlers = a.removeHandlers
      /\ SameRest(t, a) /\ SameMood(t, a)
  BY <1>1, <1>2, SetsReference
<1>4. Forget(c, f) = t BY Zenon DEF Forget, Referring, a
<1> HIDE DEF t
<1>5. SameRest(t, c) /\ SameMood(t, c) BY <1>2, <1>3 DEF SameRest, SameMood
<1>6. QED BY <1>2, <1>3, <1>4, <1>5

(* send: something waits for the idle function.                            *)
LEMMA Sends ==
  ASSUME NEW c \in LoginRecord
  PROVE  /\ send(c) \in LoginRecord /\ send(c)._data = TRUE
         /\ send(c).reported = c.reported
         /\ send(c).authenticated = c.authenticated /\ send(c).disconnecting = c.disconnecting
         /\ send(c).dataRequests = c.dataRequests
         /\ SameRest(send(c), c) /\ SameLists(send(c), c)
BY DEF LoginRecord, send, SameRest, SameLists

(* A status that is reported is counted, up to two.                        *)
LEMMA Reports ==
  ASSUME NEW c \in LoginRecord, NEW status \in Statuses
  PROVE  LET t == _changeConnectStatus(c, status) IN
         /\ t \in LoginRecord
         /\ t.reported[status] = (IF c.reported[status] < 2 THEN c.reported[status] + 1
                                                             ELSE c.reported[status])
         /\ \A s \in Statuses : s # status => t.reported[s] = c.reported[s]
         /\ t.reported # NothingReported
         /\ t._data = c._data /\ t.authenticated = c.authenticated
         /\ t.disconnecting = c.disconnecting /\ t.dataRequests = c.dataRequests
         /\ SameRest(t, c) /\ SameLists(t, c)
<1> DEFINE n == IF c.reported[status] < 2 THEN c.reported[status] + 1 ELSE c.reported[status]
           v == [c.reported EXCEPT ![status] = n]
           t == _changeConnectStatus(c, status)
<1>1. c.reported \in [Statuses -> 0..2] BY DEF LoginRecord
<1>2. n \in 0..2 /\ n # 0 BY <1>1
<1> HIDE DEF n
<1>3. v \in [Statuses -> 0..2] /\ v[status] = n /\ \A s \in Statuses : s # status => v[s] = c.reported[s]
  BY <1>1, <1>2
<1>4. t = [c EXCEPT !.reported = v] BY <1>1 DEF LoginRecord, _changeConnectStatus, n
<1>5. NothingReported[status] = 0 BY DEF NothingReported, Statuses
<1>6. v # NothingReported BY <1>2, <1>3, <1>5
<1> HIDE DEF v, t
<1>7. /\ t \in LoginRecord /\ t.reported = v /\ SameRest(t, c) /\ SameLists(t, c)
      /\ t._data = c._data /\ t.authenticated = c.authenticated
      /\ t.disconnecting = c.disconnecting /\ t.dataRequests = c.dataRequests
  BY <1>3, <1>4 DEF LoginRecord, SameRest, SameLists
<1>8. QED BY <1>3, <1>6, <1>7 DEF t, n

(* The verdict of a login that had none.                                   *)
LEMMA GivesVerdict ==
  ASSUME NEW c \in LoginRecord, Verdicts(c) = 0, NEW status \in {"CONNECTED", "AUTHFAIL"}
  PROVE  Verdicts(_changeConnectStatus(c, status)) = 1
<1>1. /\ status \in Statuses /\ "CONNECTED" \in Statuses /\ "AUTHFAIL" \in Statuses
      /\ "CONNECTED" # "AUTHFAIL"
  BY DEF Statuses
<1>2. c.reported["CONNECTED"] = 0 /\ c.reported["AUTHFAIL"] = 0
  <2>1. c.reported \in [Statuses -> 0..2] BY DEF LoginRecord
  <2> DEFINE a == c.reported["CONNECTED"]
             b == c.reported["AUTHFAIL"]
  <2>2. a \in 0..2 /\ b \in 0..2 BY <1>1, <2>1
  <2>3. a + b = 0 BY DEF Verdicts
  <2> HIDE DEF a, b
  <2>4. a = 0 /\ b = 0 BY <2>2, <2>3
  <2>5. QED BY <2>4 DEF a, b
<1> DEFINE t == _changeConnectStatus(c, status)
<1>3. /\ t.reported[status] = (IF c.reported[status] < 2 THEN c.reported[status] + 1
                                                         ELSE c.reported[status])
      /\ \A s \in Statuses : s # status => t.reported[s] = c.reported[s]
  BY <1>1, Reports
<1> HIDE DEF t
<1>4. CASE status = "CONNECTED"
  BY <1>1, <1>2, <1>3, <1>4 DEF Verdicts, t
<1>5. CASE status = "AUTHFAIL"
  BY <1>1, <1>2, <1>3, <1>5 DEF Verdicts, t
<1>6. QED BY <1>4, <1>5

(* disconnect: one more request, and no stanza is looked at any more.      *)
LEMMA Disconnects ==
  ASSUME NEW c \in LoginRecord
  PROVE  LET t == disconnect(c) IN
         /\ t \in LoginRecord /\ (c.connected => t.disconnecting)
         /\ t.reported = c.reported /\ t.authenticated = c.authenticated
         /\ (c.disconnecting => t.disconnecting)
         /\ t.dataRequests >= c.dataRequests /\ t._data = c._data
         /\ SameRest(t, c) /\ SameLists(t, c)
<1>1. c.dataRequests \in Nat BY DEF LoginRecord
<1> DEFINE n == c.dataRequests + 1
<1>2. n \in Nat /\ n >= c.dataRequests BY <1>1
<1>3. CASE c.connected
  <2>1. disconnect(c) = [c EXCEPT !.disconnecting = TRUE, !.dataRequests = n]
    BY <1>3 DEF disconnect
  <2> HIDE DEF n
  <2>2. QED BY <1>2, <2>1 DEF LoginRecord, SameRest, SameLists
<1>4. CASE ~c.connected
  <2>1. disconnect(c) = c BY <1>4 DEF disconnect
  <2>2. QED BY <1>1, <1>4, <2>1 DEF SameRest, SameLists
<1>5. QED BY <1>3, <1>4
-----------------------------------------------------------------------------
(* The callbacks.  h has been taken from the handlers of a login that is   *)
(* under way, and the lists have been merged.                              *)
Hitting(c, h) ==
  /\ c \in LoginRecord /\ c.connected /\ Verdicts(c) = 0
  /\ c.addHandlers = {} /\ c.removeHandlers = {}
  /\ h \in LoginHandlers /\ h \notin c.handlers
  /\ (c.handlers \union {h}) \intersect LoginHandlers \in Steps
  /\ "success" \in c.handlers \union {h} => c.refs["success"] = {"success"}
  /\ "failure" \in c.handlers \union {h} => c.refs["failure"] = {"failure"}
  /\ "challenge1" \in c.handlers \union {h} => c.refs["challenge"] = {"challenge1"}
  /\ "challenge2" \in c.handlers \union {h} => c.refs["challenge"] = {"challenge2"}

(* What every callback has done then: the login is at its next step and    *)
(* has sent something, or it is over.                                      *)
Led(t, c) ==
  /\ t \in LoginRecord /\ SameRest(t, c)
  /\ t.handlers = c.handlers /\ t.addHandlers \subseteq LoginHandlers
  /\ c.authenticated => t.authenticated
  /\ Step(t) \in Steps /\ Referred(t)
  /\ Verdicts(t) = 0 \/ (Verdicts(t) = 1 /\ Step(t) = {})
  /\ t.authenticated \/ t.reported # NothingReported \/ (t._data /\ Step(t) # {})

(* The handlers that wait with one that is hit.                            *)
LEMMA Companions ==
  ASSUME NEW c, NEW h, Hitting(c, h)
  PROVE  LET w == c.handlers \intersect LoginHandlers IN
         /\ h = "challenge1" => w = {"failure"}
         /\ h = "challenge2" => w = {"success", "failure"}
         /\ h = "success" => w \in {{"failure"}, {"challenge2", "failure"}}
         /\ h = "failure" => w \in {{"success"}, {"challenge1"}, {"challenge2", "success"}}
         /\ h \in {"auth1", "auth2", "features", "bind", "session"} => w = {}
<1> DEFINE w == c.handlers \intersect LoginHandlers
           all == (c.handlers \union {h}) \intersect LoginHandlers
<1>1. /\ h \notin w /\ w = all \ {h} /\ h \in all /\ all \in Steps BY DEF Hitting
<1> HIDE DEF w, all
<1>2. \/ all = {"success", "failure"} \/ all = {"challenge1", "failure"}
      \/ all = {"challenge2", "success", "failure"}
      \/ all = {"auth1"} \/ all = {"auth2"} \/ all = {"features"} \/ all = {"bind"}
      \/ all = {"session"}
  BY <1>1 DEF Steps
<1>3. h = "challenge1" => w = {"failure"} BY <1>1, <1>2
<1>4. h = "challenge2" => w = {"success", "failure"} BY <1>1, <1>2
<1>5. h = "success" => w = {"failure"} \/ w = {"challenge2", "failure"} BY <1>1, <1>2
<1>6. h = "failure" => w = {"success"} \/ w = {"challenge1"} \/ w = {"challenge2", "success"}
  BY <1>1, <1>2
<1>7. h \in {"auth1", "auth2", "features", "bind", "session"} => w = {} BY <1>1, <1>2
<1>8. QED BY <1>3, <1>4, <1>5, <1>6, <1>7 DEF w

(* The step is made of what is left of the handlers and what is added.     *)
LEMMA StepIs ==
  ASSUME NEW t
  PROVE  /\ Step(t) = ((t.handlers \intersect LoginHandlers) \ t.removeHandlers)
                        \union (t.addHandlers \intersect LoginHandlers)
         /\ \A h \in LoginHandlers : h \in Coming(t) <=> h \in Step(t)
BY DEF Step, Coming

(* A callback that adds the handler of a step that has no other, and sends. *)
LEMMA NextStep ==
  ASSUME NEW c \in LoginRecord, NEW u \in LoginRecord, Verdicts(c) = 0,
         c.handlers \intersect LoginHandlers = {},
         NEW h \in {"auth1", "auth2", "features", "bind", "session"},
         u.handlers = c.handlers, u.addHandlers = {}, u.reported = c.reported,
         u.authenticated = c.authenticated, SameRest(u, c)
  PROVE  Led(send(_addSysHandler(u, {h})), c) /\ Step(send(_addSysHandler(u, {h}))) = {h}
<1> DEFINE a == addHandler(u, {h})
           t == send(a)
<1>1. h \in LoginHandlers /\ {h} \in SUBSET Hands BY HandlerNames
<1>2. /\ a \in LoginRecord /\ a.addHandlers = u.addHandlers \union {h} /\ a.handlers = u.handlers
      /\ SameRest(a, u) /\ SameMood(a, u)
  BY <1>1, AddsHandlers
<1> HIDE DEF a
<1>3. /\ t \in LoginRecord /\ t._data = TRUE /\ t.reported = a.reported
      /\ t.authenticated = a.authenticated
      /\ SameRest(t, a) /\ SameLists(t, a)
  BY <1>2, Sends
<1>4. send(_addSysHandler(u, {h})) = t BY Zenon DEF _addSysHandler, a
<1> HIDE DEF t
<1>5. SameRest(t, c) BY <1>2, <1>3 DEF SameRest
<1>6. t.handlers = c.handlers /\ t.addHandlers = {h} BY <1>2, <1>3 DEF SameLists
<1>7. Step(t) = {h} BY <1>1, <1>6, StepIs
<1>8. Referred(t)
  <2>1. \A g \in {"success", "failure", "challenge1", "challenge2"} :
          g \in LoginHandlers /\ g # h
    BY HandlerNames
  <2>2. \A g \in {"success", "failure", "challenge1", "challenge2"} : g \notin Coming(t)
    BY <1>7, <2>1, StepIs
  <2>3. QED BY <2>2 DEF Referred
<1>9. t.reported = c.reported /\ t.authenticated = c.authenticated
  BY <1>2, <1>3 DEF SameMood
<1>10. Verdicts(t) = 0 BY <1>9 DEF Verdicts
<1>11. Step(t) \in Steps /\ Step(t) # {}
  <2>1. {h} \in Steps BY DEF Steps
  <2>2. QED BY <2>1, <1>7
<1>12. t.addHandlers \subseteq LoginHandlers BY <1>1, <1>6
<1>13. QED BY <1>3, <1>4, <1>5, <1>6, <1>7, <1>8, <1>9, <1>10, <1>11, <1>12 DEF Led

(* A callback that ends the login.                                         *)
LEMMA LastStep ==
  ASSUME NEW c \in LoginRecord, NEW u \in LoginRecord, Verdicts(c) = 0,
         ((u.handlers \intersect LoginHandlers) \ u.removeHandlers) = {},
         u.handlers = c.handlers, u.addHandlers = {}, u.reported = c.reported,
         c.authenticated => u.authenticated, SameRest(u, c),
         NEW status \in {"CONNECTED", "AUTHFAIL"}
  PROVE  Led(_changeConnectStatus(u, status), c)
<1> DEFINE t == _changeConnectStatus(u, status)
<1>1. status \in Statuses BY DEF Statuses
<1>2. /\ t \in LoginRecord /\ t.reported # NothingReported
      /\ t.authenticated = u.authenticated
      /\ SameRest(t, u) /\ SameLists(t, u)
  BY <1>1, Reports
<1>3. Verdicts(t) = 1
  <2>1. Verdicts(u) = 0 BY DEF Verdicts
  <2>2. QED BY <2>1, GivesVerdict
<1> HIDE DEF t
<1>4. Step(t) = {} BY <1>2, StepIs DEF SameLists
<1>5. Referred(t)
  <2>1. \A g \in {"success", "failure", "challenge1", "challenge2"} : g \in LoginHandlers
    BY HandlerNames
  <2>2. \A g \in {"success", "failure", "challenge1", "challenge2"} : g \notin Coming(t)
    BY <1>4, <2>1, StepIs
  <2>3. QED BY <2>2 DEF Referred
<1>6. SameRest(t, c) BY <1>2 DEF SameRest
<1>7. Step(t) \in Steps BY <1>4 DEF Steps
<1>8. t.handlers = c.handlers /\ t.addHandlers = {} BY <1>2 DEF SameLists
<1>9. QED BY <1>2, <1>3, <1>4, <1>5, <1>6, <1>7, <1>8 DEF Led, t

(* A step that goes on with other handlers and sends.                      *)
LEMMA GoesOn ==
  ASSUME NEW c \in LoginRecord, NEW u \in LoginRecord, Verdicts(c) = 0,
         u.reported = c.reported, u.authenticated = c.authenticated, SameRest(u, c),
         u.handlers = c.handlers, u.addHandlers \subseteq LoginHandlers,
         Step(u) \in Steps, Step(u) # {}, Referred(u)
  PROVE  Led(send(u), c)
<1> DEFINE t == send(u)
<1>1. /\ t \in LoginRecord /\ t._data = TRUE /\ t.reported = u.reported
      /\ t.authenticated = u.authenticated
      /\ SameRest(t, u) /\ SameLists(t, u)
  BY Sends
<1> HIDE DEF t
<1>2. Coming(t) = Coming(u) BY <1>1 DEF Coming, SameLists
<1>3. Step(t) = Step(u) BY <1>2 DEF Step
<1>4. Referred(t) BY <1>1, <1>2 DEF Referred, SameLists
<1>5. Verdicts(t) = 0 BY <1>1 DEF Verdicts
<1>6. SameRest(t, c) BY <1>1 DEF SameRest
<1>7. t.handlers = c.handlers /\ t.addHandlers \subseteq LoginHandlers BY <1>1 DEF SameLists
<1>8. QED BY <1>1, <1>3, <1>4, <1>5, <1>6, <1>7 DEF Led, t

(* Which references must be set, by the step.                              *)
LEMMA ReferredBy ==
  ASSUME NEW t,
         "success" \in Step(t) => t.refs["success"] = {"success"},
         "failure" \in Step(t) => t.refs["failure"] = {"failure"},
         "challenge1" \in Step(t) => t.refs["challenge"] = {"challenge1"},
         "challenge2" \in Step(t) => t.refs["challenge"] = {"challenge2"}
  PROVE  Referred(t)
<1>1. \A g \in {"success", "failure", "challenge1", "challenge2"} : g \in LoginHandlers
  BY HandlerNames
<1>2. \A g \in {"success", "failure", "challenge1", "challenge2"} :
        g \in Coming(t) <=> g \in Step(t)
  BY <1>1, StepIs
<1>3. QED BY <1>2 DEF Referred

(* The first challenge: the second is awaited, with success and failure.   *)
LEMMA Challenge1Leads ==
  ASSUME NEW c, Hitting(c, "challenge1")
  PROVE  Led(_sasl_challenge1_cb(c), c)
<1>1. /\ c \in LoginRecord /\ Verdicts(c) = 0 /\ c.addHandlers = {} /\ c.removeHandlers = {}
      /\ c.handlers \intersect LoginHandlers = {"failure"}
  BY Companions DEF Hitting
<1>2. c.refs["failure"] = {"failure"}
  <2>1. "failure" \in c.handlers BY <1>1
  <2>2. QED BY <2>1 DEF Hitting
<1>3. /\ "failure" \in Fields /\ "success" \in Fields /\ "challenge" \in Fields
      /\ {"challenge2", "success", "failure"} \subseteq LoginHandlers
  BY HandlerNames DEF Fields
<1> DEFINE a == Delete(c, "failure")
           b == AwaitChallenge(a, "challenge2")
           d == AwaitSuccess(b)
           e == AwaitFailure(d)
<1>4. /\ a \in LoginRecord /\ a.handlers = c.handlers /\ a.addHandlers = {}
      /\ a.removeHandlers = {"failure"}
      /\ SameRest(a, c) /\ SameMood(a, c)
  BY <1>1, <1>2, <1>3, Deletes
<1>5. /\ b \in LoginRecord /\ b.handlers = a.handlers
      /\ b.addHandlers = a.addHandlers \union {"challenge2"} /\ b.removeHandlers = a.removeHandlers
      /\ b.refs["challenge"] = {"challenge2"}
      /\ SameRest(b, a) /\ SameMood(b, a)
  BY <1>3, <1>4, Awaits DEF AwaitChallenge
<1>6. /\ d \in LoginRecord /\ d.handlers = b.handlers
      /\ d.addHandlers = b.addHandlers \union {"success"} /\ d.removeHandlers = b.removeHandlers
      /\ d.refs["success"] = {"success"} /\ d.refs["challenge"] = b.refs["challenge"]
      /\ SameRest(d, b) /\ SameMood(d, b)
  BY <1>3, <1>5, Awaits DEF AwaitSuccess
<1>7. /\ e \in LoginRecord /\ e.handlers = d.handlers
      /\ e.addHandlers = d.addHandlers \union {"failure"} /\ e.removeHandlers = d.removeHandlers
      /\ e.refs["failure"] = {"failure"} /\ e.refs["challenge"] = d.refs["challenge"]
      /\ e.refs["success"] = d.refs["success"]
      /\ SameRest(e, d) /\ SameMood(e, d)
  BY <1>3, <1>6, Awaits DEF AwaitFailure
<1>8. _sasl_challenge1_cb(c) = send(e) BY Zenon DEF _sasl_challenge1_cb, a, b, d, e
<1> HIDE DEF a, b, d, e
<1>9. SameRest(e, c) BY <1>4, <1>5, <1>6, <1>7 DEF SameRest
<1>10. e.reported = c.reported /\ e.authenticated = c.authenticated
  BY <1>4, <1>5, <1>6, <1>7 DEF SameMood
<1>11. e.handlers = c.handlers /\ e.removeHandlers = {"failure"}
       /\ e.addHandlers = {"challenge2", "success", "failure"}
  BY <1>4, <1>5, <1>6, <1>7
<1>12. Step(e) = {"challenge2", "success", "failure"} BY <1>1, <1>3, <1>11, StepIs
<1>13. Referred(e) BY <1>5, <1>6, <1>7, <1>12, ReferredBy
<1>14. Step(e) \in Steps /\ Step(e) # {} BY <1>12 DEF Steps
<1>15. QED BY <1>1, <1>3, <1>7, <1>8, <1>9, <1>10, <1>11, <1>13, <1>14, GoesOn

(* The second: success and failure are deleted and awaited anew.           *)
LEMMA Challenge2Leads ==
  ASSUME NEW c, Hitting(c, "challenge2")
  PROVE  Led(_sasl_challenge2_cb(c), c)
<1>1. /\ c \in LoginRecord /\ Verdicts(c) = 0 /\ c.addHandlers = {} /\ c.removeHandlers = {}
      /\ c.handlers \intersect LoginHandlers = {"success", "failure"}
  BY Companions DEF Hitting
<1>2. c.refs["failure"] = {"failure"} /\ c.refs["success"] = {"success"}
  <2>1. "failure" \in c.handlers /\ "success" \in c.handlers BY <1>1
  <2>2. QED BY <2>1 DEF Hitting
<1>3. /\ "failure" \in Fields /\ "success" \in Fields
      /\ {"success", "failure"} \subseteq LoginHandlers
  BY HandlerNames DEF Fields
<1> DEFINE a == Delete(c, "success")
           b == Delete(a, "failure")
           d == AwaitSuccess(b)
           e == AwaitFailure(d)
<1>4. /\ a \in LoginRecord /\ a.handlers = c.handlers /\ a.addHandlers = {}
      /\ a.removeHandlers = {"success"} /\ a.refs = c.refs
      /\ SameRest(a, c) /\ SameMood(a, c)
  BY <1>1, <1>2, <1>3, Deletes
<1>5. /\ b \in LoginRecord /\ b.handlers = a.handlers
      /\ b.addHandlers = a.addHandlers /\ b.removeHandlers = a.removeHandlers \union {"failure"}
      /\ SameRest(b, a) /\ SameMood(b, a)
  BY <1>2, <1>3, <1>4, Deletes
<1>6. /\ d \in LoginRecord /\ d.handlers = b.handlers
      /\ d.addHandlers = b.addHandlers \union {"success"} /\ d.removeHandlers = b.removeHandlers
      /\ d.refs["success"] = {"success"}
      /\ SameRest(d, b) /\ SameMood(d, b)
  BY <1>3, <1>5, Awaits DEF AwaitSuccess
<1>7. /\ e \in LoginRecord /\ e.handlers = d.handlers
      /\ e.addHandlers = d.addHandlers \union {"failure"} /\ e.removeHandlers = d.removeHandlers
      /\ e.refs["failure"] = {"failure"} /\ e.refs["success"] = d.refs["success"]
      /\ SameRest(e, d) /\ SameMood(e, d)
  BY <1>3, <1>6, Awaits DEF AwaitFailure
<1>8. _sasl_challenge2_cb(c) = send(e) BY Zenon DEF _sasl_challenge2_cb, a, b, d, e
<1> HIDE DEF a, b, d, e
<1>9. SameRest(e, c) BY <1>4, <1>5, <1>6, <1>7 DEF SameRest
<1>10. e.reported = c.reported /\ e.authenticated = c.authenticated
  BY <1>4, <1>5, <1>6, <1>7 DEF SameMood
<1>11. e.handlers = c.handlers /\ e.removeHandlers = {"success", "failure"}
       /\ e.addHandlers = {"success", "failure"}
  BY <1>4, <1>5, <1>6, <1>7
<1>12. Step(e) = {"success", "failure"} BY <1>1, <1>3, <1>11, StepIs
<1>13. Referred(e) BY <1>6, <1>7, <1>12, ReferredBy
<1>14. Step(e) \in Steps /\ Step(e) # {} BY <1>12 DEF Steps
<1>15. QED BY <1>1, <1>3, <1>7, <1>8, <1>9, <1>10, <1>11, <1>13, <1>14, GoesOn

(* Two references that are forgotten one after the other.                  *)
LEMMA ForgetsBoth ==
  ASSUME NEW c \in LoginRecord, NEW f \in Fields, NEW g \in Fields, f # g
  PROVE  LET t == Forget(Forget(c, f), g) IN
         /\ t \in LoginRecord
         /\ t.handlers = c.handlers /\ t.addHandlers = c.addHandlers
         /\ t.removeHandlers = (c.removeHandlers \union c.refs[f]) \union c.refs[g]
         /\ t.reported = c.reported /\ t.authenticated = c.authenticated
         /\ SameRest(t, c)
<1> DEFINE a == Forget(c, f)
           b == Forget(a, g)
<1>1. /\ a \in LoginRecord /\ a.handlers = c.handlers /\ a.addHandlers = c.addHandlers
      /\ a.removeHandlers = c.removeHandlers \union c.refs[f]
      /\ \A x \in Fields : x # f => a.refs[x] = c.refs[x]
      /\ SameRest(a, c) /\ SameMood(a, c)
  BY Forgets
<1> HIDE DEF a
<1>2. /\ b \in LoginRecord /\ b.handlers = a.handlers /\ b.addHandlers = a.addHandlers
      /\ b.removeHandlers = a.removeHandlers \union a.refs[g]
      /\ SameRest(b, a) /\ SameMood(b, a)
  BY <1>1, Forgets
<1> HIDE DEF b
<1>3. a.refs[g] = c.refs[g] BY <1>1
<1>4. SameRest(b, c) BY <1>1, <1>2 DEF SameRest
<1>5. b.reported = c.reported /\ b.authenticated = c.authenticated
  BY <1>1, <1>2 DEF SameMood
<1>6. QED BY <1>1, <1>2, <1>3, <1>4, <1>5 DEF a, b

(* Success: nothing is left to wait for but the features.                  *)
LEMMA SuccessLeads ==
  ASSUME NEW c, Hitting(c, "success")
  PROVE  Led(_sasl_success_cb(c), c)
<1>1. /\ c \in LoginRecord /\ Verdicts(c) = 0 /\ c.addHandlers = {} /\ c.removeHandlers = {}
      /\ c.handlers \intersect LoginHandlers \in {{"failure"}, {"challenge2", "failure"}}
  BY Companions DEF Hitting
<1>2. /\ "failure" \in c.handlers /\ c.refs["failure"] = {"failure"}
      /\ "challenge2" \in c.handlers => c.refs["challenge"] = {"challenge2"}
  <2>1. "failure" \in c.handlers BY <1>1
  <2>2. QED BY <2>1 DEF Hitting
<1>3. /\ "failure" \in Fields /\ "challenge" \in Fields /\ "failure" # "challenge"
      /\ "features" \in LoginHandlers /\ {"features"} \in SUBSET Hands
  BY HandlerNames DEF Fields
<1> DEFINE u == Forget(Forget(c, "failure"), "challenge")
           v == addHandler(u, {"features"})
<1>4. /\ u \in LoginRecord /\ u.handlers = c.handlers /\ u.addHandlers = {}
      /\ u.removeHandlers = {"failure"} \union c.refs["challenge"]
      /\ u.reported = c.reported /\ u.authenticated = c.authenticated
      /\ SameRest(u, c)
  BY <1>1, <1>2, <1>3, ForgetsBoth
<1> HIDE DEF u
<1>5. /\ v \in LoginRecord /\ v.addHandlers = {"features"} /\ v.handlers = u.handlers
      /\ v.removeHandlers = u.removeHandlers
      /\ SameRest(v, u) /\ SameMood(v, u)
  BY <1>3, <1>4, AddsHandlers
<1>6. _sasl_success_cb(c) = send(v)
  BY Zenon DEF _sasl_success_cb, _sendRestart, _addSysHandler, u, v
<1> HIDE DEF v
<1>7. (c.handlers \intersect LoginHandlers) \ v.removeHandlers = {}
  BY <1>1, <1>2, <1>4, <1>5
<1>8. Step(v) = {"features"} BY <1>3, <1>4, <1>5, <1>7, StepIs
<1>9. Step(v) \in Steps /\ Step(v) # {} BY <1>8 DEF Steps
<1>10. Referred(v) BY <1>8, ReferredBy
<1>11. SameRest(v, c) /\ v.reported = c.reported /\ v.authenticated = c.authenticated
  BY <1>4, <1>5 DEF SameRest, SameMood
<1>12. v.handlers = c.handlers /\ v.addHandlers \subseteq LoginHandlers BY <1>3, <1>4, <1>5
<1>13. QED BY <1>1, <1>5, <1>6, <1>9, <1>10, <1>11, <1>12, GoesOn

(* Failure: nothing is left to wait for.                                   *)
LEMMA FailureLeads ==
  ASSUME NEW c, Hitting(c, "failure")
  PROVE  Led(_sasl_failure_cb(c), c)
<1>1. /\ c \in LoginRecord /\ Verdicts(c) = 0 /\ c.addHandlers = {} /\ c.removeHandlers = {}
      /\ c.handlers \intersect LoginHandlers
           \in {{"success"}, {"challenge1"}, {"challenge2", "success"}}
  BY Companions DEF Hitting
<1>2. /\ "success" \in c.handlers => c.refs["success"] = {"success"}
      /\ "challenge1" \in c.handlers => c.refs["challenge"] = {"challenge1"}
      /\ "challenge2" \in c.handlers => c.refs["challenge"] = {"challenge2"}
  BY DEF Hitting
<1>3. "success" \in Fields /\ "challenge" \in Fields /\ "success" # "challenge"
  BY DEF Fields
<1> DEFINE u == Forget(Forget(c, "success"), "challenge")
<1>4. /\ u \in LoginRecord /\ u.handlers = c.handlers /\ u.addHandlers = {}
      /\ u.removeHandlers = c.refs["success"] \union c.refs["challenge"]
      /\ u.reported = c.reported /\ u.authenticated = c.authenticated
      /\ SameRest(u, c)
  BY <1>1, <1>3, ForgetsBoth
<1>5. _sasl_failure_cb(c) = _changeConnectStatus(u, "AUTHFAIL") BY Zenon DEF _sasl_failure_cb, u
<1> HIDE DEF u
<1>6. (u.handlers \intersect LoginHandlers) \ u.removeHandlers = {} BY <1>1, <1>2, <1>4
<1>7. QED BY <1>1, <1>4, <1>5, <1>6, LastStep

(* The features: the client binds, if the server lets it.                  *)
LEMMA FeaturesLead ==
  ASSUME NEW c, Hitting(c, "features"), NEW features
  PROVE  Led(_sasl_auth1_cb(c, features), c)
<1>1. /\ c \in LoginRecord /\ Verdicts(c) = 0 /\ c.addHandlers = {} /\ c.removeHandlers = {}
      /\ c.handlers \intersect LoginHandlers = {}
  BY Companions DEF Hitting
<1> DEFINE b == c.do_bind \/ features \in {"bind", "both"}
           d == c.do_session \/ features \in {"session", "both"}
           u == [c EXCEPT !.do_bind = b, !.do_session = d]
<1>2. b \in BOOLEAN /\ d \in BOOLEAN OBVIOUS
<1>3. _sasl_auth1_cb(c, features) =
        IF u.do_bind THEN send(_addSysHandler(u, {"bind"}))
        ELSE _changeConnectStatus(u, "AUTHFAIL")
  BY DEF _sasl_auth1_cb
<1> HIDE DEF b, d
<1>4. /\ u \in LoginRecord /\ u.handlers = c.handlers /\ u.addHandlers = c.addHandlers
      /\ u.removeHandlers = c.removeHandlers
      /\ u.reported = c.reported /\ u.authenticated = c.authenticated
      /\ SameRest(u, c)
  <2>1. /\ u.handlers = c.handlers /\ u.addHandlers = c.addHandlers
        /\ u.removeHandlers = c.removeHandlers
        /\ u.reported = c.reported /\ u.authenticated = c.authenticated
        /\ SameRest(u, c)
    BY <1>1 DEF LoginRecord, SameRest
  <2>2. u \in LoginRecord BY <1>1, <1>2 DEF LoginRecord
  <2>3. QED BY <2>1, <2>2
<1> HIDE DEF u
<1>5. Led(send(_addSysHandler(u, {"bind"})), c) BY <1>1, <1>4, NextStep
<1>6. Led(_changeConnectStatus(u, "AUTHFAIL"), c) BY <1>1, <1>4, LastStep
<1>7. QED BY <1>3, <1>5, <1>6

(* Any step whose handler waits alone may end the login with success.      *)
LEMMA AuthenticatedLeads ==
  ASSUME NEW c, NEW h \in {"bind", "session", "auth2"}, Hitting(c, h)
  PROVE  /\ Led(Authenticated(c), c)
         /\ Led(_changeConnectStatus(c, "AUTHFAIL"), c)
<1>1. /\ c \in LoginRecord /\ Verdicts(c) = 0 /\ c.addHandlers = {} /\ c.removeHandlers = {}
      /\ c.handlers \intersect LoginHandlers = {}
  BY Companions DEF Hitting
<1> DEFINE u == [c EXCEPT !.authenticated = TRUE]
<1>2. /\ u \in LoginRecord /\ u.handlers = c.handlers /\ u.addHandlers = c.addHandlers
      /\ u.removeHandlers = c.removeHandlers
      /\ u.reported = c.reported /\ u.authenticated = TRUE
      /\ SameRest(u, c)
  BY <1>1 DEF LoginRecord, SameRest
<1>3. Authenticated(c) = _changeConnectStatus(u, "CONNECTED") BY DEF Authenticated
<1> HIDE DEF u
<1>4. Led(_changeConnectStatus(u, "CONNECTED"), c) BY <1>1, <1>2, LastStep
<1>5. SameRest(c, c) BY DEF SameRest
<1>6. Led(_changeConnectStatus(c, "AUTHFAIL"), c) BY <1>1, <1>5, LastStep
<1>7. QED BY <1>3, <1>4, <1>6

(* Binding: bound, bound and a session to ask for, or refused.             *)
LEMMA BindLeads ==
  ASSUME NEW c, Hitting(c, "bind"), NEW type \in {"result", "error", "nobind"}
  PROVE  Led(_sasl_bind_cb(c, type), c)
<1>1. /\ c \in LoginRecord /\ Verdicts(c) = 0 /\ c.addHandlers = {} /\ c.removeHandlers = {}
      /\ c.handlers \intersect LoginHandlers = {}
  BY Companions DEF Hitting
<1>2. SameRest(c, c) BY DEF SameRest
<1>3. Led(send(_addSysHandler(c, {"session"})), c) BY <1>1, <1>2, NextStep
<1>4. Led(Authenticated(c), c) /\ Led(_changeConnectStatus(c, "AUTHFAIL"), c)
  BY AuthenticatedLeads
<1>5. c.do_session \in BOOLEAN BY <1>1 DEF LoginRecord
<1>6. CASE type \in {"error", "nobind"} BY <1>4, <1>6 DEF _sasl_bind_cb
<1>7. CASE type = "result" /\ c.do_session BY <1>3, <1>7 DEF _sasl_bind_cb
<1>8. CASE type = "result" /\ ~c.do_session BY <1>4, <1>8 DEF _sasl_bind_cb
<1>9. QED BY <1>5, <1>6, <1>7, <1>8

(* The session that was asked for.                                         *)
LEMMA SessionLeads ==
  ASSUME NEW c, Hitting(c, "session"), NEW type \in {"result", "error"}
  PROVE  Led(_sasl_session_cb(c, type), c)
BY AuthenticatedLeads DEF _sasl_session_cb

(* Legacy authentication: the fields, then the result.                     *)
LEMMA Auth1Leads ==
  ASSUME NEW c, Hitting(c, "auth1")
  PROVE  Led(_auth1_cb(c), c)
<1>1. /\ c \in LoginRecord /\ Verdicts(c) = 0 /\ c.addHandlers = {} /\ c.removeHandlers = {}
      /\ c.handlers \intersect LoginHandlers = {}
  BY Companions DEF Hitting
<1>2. SameRest(c, c) BY DEF SameRest
<1>3. QED BY <1>1, <1>2, NextStep DEF _auth1_cb

(* ... which, if it is an error, also closes the stream.                   *)
LEMMA Auth2Leads ==
  ASSUME NEW c, Hitting(c, "auth2"), NEW type \in {"result", "error"}
  PROVE  Led(_auth2_cb(c, type), c)
<1>1. Led(Authenticated(c), c) /\ Led(_changeConnectStatus(c, "AUTHFAIL"), c)
  BY AuthenticatedLeads
<1> DEFINE u == _changeConnectStatus(c, "AUTHFAIL")
           t == disconnect(u)
<1>2. Led(u, c) /\ u \in LoginRecord BY <1>1 DEF Led
<1>3. _auth2_cb(c, type) = IF type = "result" THEN Authenticated(c) ELSE t
  BY DEF _auth2_cb
<1>4. Led(t, c)
  <2> HIDE DEF u
  <2>1. /\ t \in LoginRecord /\ t.reported = u.reported /\ t.authenticated = u.authenticated
        /\ t._data = u._data /\ SameRest(t, u) /\ SameLists(t, u)
    BY <1>2, Disconnects
  <2> HIDE DEF t
  <2>2. Coming(t) = Coming(u) BY <2>1 DEF Coming, SameLists
  <2>3. Step(t) = Step(u) BY <2>2 DEF Step
  <2>4. Referred(t) BY <1>2, <2>1, <2>2 DEF Referred, SameLists, Led
  <2>5. Verdicts(t) = Verdicts(u) BY <2>1 DEF Verdicts
  <2>6. SameRest(t, c) BY <1>2, <2>1 DEF SameRest, Led
  <2>7. t.handlers = c.handlers /\ t.addHandlers \subseteq LoginHandlers
    BY <1>2, <2>1 DEF SameLists, Led
  <2>8. QED BY <1>2, <2>1, <2>3, <2>4, <2>5, <2>6, <2>7 DEF Led
<1>5. QED BY <1>1, <1>3, <1>4

(* What the stanzas of the last steps say.                                 *)
LEMMA Answers ==
  ASSUME NEW stanza \in Stanzas
  PROVE  /\ stanza.key = "_bind_auth_2" => stanza.type \in {"result", "error", "nobind", "nojid"}
         /\ stanza.key \in {"_session_auth_2", "_auth_2"} =>
              stanza.type \in {"result", "error", "other"}
<1>1. /\ "_bind_auth_2" \notin Iqs /\ "_session_auth_2" \notin Iqs /\ "_auth_2" \notin Iqs
  <2>1. /\ "_bind_auth_2" = Matches["bind"] /\ "_session_auth_2" = Matches["session"]
        /\ "_auth_2" = Matches["auth2"]
    BY HandlerKeys
  <2>2. "bind" \in LoginHandlers /\ "session" \in LoginHandlers /\ "auth2" \in LoginHandlers
    BY HandlerNames
  <2>3. QED BY <2>1, <2>2, IqsAssumption
<1>2. QED BY <1>1 DEF Stanzas

(* Whichever handler is hit, if it has a case for the stanza.              *)
LEMMA RunLeads ==
  ASSUME NEW c, NEW h \in LoginHandlers, Hitting(c, h), NEW stanza \in Stanzas,
         isMatch(h, stanza), HasCase(h, stanza.type)
  PROVE  Led(run(c, h, stanza), c)
<1>1. h \notin Iqs BY HandlerNames
<1>2. h \in {"challenge1", "challenge2", "success", "failure", "features",
             "bind", "session", "auth1", "auth2"}
  BY HandlerNames
<1>3. CASE h = "challenge1" BY <1>1, <1>3, Challenge1Leads DEF run
<1>4. CASE h = "challenge2" BY <1>1, <1>4, Challenge2Leads DEF run
<1>5. CASE h = "success" BY <1>1, <1>5, SuccessLeads DEF run
<1>6. CASE h = "failure" BY <1>1, <1>6, FailureLeads DEF run
<1>7. CASE h = "features" BY <1>1, <1>7, FeaturesLead DEF run
<1>8. CASE h = "bind"
  <2>1. stanza.key = "_bind_auth_2" BY <1>1, <1>8, HandlerKeys DEF isMatch
  <2>2. stanza.type \in {"result", "error", "nobind"} BY <1>8, <2>1, Answers DEF HasCase
  <2>3. run(c, h, stanza) = _sasl_bind_cb(c, stanza.type) BY <1>1, <1>8 DEF run
  <2>4. QED BY <1>8, <2>2, <2>3, BindLeads
<1>9. CASE h = "session"
  <2>1. stanza.key = "_session_auth_2" BY <1>1, <1>9, HandlerKeys DEF isMatch
  <2>2. stanza.type \in {"result", "error"} BY <1>9, <2>1, Answers DEF HasCase
  <2>3. run(c, h, stanza) = _sasl_session_cb(c, stanza.type) BY <1>1, <1>9 DEF run
  <2>4. QED BY <1>9, <2>2, <2>3, SessionLeads
<1>10. CASE h = "auth1" BY <1>1, <1>10, Auth1Leads DEF run
<1>11. CASE h = "auth2"
  <2>1. stanza.key = "_auth_2" BY <1>1, <1>11, HandlerKeys DEF isMatch
  <2>2. stanza.type \in {"result", "error"} BY <1>11, <2>1, Answers DEF HasCase
  <2>3. run(c, h, stanza) = _auth2_cb(c, stanza.type) BY <1>1, <1>11 DEF run
  <2>4. QED BY <1>11, <2>2, <2>3, Auth2Leads
<1>12. QED BY <1>2, <1>3, <1>4, <1>5, <1>6, <1>7, <1>8, <1>9, <1>10, <1>11

(* ... and if it has none, nothing is done, and no handler is left.        *)
LEMMA RunEndsThere ==
  ASSUME NEW c, NEW h \in LoginHandlers, Hitting(c, h), NEW stanza \in Stanzas,
         isMatch(h, stanza), ~HasCase(h, stanza.type)
  PROVE  run(c, h, stanza) = c /\ Step(c) = {}
<1>1. h \in {"bind", "session", "auth2"} BY DEF HasCase
<1>2. h \notin Iqs BY HandlerNames
<1>3. Step(c) = {}
  <2>1. c.handlers \intersect LoginHandlers = {} BY <1>1, Companions
  <2>2. c.addHandlers = {} BY DEF Hitting
  <2>3. QED BY <2>1, <2>2 DEF Step, Coming
<1>4. CASE h = "bind"
  <2>1. stanza.type = "nojid" BY <1>4 DEF HasCase
  <2>2. run(c, h, stanza) = _sasl_bind_cb(c, "nojid") BY <1>2, <1>4, <2>1 DEF run
  <2>3. QED BY <1>3, <2>2 DEF _sasl_bind_cb
<1>5. CASE h = "session"
  <2>1. stanza.type = "other" BY <1>5 DEF HasCase
  <2>2. run(c, h, stanza) = _sasl_session_cb(c, "other") BY <1>2, <1>5, <2>1 DEF run
  <2>3. QED BY <1>3, <2>2 DEF _sasl_session_cb
<1>6. CASE h = "auth2"
  <2>1. stanza.type = "other" BY <1>6 DEF HasCase
  <2>2. run(c, h, stanza) = _auth2_cb(c, "other") BY <1>2, <1>6, <2>1 DEF run
  <2>3. QED BY <1>3, <2>2 DEF _auth2_cb
<1>7. QED BY <1>1, <1>4, <1>5, <1>6
-----------------------------------------------------------------------------
(* A body: the handlers it hits go.                                          *)
Taking(c, hit) == [c EXCEPT !.handlers = @ \ hit]

(* No handler is hit: nothing happens.                                     *)
LEMMA DispatchNone ==
  ASSUME NEW c, NEW stanza, Hit(c, stanza) = {}
  PROVE  Dispatch(c, stanza) = Taking(c, {})
<1> DEFINE base == Taking(c, {})
           eq(f) == f = [s \in SUBSET {} |->
             IF s = {} THEN base
             ELSE run(f[s \ {CHOOSE x \in s : TRUE}], CHOOSE x \in s : TRUE, stanza)]
<1>1. Dispatch(c, stanza) = (CHOOSE f : eq(f))[{}]
  BY Zenon DEF Dispatch, Taking, FoldSet, MapThenFoldSet
<1> HIDE DEF base
<1> DEFINE g == [s \in SUBSET {} |-> base]
<1>2. \A s \in SUBSET {} : s = {} OBVIOUS
<1>3. eq(g) BY <1>2, Zenon
<1>4. PICK F : eq(F) /\ F = CHOOSE f : eq(f) BY <1>3, Zenon
<1>5. F[{}] = base BY <1>4, Zenon
<1>6. QED BY <1>1, <1>4, <1>5 DEF base

(* The handler that is hit is taken from the list and run.                 *)
LEMMA DispatchOne ==
  ASSUME NEW c, NEW stanza, NEW h, Hit(c, stanza) = {h}
  PROVE  Dispatch(c, stanza) = run(Taking(c, {h}), h, stanza)
<1> DEFINE base == Taking(c, {h})
           next(f, s) == IF s = {} THEN base
             ELSE run(f[s \ {CHOOSE x \in s : TRUE}], CHOOSE x \in s : TRUE, stanza)
           eq(f) == f = [s \in SUBSET {h} |-> next(f, s)]
<1>1. Dispatch(c, stanza) = (CHOOSE f : eq(f))[{h}]
  BY Zenon DEF Dispatch, Taking, FoldSet, MapThenFoldSet
<1> HIDE DEF base
<1> DEFINE G(s) == IF s = {} THEN base ELSE run(base, h, stanza)
           g == [s \in SUBSET {h} |-> G(s)]
<1>2. \A s \in SUBSET {h} :
        s # {} => /\ s = {h} /\ s \ {CHOOSE x \in s : TRUE} = {}
                  /\ (CHOOSE x \in s : TRUE) = h
  OBVIOUS
<1>3. eq(g)
  <2>1. g[{}] = base OBVIOUS
  <2>2. ASSUME NEW s \in SUBSET {h}
        PROVE  next(g, s) = G(s)
    <3>1. CASE s = {} BY <3>1
    <3>2. CASE s # {}
      <4>1. next(g, s) = run(g[{}], h, stanza) BY <1>2, <3>2, Zenon
      <4>2. QED BY <2>1, <3>2, <4>1, Zenon
    <3>3. QED BY <3>1, <3>2
  <2>3. [s \in SUBSET {h} |-> next(g, s)] = g
    <3>1. g = [s \in SUBSET {h} |-> G(s)] OBVIOUS
    <3> HIDE DEF next, g, G
    <3>2. QED BY <2>2, <3>1, Zenon
  <2>4. QED BY <2>3, Zenon
<1>4. PICK F : eq(F) /\ F = CHOOSE f : eq(f) BY <1>3, Zenon
<1>5. {} \in SUBSET {h} /\ {h} \in SUBSET {h} /\ {h} # {} OBVIOUS
<1>6. F[{}] = base BY <1>4, <1>5, Zenon
<1>7. F[{h}] = run(F[{}], h, stanza)
  <2>1. F[{h}] = next(F, {h})
    <3> HIDE DEF next
    <3>1. QED BY <1>4, <1>5, Zenon
  <2>2. {h} \ {CHOOSE x \in {h} : TRUE} = {} /\ (CHOOSE x \in {h} : TRUE) = h BY <1>2, <1>5
  <2>3. next(F, {h}) = run(F[{}], h, stanza) BY <1>5, <2>2, Zenon
  <2>4. QED BY <2>1, <2>3, Zenon
<1>8. QED BY <1>1, <1>4, <1>6, <1>7, Zenon DEF base

(* They go, and nothing else.                                              *)
LEMMA TakesHandlers ==
  ASSUME NEW c \in LoginRecord, NEW hit
  PROVE  LET t == Taking(c, hit) IN
         /\ t \in LoginRecord /\ t.handlers = c.handlers \ hit
         /\ t.addHandlers = c.addHandlers /\ t.removeHandlers = c.removeHandlers
         /\ t.refs = c.refs /\ SameRest(t, c) /\ SameMood(t, c)
<1> DEFINE v == c.handlers \ hit
<1>1. v \in SUBSET Hands BY DEF LoginRecord
<1>2. Taking(c, hit) = [c EXCEPT !.handlers = v] BY DEF Taking
<1>3. v = c.handlers \ hit OBVIOUS
<1> HIDE DEF v
<1> DEFINE t == [c EXCEPT !.handlers = v]
<1>4. /\ t \in LoginRecord /\ t.handlers = v
      /\ t.addHandlers = c.addHandlers /\ t.removeHandlers = c.removeHandlers
      /\ t.refs = c.refs /\ SameRest(t, c) /\ SameMood(t, c)
  BY <1>1 DEF LoginRecord, SameRest, SameMood
<1> HIDE DEF t
<1>5. QED BY <1>2, <1>3, <1>4 DEF t

(* The answer to an IQ: its timer is deleted, and its outcome noted.       *)
LEMMA IqAnswers ==
  ASSUME NEW c \in LoginRecord, NEW i \in Iqs
  PROVE  LET t == IqAnswered(c, i) IN
         /\ t \in LoginRecord /\ SameLists(t, c) /\ SameMood(t, c)
         /\ t.connected = c.connected /\ t.connectRequests = c.connectRequests
         /\ t.ignored = c.ignored /\ t.sent = c.sent
         /\ t.timedHandlers = c.timedHandlers /\ t.addTimeds = c.addTimeds
         /\ t.removeTimeds = c.removeTimeds \union {i}
         /\ \A j \in Iqs :
              t.outcome[j] = IF j = i /\ Len(c.outcome[j]) < 2
                             THEN Append(c.outcome[j], "answered") ELSE c.outcome[j]
<1> DEFINE r == c.removeTimeds \union {i}
           o == [j \in Iqs |-> IF j \in {i} /\ Len(c.outcome[j]) < 2
                               THEN Append(c.outcome[j], "answered") ELSE c.outcome[j]]
           t == IqAnswered(c, i)
<1>1. r \in SUBSET Iqs BY DEF LoginRecord
<1>2. o \in [Iqs -> Seq({"answered", "timeout"})]
  <2>1. \A j \in Iqs : c.outcome[j] \in Seq({"answered", "timeout"}) BY DEF LoginRecord
  <2>2. \A x \in Seq({"answered", "timeout"}) :
          Append(x, "answered") \in Seq({"answered", "timeout"})
    BY AppendProperties
  <2>3. QED BY <2>1, <2>2
<1>3. t = [[c EXCEPT !.removeTimeds = r] EXCEPT !.outcome = o]
  <2> DEFINE u == [c EXCEPT !.removeTimeds = r]
  <2>1. u.outcome = c.outcome BY DEF LoginRecord
  <2>2. t = Outcome(u, {i}, "answered") BY DEF IqAnswered, deleteTimedHandler
  <2>3. QED BY <2>1, <2>2 DEF Outcome
<1>4. \A j \in Iqs : o[j] = IF j = i /\ Len(c.outcome[j]) < 2
                            THEN Append(c.outcome[j], "answered") ELSE c.outcome[j]
  OBVIOUS
<1>5. r = c.removeTimeds \union {i} OBVIOUS
<1> HIDE DEF r, o, t
<1>6. /\ t \in LoginRecord /\ SameLists(t, c) /\ SameMood(t, c)
      /\ t.connected = c.connected /\ t.connectRequests = c.connectRequests
      /\ t.ignored = c.ignored /\ t.sent = c.sent
      /\ t.timedHandlers = c.timedHandlers /\ t.addTimeds = c.addTimeds
      /\ t.removeTimeds = r /\ t.outcome = o
  BY <1>1, <1>2, <1>3 DEF LoginRecord, SameLists, SameMood
<1>7. QED BY <1>4, <1>5, <1>6 DEF t
(* The invariant, as a set of connections.                                 *)
Sound(c) == InStep(c) /\ Timed(c)
Records == {c \in LoginRecord : Sound(c)}

(* The lists have been merged.                                             *)
Merged(c) == c.addHandlers = {} /\ c.removeHandlers = {}

(* Timers and outcomes that do not change stay sound, if no IQ comes into  *)
(* the lists of handlers.                                                  *)
LEMMA StaysTimed ==
  ASSUME NEW c, NEW t, Timed(c), SameRest(t, c),
         \A i \in Iqs : i \in t.handlers \union t.addHandlers => i \in c.handlers \union c.addHandlers
  PROVE  Timed(t)
<1>1. /\ t.sent = c.sent /\ t.outcome = c.outcome /\ t.timedHandlers = c.timedHandlers
      /\ t.addTimeds = c.addTimeds /\ Ticking(t) = Ticking(c)
  BY DEF SameRest, Ticking
<1>2. QED BY <1>1 DEF Timed

(* The merge of the lists of handlers.                                     *)
LEMMA Merges ==
  ASSUME NEW c \in LoginRecord
  PROVE  LET t == MergeHandlers(c) IN
         /\ t \in LoginRecord /\ Merged(t) /\ t.handlers = Coming(c)
         /\ t.refs = c.refs /\ SameRest(t, c) /\ SameMood(t, c)
         /\ Coming(t) = Coming(c) /\ Step(t) = Step(c)
         /\ c \in Records => t \in Records
<1> DEFINE v == (c.handlers \ c.removeHandlers) \union c.addHandlers
           t == MergeHandlers(c)
<1>1. v \in SUBSET Hands BY DEF LoginRecord
<1>2. t = [[[c EXCEPT !.handlers = v] EXCEPT !.addHandlers = {}] EXCEPT !.removeHandlers = {}]
  BY DEF MergeHandlers
<1>3. v = Coming(c) BY DEF Coming
<1> HIDE DEF v, t
<1>4. /\ t \in LoginRecord /\ t.addHandlers = {} /\ t.removeHandlers = {} /\ t.handlers = v
      /\ t.refs = c.refs /\ SameRest(t, c) /\ SameMood(t, c)
  BY <1>1, <1>2 DEF LoginRecord, SameRest, SameMood
<1>5. Coming(t) = Coming(c) BY <1>3, <1>4 DEF Coming
<1>6. Step(t) = Step(c) BY <1>5 DEF Step
<1>7. ASSUME c \in Records PROVE t \in Records
  <2>1. InStep(c) /\ Timed(c) BY <1>7 DEF Records, Sound
  <2>2. Referred(t) BY <1>4, <1>5, <2>1 DEF Referred, InStep
  <2>3. Verdicts(t) = Verdicts(c) BY <1>4 DEF Verdicts, SameMood
  <2>4. t.connected = c.connected /\ t.connectRequests = c.connectRequests
    BY <1>4 DEF SameRest
  <2>5. InStep(t) BY <1>6, <2>1, <2>2, <2>3, <2>4 DEF InStep
  <2>6. Timed(t)
    <3>1. \A i \in Iqs : i \in t.handlers \union t.addHandlers => i \in c.handlers \union c.addHandlers
      BY <1>3, <1>4 DEF Coming
    <3>2. QED BY <1>4, <2>1, <3>1, StaysTimed
  <2>7. QED BY <1>4, <2>5, <2>6 DEF Records, Sound
<1>8. QED BY <1>3, <1>4, <1>5, <1>6, <1>7 DEF t, Merged

(* What is appended comes last, and first only if nothing was before it.   *)
LEMMA AppendsLast ==
  ASSUME NEW S, NEW o \in Seq(S), NEW e \in S
  PROVE  /\ Append(o, e) # << >>
         /\ o # << >> => Append(o, e)[1] = o[1]
         /\ o = << >> => Append(o, e)[1] = e
         /\ \A x, y : Append(o, e) = << x, y >> => y = e /\ o # << >> /\ o[1] = x
<1> DEFINE p == Append(o, e)
<1>1. Len(o) \in Nat /\ (o # << >> => Len(o) # 0) BY LenProperties, EmptySeq
<1>2. /\ p # << >> /\ Len(p) = Len(o) + 1
      /\ \A i \in 1..Len(o) : p[i] = o[i]
      /\ p[Len(o) + 1] = e
  BY AppendProperties
<1> HIDE DEF p
<1>3. o # << >> => p[1] = o[1]
  <2>1. o # << >> => 1 \in 1..Len(o) BY <1>1
  <2>2. QED BY <1>2, <2>1
<1>4. o = << >> => p[1] = e
  <2>1. o = << >> => Len(o) + 1 = 1 OBVIOUS
  <2>2. QED BY <1>2, <2>1
<1>5. ASSUME NEW x, NEW y, p = << x, y >> PROVE y = e /\ o # << >> /\ o[1] = x
  <2>1. Len(p) = 2 /\ p[1] = x /\ p[2] = y BY <1>5
  <2>2. Len(o) = 1
    <3> DEFINE n == Len(o)
    <3>1. n \in Nat /\ n + 1 = 2 BY <1>1, <1>2, <2>1, Zenon
    <3> HIDE DEF n
    <3>2. n = 1 BY <3>1
    <3>3. QED BY <3>2 DEF n
  <2>3. o # << >>
    <3>1. Len(<< >>) = 0 BY EmptySeq
    <3>2. 0 # 1 OBVIOUS
    <3>3. QED BY <2>2, <3>1, <3>2, Zenon
  <2>4. Len(o) + 1 = 2 BY <2>2
  <2>5. y = e BY <1>2, <2>1, <2>4
  <2>6. QED BY <1>3, <2>1, <2>3, <2>5
<1>6. QED BY <1>2, <1>3, <1>4, <1>5 DEF p

(* A stanza of an IQ hits the handler of that IQ, if any; another stanza   *)
(* hits handlers of the login, and but one.                                *)
LEMMA HitIsOne ==
  ASSUME NEW c \in Records, Merged(c), NEW stanza \in Stanzas
  PROVE  /\ stanza.key \in Iqs => Hit(c, stanza) \subseteq {stanza.key}
         /\ stanza.key \notin Iqs =>
              /\ Hit(c, stanza) \subseteq LoginHandlers
              /\ \A g, h \in Hit(c, stanza) : g = h
         /\ ~c.authenticated => Hit(c, stanza) \subseteq LoginHandlers
<1>1. c.handlers \subseteq LoginHandlers \union Iqs
  BY DEF Records, LoginRecord, Hands
<1>2. ASSUME NEW h \in Iqs PROVE isMatch(h, stanza) <=> h = stanza.key
  BY DEF isMatch
<1>3. ASSUME NEW h \in LoginHandlers PROVE isMatch(h, stanza) <=> Matches[h] = stanza.key
  BY HandlerNames DEF isMatch
<1>4. \A h \in LoginHandlers : Matches[h] \notin Iqs BY IqsAssumption
<1>5. ASSUME stanza.key \in Iqs PROVE Hit(c, stanza) \subseteq {stanza.key}
  BY <1>1, <1>2, <1>3, <1>4, <1>5 DEF Hit
<1>6. ASSUME stanza.key \notin Iqs PROVE Hit(c, stanza) \subseteq LoginHandlers
  BY <1>1, <1>2, <1>6 DEF Hit
<1>7. ASSUME ~c.authenticated PROVE Hit(c, stanza) \subseteq LoginHandlers
  BY <1>1, <1>7 DEF Hit
<1>8. ASSUME NEW g \in LoginHandlers, NEW h \in LoginHandlers,
             g \in Hit(c, stanza), h \in Hit(c, stanza)
      PROVE  g = h
  <2>1. Matches[g] = Matches[h] BY <1>3, <1>8 DEF Hit
  <2>2. g \in Step(c) /\ h \in Step(c) BY <1>8 DEF Hit, Step, Coming, Merged
  <2>3. Step(c) \in Steps BY DEF Records, Sound, InStep
  <2>4. ~("challenge1" \in Step(c) /\ "challenge2" \in Step(c)) BY <2>3 DEF Steps
  <2>5. g \in {"challenge1", "challenge2", "success", "failure", "features",
               "bind", "session", "auth1", "auth2"}
    BY HandlerNames
  <2>6. h \in {"challenge1", "challenge2", "success", "failure", "features",
               "bind", "session", "auth1", "auth2"}
    BY HandlerNames
  <2>7. QED BY <2>1, <2>2, <2>4, <2>5, <2>6, HandlerKeys
<1>9. QED BY <1>5, <1>6, <1>7, <1>8

(* What does not touch the handlers of the login leaves it in step.        *)
LEMMA StaysInStep ==
  ASSUME NEW c, NEW u, InStep(c), Step(u) = Step(c), u.refs = c.refs, u.reported = c.reported,
         u.connected = c.connected, u.connectRequests = c.connectRequests
  PROVE  InStep(u)
<1>1. \A g \in {"success", "failure", "challenge1", "challenge2"} : g \in LoginHandlers
  BY HandlerNames
<1>2. \A g \in {"success", "failure", "challenge1", "challenge2"} :
        g \in Coming(u) <=> g \in Coming(c)
  BY <1>1, StepIs
<1>3. Referred(u) BY <1>2 DEF Referred, InStep
<1>4. Verdicts(u) = Verdicts(c) BY DEF Verdicts
<1>5. QED BY <1>3, <1>4 DEF InStep

(* A stanza that hits no handler.                                          *)
LEMMA MissesAll ==
  ASSUME NEW c \in Records, Merged(c), NEW stanza, Hit(c, stanza) = {}
  PROVE  LET t == Dispatch(c, stanza) IN
         /\ t \in Records /\ Merged(t) /\ Step(t) = Step(c) /\ SameMood(t, c)
         /\ t.connected = c.connected /\ t.connectRequests = c.connectRequests
         /\ t.ignored = c.ignored
<1> DEFINE t == Dispatch(c, stanza)
<1>1. c \in LoginRecord /\ InStep(c) /\ Timed(c) BY DEF Records, Sound
<1>2. t = Taking(c, {}) BY DispatchNone
<1> HIDE DEF t
<1>3. /\ t \in LoginRecord /\ t.handlers = c.handlers \ {}
      /\ t.addHandlers = c.addHandlers /\ t.removeHandlers = c.removeHandlers
      /\ t.refs = c.refs /\ SameRest(t, c) /\ SameMood(t, c)
  BY <1>1, <1>2, TakesHandlers, Zenon
<1>4. /\ t.reported = c.reported /\ t.connected = c.connected
      /\ t.connectRequests = c.connectRequests /\ t.ignored = c.ignored
  BY <1>3 DEF SameRest, SameMood
<1>5. Merged(t) BY <1>3 DEF Merged
<1>6. Step(t) = Step(c) BY <1>3 DEF Step, Coming
<1>7. InStep(t) BY <1>1, <1>3, <1>4, <1>6, StaysInStep
<1>8. Timed(t) BY <1>1, <1>3, StaysTimed
<1>9. QED BY <1>3, <1>4, <1>5, <1>6, <1>7, <1>8 DEF Records, Sound, t

(* An answer to an IQ leaves the login alone and the timers sound.         *)
LEMMA DispatchesIq ==
  ASSUME NEW c \in Records, Merged(c), NEW stanza \in Stanzas, stanza.key \in Iqs
  PROVE  LET t == Dispatch(c, stanza) IN
         /\ t \in Records /\ Merged(t) /\ Step(t) = Step(c) /\ SameMood(t, c)
         /\ t.connected = c.connected /\ t.connectRequests = c.connectRequests
         /\ t.ignored = c.ignored
<1> DEFINE t == Dispatch(c, stanza)
           i == stanza.key
<1>1. c \in LoginRecord /\ InStep(c) /\ Timed(c) BY DEF Records, Sound
<1>3. Hit(c, stanza) = {} \/ Hit(c, stanza) = {i} BY HitIsOne
<1>4. CASE Hit(c, stanza) = {} BY <1>4, MissesAll
<1>5. CASE Hit(c, stanza) = {i}
  <2> DEFINE b == Taking(c, {i})
  <2>1. i \in Iqs /\ i \notin LoginHandlers /\ i \in c.handlers
    BY <1>5, HandlerNames DEF Hit
  <2>2. t = run(b, i, stanza) BY <1>5, DispatchOne
  <2>3. /\ b \in LoginRecord /\ b.handlers = c.handlers \ {i}
        /\ b.addHandlers = c.addHandlers /\ b.removeHandlers = c.removeHandlers
        /\ b.refs = c.refs /\ SameRest(b, c) /\ SameMood(b, c)
    BY <1>1, TakesHandlers
  <2> HIDE DEF b
  <2>4. run(b, i, stanza) = IqAnswered(b, i)
    <3>1. \A h \in {"challenge1", "challenge2", "success", "failure", "features",
                    "bind", "session", "auth1", "auth2"} : i # h
      BY <2>1, HandlerNames
    <3> HIDE DEF i
    <3>2. QED BY <2>1, <3>1 DEF run
  <2>5. /\ t \in LoginRecord /\ SameLists(t, b) /\ SameMood(t, b)
        /\ t.connected = b.connected /\ t.connectRequests = b.connectRequests
        /\ t.ignored = b.ignored /\ t.sent = b.sent
        /\ t.timedHandlers = b.timedHandlers /\ t.addTimeds = b.addTimeds
        /\ t.removeTimeds = b.removeTimeds \union {i}
        /\ \A j \in Iqs :
             t.outcome[j] = IF j = i /\ Len(b.outcome[j]) < 2
                            THEN Append(b.outcome[j], "answered") ELSE b.outcome[j]
    BY <2>1, <2>2, <2>3, <2>4, IqAnswers
  <2> HIDE DEF t, i
  <2>6. Merged(t) BY <2>3, <2>5 DEF Merged, SameLists
  <2>7. /\ t.reported = c.reported /\ t.connected = c.connected
        /\ t.connectRequests = c.connectRequests /\ t.ignored = c.ignored
        /\ SameMood(t, c)
    BY <2>3, <2>5 DEF SameRest, SameMood
  <2>8. InStep(t) /\ Step(t) = Step(c)
    <3>1. t.handlers = c.handlers \ {i} /\ t.refs = c.refs BY <2>3, <2>5 DEF SameLists
    <3>2. Step(t) = Step(c) BY <2>1, <2>6, <3>1 DEF Step, Coming, Merged
    <3>3. QED BY <1>1, <2>7, <3>1, <3>2, StaysInStep
  <2>9. Timed(t)
    <3>1. /\ t.sent = c.sent /\ t.timedHandlers = c.timedHandlers /\ t.addTimeds = c.addTimeds
          /\ t.removeTimeds = c.removeTimeds \union {i} /\ b.outcome = c.outcome
          /\ t.handlers \subseteq c.handlers /\ t.addHandlers = c.addHandlers
      BY <2>3, <2>5 DEF SameRest, SameLists
    <3>2. Ticking(t) = Ticking(c) \ {i} BY <3>1 DEF Ticking
    <3>3. i \in c.sent BY <1>1, <2>1 DEF Timed
    <3>4. ASSUME NEW j \in Iqs, j # i PROVE t.outcome[j] = c.outcome[j]
      BY <2>5, <3>1, <3>4
    <3>5. t.outcome[i] # << "answered", "timeout" >>
      <4> DEFINE o == c.outcome[i]
      <4>1. o \in Seq({"answered", "timeout"}) /\ o # << "answered", "timeout" >>
        BY <1>1, <2>1 DEF LoginRecord, Timed
      <4>2. t.outcome[i] = IF Len(o) < 2 THEN Append(o, "answered") ELSE o
        BY <2>1, <2>5, <3>1
      <4> HIDE DEF o
      <4>3. Append(o, "answered") # << "answered", "timeout" >>
        <5>1. "answered" \in {"answered", "timeout"} /\ "answered" # "timeout" OBVIOUS
        <5>2. QED BY <4>1, <5>1, AppendsLast
      <4>4. QED BY <4>1, <4>2, <4>3
    <3>6. ASSUME NEW j \in Iqs
          PROVE  /\ j \notin t.sent =>
                      /\ t.outcome[j] = << >>
                      /\ j \notin t.timedHandlers \union t.addTimeds
                      /\ j \notin t.handlers \union t.addHandlers
                 /\ t.outcome[j] # << >> /\ t.outcome[j][1] = "answered" => j \notin Ticking(t)
                 /\ t.outcome[j] # << "answered", "timeout" >>
      <4>1. CASE j = i BY <3>1, <3>2, <3>3, <3>5, <4>1
      <4>2. CASE j # i BY <1>1, <3>1, <3>2, <3>4, <4>2 DEF Timed
      <4>3. QED BY <4>1, <4>2
    <3>7. QED BY <3>6 DEF Timed
  <2>10. QED BY <2>5, <2>6, <2>7, <2>8, <2>9 DEF Records, Sound, t
<1>6. QED BY <1>3, <1>4, <1>5

(* The login goes on, or has ended.                                        *)
Progressed(t) == t.authenticated \/ t.reported # NothingReported \/ (t._data /\ Step(t) # {})

(* A stanza of the login: what it hits runs, and leaves the connection     *)
(* sound.                                                                  *)
LEMMA DispatchesLogin ==
  ASSUME NEW c \in Records, Merged(c), NEW stanza \in Stanzas, stanza.key \notin Iqs
  PROVE  LET t == Dispatch(c, stanza) IN
         /\ t \in Records /\ (c.authenticated => t.authenticated)
         /\ LeadsOn(c, stanza) => Progressed(t)
<1> DEFINE t == Dispatch(c, stanza)
<1>1. c \in LoginRecord /\ InStep(c) /\ Timed(c) BY DEF Records, Sound
<1>2. CASE Hit(c, stanza) = {}
  <2>1. t \in Records /\ SameMood(t, c) BY <1>2, MissesAll
  <2>2. t.authenticated = c.authenticated BY <2>1 DEF SameMood
  <2>3. ~LeadsOn(c, stanza) BY <1>2 DEF LeadsOn
  <2>4. QED BY <2>1, <2>2, <2>3
<1>3. CASE Hit(c, stanza) # {}
  <2>1. PICK h \in Hit(c, stanza) : TRUE BY <1>3
  <2>2. Hit(c, stanza) = {h} /\ h \in LoginHandlers BY <2>1, HitIsOne
  <2>3. h \in c.handlers /\ isMatch(h, stanza) BY <2>1 DEF Hit
  <2>4. h \in Step(c) BY <2>2, <2>3 DEF Step, Coming, Merged
  <2>5. /\ c.connected /\ Verdicts(c) = 0 /\ ~(c.connectRequests > 0)
        /\ Step(c) \in Steps /\ Referred(c)
    BY <1>1, <2>4 DEF InStep, LoginRecord
  <2> DEFINE b == Taking(c, {h})
  <2>6. /\ b \in LoginRecord /\ b.handlers = c.handlers \ {h}
        /\ b.addHandlers = c.addHandlers /\ b.removeHandlers = c.removeHandlers
        /\ b.refs = c.refs /\ SameRest(b, c) /\ SameMood(b, c)
    BY <1>1, TakesHandlers
  <2>7. t = run(b, h, stanza) BY <2>2, DispatchOne
  <2> HIDE DEF b, t
  <2>8. Hitting(b, h)
    <3>1. b.connected /\ Verdicts(b) = 0
      BY <2>5, <2>6 DEF SameRest, SameMood, Verdicts
    <3>2. b.handlers \union {h} = c.handlers BY <2>3, <2>6
    <3>3. Coming(c) = c.handlers BY DEF Coming, Merged
    <3>4. c.handlers \intersect LoginHandlers \in Steps BY <2>5, <3>3 DEF Step
    <3>5. h \notin b.handlers /\ b.addHandlers = {} /\ b.removeHandlers = {}
      BY <2>6 DEF Merged
    <3>6. QED BY <2>2, <2>5, <2>6, <3>1, <3>2, <3>3, <3>4, <3>5 DEF Hitting, Referred
  <2>9. LeadsOn(c, stanza) <=> HasCase(h, stanza.type) BY <2>2 DEF LeadsOn
  <2>10. CASE HasCase(h, stanza.type)
    <3>1. Led(t, b) BY <2>2, <2>3, <2>7, <2>8, <2>10, RunLeads
    <3>2. /\ t \in LoginRecord /\ SameRest(t, c)
          /\ t.handlers \subseteq c.handlers /\ t.addHandlers \subseteq LoginHandlers
      BY <2>6, <3>1 DEF Led, SameRest
    <3>3. Timed(t)
      <4>1. \A i \in Iqs : i \in t.handlers \union t.addHandlers => i \in c.handlers \union c.addHandlers
        BY <3>2, HandlerNames
      <4>2. QED BY <1>1, <3>2, <4>1, StaysTimed
    <3>4. InStep(t)
      <4>1. t.connected /\ ~(t.connectRequests > 0) BY <2>5, <3>2 DEF SameRest
      <4>2. QED BY <3>1, <4>1 DEF InStep, Led
    <3>5. Progressed(t) /\ (c.authenticated => t.authenticated)
      BY <2>6, <3>1 DEF Progressed, Led, SameMood
    <3>6. QED BY <3>2, <3>3, <3>4, <3>5 DEF Records, Sound, t
  <2>11. CASE ~HasCase(h, stanza.type)
    <3>1. t = b /\ Step(b) = {} BY <2>2, <2>3, <2>7, <2>8, <2>11, RunEndsThere
    <3>2. Verdicts(b) = 0 BY <2>5, <2>6 DEF SameMood, Verdicts
    <3>3. Referred(b) BY <3>1, ReferredBy
    <3>4. b.connected /\ ~(b.connectRequests > 0) BY <2>5, <2>6 DEF SameRest
    <3>5. InStep(b) BY <3>1, <3>2, <3>3, <3>4 DEF InStep, Steps
    <3>6. b.handlers \subseteq c.handlers /\ b.addHandlers = c.addHandlers BY <2>6
    <3>7. Timed(b) BY <1>1, <2>6, <3>6, StaysTimed
    <3>8. b.authenticated = c.authenticated BY <2>6 DEF SameMood
    <3>9. QED BY <2>6, <2>9, <2>11, <3>1, <3>5, <3>7, <3>8 DEF Records, Sound, t
  <2>12. QED BY <2>10, <2>11
<1>4. QED BY <1>2, <1>3

Dispatching == INSTANCE SequenceLemmas WITH op <- Dispatch

(* The community fold is the fold of the lemmas.                           *)
LEMMA DispatchingIsFold ==
  ASSUME NEW c, NEW body
  PROVE  FoldLeft(Dispatch, c, body) = Dispatching!Fold(c, body)
BY Zenon DEF Dispatching!Fold, FoldLeft, Dispatching!FoldLeft, MapThenFoldSet,
             Dispatching!MapThenFoldSet, Max, Dispatching!Max

(* A whole body.  Before the login is over, one with a stanza that leads   *)
(* on makes the login go on or ends it.                                    *)
LEMMA DispatchesBody ==
  ASSUME NEW c \in Records, Merged(c), NEW body \in Bodies
  PROVE  LET t == FoldLeft(Dispatch, c, body) IN
         /\ t \in Records /\ (c.authenticated => t.authenticated)
         /\ ~c.authenticated /\ (\E s \in ToSet(body) : LeadsOn(c, s)) => Progressed(t)
<1> DEFINE t == FoldLeft(Dispatch, c, body)
<1>1. t = Dispatching!Fold(c, body) BY DispatchingIsFold
<1> HIDE DEF t
<1>2. ASSUME NEW s \in IqStanzas, ~c.authenticated PROVE ~LeadsOn(c, s)
  <2>1. s \in Stanzas /\ s.key \in Iqs BY DEF IqStanzas
  <2>2. Hit(c, s) \subseteq {s.key} /\ Hit(c, s) \subseteq LoginHandlers
    BY <1>2, <2>1, HitIsOne
  <2>3. Hit(c, s) = {} BY <2>1, <2>2, HandlerNames
  <2>4. QED BY <2>3 DEF LeadsOn
<1>3. CASE body = << >>
  <2>1. t = c BY <1>1, <1>3, Dispatching!ShortFolds
  <2>2. ToSet(body) = {} BY <1>3 DEF ToSet
  <2>3. QED BY <2>1, <2>2 DEF t
<1>4. ASSUME NEW s \in Stanzas, body = << s >>
      PROVE  /\ t \in Records /\ (c.authenticated => t.authenticated)
             /\ ~c.authenticated /\ (\E r \in ToSet(body) : LeadsOn(c, r)) => Progressed(t)
  <2>1. t = Dispatch(c, s) BY <1>1, <1>4, Dispatching!ShortFolds
  <2>2. ToSet(body) = {s} BY <1>4 DEF ToSet
  <2>3. CASE s.key \in Iqs
    <3>1. t \in Records /\ SameMood(t, c) BY <2>1, <2>3, DispatchesIq
    <3>2. t.authenticated = c.authenticated BY <3>1 DEF SameMood
    <3>3. s \in IqStanzas BY <2>3 DEF IqStanzas
    <3>4. QED BY <1>2, <2>2, <3>1, <3>2, <3>3
  <2>4. CASE s.key \notin Iqs BY <2>1, <2>2, <2>4, DispatchesLogin
  <2>5. QED BY <2>3, <2>4
<1>5. ASSUME NEW s \in IqStanzas, NEW r \in IqStanzas, body = << s, r >>
      PROVE  /\ t \in Records /\ (c.authenticated => t.authenticated)
             /\ ~c.authenticated /\ (\E q \in ToSet(body) : LeadsOn(c, q)) => Progressed(t)
  <2> DEFINE m == Dispatch(c, s)
  <2>1. t = Dispatch(m, r)
    <3>1. \A x, y : Dispatching!Fold(c, << x, y >>) = Dispatch(Dispatch(c, x), y)
      BY Dispatching!ShortFolds
    <3>2. Dispatching!Fold(c, << s, r >>) = Dispatch(m, r) BY <3>1, Zenon
    <3>3. QED BY <1>1, <1>5, <3>2
  <2>2. ToSet(body) = {s, r} BY <1>5 DEF ToSet
  <2>3. s \in Stanzas /\ s.key \in Iqs /\ r \in Stanzas /\ r.key \in Iqs BY DEF IqStanzas
  <2>4. m \in Records /\ Merged(m) /\ SameMood(m, c) BY <2>3, DispatchesIq
  <2> HIDE DEF m
  <2>5. t \in Records /\ SameMood(t, m) BY <2>1, <2>3, <2>4, DispatchesIq
  <2>6. t.authenticated = c.authenticated BY <2>4, <2>5 DEF SameMood
  <2>7. QED BY <1>2, <2>2, <2>5, <2>6
<1>6. QED BY <1>3, <1>4, <1>5 DEF Bodies, t
-----------------------------------------------------------------------------
(* The actions.  What they preserve besides Records is that the server has *)
(* been asked: no login is forgotten.                                      *)

(* Timers that are not more, and handlers of IQs that are not more.        *)
LEMMA LosesTimers ==
  ASSUME NEW c, NEW t, Timed(c), t.sent = c.sent, t.outcome = c.outcome,
         t.timedHandlers \union t.addTimeds \subseteq c.timedHandlers \union c.addTimeds,
         Ticking(t) \subseteq Ticking(c),
         \A i \in Iqs : i \in t.handlers \union t.addHandlers => i \in c.handlers \union c.addHandlers
  PROVE  Timed(t)
BY DEF Timed

(* What the actions change without harm: counters and flags.               *)
LEMMA KeepsSound ==
  ASSUME NEW c \in Records, NEW t \in LoginRecord, SameLists(t, c), t.reported = c.reported,
         t.connected = c.connected, t.connectRequests = c.connectRequests,
         t.outcome = c.outcome, t.sent = c.sent, t.timedHandlers = c.timedHandlers,
         t.addTimeds = c.addTimeds, t.removeTimeds = c.removeTimeds
  PROVE  t \in Records /\ Step(t) = Step(c)
<1>1. InStep(c) /\ Timed(c) BY DEF Records, Sound
<1>2. Step(t) = Step(c) BY DEF SameLists, Step, Coming
<1>3. t.refs = c.refs BY DEF SameLists
<1>4. InStep(t) BY <1>1, <1>2, <1>3, StaysInStep
<1>5. Ticking(t) = Ticking(c) BY DEF Ticking
<1>6. t.handlers = c.handlers /\ t.addHandlers = c.addHandlers BY DEF SameLists
<1>7. Timed(t) BY <1>1, <1>5, <1>6, LosesTimers
<1>8. QED BY <1>2, <1>4, <1>7 DEF Records, Sound

(* A connection without login handlers and without verdict is in step.     *)
LEMMA InStepWithout ==
  ASSUME NEW t, Step(t) = {}, Verdicts(t) = 0
  PROVE  InStep(t)
<1>1. Step(t) \in Steps BY DEF Steps
<1>2. Referred(t) BY ReferredBy
<1>3. QED BY <1>1, <1>2 DEF InStep

(* At first there is nothing.                                              *)
LEMMA InitSound == Init => connection \in Records /\ Asked(connection)
<1> SUFFICES ASSUME Init PROVE connection \in Records /\ Asked(connection)
  OBVIOUS
<1>1. NothingReported \in [Statuses -> 0..2] BY DEF NothingReported, Statuses
<1>2. [f \in {"success", "failure", "challenge"} |-> {}] \in [Fields -> SUBSET Hands]
  BY DEF Fields
<1>3. [i \in Iqs |-> << >>] \in [Iqs -> Seq({"answered", "timeout"})] OBVIOUS
<1>4. connection \in LoginRecord BY <1>1, <1>2, <1>3 DEF Init, LoginRecord
<1>5. Step(connection) = {} BY DEF Init, Step, Coming
<1>6. Verdicts(connection) = 0
  <2>1. NothingReported["CONNECTED"] = 0 /\ NothingReported["AUTHFAIL"] = 0
    BY DEF NothingReported
  <2>2. connection.reported = NothingReported BY DEF Init
  <2>3. QED BY <2>1, <2>2 DEF Verdicts
<1>7. InStep(connection) BY <1>5, <1>6, InStepWithout
<1>8. Timed(connection)
  <2>1. \A i \in Iqs : connection.outcome[i] = << >> BY DEF Init
  <2>2. << >> # << "answered", "timeout" >> OBVIOUS
  <2>3. /\ connection.timedHandlers = {} /\ connection.addTimeds = {}
        /\ connection.handlers = {} /\ connection.addHandlers = {}
    BY DEF Init
  <2>4. QED BY <2>1, <2>2, <2>3 DEF Timed
<1>9. Asked(connection) BY DEF Asked, Init
<1>10. QED BY <1>4, <1>7, <1>8, <1>9 DEF Records, Sound

(* _doDisconnect: the lists are emptied.                                   *)
LEMMA GoesDown ==
  ASSUME NEW c \in Records
  PROVE  LET t == _doDisconnect(c) IN
         /\ t \in Records /\ ~t.connected /\ Step(t) = {}
         /\ t.ignored = c.ignored
<1> DEFINE t == _doDisconnect(c)
<1>1. c \in LoginRecord /\ InStep(c) /\ Timed(c) BY DEF Records, Sound
<1>2. /\ ~t.connected /\ t.handlers = {} /\ t.addHandlers = {}
      /\ t.timedHandlers = {} /\ t.addTimeds = {}
      /\ t.connectRequests = c.connectRequests /\ t.reported = c.reported
      /\ t.sent = c.sent /\ t.outcome = c.outcome /\ t.ignored = c.ignored
  BY <1>1 DEF LoginRecord, _doDisconnect
<1>3. t \in LoginRecord BY <1>1 DEF LoginRecord, _doDisconnect
<1> HIDE DEF t
<1>4. Step(t) = {} BY <1>2 DEF Step, Coming
<1>5. Step(t) \in Steps /\ Referred(t) BY <1>4, ReferredBy DEF Steps
<1>6. InStep(t)
  <2>1. Verdicts(t) = Verdicts(c) BY <1>2 DEF Verdicts
  <2>2. QED BY <1>1, <1>2, <1>4, <1>5, <2>1 DEF InStep
<1>7. Timed(t)
  <2>1. Ticking(t) = {} BY <1>2 DEF Ticking
  <2>2. QED BY <1>1, <1>2, <2>1, LosesTimers
<1>8. QED BY <1>2, <1>3, <1>4, <1>6, <1>7 DEF Records, Sound, t

(* Connecting, with or without a reset before.                             *)
LEMMA ConnectSound ==
  ASSUME connection \in Records, Connect
  PROVE  connection' \in Records /\ Asked(connection')
<1>1. ~connection.connected BY DEF Connect
<1>2. PICK node \in BOOLEAN, c \in {connection, reset(connection)} :
        connection' = [c EXCEPT !.node = node, !.disconnecting = FALSE, !.authenticated = FALSE,
                                !.connectRequests = 1, !.lives = @ + 1, !.ignored = FALSE,
                                !.reported = NothingReported]
  BY DEF Connect
<1>3. c \in Records /\ ~c.connected
  <2> DEFINE d == _doDisconnect(connection)
             r == reset(connection)
  <2>1. d \in Records /\ ~d.connected BY GoesDown
  <2>2. r = [d EXCEPT !.do_bind = FALSE, !.do_session = FALSE] BY DEF reset
  <2> HIDE DEF d, r
  <2>3. /\ r \in LoginRecord /\ SameLists(r, d) /\ r.reported = d.reported
        /\ r.connected = d.connected /\ r.connectRequests = d.connectRequests
        /\ r.outcome = d.outcome /\ r.sent = d.sent /\ r.timedHandlers = d.timedHandlers
        /\ r.addTimeds = d.addTimeds /\ r.removeTimeds = d.removeTimeds
    BY <2>1, <2>2 DEF Records, LoginRecord, SameLists
  <2>4. r \in Records BY <2>1, <2>3, KeepsSound
  <2>5. QED BY <1>1, <2>1, <2>3, <2>4 DEF r
<1> DEFINE t == connection'
<1>4. c \in LoginRecord /\ InStep(c) /\ Timed(c) BY <1>3 DEF Records, Sound
<1>5. NothingReported \in [Statuses -> 0..2] /\ NothingReported["CONNECTED"] = 0
      /\ NothingReported["AUTHFAIL"] = 0
  BY DEF NothingReported, Statuses
<1> DEFINE n == c.lives + 1
<1>6. n \in Nat BY <1>4 DEF LoginRecord
<1>7. t = [c EXCEPT !.node = node, !.disconnecting = FALSE, !.authenticated = FALSE,
                    !.connectRequests = 1, !.lives = n, !.ignored = FALSE,
                    !.reported = NothingReported]
  BY <1>2
<1> HIDE DEF n, t
<1>8. /\ SameLists(t, c) /\ t.reported = NothingReported /\ t.connectRequests = 1
      /\ t.sent = c.sent /\ t.outcome = c.outcome /\ t.timedHandlers = c.timedHandlers
      /\ t.addTimeds = c.addTimeds /\ t.removeTimeds = c.removeTimeds
  BY <1>4, <1>7 DEF LoginRecord, SameLists
<1>9. t \in LoginRecord
  <2> DEFINE u == [c EXCEPT !.node = node, !.disconnecting = FALSE, !.authenticated = FALSE,
                            !.ignored = FALSE]
  <2>1. u \in LoginRecord BY <1>4 DEF LoginRecord
  <2>2. t = [u EXCEPT !.connectRequests = 1, !.lives = n, !.reported = NothingReported]
    BY <1>4, <1>7 DEF LoginRecord
  <2> HIDE DEF u
  <2>3. 1 \in 0..1 OBVIOUS
  <2>4. QED BY <1>5, <1>6, <2>1, <2>2, <2>3 DEF LoginRecord
<1>10. Step(t) = {}
  <2>1. Step(c) = {} BY <1>3, <1>4 DEF InStep
  <2>2. QED BY <1>8, <2>1 DEF Step, Coming, SameLists
<1>11. InStep(t)
  <2>1. Verdicts(t) = 0 BY <1>5, <1>8 DEF Verdicts
  <2>2. QED BY <1>10, <2>1, InStepWithout
<1>12. Timed(t)
  <2>1. Ticking(t) = Ticking(c) BY <1>8 DEF Ticking
  <2>2. QED BY <1>4, <1>8, <2>1, LosesTimers DEF SameLists
<1>13. Asked(t) BY <1>8 DEF Asked
<1>14. QED BY <1>9, <1>11, <1>12, <1>13 DEF Records, Sound, t

(* The requests of the connecting, and whether there is a connection.      *)
Answering(c, n, up) == [c EXCEPT !.connectRequests = n, !.connected = up]

(* Nothing else changes with them.                                         *)
LEMMA AnsweringIs ==
  ASSUME NEW c \in LoginRecord, NEW n \in 0..1, NEW up \in BOOLEAN
  PROVE  LET t == Answering(c, n, up) IN
         /\ t \in LoginRecord /\ SameLists(t, c) /\ SameMood(t, c)
         /\ t.connectRequests = n /\ t.connected = up
         /\ t.sent = c.sent /\ t.outcome = c.outcome /\ t.timedHandlers = c.timedHandlers
         /\ t.addTimeds = c.addTimeds /\ t.removeTimeds = c.removeTimeds
BY DEF LoginRecord, SameLists, SameMood, Answering

(* A connection that has just been answered, before the login begins.      *)
Open(c) ==
  /\ c \in LoginRecord /\ c.connected /\ c.connectRequests = 0
  /\ Step(c) = {} /\ Verdicts(c) = 0 /\ Timed(c)

(* It begins with any step whose handlers are coming.                      *)
LEMMA Begins ==
  ASSUME NEW c, Open(c), NEW u \in LoginRecord, SameRest(u, c), u.reported = c.reported,
         u.handlers = c.handlers, u.addHandlers \subseteq c.addHandlers \union LoginHandlers,
         Step(u) \in Steps, Step(u) # {}, Referred(u)
  PROVE  send(u) \in Records /\ Asked(send(u))
<1> DEFINE t == send(u)
<1>1. /\ t \in LoginRecord /\ t._data = TRUE /\ t.reported = u.reported
      /\ SameRest(t, u) /\ SameLists(t, u)
  BY Sends
<1> HIDE DEF t
<1>2. Coming(t) = Coming(u) BY <1>1 DEF Coming, SameLists
<1>3. Step(t) = Step(u) BY <1>2 DEF Step
<1>4. Referred(t) BY <1>1, <1>2 DEF Referred, SameLists
<1>5. Verdicts(t) = 0 BY <1>1 DEF Verdicts, Open
<1>6. SameRest(t, c) BY <1>1 DEF SameRest
<1>7. InStep(t) BY <1>3, <1>4, <1>5, <1>6 DEF InStep, SameRest, Open
<1>8. Timed(t)
  <2>1. \A i \in Iqs : i \in t.handlers \union t.addHandlers => i \in c.handlers \union c.addHandlers
    BY <1>1, HandlerNames DEF SameLists
  <2>2. QED BY <1>6, <2>1, StaysTimed DEF Open
<1>9. Asked(t) BY <1>1, <1>3 DEF Asked
<1>10. QED BY <1>1, <1>7, <1>8, <1>9 DEF Records, Sound, t

(* ... or is not begun: the server is not to be spoken with.               *)
LEMMA NotBegun ==
  ASSUME NEW c, Open(c), NEW u \in LoginRecord, SameRest(u, c), u.reported = c.reported,
         SameLists(u, c)
  PROVE  LET t == _changeConnectStatus(u, "CONNFAIL") IN t \in Records /\ Asked(t)
<1> DEFINE t == _changeConnectStatus(u, "CONNFAIL")
<1>1. "CONNFAIL" \in Statuses /\ "CONNECTED" \in Statuses /\ "AUTHFAIL" \in Statuses
  BY DEF Statuses
<1>2. /\ t \in LoginRecord /\ t.reported # NothingReported
      /\ \A s \in Statuses : s # "CONNFAIL" => t.reported[s] = u.reported[s]
      /\ SameRest(t, u) /\ SameLists(t, u)
  BY <1>1, Reports
<1> HIDE DEF t
<1>3. Verdicts(t) = 0 BY <1>1, <1>2 DEF Verdicts, Open
<1>4. SameRest(t, c) /\ SameLists(t, c) BY <1>2 DEF SameRest, SameLists
<1>5. Step(t) = {} BY <1>4 DEF Step, Coming, SameLists, Open
<1>6. InStep(t) BY <1>3, <1>5, InStepWithout
<1>7. t.handlers = c.handlers /\ t.addHandlers = c.addHandlers BY <1>4 DEF SameLists
<1>8. Timed(t) BY <1>4, <1>7, StaysTimed DEF Open
<1>9. Asked(t) BY <1>2 DEF Asked
<1>10. QED BY <1>2, <1>6, <1>8, <1>9 DEF Records, Sound, t

(* Awaiting two handlers, one of them failure.                             *)
LEMMA AwaitsBoth ==
  ASSUME NEW c, Open(c), NEW f \in {"success", "challenge"}, NEW h \in {"success", "challenge1"},
         f = "success" <=> h = "success"
  PROVE  LET t == send(AwaitFailure(Keep(_addSysHandler(c, {h}), f, h)))
         IN t \in Records /\ Asked(t)
<1>1. /\ "failure" \in Fields /\ f \in Fields /\ f # "failure"
      /\ h \in LoginHandlers /\ "failure" \in LoginHandlers
  BY HandlerNames DEF Fields
<1> DEFINE a == Keep(_addSysHandler(c, {h}), f, h)
           b == AwaitFailure(a)
<1>2. /\ a \in LoginRecord /\ a.handlers = c.handlers
      /\ a.addHandlers = c.addHandlers \union {h} /\ a.removeHandlers = c.removeHandlers
      /\ a.refs[f] = {h}
      /\ SameRest(a, c) /\ SameMood(a, c)
  BY <1>1, Awaits DEF Open
<1>3. /\ b \in LoginRecord /\ b.handlers = a.handlers
      /\ b.addHandlers = a.addHandlers \union {"failure"} /\ b.removeHandlers = a.removeHandlers
      /\ b.refs["failure"] = {"failure"} /\ b.refs[f] = a.refs[f]
      /\ SameRest(b, a) /\ SameMood(b, a)
  <2> HIDE DEF a
  <2>1. QED BY <1>1, <1>2, Awaits DEF AwaitFailure
<1> HIDE DEF a, b
<1>4. SameRest(b, c) /\ b.reported = c.reported BY <1>2, <1>3 DEF SameRest, SameMood
<1>5. Step(b) = {h, "failure"}
  <2>1. (c.handlers \ c.removeHandlers) \intersect LoginHandlers = {}
        /\ c.addHandlers \intersect LoginHandlers = {}
    BY DEF Open, Step, Coming
  <2>2. QED BY <1>1, <1>2, <1>3, <2>1 DEF Step, Coming
<1>6. Step(b) \in Steps /\ Step(b) # {} BY <1>5 DEF Steps
<1>7. Referred(b)
  <2>1. "challenge2" \notin Step(b) BY <1>5
  <2>2. "success" \in Step(b) => f = "success" /\ h = "success" BY <1>5
  <2>3. "challenge1" \in Step(b) => f = "challenge" /\ h = "challenge1" BY <1>5
  <2>4. QED BY <1>2, <1>3, <2>1, <2>2, <2>3, ReferredBy
<1>8. b.handlers = c.handlers /\ b.addHandlers \subseteq c.addHandlers \union LoginHandlers
  BY <1>1, <1>2, <1>3
<1>9. QED BY <1>3, <1>4, <1>6, <1>7, <1>8, Begins DEF a, b

(* _connect_cb, whatever the server offers.                                *)
LEMMA ConnectCbSound ==
  ASSUME NEW c, Open(c), NEW offer
  PROVE  _connect_cb(c, offer) \in Records /\ Asked(_connect_cb(c, offer))
<1> DEFINE again == [c EXCEPT !.connectRequests = @ + 1]
           anonymous == send(AwaitFailure(AwaitSuccess(c)))
           refused == _changeConnectStatus(disconnect(c), "CONNFAIL")
           digest == send(AwaitFailure(AwaitChallenge(c, "challenge1")))
           legacy == send(_addSysHandler(c, {"auth1"}))
<1>1. _connect_cb(c, offer) \in {again, anonymous, refused, digest, legacy}
  <2> HIDE DEF again, anonymous, refused, digest, legacy
  <2>1. _connect_cb(c, offer) =
          CASE offer = {} -> again
            [] ~c.node /\ "ANONYMOUS" \in offer -> anonymous
            [] offer # {} /\ ~c.node /\ "ANONYMOUS" \notin offer -> refused
            [] c.node /\ "DIGEST-MD5" \in offer -> digest
            [] c.node /\ "PLAIN" \in offer /\ "DIGEST-MD5" \notin offer -> anonymous
            [] OTHER -> legacy
    BY DEF _connect_cb, again, anonymous, refused, digest, legacy
  <2>2. c.node \in BOOLEAN BY DEF Open, LoginRecord
  <2>3. QED BY <2>1, <2>2
<1>2. again \in Records /\ Asked(again)
  <2>1. c \in LoginRecord /\ c.connectRequests = 0 BY DEF Open
  <2>2. again = Answering(c, 1, TRUE)
    <3>1. c.connected = TRUE /\ c.connectRequests + 1 = 1 BY <2>1 DEF Open, LoginRecord
    <3>2. QED BY <2>1, <3>1 DEF LoginRecord, Answering
  <2> HIDE DEF again
  <2>3. /\ again \in LoginRecord /\ SameLists(again, c) /\ again.reported = c.reported
        /\ again.connectRequests = 1 /\ again.sent = c.sent /\ again.outcome = c.outcome
        /\ again.timedHandlers = c.timedHandlers /\ again.addTimeds = c.addTimeds
        /\ again.removeTimeds = c.removeTimeds
    <3>1. 1 \in 0..1 OBVIOUS
    <3>2. QED BY <2>1, <2>2, <3>1, AnsweringIs DEF SameMood
  <2>4. Step(again) = {} /\ Verdicts(again) = 0
    BY <2>3 DEF Step, Coming, SameLists, Verdicts, Open
  <2>5. InStep(again) BY <2>4, InStepWithout
  <2>6. Ticking(again) = Ticking(c) BY <2>3 DEF Ticking
  <2>7. again.handlers = c.handlers /\ again.addHandlers = c.addHandlers BY <2>3 DEF SameLists
  <2>8. Timed(again) BY <2>3, <2>6, <2>7, LosesTimers DEF Open
  <2>9. Asked(again) BY <2>3 DEF Asked
  <2>10. QED BY <2>3, <2>5, <2>8, <2>9 DEF Records, Sound
<1>3. anonymous \in Records /\ Asked(anonymous)
  BY AwaitsBoth DEF AwaitSuccess
<1>4. digest \in Records /\ Asked(digest)
  BY AwaitsBoth DEF AwaitChallenge
<1>5. refused \in Records /\ Asked(refused)
  <2> DEFINE u == disconnect(c)
  <2>1. u \in LoginRecord /\ SameRest(u, c) /\ SameLists(u, c) /\ u.reported = c.reported
    BY Disconnects DEF Open
  <2> HIDE DEF u
  <2>2. LET t == _changeConnectStatus(u, "CONNFAIL") IN t \in Records /\ Asked(t)
    BY <2>1, NotBegun
  <2>3. QED BY <2>2 DEF u
<1>6. legacy \in Records /\ Asked(legacy)
  <2> DEFINE u == addHandler(c, {"auth1"})
  <2>1. {"auth1"} \in SUBSET Hands /\ "auth1" \in LoginHandlers BY HandlerNames
  <2>2. /\ u \in LoginRecord /\ u.addHandlers = c.addHandlers \union {"auth1"}
        /\ u.handlers = c.handlers /\ u.removeHandlers = c.removeHandlers
        /\ SameRest(u, c) /\ SameMood(u, c)
    BY <2>1, AddsHandlers DEF Open
  <2>3. legacy = send(u) BY Zenon DEF _addSysHandler
  <2> HIDE DEF u
  <2>4. Step(u) = {"auth1"} BY <2>1, <2>2 DEF Step, Coming, Open
  <2>5. Step(u) \in Steps /\ Step(u) # {} /\ Referred(u) BY <2>4, ReferredBy DEF Steps
  <2>6. u.addHandlers \subseteq c.addHandlers \union LoginHandlers BY <2>1, <2>2
  <2>7. u.reported = c.reported BY <2>2 DEF SameMood
  <2>8. QED BY <2>2, <2>3, <2>5, <2>6, <2>7, Begins
<1> HIDE DEF again, anonymous, refused, digest, legacy
<1>7. QED BY <1>1, <1>2, <1>3, <1>4, <1>5, <1>6

(* The requests for data, and whether something is to be sent.             *)
Spending(c, n, data) == [c EXCEPT !.dataRequests = n, !._data = data]
Noting(c, missed) == [c EXCEPT !.ignored = missed]

(* Nothing else changes with them, ...                                     *)
LEMMA SpendingIs ==
  ASSUME NEW c \in Records, NEW n \in Nat, NEW data \in BOOLEAN
  PROVE  LET t == Spending(c, n, data) IN
         /\ t \in Records /\ Step(t) = Step(c) /\ t.dataRequests = n /\ t._data = data
         /\ t.connected = c.connected /\ t.authenticated = c.authenticated
         /\ t.disconnecting = c.disconnecting /\ t.ignored = c.ignored
         /\ t.connectRequests = c.connectRequests /\ t.reported = c.reported
<1> DEFINE t == Spending(c, n, data)
<1>1. c \in LoginRecord BY DEF Records
<1>2. /\ t \in LoginRecord /\ SameLists(t, c) /\ t.reported = c.reported
      /\ t.dataRequests = n /\ t._data = data
      /\ t.connected = c.connected /\ t.authenticated = c.authenticated
      /\ t.disconnecting = c.disconnecting /\ t.ignored = c.ignored
      /\ t.connectRequests = c.connectRequests
      /\ t.outcome = c.outcome /\ t.sent = c.sent /\ t.timedHandlers = c.timedHandlers
      /\ t.addTimeds = c.addTimeds /\ t.removeTimeds = c.removeTimeds
  BY <1>1 DEF LoginRecord, SameLists, Spending
<1> HIDE DEF t
<1>3. t \in Records /\ Step(t) = Step(c) BY <1>2, KeepsSound
<1>4. QED BY <1>2, <1>3 DEF t

(* ... nor with the note that a reply was missed.                          *)
LEMMA NotingIs ==
  ASSUME NEW c \in Records, NEW missed \in BOOLEAN
  PROVE  LET t == Noting(c, missed) IN
         /\ t \in Records /\ Step(t) = Step(c) /\ t.ignored = missed
         /\ t.connected = c.connected /\ SameMood(t, c)
<1> DEFINE t == Noting(c, missed)
<1>1. c \in LoginRecord BY DEF Records
<1>2. /\ t \in LoginRecord /\ SameLists(t, c) /\ SameMood(t, c) /\ t.ignored = missed
      /\ t.connected = c.connected /\ t.connectRequests = c.connectRequests
      /\ t.outcome = c.outcome /\ t.sent = c.sent /\ t.timedHandlers = c.timedHandlers
      /\ t.addTimeds = c.addTimeds /\ t.removeTimeds = c.removeTimeds
  BY <1>1 DEF LoginRecord, SameLists, SameMood, Noting
<1> HIDE DEF t
<1>3. t \in Records /\ Step(t) = Step(c) BY <1>2, KeepsSound DEF SameMood
<1>4. QED BY <1>2, <1>3 DEF t

(* The reply to a request of the connecting.                               *)
LEMMA ConnectReplySound ==
  ASSUME connection \in Records, ConnectReply
  PROVE  connection' \in Records /\ Asked(connection')
<1>1. connection \in LoginRecord /\ InStep(connection) /\ Timed(connection)
  BY DEF Records, Sound
<1> DEFINE c == [connection EXCEPT !.connectRequests = @ - 1, !.connected = TRUE]
<1>2. /\ connection.connectRequests = 1
      /\ Step(connection) = {} /\ Verdicts(connection) = 0
  BY <1>1 DEF ConnectReply, LoginRecord, InStep
<1>3. c = Answering(connection, 0, TRUE) BY <1>2 DEF Answering
<1>4. \/ \E offer \in Offers : connection' = _connect_cb(c, offer)
      \/ connection' = _changeConnectStatus(c, "CONNFAIL")
      \/ connection' = Noting(c, TRUE)
  BY DEF ConnectReply, Noting
<1> HIDE DEF c
<1>5. /\ c \in LoginRecord /\ SameLists(c, connection) /\ c.reported = connection.reported
      /\ c.connectRequests = 0 /\ c.connected
      /\ c.sent = connection.sent /\ c.outcome = connection.outcome
      /\ c.timedHandlers = connection.timedHandlers /\ c.addTimeds = connection.addTimeds
      /\ c.removeTimeds = connection.removeTimeds
  <2>1. 0 \in 0..1 OBVIOUS
  <2>2. QED BY <1>1, <1>3, <2>1, AnsweringIs DEF SameMood
<1>6. Step(c) = {} /\ Verdicts(c) = 0
  BY <1>2, <1>5 DEF Step, Coming, SameLists, Verdicts
<1>7. Ticking(c) = Ticking(connection) BY <1>5 DEF Ticking
<1>8. c.handlers = connection.handlers /\ c.addHandlers = connection.addHandlers
  BY <1>5 DEF SameLists
<1>9. Timed(c) BY <1>1, <1>5, <1>7, <1>8, LosesTimers
<1>10. Open(c) BY <1>5, <1>6, <1>9 DEF Open
<1>11. CASE \E offer \in Offers : connection' = _connect_cb(c, offer)
  BY <1>10, <1>11, ConnectCbSound
<1>12. CASE connection' = _changeConnectStatus(c, "CONNFAIL")
  <2>1. SameRest(c, c) /\ SameLists(c, c) BY DEF SameRest, SameLists
  <2>2. QED BY <1>5, <1>10, <1>12, <2>1, NotBegun
<1>13. CASE connection' = Noting(c, TRUE)
  <2>1. Referred(c) BY <1>6, ReferredBy
  <2>2. InStep(c) BY <1>5, <1>6, <2>1 DEF InStep, Steps
  <2>3. c \in Records BY <1>5, <1>9, <2>2 DEF Records, Sound
  <2> DEFINE t == Noting(c, TRUE)
  <2>4. t \in Records /\ t.ignored = TRUE
    <3>1. TRUE \in BOOLEAN OBVIOUS
    <3>2. QED BY <2>3, <3>1, NotingIs
  <2> HIDE DEF t
  <2>5. Asked(t) BY <2>4 DEF Asked
  <2>6. QED BY <1>13, <2>4, <2>5 DEF t
<1>14. QED BY <1>4, <1>11, <1>12, <1>13

(* disconnect leaves the connection sound.                                 *)
LEMMA DisconnectSound ==
  ASSUME NEW c \in Records
  PROVE  disconnect(c) \in Records /\ (disconnect(c).connected => disconnect(c).disconnecting)
<1> DEFINE t == disconnect(c)
<1>1. /\ t \in LoginRecord /\ (c.connected => t.disconnecting)
      /\ t.reported = c.reported /\ SameRest(t, c) /\ SameLists(t, c)
  BY Disconnects DEF Records
<1> HIDE DEF t
<1>2. t \in Records BY <1>1, KeepsSound DEF SameRest
<1>3. QED BY <1>1, <1>2 DEF SameRest, t

(* A body with stanzas.                                                    *)
LEMMA DataSound ==
  ASSUME NEW c \in Records, NEW body \in Bodies
  PROVE  LET t == Noting(_dataRecv(c, body), _dataRecv(c, body).ignored \/ LedNowhere(c, body))
         IN t \in Records /\ Asked(t)
<1> DEFINE m == MergeHandlers(c)
           r == _dataRecv(c, body)
           missed == r.ignored \/ LedNowhere(c, body)
           t == Noting(r, missed)
<1>1. c \in LoginRecord BY DEF Records
<1>2. m \in Records /\ Merged(m) /\ SameMood(m, c) BY <1>1, Merges
<1> DEFINE gone == c.disconnecting /\ Requests(c) = 0
<1>3. r = IF gone THEN _doDisconnect(m) ELSE FoldLeft(Dispatch, m, body)
  BY DEF _dataRecv
<1>0. LedNowhere(c, body) <=> ~c.authenticated /\ \A s \in ToSet(body) : ~LeadsOn(m, s)
  BY DEF LedNowhere
<1> HIDE DEF m, r, gone
<1>4. m.authenticated = c.authenticated BY <1>2 DEF SameMood
<1>5. missed \in BOOLEAN
  <2>1. r \in Records
    <3>1. _doDisconnect(m) \in Records BY <1>2, GoesDown
    <3>2. FoldLeft(Dispatch, m, body) \in Records BY <1>2, DispatchesBody
    <3>3. QED BY <1>3, <3>1, <3>2
  <2>2. r.ignored \in BOOLEAN BY <2>1 DEF Records, LoginRecord
  <2>3. QED BY <1>0, <2>2
<1>6. CASE gone
  <2>1. r = _doDisconnect(m) BY <1>3, <1>6
  <2>2. r \in Records /\ ~r.connected BY <1>2, <2>1, GoesDown
  <2> HIDE DEF missed
  <2>3. t \in Records /\ t.connected = r.connected BY <1>5, <2>2, NotingIs
  <2>4. QED BY <2>2, <2>3 DEF Asked, missed, r, m
<1>7. CASE ~gone
  <2>1. r = FoldLeft(Dispatch, m, body) BY <1>3, <1>7
  <2>2. /\ r \in Records /\ (m.authenticated => r.authenticated)
        /\ ~m.authenticated /\ (\E s \in ToSet(body) : LeadsOn(m, s)) => Progressed(r)
    BY <1>2, <2>1, DispatchesBody
  <2>3. m.authenticated \in BOOLEAN BY <1>2 DEF Records, LoginRecord
  <2>4. r.authenticated \/ missed \/ Progressed(r) BY <1>0, <1>4, <2>2, <2>3
  <2> HIDE DEF missed
  <2>5. /\ t \in Records /\ t.ignored = missed /\ SameMood(t, r) /\ Step(t) = Step(r)
    BY <1>5, <2>2, NotingIs
  <2> HIDE DEF t
  <2>6. Asked(t) BY <2>4, <2>5 DEF Asked, Progressed, SameMood
  <2>7. QED BY <2>5, <2>6 DEF t, missed, r, m
<1>8. QED BY <1>6, <1>7

(* A body that ends the session.                                           *)
LEMMA TerminatedSound ==
  ASSUME NEW c \in Records
  PROVE  Terminated(c) \in Records /\ Asked(Terminated(c))
<1> DEFINE m == MergeHandlers(c)
           gone == c.disconnecting /\ Requests(c) = 0
           v == _changeConnectStatus(m, "CONNFAIL")
<1>1. m \in Records /\ m.disconnecting = c.disconnecting
  BY Merges DEF Records, SameMood
<1>2. Terminated(c) = IF gone THEN _doDisconnect(m) ELSE IF c.disconnecting THEN m ELSE disconnect(v)
  BY DEF Terminated
<1> HIDE DEF m, gone
<1>3. _doDisconnect(m) \in Records /\ Asked(_doDisconnect(m)) BY <1>1, GoesDown DEF Asked
<1>4. c.disconnecting => Asked(m) BY <1>1 DEF Asked
<1>5. v \in Records
  <2>1. "CONNFAIL" \in Statuses /\ "CONNECTED" \in Statuses /\ "AUTHFAIL" \in Statuses
    BY DEF Statuses
  <2>2. m \in LoginRecord /\ InStep(m) /\ Timed(m) BY <1>1 DEF Records, Sound
  <2>3. /\ v \in LoginRecord
        /\ \A s \in Statuses : s # "CONNFAIL" => v.reported[s] = m.reported[s]
        /\ SameRest(v, m) /\ SameLists(v, m)
    BY <2>1, <2>2, Reports
  <2> HIDE DEF v
  <2>4. Verdicts(v) = Verdicts(m) BY <2>1, <2>3 DEF Verdicts
  <2>5. Coming(v) = Coming(m) BY <2>3 DEF Coming, SameLists
  <2>6. Step(v) = Step(m) /\ Referred(v) BY <2>2, <2>3, <2>5 DEF Step, Referred, SameLists, InStep
  <2>7. InStep(v) BY <2>2, <2>3, <2>4, <2>6 DEF InStep, SameRest
  <2>8. v.handlers = m.handlers /\ v.addHandlers = m.addHandlers BY <2>3 DEF SameLists
  <2>9. Timed(v) BY <2>2, <2>3, <2>8, StaysTimed
  <2>10. QED BY <2>3, <2>7, <2>9 DEF Records, Sound
<1> HIDE DEF v
<1>6. disconnect(v) \in Records /\ Asked(disconnect(v)) BY <1>5, DisconnectSound DEF Asked
<1>7. QED BY <1>1, <1>2, <1>3, <1>4, <1>6

(* The reply to a request for data.                                        *)
LEMMA ReplySound ==
  ASSUME connection \in Records, Reply
  PROVE  connection' \in Records /\ Asked(connection')
<1> DEFINE n == connection.dataRequests - 1
           c == [connection EXCEPT !.dataRequests = @ - 1]
<1>1. connection \in LoginRecord BY DEF Records
<1>2. n \in Nat /\ connection._data \in BOOLEAN BY <1>1 DEF Reply, LoginRecord
<1>3. c = Spending(connection, n, connection._data)
  BY <1>1 DEF Spending, LoginRecord
<1> HIDE DEF n
<1>4. c \in Records
  <2> HIDE DEF c
  <2>1. QED BY <1>2, <1>3, SpendingIs
<1>5. \/ \E body \in Bodies :
           connection' = [_dataRecv(c, body) EXCEPT !.ignored = @ \/ LedNowhere(c, body)]
      \/ connection' = Terminated(c)
      \/ connection' = Noting(c, c.ignored \/ ~c.authenticated)
  BY DEF Reply, Noting
<1> HIDE DEF c
<1>6. ASSUME NEW body \in Bodies,
             connection' = [_dataRecv(c, body) EXCEPT !.ignored = @ \/ LedNowhere(c, body)]
      PROVE  connection' \in Records /\ Asked(connection')
  <2>1. connection' = Noting(_dataRecv(c, body), _dataRecv(c, body).ignored \/ LedNowhere(c, body))
    BY <1>6 DEF Noting
  <2>2. QED BY <1>4, <2>1, DataSound
<1>7. CASE connection' = Terminated(c) BY <1>4, <1>7, TerminatedSound
<1>8. CASE connection' = Noting(c, c.ignored \/ ~c.authenticated)
  <2> DEFINE missed == c.ignored \/ ~c.authenticated
             t == Noting(c, missed)
  <2>1. c.ignored \in BOOLEAN /\ c.authenticated \in BOOLEAN BY <1>4 DEF Records, LoginRecord
  <2>2. missed \in BOOLEAN /\ (missed \/ c.authenticated) BY <2>1
  <2> HIDE DEF missed
  <2>3. t \in Records /\ t.ignored = missed /\ t.authenticated = c.authenticated
    BY <1>4, <2>2, NotingIs DEF SameMood
  <2> HIDE DEF t
  <2>4. Asked(t) BY <2>2, <2>3 DEF Asked
  <2>5. QED BY <1>8, <2>3, <2>4 DEF t, missed
<1>9. QED BY <1>5, <1>6, <1>7, <1>8

(* The connection is given up.                                             *)
LEMMA ConnectionEndsSound ==
  ASSUME connection \in Records, ConnectionEnds
  PROVE  connection' \in Records /\ Asked(connection')
<1> DEFINE d == _doDisconnect(connection)
           a == Answering(d, 0, FALSE)
<1>1. d \in Records /\ ~d.connected BY GoesDown
<1>2. connection' = [d EXCEPT !.connectRequests = 0, !.dataRequests = 0] BY DEF ConnectionEnds
<1> HIDE DEF d
<1>3. d \in LoginRecord /\ InStep(d) /\ Timed(d) BY <1>1 DEF Records, Sound
<1>4. /\ a \in LoginRecord /\ SameLists(a, d) /\ SameMood(a, d)
      /\ a.connectRequests = 0 /\ a.connected = FALSE
      /\ a.sent = d.sent /\ a.outcome = d.outcome /\ a.timedHandlers = d.timedHandlers
      /\ a.addTimeds = d.addTimeds /\ a.removeTimeds = d.removeTimeds
  <2>1. 0 \in 0..1 OBVIOUS
  <2>2. QED BY <1>3, <2>1, AnsweringIs
<1>5. connection' = Spending(a, 0, a._data)
  <2>1. d.connected = FALSE BY <1>1, <1>3 DEF LoginRecord
  <2>2. QED BY <1>2, <1>3, <2>1 DEF Answering, Spending, LoginRecord
<1> HIDE DEF a
<1>6. a \in Records
  <2>1. Step(a) = Step(d) BY <1>4 DEF Step, Coming, SameLists
  <2>2. Step(a) = {} BY <1>1, <1>3, <2>1 DEF InStep
  <2>3. Verdicts(a) = Verdicts(d) BY <1>4 DEF Verdicts, SameMood
  <2>4. Referred(a) BY <2>2, ReferredBy
  <2>5. InStep(a) BY <1>3, <1>4, <2>2, <2>3, <2>4 DEF InStep, Steps
  <2>6. Ticking(a) = Ticking(d) BY <1>4 DEF Ticking
  <2>7. a.handlers = d.handlers /\ a.addHandlers = d.addHandlers BY <1>4 DEF SameLists
  <2>8. Timed(a) BY <1>3, <1>4, <2>6, <2>7, LosesTimers
  <2>9. QED BY <1>4, <2>5, <2>8 DEF Records, Sound
<1>7. connection' \in Records /\ connection'.connected = a.connected
  <2>1. a._data \in BOOLEAN BY <1>4 DEF LoginRecord
  <2>2. QED BY <1>5, <1>6, <2>1, SpendingIs
<1>8. QED BY <1>4, <1>7 DEF Asked

(* The IQs that were sent, and the timers.                                 *)
Noted(c, iqs) == [c EXCEPT !.sent = iqs]
Timers(c, timed, add, remove) ==
  [c EXCEPT !.timedHandlers = timed, !.addTimeds = add, !.removeTimeds = remove]

(* The handlers and the rest do not change with them.                      *)
LEMMA TimersAre ==
  ASSUME NEW c \in LoginRecord, NEW timed \in SUBSET Iqs, NEW add \in SUBSET Iqs,
         NEW remove \in SUBSET Iqs
  PROVE  LET t == Timers(c, timed, add, remove) IN
         /\ t \in LoginRecord /\ SameLists(t, c) /\ SameMood(t, c)
         /\ t.connected = c.connected /\ t.connectRequests = c.connectRequests
         /\ t.ignored = c.ignored /\ t.sent = c.sent /\ t.outcome = c.outcome
         /\ t.timedHandlers = timed /\ t.addTimeds = add /\ t.removeTimeds = remove
BY DEF LoginRecord, SameLists, SameMood, Timers

(* Nor with the note that an IQ is sent.                                   *)
LEMMA NotedIs ==
  ASSUME NEW c \in LoginRecord, NEW iqs \in SUBSET Iqs
  PROVE  LET t == Noted(c, iqs) IN
         /\ t \in LoginRecord /\ SameLists(t, c) /\ SameMood(t, c)
         /\ t.connected = c.connected /\ t.connectRequests = c.connectRequests
         /\ t.ignored = c.ignored /\ t.sent = iqs /\ t.outcome = c.outcome
         /\ t.timedHandlers = c.timedHandlers /\ t.addTimeds = c.addTimeds
         /\ t.removeTimeds = c.removeTimeds
BY DEF LoginRecord, SameLists, SameMood, Noted

(* An IQ is sent with a handler and a timer.                               *)
LEMMA SendIQSound ==
  ASSUME connection \in Records, NEW i \in Iqs, sendIQ(i)
  PROVE  connection' \in Records /\ Asked(connection')
<1> DEFINE c == connection
           a == Noted(c, c.sent \union {i})
           b == addHandler(a, {i})
           d == Timers(b, b.timedHandlers, b.addTimeds \union {i}, b.removeTimeds)
           t == send(d)
<1>1. c \in LoginRecord /\ InStep(c) /\ Timed(c) BY DEF Records, Sound
<1>2. c.authenticated /\ i \notin c.sent BY DEF sendIQ
<1>3. /\ a \in LoginRecord /\ SameLists(a, c) /\ SameMood(a, c)
      /\ a.connected = c.connected /\ a.connectRequests = c.connectRequests
      /\ a.ignored = c.ignored /\ a.sent = c.sent \union {i} /\ a.outcome = c.outcome
      /\ a.timedHandlers = c.timedHandlers /\ a.addTimeds = c.addTimeds
      /\ a.removeTimeds = c.removeTimeds
  <2>1. c.sent \union {i} \in SUBSET Iqs BY <1>1 DEF LoginRecord
  <2> HIDE DEF c
  <2>2. QED BY <1>1, <2>1, NotedIs
<1>4. connection' = send(addTimedHandler(addHandler(a, {i}), i))
  BY DEF sendIQ, Noted
<1> HIDE DEF a, c
<1>5. /\ b \in LoginRecord /\ b.addHandlers = a.addHandlers \union {i}
      /\ b.handlers = a.handlers /\ b.removeHandlers = a.removeHandlers /\ b.refs = a.refs
      /\ SameRest(b, a) /\ SameMood(b, a)
  <2>1. {i} \in SUBSET Hands BY HandlerNames
  <2>2. QED BY <1>3, <2>1, AddsHandlers
<1> HIDE DEF b
<1>6. /\ d \in LoginRecord /\ SameLists(d, b) /\ SameMood(d, b)
      /\ d.connected = b.connected /\ d.connectRequests = b.connectRequests
      /\ d.ignored = b.ignored /\ d.sent = b.sent /\ d.outcome = b.outcome
      /\ d.timedHandlers = b.timedHandlers /\ d.addTimeds = b.addTimeds \union {i}
      /\ d.removeTimeds = b.removeTimeds
  <2>1. /\ b.timedHandlers \in SUBSET Iqs /\ b.addTimeds \union {i} \in SUBSET Iqs
        /\ b.removeTimeds \in SUBSET Iqs
    BY <1>5 DEF LoginRecord
  <2>2. QED BY <1>5, <2>1, TimersAre
<1>7. addTimedHandler(b, i) = d BY <1>5 DEF addTimedHandler, Timers, LoginRecord
<1> HIDE DEF d
<1>8. /\ t \in LoginRecord /\ t.reported = d.reported /\ t.authenticated = d.authenticated
      /\ SameRest(t, d) /\ SameLists(t, d)
  BY <1>6, Sends
<1>9. connection' = t BY <1>4, <1>7 DEF b
<1> HIDE DEF t
<1>10. /\ t.handlers = c.handlers /\ t.addHandlers = c.addHandlers \union {i}
       /\ t.removeHandlers = c.removeHandlers /\ t.refs = c.refs
  BY <1>3, <1>5, <1>6, <1>8 DEF SameLists
<1>11. t.reported = c.reported /\ t.authenticated = c.authenticated
  BY <1>3, <1>5, <1>6, <1>8 DEF SameMood
<1>12. /\ t.connected = c.connected /\ t.connectRequests = c.connectRequests
       /\ t.sent = c.sent \union {i} /\ t.outcome = c.outcome
       /\ t.timedHandlers = c.timedHandlers /\ t.addTimeds = c.addTimeds \union {i}
       /\ t.removeTimeds = c.removeTimeds
  BY <1>3, <1>5, <1>6, <1>8 DEF SameRest
<1>13. InStep(t)
  <2>1. Step(t) = Step(c) BY <1>10, HandlerNames DEF Step, Coming
  <2>2. QED BY <1>1, <1>10, <1>11, <1>12, <2>1, StaysInStep
<1>14. Timed(t)
  <2>1. Ticking(t) \subseteq Ticking(c) \union {i} BY <1>12 DEF Ticking
  <2>2. c.outcome[i] = << >> BY <1>1, <1>2 DEF Timed
  <2>3. ASSUME NEW j \in Iqs
        PROVE  /\ j \notin t.sent =>
                    /\ t.outcome[j] = << >>
                    /\ j \notin t.timedHandlers \union t.addTimeds
                    /\ j \notin t.handlers \union t.addHandlers
               /\ t.outcome[j] # << >> /\ t.outcome[j][1] = "answered" => j \notin Ticking(t)
               /\ t.outcome[j] # << "answered", "timeout" >>
    <3>1. /\ j \notin c.sent =>
               /\ c.outcome[j] = << >>
               /\ j \notin c.timedHandlers \union c.addTimeds
               /\ j \notin c.handlers \union c.addHandlers
          /\ c.outcome[j] # << >> /\ c.outcome[j][1] = "answered" => j \notin Ticking(c)
          /\ c.outcome[j] # << "answered", "timeout" >>
      BY <1>1 DEF Timed
    <3>2. j = i => t.outcome[j] = << >> BY <1>12, <2>2
    <3>3. QED BY <1>10, <1>12, <2>1, <3>1, <3>2
  <2>4. QED BY <2>3 DEF Timed
<1>15. Asked(t) BY <1>2, <1>11 DEF Asked, c
<1>16. QED BY <1>8, <1>9, <1>13, <1>14, <1>15 DEF Records, Sound

(* The outcomes of IQs that time out.                                      *)
LEMMA TimesOut ==
  ASSUME NEW c \in LoginRecord, NEW iqs \in SUBSET Iqs
  PROVE  LET t == Outcome(c, iqs, "timeout") IN
         /\ t \in LoginRecord /\ SameLists(t, c) /\ SameMood(t, c)
         /\ t.connected = c.connected /\ t.connectRequests = c.connectRequests
         /\ t.ignored = c.ignored /\ t.sent = c.sent
         /\ t.timedHandlers = c.timedHandlers /\ t.addTimeds = c.addTimeds
         /\ t.removeTimeds = c.removeTimeds
         /\ \A j \in Iqs :
              t.outcome[j] = IF j \in iqs /\ Len(c.outcome[j]) < 2
                             THEN Append(c.outcome[j], "timeout") ELSE c.outcome[j]
<1> DEFINE o == [j \in Iqs |-> IF j \in iqs /\ Len(c.outcome[j]) < 2
                               THEN Append(c.outcome[j], "timeout") ELSE c.outcome[j]]
           t == Outcome(c, iqs, "timeout")
<1>1. o \in [Iqs -> Seq({"answered", "timeout"})]
  <2>1. \A j \in Iqs : c.outcome[j] \in Seq({"answered", "timeout"}) BY DEF LoginRecord
  <2>2. \A x \in Seq({"answered", "timeout"}) :
          Append(x, "timeout") \in Seq({"answered", "timeout"})
    BY AppendProperties
  <2>3. QED BY <2>1, <2>2
<1>2. t = [c EXCEPT !.outcome = o] BY DEF Outcome, LoginRecord
<1>3. \A j \in Iqs : o[j] = IF j \in iqs /\ Len(c.outcome[j]) < 2
                            THEN Append(c.outcome[j], "timeout") ELSE c.outcome[j]
  OBVIOUS
<1> HIDE DEF o, t
<1>4. /\ t \in LoginRecord /\ SameLists(t, c) /\ SameMood(t, c)
      /\ t.connected = c.connected /\ t.connectRequests = c.connectRequests
      /\ t.ignored = c.ignored /\ t.sent = c.sent
      /\ t.timedHandlers = c.timedHandlers /\ t.addTimeds = c.addTimeds
      /\ t.removeTimeds = c.removeTimeds /\ t.outcome = o
  BY <1>1, <1>2 DEF LoginRecord, SameLists, SameMood
<1>5. QED BY <1>3, <1>4 DEF t

(* The idle function: timers that are over fire, but none whose IQ has     *)
(* been answered, for that one was deleted at the merge.                   *)
LEMMA OnIdleSound ==
  ASSUME connection \in Records, Asked(connection), NEW due \in SUBSET Iqs,
         connection' = _onIdle(connection, due)
  PROVE  connection' \in Records /\ Asked(connection')
<1> DEFINE c == connection
           m == MergeTimeds(c)
           fired == IF m.authenticated THEN m.timedHandlers \intersect due ELSE {}
           left == IF m.authenticated THEN m.timedHandlers \ due ELSE {}
           a == [m EXCEPT !.timedHandlers = IF m.authenticated THEN @ \ due ELSE {}]
           b == deleteHandler(a, fired)
           t == IqsTimedOut(a, fired)
           polls == t.authenticated /\ Requests(t) = 0 /\ ~t._data /\ ~t.disconnecting
           asks == Requests(t) < 2 /\ (t._data \/ polls)
           u == [t EXCEPT !.dataRequests = @ + 1, !._data = FALSE]
<1>1. c \in LoginRecord /\ InStep(c) /\ Timed(c) BY DEF Records, Sound
<1>2. connection' = IF asks THEN u ELSE t BY DEF _onIdle
<1>3. /\ m \in LoginRecord /\ SameLists(m, c) /\ SameMood(m, c)
      /\ m.connected = c.connected /\ m.connectRequests = c.connectRequests
      /\ m.ignored = c.ignored /\ m.sent = c.sent /\ m.outcome = c.outcome
      /\ m.timedHandlers = Ticking(c) /\ m.addTimeds = {} /\ m.removeTimeds = {}
  <2>1. Ticking(c) \in SUBSET Iqs BY <1>1 DEF LoginRecord, Ticking
  <2>2. m = Timers(c, Ticking(c), {}, {})
    BY <1>1 DEF MergeTimeds, Timers, Ticking
  <2> HIDE DEF c, m
  <2>3. QED BY <1>1, <2>1, <2>2, TimersAre
<1> HIDE DEF c, m
<1>4. a = Timers(m, left, {}, {}) BY <1>3 DEF Timers, LoginRecord
<1>5. fired \in SUBSET Iqs /\ left \in SUBSET Iqs /\ fired \subseteq Ticking(c) /\ left \subseteq Ticking(c)
  BY <1>1, <1>3 DEF Ticking, LoginRecord
<1> HIDE DEF a, left, fired
<1>6. /\ a \in LoginRecord /\ SameLists(a, m) /\ SameMood(a, m)
      /\ a.connected = m.connected /\ a.connectRequests = m.connectRequests
      /\ a.ignored = m.ignored /\ a.sent = m.sent /\ a.outcome = m.outcome
      /\ a.timedHandlers = left /\ a.addTimeds = {} /\ a.removeTimeds = {}
  <2>1. {} \in SUBSET Iqs OBVIOUS
  <2>2. QED BY <1>3, <1>4, <1>5, <2>1, TimersAre
<1>7. /\ b \in LoginRecord /\ b.removeHandlers = a.removeHandlers \union fired
      /\ b.handlers = a.handlers /\ b.addHandlers = a.addHandlers /\ b.refs = a.refs
      /\ SameRest(b, a) /\ SameMood(b, a)
  <2>1. fired \in SUBSET Hands BY <1>5, HandlerNames
  <2>2. QED BY <1>6, <2>1, DeletesHandlers
<1>8. t = Outcome(b, fired, "timeout") BY DEF IqsTimedOut
<1> HIDE DEF b, t
<1>9. /\ t \in LoginRecord /\ SameLists(t, b) /\ SameMood(t, b)
      /\ t.connected = b.connected /\ t.connectRequests = b.connectRequests
      /\ t.ignored = b.ignored /\ t.sent = b.sent
      /\ t.timedHandlers = b.timedHandlers /\ t.addTimeds = b.addTimeds
      /\ t.removeTimeds = b.removeTimeds
      /\ \A j \in Iqs :
           t.outcome[j] = IF j \in fired /\ Len(b.outcome[j]) < 2
                          THEN Append(b.outcome[j], "timeout") ELSE b.outcome[j]
  BY <1>5, <1>7, <1>8, TimesOut
<1>10. SameMood(t, c) BY <1>3, <1>6, <1>7, <1>9 DEF SameMood
<1>11. /\ t.handlers = c.handlers /\ t.addHandlers = c.addHandlers
       /\ t.removeHandlers = c.removeHandlers \union fired /\ t.refs = c.refs
  BY <1>3, <1>6, <1>7, <1>9 DEF SameLists
<1>12. /\ t.connected = c.connected /\ t.connectRequests = c.connectRequests
       /\ t.ignored = c.ignored /\ t.sent = c.sent /\ b.outcome = c.outcome
       /\ t.timedHandlers = left /\ t.addTimeds = {} /\ t.removeTimeds = {}
  BY <1>3, <1>6, <1>7, <1>9 DEF SameRest
<1>13. Step(t) = Step(c) BY <1>5, <1>11, HandlerNames DEF Step, Coming
<1>14. InStep(t) BY <1>1, <1>10, <1>11, <1>12, <1>13, StaysInStep DEF SameMood
<1>15. Timed(t)
  <2>1. Ticking(t) = left BY <1>12 DEF Ticking
  <2>2. ASSUME NEW j \in Iqs
        PROVE  /\ j \notin t.sent =>
                    /\ t.outcome[j] = << >>
                    /\ j \notin t.timedHandlers \union t.addTimeds
                    /\ j \notin t.handlers \union t.addHandlers
               /\ t.outcome[j] # << >> /\ t.outcome[j][1] = "answered" => j \notin Ticking(t)
               /\ t.outcome[j] # << "answered", "timeout" >>
    <3> DEFINE o == c.outcome[j]
    <3>1. /\ j \notin c.sent =>
               /\ o = << >>
               /\ j \notin c.timedHandlers \union c.addTimeds
               /\ j \notin c.handlers \union c.addHandlers
          /\ o # << >> /\ o[1] = "answered" => j \notin Ticking(c)
          /\ o # << "answered", "timeout" >>
      BY <1>1 DEF Timed
    <3>2. o \in Seq({"answered", "timeout"}) BY <1>1 DEF LoginRecord
    <3>3. t.outcome[j] = IF j \in fired /\ Len(o) < 2 THEN Append(o, "timeout") ELSE o
      BY <1>9, <1>12
    <3> HIDE DEF o
    <3>4. CASE j \in fired /\ Len(o) < 2
      <4>1. j \in Ticking(c) BY <1>5, <3>4
      <4>2. ~(o # << >> /\ o[1] = "answered") BY <3>1, <4>1
      <4>3. j \in c.sent BY <3>1, <4>1 DEF Ticking
      <4> DEFINE p == Append(o, "timeout")
      <4>4. /\ p # << >> /\ (o # << >> => p[1] = o[1]) /\ (o = << >> => p[1] = "timeout")
            /\ \A x, y : p = << x, y >> => o # << >> /\ o[1] = x
        <5>1. "timeout" \in {"answered", "timeout"} OBVIOUS
        <5>2. QED BY <3>2, <5>1, AppendsLast
      <4> HIDE DEF p
      <4>5. p[1] # "answered"
        <5>1. "timeout" # "answered" OBVIOUS
        <5>2. QED BY <4>2, <4>4, <5>1
      <4>6. p # << "answered", "timeout" >> BY <4>2, <4>4, Zenon
      <4>7. t.outcome[j] = p BY <3>3, <3>4 DEF p
      <4>8. QED BY <1>12, <4>3, <4>5, <4>6, <4>7
    <3>5. CASE ~(j \in fired /\ Len(o) < 2)
      <4>1. t.outcome[j] = o BY <3>3, <3>5
      <4>2. j \in t.timedHandlers \union t.addTimeds => j \in c.timedHandlers \union c.addTimeds
        BY <1>5, <1>12 DEF Ticking
      <4>3. j \in Ticking(t) => j \in Ticking(c) BY <1>5, <2>1
      <4>4. QED BY <1>11, <1>12, <3>1, <4>1, <4>2, <4>3
    <3>6. QED BY <3>4, <3>5
  <2>3. QED BY <2>2 DEF Timed
<1>16. t \in Records BY <1>9, <1>14, <1>15 DEF Records, Sound
<1>17. Asked(t)
  <2>1. Asked(c) BY DEF c
  <2>2. QED BY <2>1, <1>10, <1>12, <1>13 DEF Asked, SameMood
<1> DEFINE n == t.dataRequests + 1
<1>18. n \in Nat /\ n > 0 BY <1>9 DEF LoginRecord
<1>19. u = Spending(t, n, FALSE) BY <1>9 DEF Spending, LoginRecord
<1> HIDE DEF n, u, asks
<1>20. u \in Records /\ Asked(u)
  <2>1. /\ u \in Records /\ Step(u) = Step(t) /\ u.dataRequests = n
        /\ u.connected = t.connected /\ u.authenticated = t.authenticated
        /\ u.disconnecting = t.disconnecting /\ u.ignored = t.ignored
        /\ u.connectRequests = t.connectRequests /\ u.reported = t.reported
    BY <1>16, <1>18, <1>19, SpendingIs
  <2>2. QED BY <1>17, <1>18, <2>1 DEF Asked
<1>21. QED BY <1>2, <1>16, <1>17, <1>20
-----------------------------------------------------------------------------
(* The inductive invariant.                                                *)
LoginInv == connection \in Records /\ Asked(connection)

(* Every step preserves it.                                                *)
LEMMA NextSound ==
  ASSUME LoginInv, [Next]_vars
  PROVE  LoginInv'
<1>1. connection \in Records /\ Asked(connection) BY DEF LoginInv
<1>2. CASE Connect BY <1>1, <1>2, ConnectSound DEF LoginInv
<1>3. CASE ConnectReply BY <1>1, <1>3, ConnectReplySound DEF LoginInv
<1>4. CASE Reply BY <1>1, <1>4, ReplySound DEF LoginInv
<1>5. CASE ConnectionEnds BY <1>1, <1>5, ConnectionEndsSound DEF LoginInv
<1>6. CASE Disconnect
  <2>1. connection' = disconnect(connection) BY <1>6 DEF Disconnect
  <2>2. QED BY <1>1, <2>1, DisconnectSound DEF LoginInv, Asked
<1>7. ASSUME NEW i \in Iqs, sendIQ(i) PROVE LoginInv'
  BY <1>1, <1>7, SendIQSound DEF LoginInv
<1>8. CASE OnIdle
  <2>1. PICK due \in SUBSET Iqs : connection' = _onIdle(connection, due) BY <1>8 DEF OnIdle
  <2>2. QED BY <1>1, <2>1, OnIdleSound DEF LoginInv
<1>9. CASE UNCHANGED vars BY <1>1, <1>9 DEF vars, LoginInv
<1>10. QED BY <1>2, <1>3, <1>4, <1>5, <1>6, <1>7, <1>8, <1>9 DEF Next

(* The handlers are always those of one step of the login, the references  *)
(* are to them, and the timers of answered IQs do not run.                 *)
THEOREM LoginHolds == Spec => []LoginInv
<1>1. Init => LoginInv BY InitSound DEF LoginInv
<1>2. LoginInv /\ [Next]_vars => LoginInv' BY NextSound
<1>3. QED BY <1>1, <1>2, PTL DEF Spec

(* A login gets one verdict: CONNECTED or AUTHFAIL, once.                  *)
THEOREM VerdictIsOne == Spec => []OneVerdict
<1>1. LoginInv => OneVerdict
  <2> SUFFICES ASSUME LoginInv PROVE OneVerdict OBVIOUS
  <2>1. Verdicts(connection) = 0 \/ Verdicts(connection) = 1
    BY DEF LoginInv, Records, Sound, InStep
  <2>2. QED BY <2>1 DEF Verdicts, OneVerdict
<1>2. QED BY <1>1, LoginHolds, PTL

(* A login that has no verdict waits for the server, with a handler that   *)
(* takes the answer, unless a reply led nowhere: there the code leaves it, *)
(* with no request and no report.                                          *)
THEOREM NoLoginIsForgotten == Spec => []LoginGoesOn
<1>1. LoginInv => LoginGoesOn
  <2> SUFFICES ASSUME LoginInv,
                      connection.connected, ~connection.disconnecting, ~connection.authenticated,
                      connection.reported = NothingReported, ~connection.ignored,
                      ~(connection.connectRequests > 0)
               PROVE  /\ connection.dataRequests > 0 \/ connection._data
                      /\ \E hand \in LoginHandlers \intersect Awaited : Matches[hand] \notin {"failure"}
    BY DEF LoginGoesOn
  <2>1. (connection.dataRequests > 0 \/ connection._data) /\ Step(connection) # {}
    BY DEF LoginInv, Asked
  <2>2. Step(connection) \in Steps BY DEF LoginInv, Records, Sound, InStep
  <2>3. Step(connection) = LoginHandlers \intersect Awaited BY DEF Step, Coming, Awaited
  <2>4. \E hand \in {"success", "challenge1", "auth1", "auth2", "features", "bind", "session"} :
          hand \in Step(connection)
    BY <2>1, <2>2 DEF Steps
  <2>5. \A hand \in {"success", "challenge1", "auth1", "auth2", "features", "bind", "session"} :
          Matches[hand] \notin {"failure"}
    BY HandlerKeys
  <2>6. QED BY <2>1, <2>3, <2>4, <2>5
<1>2. QED BY <1>1, LoginHolds, PTL

(* An IQ that has been answered does not time out.                         *)
THEOREM AnsweredIsFinal == Spec => []NoTimeoutAfterReply
<1>1. LoginInv => NoTimeoutAfterReply
  BY DEF LoginInv, Records, Sound, Timed, NoTimeoutAfterReply, Then
<1>2. QED BY <1>1, LoginHolds, PTL
=============================================================================
