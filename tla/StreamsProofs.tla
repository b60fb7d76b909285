--------------------------- MODULE StreamsProofs ---------------------------
(***************************************************************************)
(* Proofs about Streams, for every number of requests, streams and held    *)
(* responses.                                                              *)
(*                                                                         *)
(* As the actions of Streams are compositions of functions from a session  *)
(* to a session, so is the proof: Records is the set of the sessions that  *)
(* have the right types and satisfy Sound, every function of the code has  *)
(* a lemma that says it leads from Records to Records, and the invariant   *)
(* is that the session is in Records.  Sound joins what the three          *)
(* properties need of each other: the tables must agree for a stream that  *)
(* ends to be found, nothing that is queued may be for a stream that has   *)
(* ended, and a stream that has been served before another one waits       *)
(* behind it (InTurn) wherever next_stream points.                         *)
(*                                                                         *)
(* The loops of the code are folds.  SequenceLemmas has the induction over *)
(* their steps; Serving, Releasing and Processing are its instances for    *)
(* send_pending_responses, a terminate of all streams, process_requests.   *)
(***************************************************************************)
EXTENDS Streams, SequenceLemmas, FiniteSetTheorems

(* What a stream can be sent besides stanzas.                              *)
Responses == {"create", "add", "terminate"}

(* The type of the session.                                                *)
SessionRecord ==
  [status : {"none", "open", "terminated"}, rid : 0..MaxRid, res : SUBSET Rid,
   max_rid_sent : 0..MaxRid,
   queued_requests : [Rid -> [kind : Kinds \union {"none", "body"}, stream : 0..MaxStreams]],
   streams : Seq(Stream), next_stream : Nat,
   pending_stanzas : [Stream -> Nat], pending_bosh_responses : [Stream -> Seq(Responses)],
   has_next_tick : BOOLEAN, timeout : BOOLEAN,
   _sn_state : SUBSET Stream, sn_length : Int, sid_length : Int,
   connector : [Stream -> Entry],
   added : 0..MaxStreams, stanzas : Nat, named : SUBSET Stream, told : SUBSET Stream,
   target : [Rid -> 0..MaxStreams], nodes : [Rid -> SUBSET Stream],
   passed : [Stream -> [Stream -> 0..1]]]

(* The session lists every stream once; the store and the connector have   *)
(* the same streams, and both counts are right.                            *)
Listed(s) ==
  /\ \A i, j \in 1..Len(s.streams) : s.streams[i] = s.streams[j] => i = j
  /\ \A st \in Stream : st \in s._sn_state <=> \E i \in 1..Len(s.streams) : s.streams[i] = st
  /\ \A st \in Stream : st \in s._sn_state <=> s.connector[st] \in {"opening", "up"}
  /\ Len(s.streams) = s.sn_length
  /\ Cardinality(s._sn_state) = s.sn_length
  /\ \A st \in Stream : st \in s._sn_state => st <= s.added

(* Nothing that is queued is for a stream that has ended, and every stream *)
(* that a queued request adds is within the bound.                         *)
Adds(s) == {r \in Rid : s.queued_requests[r].kind \in {"add", "refused"}}

Queued(s) ==
  /\ s.added + Cardinality(Adds(s)) <= MaxStreams
  /\ \A r \in Rid : s.queued_requests[r].stream # 0 => s.queued_requests[r].stream \in s._sn_state
  /\ \A st \in Stream : HasPending(s, st) => st \in s._sn_state

(* A queued request is for its target; those that have not been taken yet  *)
(* have reached no stream.                                                 *)
Addressed(s) ==
  /\ \A r \in Rid :
       /\ s.queued_requests[r].kind \in {"data", "terminate"} => s.queued_requests[r].stream = s.target[r]
       /\ s.queued_requests[r].kind \in {"restart", "add", "refused"} => s.target[r] = 0
  /\ \A r \in Rid : r > s.rid => s.nodes[r] = {}
  /\ \A r \in Rid : s.target[r] # 0 => s.nodes[r] \subseteq {s.target[r]}

(* The stream at position i has its turn before the one at position j.     *)
Before(i, j, n) == \/ i > n /\ (j <= n \/ i < j)
                   \/ i <= n /\ j <= n /\ i < j

InTurn(s) ==
  /\ s.next_stream <= Len(s.streams)
  /\ \A i, j \in 1..Len(s.streams) :
       s.passed[s.streams[i]][s.streams[j]] # 0 => Before(i, j, s.next_stream)
  /\ \A x, y \in Stream : x > s.added \/ y > s.added => s.passed[x][y] = 0

Sound(s) == Listed(s) /\ Queued(s) /\ Addressed(s) /\ InTurn(s)
Records == {s \in SessionRecord : Sound(s)}

-----------------------------------------------------------------------------
(* A response is queued for a stream that the session has.                 *)
LEMMA EnqueueSound ==
  ASSUME NEW s \in Records, NEW st \in Stream, st \in s._sn_state, NEW kind \in Responses
  PROVE  enqueue_bosh_response(s, st, kind) \in Records
<1> DEFINE t == enqueue_bosh_response(s, st, kind)
<1> DEFINE pending == [s.pending_bosh_responses EXCEPT ![st] = Append(@, kind)]
<1>1. t \in SessionRecord
  <2>1. s \in SessionRecord BY DEF Records
  <2>2. s.pending_bosh_responses \in [Stream -> Seq(Responses)] BY <2>1 DEF SessionRecord
  <2>3. pending \in [Stream -> Seq(Responses)] BY <2>2
  <2>4. t = [s EXCEPT !.pending_bosh_responses = pending, !.has_next_tick = TRUE]
    BY <2>1 DEF enqueue_bosh_response, try_sending, SessionRecord
  <2> HIDE DEF pending, t
  <2>5. QED BY <2>1, <2>3, <2>4 DEF SessionRecord
<1>2. /\ t.streams = s.streams /\ t._sn_state = s._sn_state /\ t.sn_length = s.sn_length
      /\ t.connector = s.connector /\ t.added = s.added /\ t.rid = s.rid
      /\ t.queued_requests = s.queued_requests /\ t.target = s.target /\ t.nodes = s.nodes
      /\ t.passed = s.passed /\ t.next_stream = s.next_stream
      /\ t.pending_stanzas = s.pending_stanzas
      /\ \A x \in Stream : x # st => t.pending_bosh_responses[x] = s.pending_bosh_responses[x]
  BY DEF Records, SessionRecord, enqueue_bosh_response, try_sending
<1> HIDE DEF t
<1>3. Listed(t) BY <1>2 DEF Listed, Records, Sound
<1>4. Queued(t) BY <1>2 DEF Queued, Adds, HasPending, Records, Sound
<1>5. Addressed(t) BY <1>2 DEF Addressed, Records, Sound
<1>6. InTurn(t) BY <1>2 DEF InTurn, Records, Sound
<1>7. QED BY <1>1, <1>3, <1>4, <1>5, <1>6 DEF Records, Sound, t
-----------------------------------------------------------------------------
(* Turns.                                                                  *)

(* Min of a set of numbers is its least element.                           *)
LEMMA MinElement ==
  ASSUME NEW S \in SUBSET Nat, S # {}
  PROVE  Min(S) \in S /\ \A q \in S : Min(S) <= q
<1>1. \E r \in S : \A q \in S : r <= q BY LeastNumber
<1>2. QED BY <1>1 DEF Min

(* Counting on from within a cycle passes its end at most once.            *)
LEMMA Wraps ==
  ASSUME NEW len \in Nat, len > 0, NEW a \in Nat, a < 2 * len
  PROVE  a % len = IF a < len THEN a ELSE a - len
<1>1. CASE a < len BY <1>1
<1>2. CASE a >= len BY <1>2
<1>3. QED BY <1>1, <1>2

(* So does the step to the next position.                                  *)
LEMMA WrapsOnce ==
  ASSUME NEW len \in Nat, NEW p \in 0..(len - 1)
  PROVE  (p + 1) % len = IF p + 1 = len THEN 0 ELSE p + 1
<1>1. p + 1 \in Nat /\ p + 1 < 2 * len /\ len > 0 /\ (p + 1 < len \/ p + 1 = len) OBVIOUS
<1>2. (p + 1) % len = IF p + 1 < len THEN p + 1 ELSE p + 1 - len BY <1>1, Wraps
<1>3. QED BY <1>1, <1>2

(* The stream that is served is the first in turn of those that wait.      *)
LEMMA FirstInTurn ==
  ASSUME NEW len \in Nat, len > 0, NEW n \in 0..len,
         NEW W \in SUBSET (1..len),
         NEW d \in 0..(len - 1), ((n + d) % len) + 1 \in W,
         \A e \in 0..(len - 1) : ((n + e) % len) + 1 \in W => d <= e
  PROVE  /\ (n + d) % len \in 0..(len - 1)
         /\ \A i \in W : i = ((n + d) % len) + 1 \/ Before(((n + d) % len) + 1, i, n)
<1>1. \A e \in 0..(len - 1) : (n + e) % len = IF n + e < len THEN n + e ELSE n + e - len
  BY Wraps
<1> DEFINE at(e) == IF n + e < len THEN n + e ELSE n + e - len
<1>2. \A e \in 0..(len - 1) : at(e) + 1 \in W => d <= e BY <1>1
<1>3. (n + d) % len = at(d) BY <1>1
<1>4. ASSUME NEW i \in W PROVE i = at(d) + 1 \/ Before(at(d) + 1, i, n)
  <2>1. CASE i > n
    <3>1. i - 1 - n \in 0..(len - 1) /\ at(i - 1 - n) + 1 = i BY <2>1
    <3>2. d <= i - 1 - n BY <3>1, <1>2
    <3>3. QED BY <2>1, <3>2 DEF Before
  <2>2. CASE i <= n
    <3>1. len + i - 1 - n \in 0..(len - 1) /\ at(len + i - 1 - n) + 1 = i BY <2>2
    <3>2. d <= len + i - 1 - n BY <3>1, <1>2
    <3>3. QED BY <2>2, <3>2 DEF Before
  <2>3. QED BY <2>1, <2>2
<1>5. at(d) \in 0..(len - 1) OBVIOUS
<1>6. QED BY <1>3, <1>4, <1>5

(* Once a stream has been served, every stream that waits is before it,    *)
(* and keeps its turn among the others.                                    *)
LEMMA ServedIsLast ==
  ASSUME NEW len \in Nat, NEW n \in 0..len, NEW p \in 0..(len - 1),
         NEW i \in 1..len, i # p + 1, Before(p + 1, i, n)
  PROVE  /\ ~Before(i, p + 1, n)
         /\ Before(i, p + 1, (p + 1) % len)
         /\ \A j \in 1..len : j # p + 1 /\ Before(i, j, n) => Before(i, j, (p + 1) % len)
<1>1. (p + 1) % len = IF p + 1 = len THEN 0 ELSE p + 1 BY WrapsOnce
<1>2. CASE p + 1 = len BY <1>1, <1>2 DEF Before
<1>3. CASE p + 1 # len BY <1>1, <1>3 DEF Before
<1>4. QED BY <1>2, <1>3

(* A stream that the session lists.                                        *)
LEMMA ListedStream ==
  ASSUME NEW s \in Records, NEW i \in 1..Len(s.streams)
  PROVE  s.streams[i] \in Stream /\ s.streams[i] \in s._sn_state
<1>1. s.streams \in Seq(Stream) BY DEF Records, SessionRecord
<1>2. s.streams[i] \in Stream BY <1>1, ElementOfSeq
<1>3. QED BY <1>2 DEF Records, Sound, Listed

(* Serving the first in turn of those that wait passes no stream over      *)
(* twice, and leaves the turns as InTurn says.                             *)
LEMMA PassedTurns ==
  ASSUME NEW s \in Records, NEW p \in 0..(Len(s.streams) - 1), HasPending(s, s.streams[p + 1]),
         \A i \in 1..Len(s.streams) :
           HasPending(s, s.streams[i]) => i = p + 1 \/ Before(p + 1, i, s.next_stream)
  PROVE  /\ Passed(s, s.streams[p + 1]) \in [Stream -> [Stream -> 0..1]]
         /\ \A i, j \in 1..Len(s.streams) :
              Passed(s, s.streams[p + 1])[s.streams[i]][s.streams[j]] # 0 =>
                Before(i, j, (p + 1) % Len(s.streams))
         /\ \A x, y \in Stream :
              x > s.added \/ y > s.added => Passed(s, s.streams[p + 1])[x][y] = 0
<1> DEFINE st == s.streams[p + 1]
           len == Len(s.streams)
           n == s.next_stream
<1>1. /\ s.passed \in [Stream -> [Stream -> 0..1]] /\ s.streams \in Seq(Stream)
      /\ len \in Nat /\ n \in 0..len /\ p + 1 \in 1..len /\ s.added \in Nat
      /\ \A i, j \in 1..len : s.passed[s.streams[i]][s.streams[j]] # 0 => Before(i, j, n)
      /\ \A x, y \in Stream : x > s.added \/ y > s.added => s.passed[x][y] = 0
  BY DEF Records, SessionRecord, Sound, InTurn
<1>2. \A i \in 1..len : s.streams[i] \in Stream /\ s.streams[i] \in s._sn_state
  BY ListedStream
<1>3. /\ \A x \in Stream : HasPending(s, x) => x \in s._sn_state
      /\ \A x \in Stream : x \in s._sn_state => \E i \in 1..len : s.streams[i] = x
      /\ \A i, j \in 1..len : s.streams[i] = s.streams[j] => i = j
      /\ \A x \in Stream : x \in s._sn_state => x <= s.added
  BY DEF Records, Sound, Listed, Queued
<1>4. st \in Stream /\ st \in s._sn_state /\ st <= s.added BY <1>1, <1>2, <1>3
<1>5. \A i \in 1..len : HasPending(s, s.streams[i]) => i = p + 1 \/ Before(p + 1, i, n)
  OBVIOUS
<1> DEFINE new == Passed(s, st)
<1>6. ASSUME NEW x \in Stream, NEW y \in Stream
      PROVE  new[x][y] = IF x = st \/ ~HasPending(s, x) THEN 0
                         ELSE s.passed[x][y] + (IF y = st THEN 1 ELSE 0)
  BY DEF Passed
<1>7. ASSUME NEW i \in 1..len, i # p + 1, Before(p + 1, i, n)
      PROVE  /\ ~Before(i, p + 1, n)
             /\ Before(i, p + 1, (p + 1) % len)
             /\ \A j \in 1..len : j # p + 1 /\ Before(i, j, n) => Before(i, j, (p + 1) % len)
  BY <1>1, <1>7, ServedIsLast, Zenon
<1>8. new = [x \in Stream |-> [y \in Stream |-> new[x][y]]]
  BY DEF Passed
<1> HIDE DEF new, st, len, n
<1>9. \A i \in 1..len : s.streams[i] = st => i = p + 1 BY <1>1, <1>3 DEF st
<1>10. ASSUME NEW x \in Stream, NEW y \in Stream PROVE new[x][y] \in 0..1
  <2>1. CASE x = st \/ ~HasPending(s, x) BY <2>1, <1>6
  <2>2. CASE x # st /\ HasPending(s, x)
    <3>1. PICK i \in 1..len : s.streams[i] = x BY <2>2, <1>3
    <3>2. i # p + 1 BY <3>1, <2>2 DEF st
    <3>3. Before(p + 1, i, n) BY <3>1, <3>2, <2>2, <1>5
    <3>4. ~Before(i, p + 1, n) BY <3>2, <3>3, <1>7
    <3>5. s.passed[x][st] = 0 BY <3>1, <3>4, <1>1 DEF st
    <3>6. s.passed[x][y] \in 0..1 BY <1>1
    <3>7. QED BY <3>5, <3>6, <2>2, <1>6
  <2>3. QED BY <2>1, <2>2
<1>11. new \in [Stream -> [Stream -> 0..1]] BY <1>8, <1>10
<1>12. ASSUME NEW i \in 1..len, NEW j \in 1..len, new[s.streams[i]][s.streams[j]] # 0
       PROVE  Before(i, j, (p + 1) % len)
  <2>1. s.streams[i] # st /\ HasPending(s, s.streams[i])
    BY <1>12, <1>6, <1>2
  <2>2. i # p + 1 /\ Before(p + 1, i, n) BY <2>1, <1>5 DEF st
  <2>3. CASE j = p + 1 BY <2>3, <2>2, <1>7
  <2>4. CASE j # p + 1
    <3>1. s.streams[j] # st BY <2>4, <1>9
    <3>2. s.passed[s.streams[i]][s.streams[j]] # 0
      <4>1. s.streams[i] \in Stream /\ s.streams[j] \in Stream BY <1>2
      <4>2. s.passed[s.streams[i]][s.streams[j]] \in 0..1 BY <4>1, <1>1
      <4>3. QED BY <4>1, <4>2, <3>1, <2>1, <1>12, <1>6
    <3>3. Before(i, j, n) BY <3>2, <1>1
    <3>4. QED BY <3>3, <2>4, <2>2, <1>7
  <2>5. QED BY <2>3, <2>4
<1>13. ASSUME NEW x \in Stream, NEW y \in Stream, x > s.added \/ y > s.added
       PROVE  new[x][y] = 0
  <2>1. CASE x > s.added
    <3>1. ~(x <= s.added) BY <2>1, <1>1 DEF Stream
    <3>2. ~HasPending(s, x) BY <3>1, <1>3
    <3>3. QED BY <3>2, <1>6
  <2>2. CASE y > s.added
    <3>1. y # st BY <2>2, <1>1, <1>4 DEF Stream
    <3>2. s.passed[x][y] = 0 BY <2>2, <1>1
    <3>3. QED BY <3>1, <3>2, <1>6
  <2>3. QED BY <2>1, <2>2, <1>13
<1>14. QED BY <1>11, <1>12, <1>13 DEF new, st, len

(* Stitching a response for that stream keeps the session sound.           *)
LEMMA StitchSound ==
  ASSUME NEW s \in Records, s.res # {}, NEW p \in 0..(Len(s.streams) - 1),
         HasPending(s, s.streams[p + 1]),
         \A i \in 1..Len(s.streams) :
           HasPending(s, s.streams[i]) => i = p + 1 \/ Before(p + 1, i, s.next_stream)
  PROVE  Stitch(s, p) \in Records /\ Stitch(s, p).rid = s.rid
<1> DEFINE st == s.streams[p + 1]
           bosh == s.pending_bosh_responses[st]
           last == bosh # << >> /\ Head(bosh) = "terminate"
           stanzas == [s.pending_stanzas EXCEPT ![st] = 0]
           responses == [s.pending_bosh_responses EXCEPT ![st] = IF @ = << >> THEN @ ELSE Tail(@)]
           next == (p + 1) % Len(s.streams)
           sent == IF s.max_rid_sent > Min(s.res) THEN s.max_rid_sent ELSE Min(s.res)
           t == Stitch(s, p)
<1>1. s \in SessionRecord /\ Listed(s) /\ Queued(s) /\ Addressed(s) /\ InTurn(s)
  BY DEF Records, Sound
<1>2. st \in Stream /\ st \in s._sn_state
  <2>1. p + 1 \in 1..Len(s.streams) BY <1>1 DEF SessionRecord
  <2>2. QED BY <2>1, ListedStream
<1>3. /\ Passed(s, st) \in [Stream -> [Stream -> 0..1]]
      /\ \A i, j \in 1..Len(s.streams) :
           Passed(s, st)[s.streams[i]][s.streams[j]] # 0 => Before(i, j, next)
      /\ \A x, y \in Stream : x > s.added \/ y > s.added => Passed(s, st)[x][y] = 0
  BY PassedTurns
<1>4. stanzas \in [Stream -> Nat] /\ \A x \in Stream : x # st => stanzas[x] = s.pending_stanzas[x]
  BY <1>1, <1>2 DEF SessionRecord
<1>5. /\ responses \in [Stream -> Seq(Responses)]
      /\ \A x \in Stream : x # st => responses[x] = s.pending_bosh_responses[x]
  <2>1. s.pending_bosh_responses \in [Stream -> Seq(Responses)] BY <1>1 DEF SessionRecord
  <2>2. bosh \in Seq(Responses) BY <2>1, <1>2
  <2>3. (IF bosh = << >> THEN bosh ELSE Tail(bosh)) \in Seq(Responses) BY <2>2
  <2>4. QED BY <2>1, <2>3, <1>2
<1>6. next \in Nat /\ next <= Len(s.streams)
  <2>1. Len(s.streams) \in Nat BY <1>1 DEF SessionRecord
  <2>2. next = IF p + 1 = Len(s.streams) THEN 0 ELSE p + 1 BY <2>1, WrapsOnce
  <2>3. p + 1 \in Nat /\ p + 1 <= Len(s.streams) BY <2>1
  <2> HIDE DEF next
  <2>4. QED BY <2>1, <2>2, <2>3
<1>7. sent \in 0..MaxRid /\ Min(s.res) \in s.res
  <2>0. s.res \in SUBSET Rid /\ s.max_rid_sent \in 0..MaxRid BY <1>1 DEF SessionRecord
  <2>1. s.res \in SUBSET Rid /\ s.res \in SUBSET Nat /\ s.max_rid_sent \in 0..MaxRid
    BY <2>0, StreamsAssumption DEF Rid
  <2>2. Min(s.res) \in s.res BY <2>1, MinElement
  <2>3. Min(s.res) \in 0..MaxRid BY <2>1, <2>2, StreamsAssumption DEF Rid
  <2>4. sent \in 0..MaxRid BY <2>1, <2>3, Zenon
  <2>5. QED BY <2>2, <2>4
<1>8. t = [s EXCEPT !.res = @ \ {Min(@)}, !.max_rid_sent = sent, !.next_stream = next,
                    !.pending_stanzas = stanzas, !.pending_bosh_responses = responses,
                    !.named = @ \union {st}, !.told = IF last THEN @ \union {st} ELSE @,
                    !.passed = Passed(s, st)]
  <2>1. Reply(s) = [s EXCEPT !.res = @ \ {Min(@)}, !.max_rid_sent = sent]
    BY <1>1 DEF Reply, SessionRecord
  <2>2. t = [Reply(s) EXCEPT !.next_stream = next,
               !.pending_stanzas[st] = 0,
               !.pending_bosh_responses[st] = IF @ = << >> THEN @ ELSE Tail(@),
               !.named = @ \union {st}, !.told = IF last THEN @ \union {st} ELSE @,
               !.passed = Passed(s, st)]
    BY Zenon DEF Stitch
  <2> HIDE DEF t, next, st, last, sent
  <2>3. QED BY <1>1, <2>1, <2>2 DEF SessionRecord, stanzas, responses, bosh
<1> HIDE DEF t, stanzas, responses, next, st, last, sent, bosh
<1>9. t \in SessionRecord
  BY <1>1, <1>2, <1>3, <1>4, <1>5, <1>6, <1>7, <1>8 DEF SessionRecord
<1>10. /\ t.streams = s.streams /\ t._sn_state = s._sn_state /\ t.sn_length = s.sn_length
       /\ t.connector = s.connector /\ t.added = s.added /\ t.rid = s.rid
       /\ t.queued_requests = s.queued_requests /\ t.target = s.target /\ t.nodes = s.nodes
       /\ t.passed = Passed(s, st) /\ t.next_stream = next
       /\ t.pending_stanzas = stanzas /\ t.pending_bosh_responses = responses
  BY <1>1, <1>8 DEF SessionRecord
<1>11. Listed(t) BY <1>1, <1>10 DEF Listed
<1>12. Queued(t) BY <1>1, <1>2, <1>4, <1>5, <1>10 DEF Queued, Adds, HasPending
<1>13. Addressed(t) BY <1>1, <1>10 DEF Addressed
<1>14. InTurn(t) BY <1>1, <1>3, <1>6, <1>10 DEF InTurn
<1>15. QED BY <1>9, <1>10, <1>11, <1>12, <1>13, <1>14 DEF Records, Sound, t

(* One round serves the first stream in turn that waits, if there is one.  *)
LEMMA RoundSound ==
  ASSUME NEW s \in Records
  PROVE  _stitch_new_response(s) \in Records /\ _stitch_new_response(s).rid = s.rid
<1> DEFINE len == Len(s.streams)
           at(d) == (s.next_stream + d) % len
           turns == {d \in 0..(len - 1) : HasPending(s, s.streams[at(d) + 1])}
           n == s.next_stream
<1>1. s \in SessionRecord /\ Listed(s) /\ Queued(s) /\ Addressed(s) /\ InTurn(s)
  BY DEF Records, Sound
<1>2. len \in Nat /\ n \in 0..len BY <1>1 DEF SessionRecord, InTurn
<1>3. CASE s.res = {} \/ len = 0
  <2>1. _stitch_new_response(s) = s BY <1>3, Zenon DEF _stitch_new_response
  <2>2. QED BY <2>1
<1>4. CASE ~(s.res = {} \/ len = 0) /\ turns = {}
  <2> DEFINE t == [s EXCEPT !.next_stream = @ % len]
  <2>1. _stitch_new_response(s) = t BY <1>4, Zenon DEF _stitch_new_response
  <2>2. n % len = IF n < len THEN n ELSE n - len
    <3>1. n \in Nat /\ n < 2 * len /\ len > 0 BY <1>2, <1>4
    <3> HIDE DEF n, len
    <3>2. QED BY <1>2, <3>1, Wraps
  <2> DEFINE next == n % len
  <2>3. next \in Nat
    <3> HIDE DEF n, len
    <3>1. QED BY <1>2, <2>2 DEF next
  <2>9. t = [s EXCEPT !.next_stream = next] BY <1>1 DEF SessionRecord
  <2> HIDE DEF t, next
  <2>10. t \in SessionRecord BY <1>1, <2>3, <2>9 DEF SessionRecord
  <2>11. t.rid = s.rid /\ t.next_stream = next BY <1>1, <2>9 DEF SessionRecord
  <2>4. Listed(t) BY <1>1, <2>9 DEF Listed, SessionRecord
  <2>5. Queued(t) BY <1>1, <2>9 DEF Queued, Adds, HasPending, SessionRecord
  <2>6. Addressed(t) BY <1>1, <2>9 DEF Addressed, SessionRecord
  <2>7. InTurn(t)
    <3>1. /\ t.streams = s.streams /\ t.passed = s.passed /\ t.added = s.added
          /\ t.next_stream = next
      BY <1>1, <2>9 DEF SessionRecord
    <3>2. ASSUME NEW i \in 1..len, NEW j \in 1..len, Before(i, j, n)
          PROVE  Before(i, j, next)
      BY <1>2, <2>2, <3>2 DEF Before, next
    <3>3. t.next_stream <= Len(t.streams) BY <1>2, <1>4, <2>2, <3>1 DEF next
    <3>4. QED BY <1>1, <3>1, <3>2, <3>3 DEF InTurn
  <2>8. QED BY <2>1, <2>10, <2>11, <2>4, <2>5, <2>6, <2>7 DEF Records, Sound
<1>5. CASE ~(s.res = {} \/ len = 0) /\ turns # {}
  <2> DEFINE d == Min(turns)
             waiting == {i \in 1..len : HasPending(s, s.streams[i])}
  <2>1. turns \in SUBSET Nat BY <1>2
  <2> HIDE DEF turns
  <2>2. d \in turns /\ \A e \in turns : d <= e BY <1>5, <2>1, MinElement
  <2>3. _stitch_new_response(s) = Stitch(s, at(d))
    BY <1>5, Zenon DEF _stitch_new_response, turns
  <2> HIDE DEF d
  <2>4. d \in 0..(len - 1) /\ HasPending(s, s.streams[at(d) + 1]) BY <2>2 DEF turns
  <2>5. ASSUME NEW e \in 0..(len - 1) PROVE at(e) + 1 \in 1..len
    <3>1. n + e \in Nat /\ n + e < 2 * len /\ len > 0 BY <1>2, <1>5
    <3> HIDE DEF len, n
    <3>2. (n + e) % len = IF n + e < len THEN n + e ELSE n + e - len
      BY <1>2, <3>1, Wraps
    <3>3. at(e) = IF n + e < len THEN n + e ELSE n + e - len BY <3>2, Zenon DEF n
    <3> HIDE DEF at
    <3>4. QED BY <3>3, <3>1, <3>2, <1>2
  <2>6. at(d) + 1 \in waiting BY <2>4, <2>5
  <2>7. \A e \in 0..(len - 1) : at(e) + 1 \in waiting => d <= e
    BY <2>2 DEF turns
  <2>8. waiting \in SUBSET (1..len) /\ len > 0 BY <1>2, <1>5
  <2> HIDE DEF waiting
  <2>9. /\ at(d) \in 0..(len - 1)
        /\ \A i \in waiting : i = at(d) + 1 \/ Before(at(d) + 1, i, n)
    BY <1>2, <2>4, <2>6, <2>7, <2>8, FirstInTurn
  <2>10. \A i \in 1..len : HasPending(s, s.streams[i]) =>
            i = at(d) + 1 \/ Before(at(d) + 1, i, n)
    BY <2>9 DEF waiting
  <2> HIDE DEF at
  <2>11. QED BY <1>5, <2>3, <2>4, <2>9, <2>10, StitchSound
<1>6. QED BY <1>3, <1>4, <1>5

Serving == INSTANCE SequenceLemmas WITH op <- LAMBDA t, r : _stitch_new_response(t)

(* The held responses, in some order.                                      *)
LEMMA HeldResponses ==
  ASSUME NEW S \in SUBSET Rid
  PROVE  \E n \in Nat : DOMAIN SetToSeq(S) = 1..n
<1>1. IsFiniteSet(S)
  <2>1. IsFiniteSet(1..MaxRid) BY StreamsAssumption, FS_Interval
  <2>2. QED BY <2>1, FS_Subset DEF Rid
<1>2. Cardinality(S) \in Nat BY <1>1, FS_CardinalityType
<1>3. PICK f : f \in [1..Cardinality(S) -> S] /\ IsInjective(f)
  <2>1. ExistsBijection(1..Cardinality(S), S) BY <1>1, FS_CardinalityType
  <2>2. QED BY <2>1 DEF ExistsBijection, Bijection, Injection, IsInjective
<1>4. SetToSeq(S) \in [1..Cardinality(S) -> S] BY <1>3, Zenon DEF SetToSeq
<1>5. DOMAIN SetToSeq(S) = 1..Cardinality(S) BY <1>4
<1>6. QED BY <1>2, <1>5

(* So does sending whatever is pending.                                    *)
LEMMA SendSound ==
  ASSUME NEW s \in Records
  PROVE  send_pending_responses(s) \in Records /\ send_pending_responses(s).rid = s.rid
<1> DEFINE seq == SetToSeq(s.res)
           Same == {t \in Records : t.rid = s.rid}
<1>1. s.res \in SUBSET Rid BY DEF Records, SessionRecord
<1>2. PICK n \in Nat : DOMAIN seq = 1..n BY <1>1, HeldResponses
<1> DEFINE Good == [i \in 0..n |-> Same]
<1>3. \A t \in Same : _stitch_new_response(t) \in Same BY RoundSound
<1>4. s \in Same OBVIOUS
<1> HIDE DEF Same
<1>5. Good[0] = Same /\ Good[n] = Same /\ \A i \in 1..n : Good[i] = Same /\ Good[i - 1] = Same
  OBVIOUS
<1> HIDE DEF Good, seq
<1>6. Serving!Fold(s, seq) \in Good[n]
  BY <1>2, <1>3, <1>4, <1>5, Serving!FoldLeftReaches
<1>7. send_pending_responses(s) = Serving!Fold(s, seq)
  BY Zenon DEF send_pending_responses, seq, Serving!Fold, FoldLeft, Serving!FoldLeft,
               MapThenFoldSet, Serving!MapThenFoldSet, Max, Serving!Max
<1>8. QED BY <1>5, <1>6, <1>7 DEF Same
-----------------------------------------------------------------------------
(* Streams go.                                                             *)

(* A listed stream stands at one position.                                 *)
LEMMA OnePosition ==
  ASSUME NEW s \in Records, NEW st \in Stream, st \in s._sn_state
  PROVE  \E p \in 1..Len(s.streams) :
           /\ s.streams[p] = st /\ Positions(s, st) = {p}
           /\ Without(s, st) = RemoveAt(s.streams, p)
<1>1. s.streams \in Seq(Stream) /\ DOMAIN s.streams = 1..Len(s.streams) /\ Listed(s)
  BY DEF Records, SessionRecord, Sound
<1>2. PICK p \in 1..Len(s.streams) : s.streams[p] = st BY <1>1 DEF Listed
<1>3. Positions(s, st) = {p} BY <1>1, <1>2 DEF Positions, Listed
<1>4. Min({p}) = p BY <1>1 DEF Min
<1>5. Without(s, st) = RemoveAt(s.streams, p) BY <1>3, <1>4 DEF Without
<1>6. QED BY <1>2, <1>3, <1>5

(* The streams behind it move up, and so does the turn.                    *)
LEMMA TurnsMoveUp ==
  ASSUME NEW len \in Nat, NEW n \in 0..len, NEW p \in 1..len,
         NEW i \in 1..(len - 1), NEW j \in 1..(len - 1),
         Before(IF i < p THEN i ELSE i + 1, IF j < p THEN j ELSE j + 1, n)
  PROVE  Before(i, j, IF p <= n THEN n - 1 ELSE n)
<1>1. CASE i < p /\ j < p BY <1>1 DEF Before
<1>2. CASE i < p /\ ~(j < p) BY <1>2 DEF Before
<1>3. CASE ~(i < p) /\ j < p BY <1>3 DEF Before
<1>4. CASE ~(i < p) /\ ~(j < p) BY <1>4 DEF Before
<1>5. QED BY <1>1, <1>2, <1>3, <1>4

(* Sets of streams are finite.                                             *)
LEMMA FiniteStreams ==
  ASSUME NEW S \in SUBSET Stream
  PROVE  IsFiniteSet(S) /\ Cardinality(S) \in Nat
<1>1. IsFiniteSet(1..MaxStreams) BY StreamsAssumption, FS_Interval
<1>2. IsFiniteSet(S) BY <1>1, FS_Subset DEF Stream
<1>3. QED BY <1>2, FS_CardinalityType

(* Sets of request ids are finite.                                         *)
LEMMA FiniteRids ==
  ASSUME NEW S \in SUBSET Rid
  PROVE  IsFiniteSet(S) /\ Cardinality(S) \in Nat
<1>1. IsFiniteSet(1..MaxRid) BY StreamsAssumption, FS_Interval
<1>2. IsFiniteSet(S) BY <1>1, FS_Subset DEF Rid
<1>3. QED BY <1>2, FS_CardinalityType

(* A stream that goes goes from every table, and from the turns.           *)
LEMMA TerminateSound ==
  ASSUME NEW s \in Records, NEW st \in Stream, st \in s._sn_state,
         NEW why \in {"closed", "released"}
  PROVE  /\ TerminateStream(s, st, why) \in Records
         /\ TerminateStream(s, st, why).rid = s.rid
         /\ TerminateStream(s, st, why)._sn_state = s._sn_state \ {st}
<1> DEFINE t == TerminateStream(s, st, why)
           len == Len(s.streams)
           n == s.next_stream
           stanzas == [s.pending_stanzas EXCEPT ![st] = 0]
           responses == [s.pending_bosh_responses EXCEPT ![st] = << >>]
           connector == [s.connector EXCEPT ![st] = why]
           queue == Emptied(s, st)
           state == s._sn_state \ {st}
           count == s.sn_length - 1
<1>1. s \in SessionRecord /\ Listed(s) /\ Queued(s) /\ Addressed(s) /\ InTurn(s)
  BY DEF Records, Sound
<1>2. PICK p \in 1..len :
        /\ s.streams[p] = st /\ Positions(s, st) = {p}
        /\ Without(s, st) = RemoveAt(s.streams, p)
  BY OnePosition
<1> DEFINE next == IF p <= n THEN n - 1 ELSE n
           streams == RemoveAt(s.streams, p)
           old(k) == IF k < p THEN k ELSE k + 1
<1>3. /\ s.streams \in Seq(Stream) /\ len \in Nat /\ n \in 0..len
      /\ s.queued_requests \in [Rid -> [kind : Kinds \union {"none", "body"}, stream : 0..MaxStreams]]
      /\ s._sn_state \in SUBSET Stream
  BY <1>1 DEF SessionRecord, InTurn
<1>4. /\ streams \in Seq(Stream) /\ Len(streams) = len - 1
      /\ \A k \in 1..(len - 1) : streams[k] = s.streams[old(k)] /\ old(k) \in 1..len /\ old(k) # p
  <2>1. /\ streams \in Seq(Stream) /\ Len(streams) = len - 1
        /\ \A k \in 1..(len - 1) : /\ k < p => streams[k] = s.streams[k]
                                   /\ k >= p => streams[k] = s.streams[k + 1]
    <3>1. p \in 1..Len(s.streams) /\ s.streams \in Seq(Stream) BY <1>3
    <3>2. QED BY <3>1, RemoveAtElements, Zenon
  <2> HIDE DEF streams
  <2>2. QED BY <2>1, <1>3
<1>5. next \in Nat /\ next <= len - 1 BY <1>3
<1>6. /\ queue \in [Rid -> [kind : Kinds \union {"none", "body"}, stream : 0..MaxStreams]]
      /\ \A r \in Rid : \/ s.queued_requests[r].stream # st /\ queue[r] = s.queued_requests[r]
                        \/ queue[r].kind = "body" /\ queue[r].stream = 0
  BY <1>3, StreamsAssumption DEF Emptied
<1>7. stanzas \in [Stream -> Nat] /\ stanzas[st] = 0 /\ \A x \in Stream : x # st => stanzas[x] = s.pending_stanzas[x]
  BY <1>1 DEF SessionRecord
<1>8. /\ responses \in [Stream -> Seq(Responses)] /\ responses[st] = << >>
      /\ \A x \in Stream : x # st => responses[x] = s.pending_bosh_responses[x]
  BY <1>1 DEF SessionRecord
<1>9. connector \in [Stream -> Entry] /\ connector[st] = why /\ \A x \in Stream : x # st => connector[x] = s.connector[x]
  BY <1>1 DEF SessionRecord, Entry
<1>10. t = [s EXCEPT !.pending_stanzas = stanzas, !.pending_bosh_responses = responses,
                     !.next_stream = next, !.streams = streams, !.queued_requests = queue,
                     !._sn_state = state, !.sn_length = count, !.connector = connector]
  <2>1. (\E i \in Positions(s, st) : i <= n) <=> p <= n BY <1>2
  <2>2. delete_stream(s, st) =
          [s EXCEPT !.pending_stanzas = stanzas, !.pending_bosh_responses = responses,
                    !.next_stream = next, !.streams = streams, !.queued_requests = queue]
    <3>1. delete_stream(s, st) =
            [s EXCEPT !.pending_stanzas[st] = 0, !.pending_bosh_responses[st] = << >>,
                      !.next_stream = IF \E i \in Positions(s, st) : i <= @ THEN @ - 1 ELSE @,
                      !.streams = streams, !.queued_requests = queue]
      BY <1>2, Zenon DEF delete_stream
    <3> HIDE DEF streams, queue
    <3>2. QED BY <1>1, <2>1, <3>1 DEF SessionRecord
  <2> HIDE DEF streams, queue, stanzas, responses, next
  <2>3. QED BY <1>1, <2>2 DEF SessionRecord, TerminateStream, stream_terminate
<1>11. state \in SUBSET Stream /\ count \in Int BY <1>1 DEF SessionRecord
<1> HIDE DEF t, next, streams, queue, stanzas, responses, connector, state, count, n, len
<1>12. t \in SessionRecord
  <2>1. /\ streams \in Seq(Stream) /\ next \in Nat /\ stanzas \in [Stream -> Nat]
        /\ queue \in [Rid -> [kind : Kinds \union {"none", "body"}, stream : 0..MaxStreams]]
        /\ responses \in [Stream -> Seq(Responses)] /\ connector \in [Stream -> Entry]
        /\ state \in SUBSET Stream /\ count \in Int
    BY <1>4, <1>5, <1>6, <1>7, <1>8, <1>9, <1>11
  <2>2. QED BY <1>1, <1>10, <2>1 DEF SessionRecord
<1>13. /\ t.streams = streams /\ t._sn_state = state /\ t.sn_length = count
       /\ t.connector = connector /\ t.added = s.added /\ t.rid = s.rid
       /\ t.queued_requests = queue /\ t.target = s.target /\ t.nodes = s.nodes
       /\ t.passed = s.passed /\ t.next_stream = next
       /\ t.pending_stanzas = stanzas /\ t.pending_bosh_responses = responses
  BY <1>1, <1>10 DEF SessionRecord
<1>14. Listed(t)
  <2>1. \A i, j \in 1..len : s.streams[i] = s.streams[j] => i = j
    BY <1>1 DEF Listed, len
  <2>2. \A x \in Stream : x \in s._sn_state <=> \E i \in 1..len : s.streams[i] = x
    BY <1>1 DEF Listed, len
  <2>3. ASSUME NEW i \in 1..(len - 1), NEW j \in 1..(len - 1), streams[i] = streams[j]
        PROVE  i = j
    <3>1. old(i) = old(j) BY <2>1, <2>3, <1>4
    <3>2. QED BY <3>1, <1>3
  <2>4. ASSUME NEW x \in Stream, NEW i \in 1..(len - 1), streams[i] = x PROVE x \in state
    <3>1. s.streams[old(i)] = x /\ old(i) \in 1..len /\ old(i) # p BY <2>4, <1>4
    <3>2. x \in s._sn_state BY <2>2, <3>1
    <3>3. x # st BY <3>1, <2>1, <1>2, Zenon
    <3>4. QED BY <3>2, <3>3 DEF state
  <2>5. ASSUME NEW x \in state PROVE \E i \in 1..(len - 1) : streams[i] = x
    <3>1. x \in Stream /\ x \in s._sn_state /\ x # st BY <1>3 DEF state
    <3>2. PICK i \in 1..len : s.streams[i] = x BY <3>1, <2>2
    <3>3. i # p BY <3>1, <3>2, <1>2
    <3>4. CASE i < p
      <4>1. i \in 1..(len - 1) /\ old(i) = i BY <3>4, <1>3
      <4>2. QED BY <4>1, <3>2, <1>4
    <3>5. CASE i > p
      <4>1. i - 1 \in 1..(len - 1) /\ old(i - 1) = i BY <3>5, <1>3
      <4>2. QED BY <4>1, <3>2, <1>4
    <3>6. QED BY <3>3, <3>4, <3>5, <1>3
  <2>6. \A x \in Stream : x \in state <=> connector[x] \in {"opening", "up"}
    BY <1>1, <1>9 DEF Listed, state
  <2>7. Cardinality(state) = count
    <3>1. IsFiniteSet(s._sn_state) BY <1>3, FiniteStreams
    <3>2. Cardinality(s._sn_state \ {st}) = Cardinality(s._sn_state) - 1
      BY <3>1, FS_RemoveElement
    <3>3. QED BY <3>2, <1>1 DEF Listed, state, count
  <2>8. Len(streams) = count BY <1>1, <1>4 DEF Listed, len, count
  <2>9. \A x \in Stream : x \in state => x <= s.added BY <1>1 DEF Listed, state
  <2>10. QED BY <2>3, <2>4, <2>5, <2>6, <2>7, <2>8, <2>9, <1>4, <1>13 DEF Listed
<1>15. Queued(t)
  <2>1. s.added + Cardinality(Adds(t)) <= MaxStreams
    <3>1. Adds(t) \subseteq Adds(s) /\ Adds(s) \subseteq Rid /\ Adds(t) \subseteq Rid
      BY <1>6, <1>13 DEF Adds
    <3>2. IsFiniteSet(Adds(s)) /\ Cardinality(Adds(s)) \in Nat /\ Cardinality(Adds(t)) \in Nat
      BY <3>1, FiniteRids
    <3>3. Cardinality(Adds(t)) <= Cardinality(Adds(s)) BY <3>1, <3>2, FS_Subset
    <3>4. s.added \in Nat /\ s.added + Cardinality(Adds(s)) <= MaxStreams
      BY <1>1 DEF SessionRecord, Queued
    <3>5. QED BY <3>2, <3>3, <3>4, StreamsAssumption
  <2>2. \A r \in Rid : queue[r].stream # 0 => queue[r].stream \in state
    BY <1>1, <1>6 DEF Queued, state
  <2>3. ASSUME NEW x \in Stream, HasPending(t, x) PROVE x \in state
    <3>1. x # st BY <2>3, <1>7, <1>8, <1>13 DEF HasPending
    <3>2. HasPending(s, x) BY <3>1, <2>3, <1>7, <1>8, <1>13 DEF HasPending
    <3>3. QED BY <3>1, <3>2, <1>1 DEF Queued, state
  <2>4. QED BY <2>1, <2>2, <2>3, <1>13 DEF Queued
<1>16. Addressed(t) BY <1>1, <1>6, <1>13 DEF Addressed
<1>17. InTurn(t)
  <2>1. ASSUME NEW i \in 1..(len - 1), NEW j \in 1..(len - 1),
               s.passed[streams[i]][streams[j]] # 0
        PROVE  Before(i, j, next)
    <3>0. /\ streams[i] = s.streams[old(i)] /\ old(i) \in 1..len
          /\ streams[j] = s.streams[old(j)] /\ old(j) \in 1..len
      BY <1>4
    <3> HIDE DEF old
    <3>1. Before(old(i), old(j), n) BY <2>1, <3>0, <1>1 DEF InTurn, len, n
    <3> USE DEF old
    <3>2. QED BY <3>1, <1>3, TurnsMoveUp DEF next
  <2>2. QED BY <2>1, <1>1, <1>4, <1>5, <1>13 DEF InTurn
<1>18. QED BY <1>12, <1>13, <1>14, <1>15, <1>16, <1>17 DEF Records, Sound, t, state

(* The session ends when its last stream has gone; its lists are empty     *)
(* then.                                                                   *)
LEMMA TerminateIfEmptySound ==
  ASSUME NEW s \in Records
  PROVE  TerminateIfEmpty(s) \in Records /\ TerminateIfEmpty(s).rid = s.rid
<1>1. CASE s.streams # << >> BY <1>1 DEF TerminateIfEmpty
<1>2. CASE s.streams = << >>
  <2> DEFINE t == session_terminate(s)
             count == s.sid_length - 1
  <2>1. s \in SessionRecord /\ Listed(s) /\ Queued(s) /\ Addressed(s) /\ InTurn(s)
    BY DEF Records, Sound
  <2>2. t = [s EXCEPT !.res = {}, !.timeout = FALSE, !.status = "terminated",
                      !.sid_length = count]
    BY <2>1, <1>2 DEF session_terminate, SessionRecord
  <2>3. count \in Int BY <2>1 DEF SessionRecord
  <2> HIDE DEF t, count
  <2>4. t \in SessionRecord BY <2>1, <2>2, <2>3 DEF SessionRecord
  <2>5. /\ t.streams = s.streams /\ t._sn_state = s._sn_state /\ t.sn_length = s.sn_length
        /\ t.connector = s.connector /\ t.added = s.added /\ t.rid = s.rid
        /\ t.queued_requests = s.queued_requests /\ t.target = s.target /\ t.nodes = s.nodes
        /\ t.passed = s.passed /\ t.next_stream = s.next_stream
        /\ t.pending_stanzas = s.pending_stanzas
        /\ t.pending_bosh_responses = s.pending_bosh_responses
    BY <2>1, <2>2 DEF SessionRecord
  <2>6. Listed(t) BY <2>1, <2>5 DEF Listed
  <2>7. Queued(t) BY <2>1, <2>5 DEF Queued, Adds, HasPending
  <2>8. Addressed(t) BY <2>1, <2>5 DEF Addressed
  <2>9. InTurn(t) BY <2>1, <2>5 DEF InTurn
  <2>10. QED BY <1>2, <2>4, <2>5, <2>6, <2>7, <2>8, <2>9 DEF Records, Sound, TerminateIfEmpty, t
<1>3. QED BY <1>1, <1>2

(* The connector has dropped a stream.                                     *)
LEMMA OnTerminateSound ==
  ASSUME NEW s \in Records, NEW st \in Stream, st \in s._sn_state
  PROVE  _on_terminate(s, st) \in Records /\ _on_terminate(s, st).rid = s.rid
<1> DEFINE t == send_stream_terminate_response(s, st)
           u == TerminateStream(t, st, "closed")
<1>1. t \in Records BY EnqueueSound DEF send_stream_terminate_response, Responses
<1>2. t.rid = s.rid /\ t._sn_state = s._sn_state
  BY DEF Records, SessionRecord, send_stream_terminate_response, enqueue_bosh_response, try_sending
<1> HIDE DEF t
<1>3. u \in Records /\ u.rid = s.rid BY <1>1, <1>2, TerminateSound
<1>4. _on_terminate(s, st) = TerminateIfEmpty(u) BY Zenon DEF _on_terminate, t
<1> HIDE DEF u
<1>5. QED BY <1>3, <1>4, TerminateIfEmptySound

(* The nodes of a request that has been taken go to its target.            *)
LEMMA EmitSound ==
  ASSUME NEW s \in Records, NEW rid \in Rid, rid <= s.rid, NEW st \in 0..MaxStreams,
         s.target[rid] # 0 => s.target[rid] = st
  PROVE  /\ emit_nodes_event(s, rid, st) \in Records
         /\ emit_nodes_event(s, rid, st).rid = s.rid
         /\ emit_nodes_event(s, rid, st)._sn_state = s._sn_state
         /\ emit_nodes_event(s, rid, st).streams = s.streams
<1> DEFINE reached == (IF st = 0 THEN ToSet(s.streams) ELSE {st}) \intersect Open(s)
           nodes == [s.nodes EXCEPT ![rid] = @ \union reached]
           t == emit_nodes_event(s, rid, st)
<1>1. s \in SessionRecord /\ Listed(s) /\ Queued(s) /\ Addressed(s) /\ InTurn(s)
  BY DEF Records, Sound
<1>2. reached \in SUBSET Stream /\ (st # 0 => reached \subseteq {st}) BY DEF Open
<1> HIDE DEF reached
<1>3. /\ nodes \in [Rid -> SUBSET Stream] /\ nodes[rid] = s.nodes[rid] \union reached
      /\ \A r \in Rid : r # rid => nodes[r] = s.nodes[r]
  BY <1>1, <1>2 DEF SessionRecord
<1>4. t = [s EXCEPT !.nodes = nodes] BY <1>1 DEF SessionRecord, emit_nodes_event, reached
<1> HIDE DEF t, nodes
<1>5. t \in SessionRecord BY <1>1, <1>3, <1>4 DEF SessionRecord
<1>6. /\ t.streams = s.streams /\ t._sn_state = s._sn_state /\ t.sn_length = s.sn_length
      /\ t.connector = s.connector /\ t.added = s.added /\ t.rid = s.rid
      /\ t.queued_requests = s.queued_requests /\ t.target = s.target /\ t.nodes = nodes
      /\ t.passed = s.passed /\ t.next_stream = s.next_stream
      /\ t.pending_stanzas = s.pending_stanzas
      /\ t.pending_bosh_responses = s.pending_bosh_responses
  BY <1>1, <1>4 DEF SessionRecord
<1>7. Listed(t) BY <1>1, <1>6 DEF Listed
<1>8. Queued(t) BY <1>1, <1>6 DEF Queued, Adds, HasPending
<1>9. Addressed(t)
  <2>1. ASSUME NEW r \in Rid, r > s.rid PROVE nodes[r] = {}
    <3>1. r # rid BY <2>1, <1>1, StreamsAssumption DEF SessionRecord, Rid
    <3>2. QED BY <2>1, <3>1, <1>1, <1>3 DEF Addressed
  <2>2. ASSUME NEW r \in Rid, s.target[r] # 0 PROVE nodes[r] \subseteq {s.target[r]}
    <3>1. CASE r # rid BY <3>1, <2>2, <1>1, <1>3 DEF Addressed
    <3>2. CASE r = rid
      <4>1. st # 0 /\ s.target[r] = st BY <3>2, <2>2
      <4>2. QED BY <4>1, <3>2, <1>1, <1>2, <1>3 DEF Addressed
    <3>3. QED BY <3>1, <3>2
  <2>3. QED BY <2>1, <2>2, <1>1, <1>6 DEF Addressed
<1>10. InTurn(t) BY <1>1, <1>6 DEF InTurn
<1>11. QED BY <1>5, <1>6, <1>7, <1>8, <1>9, <1>10 DEF Records, Sound, t

Releasing == INSTANCE SequenceLemmas WITH op <- release

(* A run of streams goes, each of them still there when its turn comes.    *)
LEMMA ReleaseAll ==
  ASSUME NEW s \in Records, NEW targets \in Seq(Stream),
         \A i \in 1..Len(targets) : targets[i] \in s._sn_state,
         \A i, j \in 1..Len(targets) : targets[i] = targets[j] => i = j
  PROVE  /\ FoldLeft(release, s, targets) \in Records
         /\ FoldLeft(release, s, targets).rid = s.rid
<1> DEFINE n == Len(targets)
           Left(i) == {t \in Records : /\ t.rid = s.rid
                                       /\ \A j \in 1..n : j > i => targets[j] \in t._sn_state}
           Good == [i \in 0..n |-> Left(i)]
<1>1. /\ n \in Nat /\ DOMAIN targets = 1..n
      /\ \A i \in 1..n : targets[i] \in Stream
  BY ElementOfSeq
<1>2. s \in Left(0) OBVIOUS
<1>3. ASSUME NEW i \in 1..n, NEW t \in Left(i - 1) PROVE release(t, targets[i]) \in Left(i)
  <2> DEFINE u == release(t, targets[i])
  <2>1. t \in Records /\ t.rid = s.rid /\ \A j \in 1..n : j > i - 1 => targets[j] \in t._sn_state
    BY <1>3
  <2>2. targets[i] \in Stream /\ targets[i] \in t._sn_state BY <1>1, <2>1
  <2>3. u \in Records /\ u.rid = s.rid /\ u._sn_state = t._sn_state \ {targets[i]}
    BY <2>1, <2>2, TerminateSound DEF release
  <2> HIDE DEF u
  <2>4. ASSUME NEW j \in 1..n, j > i PROVE targets[j] \in u._sn_state
    <3>1. j > i - 1 /\ j # i BY <2>4, <1>1
    <3>2. QED BY <3>1, <2>1, <2>3
  <2>5. QED BY <2>3, <2>4 DEF u
<1>4. Good[0] = Left(0) /\ Good[n] = Left(n)
      /\ \A i \in 1..n : Good[i] = Left(i) /\ Good[i - 1] = Left(i - 1)
  <2>1. 0 \in 0..n /\ n \in 0..n /\ \A i \in 1..n : i \in 0..n /\ i - 1 \in 0..n BY <1>1
  <2> HIDE DEF Left
  <2>2. QED BY <2>1
<1> HIDE DEF Good, Left
<1>5. \A i \in 1..n : \A t \in Good[i - 1] : release(t, targets[i]) \in Good[i] BY <1>3, <1>4
<1>6. Releasing!Fold(s, targets) \in Good[n]
  BY <1>1, <1>2, <1>4, <1>5, Releasing!FoldLeftReaches
<1>7. FoldLeft(release, s, targets) = Releasing!Fold(s, targets)
  BY Zenon DEF Releasing!Fold, FoldLeft, Releasing!FoldLeft,
               MapThenFoldSet, Releasing!MapThenFoldSet, Max, Releasing!Max
<1>8. FoldLeft(release, s, targets) \in Left(n) BY <1>4, <1>6, <1>7
<1>9. QED BY <1>8 DEF Left

(* A terminate request ends its stream, or all of them.                    *)
LEMMA EndRequestSound ==
  ASSUME NEW s \in Records, NEW st \in 0..MaxStreams, st # 0 => st \in s._sn_state,
         NEW rid \in Rid, NEW hasNodes \in BOOLEAN,
         hasNodes => rid <= s.rid /\ (s.target[rid] # 0 => s.target[rid] = st)
  PROVE  /\ handle_client_stream_terminate_request(s, st, rid, hasNodes) \in Records
         /\ handle_client_stream_terminate_request(s, st, rid, hasNodes).rid = s.rid
<1> DEFINE targets == IF st = 0 THEN s.streams ELSE << st >>
           emitted == IF hasNodes THEN emit_nodes_event(s, rid, st) ELSE s
           told == IF Len(targets) = Len(s.streams) THEN emitted
                   ELSE send_stream_terminate_response(emitted, st)
           t == FoldLeft(release, told, targets)
<1>1. /\ s.streams \in Seq(Stream) /\ s._sn_state \in SUBSET Stream
      /\ \A i, j \in 1..Len(s.streams) : s.streams[i] = s.streams[j] => i = j
  BY DEF Records, SessionRecord, Sound, Listed
<1>2. /\ targets \in Seq(Stream)
      /\ \A i \in 1..Len(targets) : targets[i] \in s._sn_state
      /\ \A i, j \in 1..Len(targets) : targets[i] = targets[j] => i = j
  <2>1. CASE st = 0 BY <2>1, <1>1, ListedStream
  <2>2. CASE st # 0
    <3>1. st \in Stream /\ st \in s._sn_state BY <2>2, <1>1
    <3>2. QED BY <2>2, <3>1
  <2>3. QED BY <2>1, <2>2
<1>3. emitted \in Records /\ emitted.rid = s.rid /\ emitted._sn_state = s._sn_state
  BY EmitSound
<1> HIDE DEF emitted
<1>4. told \in Records /\ told.rid = s.rid /\ told._sn_state = s._sn_state
  <2>1. CASE Len(targets) = Len(s.streams) BY <2>1, <1>3
  <2>2. CASE Len(targets) # Len(s.streams)
    <3>1. st # 0 /\ st \in Stream /\ st \in emitted._sn_state BY <2>2, <1>1, <1>3
    <3>2. send_stream_terminate_response(emitted, st) \in Records
      BY <1>3, <3>1, EnqueueSound DEF send_stream_terminate_response, Responses
    <3>3. /\ send_stream_terminate_response(emitted, st).rid = emitted.rid
          /\ send_stream_terminate_response(emitted, st)._sn_state = emitted._sn_state
      BY <1>3 DEF Records, SessionRecord, send_stream_terminate_response,
                  enqueue_bosh_response, try_sending
    <3>4. QED BY <2>2, <3>2, <3>3, <1>3
  <2>3. QED BY <2>1, <2>2
<1> HIDE DEF told
<1>5. t \in Records /\ t.rid = s.rid
  <2> HIDE DEF targets
  <2>1. QED BY <1>2, <1>4, ReleaseAll
<1>6. handle_client_stream_terminate_request(s, st, rid, hasNodes) = TerminateIfEmpty(t)
  BY Zenon DEF handle_client_stream_terminate_request, emitted, told
<1> HIDE DEF t
<1>7. QED BY <1>5, <1>6, TerminateIfEmptySound
-----------------------------------------------------------------------------
(* Streams come, and requests are taken.                                   *)

(* What add_stream does before the connector answers.                      *)
Appended(s, st) ==
  [s EXCEPT !.added = st, !.streams = Append(@, st), !._sn_state = @ \union {st},
            !.sn_length = @ + 1, !.connector[st] = "opening"]

Listing(s, st, streams, state, count, connector) ==
  [s EXCEPT !.added = st, !.streams = streams, !._sn_state = state,
            !.sn_length = count, !.connector = connector]

(* The updates of an appended stream are well-typed.                       *)
LEMMA ListingType ==
  ASSUME NEW s \in SessionRecord, NEW st \in 0..MaxStreams, NEW streams \in Seq(Stream),
         NEW state \in SUBSET Stream, NEW count \in Int, NEW connector \in [Stream -> Entry]
  PROVE  Listing(s, st, streams, state, count, connector) \in SessionRecord
BY DEF SessionRecord, Listing

(* The new stream is last in the list, and nothing is known of it yet.     *)
LEMMA AppendSound ==
  ASSUME NEW s \in Records, s.added + 1 + Cardinality(Adds(s)) <= MaxStreams,
         NEW t, t = Appended(s, s.added + 1)
  PROVE  /\ t \in Records /\ t.rid = s.rid /\ t.target = s.target
         /\ s.added + 1 \in Stream /\ s.added + 1 \in t._sn_state
<1> DEFINE st == s.added + 1
           len == Len(s.streams)
           n == s.next_stream
           streams == Append(s.streams, st)
           state == s._sn_state \union {st}
           count == s.sn_length + 1
           connector == [s.connector EXCEPT ![st] = "opening"]
<1>1. s \in SessionRecord /\ Listed(s) /\ Queued(s) /\ Addressed(s) /\ InTurn(s)
  BY DEF Records, Sound
<1>2. Cardinality(Adds(s)) \in Nat
  <2>1. Adds(s) \in SUBSET Rid BY DEF Adds
  <2>2. QED BY <2>1, FiniteRids
<1>3. s.added \in Nat /\ st \in Stream /\ st \in 0..MaxStreams
  <2>1. s.added \in 0..MaxStreams BY <1>1 DEF SessionRecord
  <2>2. QED BY <2>1, <1>2, StreamsAssumption DEF Stream
<1>4. st \notin s._sn_state
  <2>1. ~(st <= s.added) BY <1>3
  <2> HIDE DEF st
  <2>2. QED BY <2>1, <1>1, <1>3 DEF Listed
<1>5. /\ s.streams \in Seq(Stream) /\ len \in Nat /\ n \in 0..len
      /\ s._sn_state \in SUBSET Stream /\ s.connector \in [Stream -> Entry] /\ s.sn_length \in Int
  BY <1>1 DEF SessionRecord, InTurn
<1>6. /\ streams \in Seq(Stream) /\ Len(streams) = len + 1 /\ streams[len + 1] = st
      /\ \A i \in 1..len : streams[i] = s.streams[i]
  <2> HIDE DEF st
  <2>1. QED BY <1>3, <1>5
<1>7. /\ connector \in [Stream -> Entry] /\ connector[st] = "opening"
      /\ \A x \in Stream : x # st => connector[x] = s.connector[x]
  <2> HIDE DEF st
  <2>1. QED BY <1>3, <1>5 DEF Entry
<1>8. state \in SUBSET Stream /\ count \in Int BY <1>3, <1>5
<1>9. t = Listing(s, st, streams, state, count, connector)
  <2>1. t = Appended(s, st) OBVIOUS
  <2> HIDE DEF st
  <2>2. QED BY <1>1, <2>1 DEF SessionRecord, Appended, Listing
<1>10. \A x \in Stream : x \in Int BY DEF Stream
<1>11. \A i \in 1..len : s.streams[i] \in Stream /\ s.streams[i] \in s._sn_state BY ListedStream
<1>12. s.added < st BY <1>3
<1> HIDE DEF st, streams, state, count, connector, len, n
<1>13. t \in SessionRecord
  <2>1. /\ st \in 0..MaxStreams /\ streams \in Seq(Stream) /\ state \in SUBSET Stream
        /\ count \in Int /\ connector \in [Stream -> Entry]
    BY <1>3, <1>6, <1>7, <1>8
  <2>2. QED BY <1>1, <1>9, <2>1, ListingType
<1>14. /\ t.streams = streams /\ t._sn_state = state /\ t.sn_length = count
       /\ t.connector = connector /\ t.added = st /\ t.rid = s.rid
       /\ t.queued_requests = s.queued_requests /\ t.target = s.target /\ t.nodes = s.nodes
       /\ t.passed = s.passed /\ t.next_stream = n
       /\ t.pending_stanzas = s.pending_stanzas
       /\ t.pending_bosh_responses = s.pending_bosh_responses
  BY <1>1, <1>9 DEF SessionRecord, Listing, n
<1>15. Listed(t)
  <2>1. \A i, j \in 1..len : s.streams[i] = s.streams[j] => i = j
    BY <1>1 DEF Listed, len
  <2>2. \A x \in Stream : x \in s._sn_state <=> \E i \in 1..len : s.streams[i] = x
    BY <1>1 DEF Listed, len
  <2>3. \A i \in 1..(len + 1) : i = len + 1 \/ i \in 1..len BY <1>5
  <2>4. \A i \in 1..len : streams[i] # st BY <1>4, <1>6, <1>11
  <2>5. ASSUME NEW i \in 1..(len + 1), NEW j \in 1..(len + 1), streams[i] = streams[j]
        PROVE  i = j
    BY <2>1, <2>3, <2>4, <2>5, <1>6
  <2>6. ASSUME NEW i \in 1..(len + 1) PROVE streams[i] \in state
    BY <2>3, <1>6, <1>11 DEF state
  <2>7. ASSUME NEW x \in state PROVE \E i \in 1..(len + 1) : streams[i] = x
    <3>1. CASE x = st
      <4>1. len + 1 \in 1..(len + 1) BY <1>5
      <4>2. QED BY <3>1, <4>1, <1>6
    <3>2. CASE x \in s._sn_state
      <4>1. PICK i \in 1..len : s.streams[i] = x BY <3>2, <2>2, <1>5
      <4>2. i \in 1..(len + 1) BY <1>5
      <4>3. QED BY <4>1, <4>2, <1>6
    <3>3. QED BY <3>1, <3>2 DEF state
  <2>8. \A x \in Stream : x \in state <=> connector[x] \in {"opening", "up"}
    BY <1>1, <1>7 DEF Listed, state
  <2>9. Cardinality(state) = count
    <3>1. IsFiniteSet(s._sn_state) BY <1>5, FiniteStreams
    <3>2. Cardinality(s._sn_state \union {st}) = Cardinality(s._sn_state) + 1
      BY <3>1, <1>4, FS_AddElement
    <3>3. QED BY <3>2, <1>1 DEF Listed, state, count
  <2>10. Len(streams) = count BY <1>1, <1>6 DEF Listed, len, count
  <2>11. ASSUME NEW x \in Stream, x \in state PROVE x <= st
    <3>1. CASE x = st BY <3>1, <1>10
    <3>2. CASE x \in s._sn_state
      <4>1. x <= s.added BY <3>2, <1>1 DEF Listed
      <4>2. QED BY <4>1, <1>3, <1>10, <1>12
    <3>3. QED BY <2>11, <3>1, <3>2 DEF state
  <2>12. \A x \in Stream : x \in state <=> \E i \in 1..(len + 1) : streams[i] = x
    BY <2>6, <2>7
  <2>13. QED BY <2>5, <2>8, <2>9, <2>10, <2>11, <2>12, <1>6, <1>14 DEF Listed
<1>16. Queued(t)
  <2>1. st + Cardinality(Adds(s)) <= MaxStreams BY DEF st
  <2>2. Adds(t) = Adds(s) BY <1>14 DEF Adds
  <2>3. \A x \in Stream : HasPending(t, x) = HasPending(s, x) BY <1>14 DEF HasPending
  <2>4. \A x \in s._sn_state : x \in state BY DEF state
  <2>5. QED BY <2>1, <2>2, <2>3, <2>4, <1>1, <1>14 DEF Queued
<1>17. Addressed(t) BY <1>1, <1>14 DEF Addressed
<1>18. InTurn(t)
  <2>1. \A x, y \in Stream : x > s.added \/ y > s.added => s.passed[x][y] = 0
    BY <1>1 DEF InTurn
  <2>2. ASSUME NEW x \in Stream, NEW y \in Stream, x > st \/ y > st PROVE s.passed[x][y] = 0
    <3>1. x > s.added \/ y > s.added BY <2>2, <1>3, <1>10, <1>12
    <3>2. QED BY <3>1, <2>1
  <2>3. ASSUME NEW i \in 1..(len + 1), NEW j \in 1..(len + 1), s.passed[streams[i]][streams[j]] # 0
        PROVE  Before(i, j, n)
    <3>1. st > s.added /\ \A x \in Stream : s.passed[x][st] = 0 /\ s.passed[st][x] = 0
      BY <2>1, <1>3, <1>12
    <3>2. \A k \in 1..(len + 1) : streams[k] \in Stream /\ (k = len + 1 => streams[k] = st)
      BY <1>5, <1>6, <1>11, <1>3
    <3>3. i # len + 1 /\ j # len + 1 BY <3>1, <3>2, <2>3
    <3>4. i \in 1..len /\ j \in 1..len BY <3>3, <1>5
    <3>5. QED BY <3>4, <2>3, <1>1, <1>6 DEF InTurn, len, n
  <2>4. n <= len + 1 BY <1>5
  <2>5. QED BY <2>2, <2>3, <2>4, <1>6, <1>14 DEF InTurn
<1>19. QED BY <1>3, <1>13, <1>14, <1>15, <1>16, <1>17, <1>18 DEF Records, Sound, st, state

(* add_stream keeps the session sound, whether or not the connector        *)
(* refuses.                                                                *)
LEMMA AddSound ==
  ASSUME NEW s \in Records, s.added + 1 + Cardinality(Adds(s)) <= MaxStreams,
         NEW rid \in Rid, rid <= s.rid, s.target[rid] = 0, NEW refused \in BOOLEAN
  PROVE  /\ add_stream(s, rid, refused) \in Records
         /\ add_stream(s, rid, refused).rid = s.rid
         /\ ~refused => s.added + 1 \in add_stream(s, rid, refused)._sn_state
         /\ s.added + 1 \in Stream
<1> DEFINE st == s.added + 1
           t == [s EXCEPT !.added = st, !.streams = Append(@, st),
                          !._sn_state = @ \union {st}, !.sn_length = @ + 1,
                          !.connector[st] = "opening"]
<1>1. t \in Records /\ t.rid = s.rid /\ t.target = s.target /\ st \in Stream /\ st \in t._sn_state
  <2>1. t = Appended(s, s.added + 1) BY Zenon DEF Appended
  <2>2. QED BY <2>1, AppendSound, Zenon
<1>2. add_stream(s, rid, refused) =
        IF refused THEN _on_terminate(t, st) ELSE emit_nodes_event(t, rid, st)
  BY Zenon DEF add_stream
<1> HIDE DEF t, st
<1> DEFINE Goal == /\ add_stream(s, rid, refused) \in Records
                   /\ add_stream(s, rid, refused).rid = s.rid
                   /\ ~refused => st \in add_stream(s, rid, refused)._sn_state
<1>3. ASSUME refused PROVE Goal BY <1>1, <1>2, <1>3, OnTerminateSound
<1>4. ASSUME ~refused PROVE Goal
  <2>1. st \in 0..MaxStreams BY <1>1, StreamsAssumption DEF Stream
  <2>2. st \in add_stream(s, rid, refused)._sn_state /\ add_stream(s, rid, refused) \in Records
        /\ add_stream(s, rid, refused).rid = s.rid
    BY <1>1, <1>2, <1>4, <2>1, EmitSound
  <2>3. QED BY <2>2, <1>4
<1>5. Goal BY <1>3, <1>4
<1>6. QED BY <1>1, <1>5, Zenon DEF st

(* What _process_one_request does first.                                   *)
Taken(s, rid) == [s EXCEPT !.rid = rid, !.queued_requests[rid] = NoRequest]

(* A request that is taken leaves the queue, and room for the stream it    *)
(* may add.                                                                *)
LEMMA RequestTaken ==
  ASSUME NEW s \in Records, NEW rid \in Rid, rid > s.rid,
         NEW t, t = Taken(s, rid)
  PROVE  /\ t \in Records /\ t.rid = rid /\ t._sn_state = s._sn_state /\ t.target = s.target
         /\ s.queued_requests[rid].kind \in {"add", "refused"} =>
              t.added + 1 + Cardinality(Adds(t)) <= MaxStreams
<1> DEFINE queue == [s.queued_requests EXCEPT ![rid] = NoRequest]
<1>1. s \in SessionRecord /\ Listed(s) /\ Queued(s) /\ Addressed(s) /\ InTurn(s)
  BY DEF Records, Sound
<1>2. /\ queue \in [Rid -> [kind : Kinds \union {"none", "body"}, stream : 0..MaxStreams]]
      /\ queue[rid] = NoRequest
      /\ \A r \in Rid : r # rid => queue[r] = s.queued_requests[r]
  BY <1>1, StreamsAssumption DEF SessionRecord, NoRequest
<1>3. t = [s EXCEPT !.rid = rid, !.queued_requests = queue] BY <1>1 DEF SessionRecord, Taken
<1> HIDE DEF queue
<1>4. rid \in 0..MaxRid BY StreamsAssumption DEF Rid
<1>5. t \in SessionRecord
  <2>1. queue \in [Rid -> [kind : Kinds \union {"none", "body"}, stream : 0..MaxStreams]]
    BY <1>2
  <2>2. QED BY <1>1, <1>3, <1>4, <2>1 DEF SessionRecord
<1>6. /\ t.streams = s.streams /\ t._sn_state = s._sn_state /\ t.sn_length = s.sn_length
      /\ t.connector = s.connector /\ t.added = s.added /\ t.rid = rid
      /\ t.queued_requests = queue /\ t.target = s.target /\ t.nodes = s.nodes
      /\ t.passed = s.passed /\ t.next_stream = s.next_stream
      /\ t.pending_stanzas = s.pending_stanzas
      /\ t.pending_bosh_responses = s.pending_bosh_responses
  BY <1>1, <1>3 DEF SessionRecord
<1>7. Listed(t) BY <1>1, <1>6 DEF Listed
<1>8. /\ Cardinality(Adds(t)) \in Nat /\ Cardinality(Adds(t)) <= Cardinality(Adds(s))
      /\ s.queued_requests[rid].kind \in {"add", "refused"} =>
           Cardinality(Adds(t)) + 1 = Cardinality(Adds(s))
  <2>1. Adds(t) = Adds(s) \ {rid} BY <1>2, <1>6 DEF Adds, NoRequest
  <2>2. Adds(s) \in SUBSET Rid /\ Adds(t) \in SUBSET Rid BY DEF Adds
  <2>3. IsFiniteSet(Adds(s)) /\ Cardinality(Adds(s)) \in Nat /\ Cardinality(Adds(t)) \in Nat
    BY <2>2, FiniteRids
  <2>4. Cardinality(Adds(t)) <= Cardinality(Adds(s)) BY <2>1, <2>3, FS_Subset
  <2>5. ASSUME rid \in Adds(s) PROVE Cardinality(Adds(t)) + 1 = Cardinality(Adds(s))
    <3>1. Cardinality(Adds(t)) = Cardinality(Adds(s)) - 1
      BY <2>1, <2>3, <2>5, FS_RemoveElement
    <3>2. QED BY <3>1, <2>3
  <2>6. QED BY <2>3, <2>4, <2>5 DEF Adds
<1>9. Cardinality(Adds(s)) \in Nat /\ s.added \in Nat /\ s.added + Cardinality(Adds(s)) <= MaxStreams
  <2>1. Adds(s) \in SUBSET Rid BY DEF Adds
  <2>2. QED BY <2>1, <1>1, FiniteRids DEF SessionRecord, Queued
<1>10. Queued(t)
  <2>1. s.added + Cardinality(Adds(t)) <= MaxStreams BY <1>8, <1>9, StreamsAssumption
  <2>2. \A x \in Stream : HasPending(t, x) = HasPending(s, x) BY <1>6 DEF HasPending
  <2>3. QED BY <2>1, <2>2, <1>1, <1>2, <1>6 DEF Queued, NoRequest
<1>11. Addressed(t)
  <2>1. \A r \in Rid : r > rid => r > s.rid
    BY <1>1, StreamsAssumption DEF Rid, SessionRecord
  <2>2. QED BY <2>1, <1>1, <1>2, <1>6 DEF Addressed, NoRequest
<1>12. InTurn(t) BY <1>1, <1>6 DEF InTurn
<1>13. QED BY <1>5, <1>6, <1>7, <1>8, <1>9, <1>10, <1>11, <1>12 DEF Records, Sound

(* _process_one_request keeps the session sound, and moves rid to the      *)
(* request.                                                                *)
LEMMA ProcessOneSound ==
  ASSUME NEW s \in Records, NEW rid \in Rid, rid > s.rid
  PROVE  _process_one_request(s, rid) \in Records /\ _process_one_request(s, rid).rid = rid
<1> DEFINE req == s.queued_requests[rid]
           t == [s EXCEPT !.rid = rid, !.queued_requests[rid] = NoRequest]
           ends == \/ req.kind = "terminate"
                   \/ req.kind = "restart" /\ req.stream = 0
                   \/ req.kind \in {"add", "refused"} /\ is_max_streams_violation(s)
           processed ==
             IF ends THEN handle_client_stream_terminate_request(t, req.stream, rid, req.kind # "restart")
             ELSE IF req.kind \in {"add", "refused"} THEN add_stream(t, rid, req.kind = "refused")
             ELSE IF req.kind = "data" THEN emit_nodes_event(t, rid, req.stream) ELSE t
<1>1. /\ t \in Records /\ t.rid = rid /\ t._sn_state = s._sn_state /\ t.target = s.target
      /\ req.kind \in {"add", "refused"} => t.added + 1 + Cardinality(Adds(t)) <= MaxStreams
  <2>1. t = Taken(s, rid) BY Zenon DEF Taken
  <2>2. QED BY <2>1, RequestTaken, Zenon
<1>2. /\ req.stream \in 0..MaxStreams /\ (req.stream # 0 => req.stream \in s._sn_state)
      /\ req.kind \in {"data", "terminate"} => req.stream = s.target[rid]
      /\ req.kind \in {"restart", "add", "refused"} => s.target[rid] = 0
  BY DEF Records, SessionRecord, Sound, Queued, Addressed
<1>3. _process_one_request(s, rid) = send_pending_responses(processed)
  BY Zenon DEF _process_one_request
<1>4. rid <= t.rid BY <1>1 DEF Rid
<1> HIDE DEF t, req
<1>5. processed \in Records /\ processed.rid = rid
  <2>1. CASE ends
    <3>1. (req.kind # "restart") => rid <= t.rid /\ (t.target[rid] # 0 => t.target[rid] = req.stream)
      BY <2>1, <1>1, <1>2, <1>4
    <3>2. handle_client_stream_terminate_request(t, req.stream, rid, req.kind # "restart") \in Records
          /\ handle_client_stream_terminate_request(t, req.stream, rid, req.kind # "restart").rid = t.rid
      BY <3>1, <1>1, <1>2, EndRequestSound
    <3>3. QED BY <2>1, <3>2, <1>1
  <2>2. CASE ~ends /\ req.kind \in {"add", "refused"}
    <3>1. t.target[rid] = 0 BY <2>2, <1>1, <1>2
    <3>2. /\ add_stream(t, rid, req.kind = "refused") \in Records
          /\ add_stream(t, rid, req.kind = "refused").rid = t.rid
      BY <2>2, <3>1, <1>1, <1>4, AddSound
    <3>3. QED BY <2>2, <3>2, <1>1
  <2>3. CASE ~ends /\ req.kind = "data"
    <3>1. /\ emit_nodes_event(t, rid, req.stream) \in Records
          /\ emit_nodes_event(t, rid, req.stream).rid = t.rid
      BY <2>3, <1>1, <1>2, <1>4, EmitSound
    <3>2. QED BY <2>3, <3>1, <1>1
  <2>4. CASE ~ends /\ ~(req.kind \in {"add", "refused"}) /\ req.kind # "data"
    BY <2>4, <1>1
  <2>5. QED BY <2>1, <2>2, <2>3, <2>4
<1> HIDE DEF processed
<1>6. QED BY <1>3, <1>5, SendSound

Processing == INSTANCE SequenceLemmas WITH op <- _process_one_request

(* A run of requests is taken, one after the other.                        *)
LEMMA ProcessSound ==
  ASSUME NEW s \in Records
  PROVE  process_requests(s) \in Records
<1> DEFINE last == Max({s.rid} \union Runnable(s))
           n == last - s.rid
           seq == [i \in 1..n |-> s.rid + i]
           Upto(i) == {t \in Records : t.rid = s.rid + i}
           Good == [i \in 0..n |-> Upto(i)]
<1>1. s.rid \in 0..MaxRid /\ MaxRid \in Nat
  BY StreamsAssumption DEF Records, SessionRecord
<1>2. last \in 0..MaxRid /\ s.rid <= last
  <2> DEFINE rids == {s.rid} \union Runnable(s)
  <2>1. rids \in SUBSET (0..MaxRid) /\ s.rid \in rids BY <1>1 DEF Runnable, Rid
  <2> HIDE DEF rids
  <2>2. Max(rids) \in rids /\ \A y \in rids : y <= Max(rids) BY <1>1, <2>1, MaxElement
  <2>3. Max(rids) \in 0..MaxRid /\ s.rid <= Max(rids) BY <2>1, <2>2
  <2>4. QED BY <2>3 DEF rids
<1> HIDE DEF last
<1>3. /\ n \in Nat /\ DOMAIN seq = 1..n
      /\ \A i \in 1..n : seq[i] = s.rid + i /\ s.rid + i \in Rid
  BY <1>1, <1>2 DEF Rid
<1> HIDE DEF n, seq
<1>4. s \in Upto(0) BY <1>1
<1>5. ASSUME NEW i \in 1..n, NEW t \in Upto(i - 1)
      PROVE  _process_one_request(t, seq[i]) \in Upto(i)
  <2>1. t \in Records /\ t.rid = s.rid + (i - 1) BY <1>5
  <2>2. seq[i] \in Rid /\ seq[i] > t.rid /\ seq[i] = s.rid + i BY <2>1, <1>1, <1>3
  <2>3. QED BY <2>1, <2>2, ProcessOneSound
<1>6. Good[0] = Upto(0) /\ Good[n] = Upto(n)
      /\ \A i \in 1..n : Good[i] = Upto(i) /\ Good[i - 1] = Upto(i - 1)
  <2>1. 0 \in 0..n /\ n \in 0..n /\ \A i \in 1..n : i \in 0..n /\ i - 1 \in 0..n BY <1>3
  <2> HIDE DEF Upto
  <2>2. QED BY <2>1
<1> HIDE DEF Good, Upto
<1>7. \A i \in 1..n : \A t \in Good[i - 1] : _process_one_request(t, seq[i]) \in Good[i]
  BY <1>5, <1>6
<1>8. Processing!Fold(s, seq) \in Good[n]
  BY <1>3, <1>4, <1>6, <1>7, Processing!FoldLeftReaches
<1>9. process_requests(s) = Processing!Fold(s, seq)
  <2>1. process_requests(s) = FoldLeft(_process_one_request, s, seq)
    BY Zenon DEF process_requests, seq, n, last
  <2>2. QED BY <2>1, Zenon DEF Processing!Fold, FoldLeft, Processing!FoldLeft,
                 MapThenFoldSet, Processing!MapThenFoldSet, Max, Processing!Max
<1>10. QED BY <1>6, <1>8, <1>9 DEF Upto
-----------------------------------------------------------------------------
(* The actions.                                                            *)

(* The rest of the session's state does not matter to Sound.               *)
SameStreams(s, t) ==
  /\ t.streams = s.streams /\ t._sn_state = s._sn_state /\ t.sn_length = s.sn_length
  /\ t.connector = s.connector /\ t.added = s.added /\ t.rid = s.rid
  /\ t.queued_requests = s.queued_requests /\ t.target = s.target /\ t.nodes = s.nodes
  /\ t.passed = s.passed /\ t.next_stream = s.next_stream
  /\ t.pending_stanzas = s.pending_stanzas
  /\ t.pending_bosh_responses = s.pending_bosh_responses

(* What leaves those fields alone keeps the session sound.                 *)
LEMMA SameSound ==
  ASSUME NEW s \in Records, NEW t \in SessionRecord, SameStreams(s, t)
  PROVE  t \in Records
<1>1. Listed(s) /\ Queued(s) /\ Addressed(s) /\ InTurn(s) BY DEF Records, Sound
<1>2. Listed(t) BY <1>1 DEF Listed, SameStreams
<1>3. Queued(t) BY <1>1 DEF Queued, Adds, HasPending, SameStreams
<1>4. Addressed(t) BY <1>1 DEF Addressed, SameStreams
<1>5. InTurn(t) BY <1>1 DEF InTurn, SameStreams
<1>6. QED BY <1>2, <1>3, <1>4, <1>5 DEF Records, Sound

(* respond_to_extra_held does.                                             *)
LEMMA ExtraHeldSound ==
  ASSUME NEW s \in Records
  PROVE  respond_to_extra_held(s) \in Records
<1> DEFINE extra == {r \in s.res : Cardinality({q \in s.res : q >= r}) > Hold}
           sent == IF s.max_rid_sent > Max(extra) THEN s.max_rid_sent ELSE Max(extra)
           rest == s.res \ extra
           t == [s EXCEPT !.res = rest, !.max_rid_sent = sent]
<1>1. s \in SessionRecord /\ s.res \in SUBSET Rid /\ s.max_rid_sent \in 0..MaxRid
  BY DEF Records, SessionRecord
<1>2. extra \in SUBSET Rid BY <1>1
<1>3. respond_to_extra_held(s) = IF extra = {} THEN s ELSE t
  BY <1>1 DEF respond_to_extra_held, SessionRecord
<1> HIDE DEF extra
<1>4. CASE extra = {} BY <1>3, <1>4
<1>5. CASE extra # {}
  <2>1. extra \in SUBSET (0..MaxRid) /\ MaxRid \in Nat BY <1>2, StreamsAssumption DEF Rid
  <2>2. Max(extra) \in 0..MaxRid BY <2>1, <1>5, MaxElement
  <2>3. sent \in 0..MaxRid /\ rest \in SUBSET Rid BY <1>1, <2>2
  <2> HIDE DEF sent, rest
  <2>4. t \in SessionRecord BY <1>1, <2>3 DEF SessionRecord
  <2>5. SameStreams(s, t) BY <1>1 DEF SessionRecord, SameStreams
  <2>6. QED BY <1>3, <1>5, <2>4, <2>5, SameSound
<1>6. QED BY <1>4, <1>5

(* The initial session is sound.                                           *)
LEMMA EmptyRecord == EmptySession \in Records /\ Adds(EmptySession) = {}
<1>1. EmptySession \in SessionRecord
  BY StreamsAssumption DEF EmptySession, SessionRecord, NoRequest, Entry
<1>2. Adds(EmptySession) = {} BY DEF EmptySession, Adds, NoRequest
<1>3. Listed(EmptySession)
  BY FS_EmptySet DEF EmptySession, Listed
<1>4. Queued(EmptySession)
  <2>1. EmptySession.added + Cardinality(Adds(EmptySession)) <= MaxStreams
    <3>1. EmptySession.added = 0 BY DEF EmptySession
    <3>2. Cardinality(Adds(EmptySession)) = 0 BY <1>2, FS_EmptySet
    <3>3. QED BY <3>1, <3>2, StreamsAssumption
  <2>2. \A r \in Rid : EmptySession.queued_requests[r].stream = 0 BY DEF EmptySession, NoRequest
  <2>3. \A st \in Stream : ~HasPending(EmptySession, st) BY DEF EmptySession, HasPending
  <2>4. QED BY <2>1, <2>2, <2>3 DEF Queued
<1>5. Addressed(EmptySession) BY DEF EmptySession, Addressed, NoRequest
<1>6. InTurn(EmptySession) BY DEF EmptySession, InTurn
<1>7. QED BY <1>1, <1>2, <1>3, <1>4, <1>5, <1>6 DEF Records, Sound

(* So is a session that has just been created, with its first stream.      *)
LEMMA CreateSound == CreateSession => session' \in Records
<1> DEFINE s == [EmptySession EXCEPT !.status = "open", !.rid = 1, !.sid_length = 1,
                                     !.res = {1}, !.timeout = TRUE]
           t == add_stream(s, 1, FALSE)
<1>1. EmptySession \in SessionRecord /\ 1 \in Rid /\ {1} \in SUBSET Rid /\ 1 \in 0..MaxRid
  BY EmptyRecord, StreamsAssumption DEF Records, Rid
<1>2. s \in SessionRecord
  <2>1. ASSUME NEW e \in SessionRecord, NEW status \in {"none", "open", "terminated"},
               NEW rid \in 0..MaxRid, NEW count \in Int, NEW held \in SUBSET Rid,
               NEW timeout \in BOOLEAN
        PROVE  [e EXCEPT !.status = status, !.rid = rid, !.sid_length = count, !.res = held,
                         !.timeout = timeout] \in SessionRecord
    BY DEF SessionRecord
  <2>2. "open" \in {"none", "open", "terminated"} /\ 1 \in Int OBVIOUS
  <2>3. QED BY <1>1, <2>1, <2>2, Zenon
<1>3. /\ s.streams = << >> /\ s._sn_state = {} /\ s.sn_length = 0 /\ s.added = 0 /\ s.rid = 1
      /\ s.connector = [st \in Stream |-> "none"]
      /\ s.queued_requests = [r \in Rid |-> NoRequest]
      /\ s.target = [r \in Rid |-> 0] /\ s.nodes = [r \in Rid |-> {}]
      /\ s.passed = [x \in Stream |-> [y \in Stream |-> 0]] /\ s.next_stream = 0
      /\ s.pending_stanzas = [st \in Stream |-> 0]
      /\ s.pending_bosh_responses = [st \in Stream |-> << >>]
  BY DEF EmptySession
<1>4. CreateSession => session' = enqueue_bosh_response(t, 1, "create")
  BY Zenon DEF CreateSession
<1> HIDE DEF s
<1>5. Adds(s) = {} BY <1>3 DEF Adds, NoRequest
<1>6. Listed(s) BY <1>3, FS_EmptySet DEF Listed
<1>7. Queued(s)
  BY <1>3, <1>5, FS_EmptySet, StreamsAssumption DEF Queued, HasPending, NoRequest
<1>8. Addressed(s) BY <1>3 DEF Addressed, NoRequest
<1>9. InTurn(s) BY <1>3 DEF InTurn
<1>10. s \in Records BY <1>2, <1>6, <1>7, <1>8, <1>9 DEF Records, Sound
<1>11. s.added + 1 + Cardinality(Adds(s)) <= MaxStreams /\ s.target[1] = 0
  BY <1>1, <1>3, <1>5, FS_EmptySet, StreamsAssumption
<1>12. t \in Records /\ s.added + 1 \in t._sn_state /\ s.added + 1 \in Stream
  <2>1. 1 <= s.rid /\ FALSE \in BOOLEAN BY <1>3
  <2>2. QED BY <1>1, <1>10, <1>11, <2>1, AddSound
<1>13. 1 \in t._sn_state /\ 1 \in Stream
  <2>1. s.added + 1 = 1 BY <1>3
  <2> HIDE DEF t
  <2>2. QED BY <1>12, <2>1
<1> HIDE DEF t
<1>14. QED BY <1>4, <1>12, <1>13, EnqueueSound DEF Responses

(* A request that names a stream the session has, or none, is queued for   *)
(* it; the add that it may bring is within the bound.                      *)
Queueing(s, queue, target) == [s EXCEPT !.queued_requests = queue, !.target = target]

(* Such a request keeps the session sound.                                 *)
LEMMA QueueingSound ==
  ASSUME NEW s \in Records, NEW rid \in Rid, rid > s.rid,
         s.queued_requests[rid] = NoRequest,
         NEW kind \in Kinds \union {"body"}, NEW stream \in 0..MaxStreams,
         stream # 0 => stream \in s._sn_state,
         kind \in {"add", "refused"} => s.added + Cardinality(Adds(s)) < MaxStreams,
         NEW goal \in 0..MaxStreams,
         kind \in {"data", "terminate"} => goal = stream,
         kind \in {"restart", "add", "refused"} => goal = 0
  PROVE  Queueing(s, [s.queued_requests EXCEPT ![rid] = [kind |-> kind, stream |-> stream]],
                     [s.target EXCEPT ![rid] = goal]) \in Records
<1> DEFINE req == [kind |-> kind, stream |-> stream]
           queue == [s.queued_requests EXCEPT ![rid] = req]
           target == [s.target EXCEPT ![rid] = goal]
           t == Queueing(s, queue, target)
<1>1. s \in SessionRecord /\ Listed(s) /\ Queued(s) /\ Addressed(s) /\ InTurn(s)
  BY DEF Records, Sound
<1>2. /\ queue \in [Rid -> [kind : Kinds \union {"none", "body"}, stream : 0..MaxStreams]]
      /\ queue[rid].kind = kind /\ queue[rid].stream = stream
      /\ \A r \in Rid : r # rid => queue[r] = s.queued_requests[r]
  BY <1>1 DEF SessionRecord
<1>3. /\ target \in [Rid -> 0..MaxStreams] /\ target[rid] = goal
      /\ \A r \in Rid : r # rid => target[r] = s.target[r]
  BY <1>1 DEF SessionRecord
<1> HIDE DEF queue, target
<1>4. t \in SessionRecord
  <2>1. queue \in [Rid -> [kind : Kinds \union {"none", "body"}, stream : 0..MaxStreams]]
    BY <1>2
  <2>2. target \in [Rid -> 0..MaxStreams] BY <1>3
  <2>3. QED BY <1>1, <2>1, <2>2 DEF SessionRecord, Queueing
<1>5. /\ t.streams = s.streams /\ t._sn_state = s._sn_state /\ t.sn_length = s.sn_length
      /\ t.connector = s.connector /\ t.added = s.added /\ t.rid = s.rid
      /\ t.queued_requests = queue /\ t.target = target /\ t.nodes = s.nodes
      /\ t.passed = s.passed /\ t.next_stream = s.next_stream
      /\ t.pending_stanzas = s.pending_stanzas
      /\ t.pending_bosh_responses = s.pending_bosh_responses
  BY <1>1 DEF SessionRecord, Queueing
<1> HIDE DEF t
<1>6. Listed(t) BY <1>1, <1>5 DEF Listed
<1>7. s.added + Cardinality(Adds(t)) <= MaxStreams
  <2>1. Adds(s) \in SUBSET Rid /\ Adds(t) \in SUBSET Rid BY DEF Adds
  <2>2. /\ IsFiniteSet(Adds(s)) /\ Cardinality(Adds(s)) \in Nat /\ Cardinality(Adds(t)) \in Nat
        /\ s.added \in Nat /\ s.added + Cardinality(Adds(s)) <= MaxStreams /\ MaxStreams \in Nat
    <3>1. s.added \in 0..MaxStreams BY <1>1 DEF SessionRecord
    <3>2. QED BY <2>1, <3>1, <1>1, FiniteRids, StreamsAssumption DEF Queued
  <2>3. rid \notin Adds(s) BY DEF Adds, NoRequest
  <2>4. CASE kind \in {"add", "refused"}
    <3>1. Adds(t) = Adds(s) \union {rid} BY <2>4, <1>2, <1>5 DEF Adds
    <3>2. Cardinality(Adds(t)) = Cardinality(Adds(s)) + 1 BY <3>1, <2>2, <2>3, FS_AddElement
    <3>3. s.added + Cardinality(Adds(s)) < MaxStreams BY <2>4
    <3>4. QED BY <2>2, <3>2, <3>3
  <2>5. CASE kind \notin {"add", "refused"}
    <3>1. Adds(t) = Adds(s) BY <2>3, <2>5, <1>2, <1>5 DEF Adds
    <3>2. QED BY <2>2, <3>1
  <2>6. QED BY <2>4, <2>5
<1>8. Queued(t)
  <2>1. \A x \in Stream : HasPending(t, x) = HasPending(s, x) BY <1>5 DEF HasPending
  <2>2. \A r \in Rid : queue[r].stream # 0 => queue[r].stream \in s._sn_state
    BY <1>1, <1>2 DEF Queued
  <2>3. QED BY <2>1, <2>2, <1>1, <1>5, <1>7 DEF Queued
<1>9. Addressed(t)
  <2>1. s.nodes[rid] = {} BY <1>1 DEF Addressed
  <2>2. QED BY <2>1, <1>1, <1>2, <1>3, <1>5 DEF Addressed
<1>10. InTurn(t) BY <1>1, <1>5 DEF InTurn
<1>11. QED BY <1>4, <1>6, <1>8, <1>9, <1>10 DEF Records, Sound, t, queue, target

(* A new request keeps the session sound, with all that it sets off.       *)
LEMMA RequestSound ==
  ASSUME session \in Records, NEW rid \in Rid, NEW kind \in Kinds, NEW name \in 0..MaxStreams,
         Request(rid, kind, name)
  PROVE  session' \in Records
<1> DEFINE s == [session EXCEPT !.timeout = TRUE]
           stream == IF name = 0 THEN get_only_stream(s) ELSE get_stream(s, name)
           goal == IF kind \in {"data", "terminate"} THEN stream ELSE 0
           invalid == send_invalid_stream_terminate_response(s, rid)
           accepted == [s EXCEPT !.queued_requests[rid] = [kind |-> kind, stream |-> stream],
                                 !.target[rid] = goal]
           queued == IF name # 0 /\ stream = 0 THEN invalid
                     ELSE add_held_http_connection(accepted, rid)
<1>1. /\ rid > s.rid /\ s.queued_requests[rid] = NoRequest
      /\ kind \in {"add", "refused"} => s.added + Cardinality(Adds(s)) < MaxStreams
      /\ session' = respond_to_extra_held(process_requests(queued))
  BY Zenon DEF Request, Adds
<1>2. s \in Records
  <2>1. session \in SessionRecord BY DEF Records
  <2>2. s \in SessionRecord BY <2>1 DEF SessionRecord
  <2>3. SameStreams(session, s) BY <2>1 DEF SameStreams, SessionRecord
  <2>4. QED BY <2>2, <2>3, SameSound
<1> HIDE DEF s
<1>3. s \in SessionRecord /\ Listed(s) /\ s._sn_state \in SUBSET Stream
  BY <1>2 DEF Records, Sound, SessionRecord
<1>4. stream \in 0..MaxStreams /\ (stream # 0 => stream \in s._sn_state)
  <2>1. CASE name = 0
    <3>1. stream = IF Len(s.streams) = 1 THEN s.streams[1] ELSE 0
      BY <2>1 DEF get_only_stream
    <3>2. CASE Len(s.streams) = 1
      <4>1. 1 \in 1..Len(s.streams) BY <3>2
      <4>2. s.streams[1] \in Stream /\ s.streams[1] \in s._sn_state BY <4>1, <1>2, ListedStream
      <4>3. QED BY <3>1, <3>2, <4>2, StreamsAssumption DEF Stream
    <3>3. CASE Len(s.streams) # 1 BY <3>1, <3>3, StreamsAssumption
    <3>4. QED BY <3>2, <3>3
  <2>2. CASE name # 0 BY <2>2, StreamsAssumption DEF get_stream
  <2>3. QED BY <2>1, <2>2
<1>5. goal \in 0..MaxStreams BY <1>4, StreamsAssumption
<1> HIDE DEF stream
<1>6. /\ kind \in {"data", "terminate"} => goal = stream
      /\ kind \in {"restart", "add", "refused"} => goal = 0
  OBVIOUS
<1> HIDE DEF goal
<1>7. accepted \in Records
  <2>1. accepted = Queueing(s, [s.queued_requests EXCEPT ![rid] = [kind |-> kind, stream |-> stream]],
                               [s.target EXCEPT ![rid] = goal])
    BY <1>3 DEF SessionRecord, Queueing
  <2>2. kind \in Kinds \union {"body"} OBVIOUS
  <2>3. /\ s.queued_requests[rid] = NoRequest /\ rid > s.rid
        /\ kind \in {"add", "refused"} => s.added + Cardinality(Adds(s)) < MaxStreams
    BY <1>1
  <2>4. Queueing(s, [s.queued_requests EXCEPT ![rid] = [kind |-> kind, stream |-> stream]],
                    [s.target EXCEPT ![rid] = goal]) \in Records
    BY <2>2, <2>3, <1>2, <1>4, <1>5, <1>6, QueueingSound
  <2>5. QED BY <2>1, <2>4, Zenon
<1>8. invalid \in Records
  <2> DEFINE old == s.target[rid]
  <2>1. invalid = Queueing(s, [s.queued_requests EXCEPT ![rid] = [kind |-> "body", stream |-> 0]],
                              [s.target EXCEPT ![rid] = old])
    BY <1>3 DEF SessionRecord, Queueing, send_invalid_stream_terminate_response
  <2>2. old \in 0..MaxStreams /\ 0 \in 0..MaxStreams BY <1>3, StreamsAssumption DEF SessionRecord
  <2> HIDE DEF old
  <2>3. "body" \in Kinds \union {"body"} OBVIOUS
  <2>4. QED BY <2>1, <2>2, <2>3, <1>1, <1>2, QueueingSound
<1> HIDE DEF accepted, invalid
<1>9. add_held_http_connection(accepted, rid) \in Records
  <2> DEFINE t == [accepted EXCEPT !.res = @ \union {rid}]
  <2>1. accepted \in SessionRecord BY <1>7 DEF Records
  <2>2. t \in SessionRecord BY <2>1 DEF SessionRecord
  <2>3. SameStreams(accepted, t) BY <2>1 DEF SameStreams, SessionRecord
  <2>4. t \in Records BY <1>7, <2>2, <2>3, SameSound
  <2>5. add_held_http_connection(accepted, rid) =
          IF rid < accepted.max_rid_sent THEN accepted ELSE t
    BY Zenon DEF add_held_http_connection
  <2> HIDE DEF t
  <2>6. QED BY <1>7, <2>4, <2>5
<1>10. queued \in Records BY <1>8, <1>9
<1> HIDE DEF queued
<1>11. QED BY <1>1, <1>10, ProcessSound, ExtraHeldSound

(* A stream the connector has is one of the session's.                     *)
LEMMA OpenStream ==
  ASSUME session \in Records, NEW st \in Stream, session.connector[st] \in {"opening", "up"}
  PROVE  st \in session._sn_state
BY DEF Records, Sound, Listed

(* The XMPP server has taken a stream.                                     *)
LEMMA StreamAddedSound ==
  ASSUME session \in Records, NEW st \in Stream, OnStreamAdded(st)
  PROVE  session' \in Records
<1> DEFINE connector == [session.connector EXCEPT ![st] = "up"]
           s == [session EXCEPT !.connector[st] = "up"]
<1>1. /\ session \in SessionRecord /\ Listed(session) /\ Queued(session)
      /\ Addressed(session) /\ InTurn(session)
  BY DEF Records, Sound
<1>2. session.connector[st] = "opening" /\ st \in session._sn_state
  BY OpenStream DEF OnStreamAdded
<1>3. session' = IF Len(s.streams) > 1 THEN send_stream_add_response(s, st) ELSE s
  BY Zenon DEF OnStreamAdded
<1>4. /\ connector \in [Stream -> Entry] /\ connector[st] = "up"
      /\ \A x \in Stream : x # st => connector[x] = session.connector[x]
  BY <1>1 DEF SessionRecord, Entry
<1>5. s = [session EXCEPT !.connector = connector] BY <1>1 DEF SessionRecord
<1> HIDE DEF s, connector
<1>6. s \in SessionRecord
  <2>1. connector \in [Stream -> Entry] BY <1>4
  <2>2. QED BY <1>1, <1>5, <2>1 DEF SessionRecord
<1>7. /\ s.streams = session.streams /\ s._sn_state = session._sn_state
      /\ s.sn_length = session.sn_length
      /\ s.connector = connector /\ s.added = session.added /\ s.rid = session.rid
      /\ s.queued_requests = session.queued_requests /\ s.target = session.target
      /\ s.nodes = session.nodes
      /\ s.passed = session.passed /\ s.next_stream = session.next_stream
      /\ s.pending_stanzas = session.pending_stanzas
      /\ s.pending_bosh_responses = session.pending_bosh_responses
  BY <1>1, <1>5 DEF SessionRecord
<1>8. Listed(s)
  <2>1. \A x \in Stream : x \in s._sn_state <=> s.connector[x] \in {"opening", "up"}
    BY <1>1, <1>2, <1>4, <1>7 DEF Listed
  <2>2. QED BY <1>1, <1>7, <2>1 DEF Listed
<1>9. Queued(s) BY <1>1, <1>7 DEF Queued, Adds, HasPending
<1>10. Addressed(s) BY <1>1, <1>7 DEF Addressed
<1>11. InTurn(s) BY <1>1, <1>7 DEF InTurn
<1>12. s \in Records /\ st \in s._sn_state
  BY <1>2, <1>6, <1>7, <1>8, <1>9, <1>10, <1>11 DEF Records, Sound
<1>13. send_stream_add_response(s, st) \in Records
  BY <1>12, EnqueueSound DEF send_stream_add_response, Responses
<1>14. QED BY <1>3, <1>12, <1>13

(* A stanza has come, or a stream error.                                   *)
LEMMA ResponseSound ==
  ASSUME session \in Records, NEW st \in Stream, NEW error \in BOOLEAN, OnResponse(st, error)
  PROVE  session' \in Records
<1> DEFINE stanzas == [session.pending_stanzas EXCEPT ![st] = @ + 1]
           count == session.stanzas + 1
           s == try_sending([session EXCEPT !.stanzas = @ + 1, !.pending_stanzas[st] = @ + 1])
<1>1. /\ session \in SessionRecord /\ Listed(session) /\ Queued(session)
      /\ Addressed(session) /\ InTurn(session)
  BY DEF Records, Sound
<1>2. st \in session._sn_state BY OpenStream DEF OnResponse
<1>3. session' = IF error THEN send_stream_terminate_response(s, st) ELSE s
  BY Zenon DEF OnResponse
<1>4. /\ stanzas \in [Stream -> Nat]
      /\ \A x \in Stream : x # st => stanzas[x] = session.pending_stanzas[x]
  <2>1. session.pending_stanzas \in [Stream -> Nat] BY <1>1 DEF SessionRecord
  <2>2. QED BY <2>1
<1>5. count \in Nat BY <1>1 DEF SessionRecord
<1>6. s = [session EXCEPT !.stanzas = count, !.pending_stanzas = stanzas, !.has_next_tick = TRUE]
  BY <1>1 DEF SessionRecord, try_sending
<1> HIDE DEF s, stanzas, count
<1>7. s \in SessionRecord
  <2>1. stanzas \in [Stream -> Nat] BY <1>4
  <2>2. QED BY <1>1, <1>5, <1>6, <2>1 DEF SessionRecord
<1>8. /\ s.streams = session.streams /\ s._sn_state = session._sn_state
      /\ s.sn_length = session.sn_length
      /\ s.connector = session.connector /\ s.added = session.added /\ s.rid = session.rid
      /\ s.queued_requests = session.queued_requests /\ s.target = session.target
      /\ s.nodes = session.nodes
      /\ s.passed = session.passed /\ s.next_stream = session.next_stream
      /\ s.pending_stanzas = stanzas
      /\ s.pending_bosh_responses = session.pending_bosh_responses
  BY <1>1, <1>6 DEF SessionRecord
<1>9. Listed(s) BY <1>1, <1>8 DEF Listed
<1>10. Queued(s) BY <1>1, <1>2, <1>4, <1>8 DEF Queued, Adds, HasPending
<1>11. Addressed(s) BY <1>1, <1>8 DEF Addressed
<1>12. InTurn(s) BY <1>1, <1>8 DEF InTurn
<1>13. s \in Records /\ st \in s._sn_state
  BY <1>2, <1>7, <1>8, <1>9, <1>10, <1>11, <1>12 DEF Records, Sound
<1>14. send_stream_terminate_response(s, st) \in Records
  BY <1>13, EnqueueSound DEF send_stream_terminate_response, Responses
<1>15. QED BY <1>3, <1>13, <1>14

(* The nextTick callback.                                                  *)
LEMMA TickSound == session \in Records /\ NextTick => session' \in Records
<1> SUFFICES ASSUME session \in Records, NextTick PROVE session' \in Records OBVIOUS
<1> DEFINE s == [session EXCEPT !.has_next_tick = FALSE]
<1>1. session \in SessionRecord BY DEF Records
<1>2. s \in SessionRecord BY <1>1 DEF SessionRecord
<1>3. SameStreams(session, s) BY <1>1 DEF SameStreams, SessionRecord
<1>4. s \in Records BY <1>2, <1>3, SameSound
<1>5. session' = send_pending_responses(s) BY Zenon DEF NextTick
<1> HIDE DEF s
<1>6. QED BY <1>4, <1>5, SendSound

(* A held response times out.                                              *)
LEMMA RequestTimeoutSound == session \in Records /\ RequestTimeout => session' \in Records
<1> SUFFICES ASSUME session \in Records, RequestTimeout PROVE session' \in Records OBVIOUS
<1>1. session \in SessionRecord /\ session.res \in SUBSET Rid /\ session.max_rid_sent \in 0..MaxRid
  BY DEF Records, SessionRecord
<1>2. PICK rid \in session.res :
        session' = [session EXCEPT !.res = @ \ {rid},
                                   !.max_rid_sent = IF @ > rid THEN @ ELSE rid]
  BY Zenon DEF RequestTimeout
<1> DEFINE sent == IF session.max_rid_sent > rid THEN session.max_rid_sent ELSE rid
           held == session.res \ {rid}
<1>3. sent \in 0..MaxRid /\ held \in SUBSET Rid BY <1>1, StreamsAssumption DEF Rid
<1>4. session' = [session EXCEPT !.res = held, !.max_rid_sent = sent]
  BY <1>1, <1>2 DEF SessionRecord
<1> HIDE DEF sent, held
<1>5. session' \in SessionRecord BY <1>1, <1>3, <1>4 DEF SessionRecord
<1>6. SameStreams(session, session') BY <1>1, <1>4 DEF SameStreams, SessionRecord
<1>7. QED BY <1>5, <1>6, SameSound

(* Every step keeps the session one of Records.                            *)
LEMMA NextSound == session \in Records /\ [Next]_session => session' \in Records
<1> SUFFICES ASSUME session \in Records, [Next]_session PROVE session' \in Records OBVIOUS
<1>1. CASE CreateSession BY <1>1, CreateSound
<1>2. ASSUME NEW rid \in Rid, NEW kind \in Kinds, NEW name \in session.named \union {0},
             Request(rid, kind, name)
      PROVE  session' \in Records
  <2>1. name \in 0..MaxStreams
    BY StreamsAssumption DEF Records, SessionRecord, Stream
  <2>2. QED BY <1>2, <2>1, RequestSound
<1>3. ASSUME NEW st \in Stream, OnStreamAdded(st) PROVE session' \in Records
  BY <1>3, StreamAddedSound
<1>4. ASSUME NEW st \in Stream, OnTerminate(st) PROVE session' \in Records
  <2>1. st \in session._sn_state BY <1>4, OpenStream DEF OnTerminate, Open
  <2>2. session' = _on_terminate(session, st) BY <1>4, Zenon DEF OnTerminate
  <2>3. QED BY <2>1, <2>2, OnTerminateSound
<1>5. ASSUME NEW st \in Stream, NEW error \in BOOLEAN, OnResponse(st, error)
      PROVE  session' \in Records
  BY <1>5, ResponseSound
<1>6. CASE NextTick BY <1>6, TickSound
<1>7. CASE RequestTimeout BY <1>7, RequestTimeoutSound
<1>8. CASE InactivityTimeout
  <2>1. session' = handle_client_stream_terminate_request(session, 0, 1, FALSE)
    BY <1>8, Zenon DEF InactivityTimeout
  <2>2. 1 \in Rid /\ 0 \in 0..MaxStreams /\ FALSE \in BOOLEAN BY StreamsAssumption DEF Rid
  <2>3. QED BY <2>1, <2>2, EndRequestSound
<1>9. CASE UNCHANGED session BY <1>9
<1>10. QED
  BY <1>1, <1>2, <1>3, <1>4, <1>5, <1>6, <1>7, <1>8, <1>9 DEF Next
-----------------------------------------------------------------------------
(* The inductive invariant.                                                *)
StreamsInv == session \in Records

(* StreamsInv is one.                                                      *)
LEMMA Invariant == Spec => []StreamsInv
<1>1. Init => StreamsInv BY EmptyRecord DEF Init, StreamsInv
<1>2. StreamsInv /\ [Next]_session => StreamsInv' BY NextSound DEF StreamsInv
<1>3. QED BY <1>1, <1>2, PTL DEF Spec

(* The four tables of streams always agree: the session's list, the store  *)
(* and its count, and the connector (session.js 198-232, stream.js 63-66   *)
(* and 181-201, bosh.js 274-288).                                          *)
THEOREM TablesHold == Spec => []TablesAgree
<1>1. ASSUME StreamsInv PROVE TablesAgree
  <2>1. session \in SessionRecord /\ Listed(session) BY <1>1 DEF StreamsInv, Records, Sound
  <2>2. /\ session.streams \in Seq(Stream) /\ DOMAIN session.streams = 1..Len(session.streams)
        /\ session._sn_state \in SUBSET Stream
    BY <2>1 DEF SessionRecord
  <2>3. \A i \in 1..Len(session.streams) : session.streams[i] \in Stream BY <2>2, ElementOfSeq
  <2>4. ToSet(session.streams) = session._sn_state
    BY <2>1, <2>2, <2>3 DEF ToSet, Listed
  <2>5. session._sn_state = Open(session) BY <2>1, <2>2 DEF Open, Listed
  <2>6. QED BY <2>1, <2>4, <2>5 DEF TablesAgree, Listed
<1>2. QED BY <1>1, Invariant, PTL

(* Round robin: no stream is served twice while another one waits, though  *)
(* streams come and go between two turns (session.js 210-232, 751-780).    *)
THEOREM TurnsHold == Spec => []NotPassedOver
<1>1. ASSUME StreamsInv PROVE NotPassedOver
  <2>1. session.passed \in [Stream -> [Stream -> 0..1]] BY <1>1 DEF StreamsInv, Records, SessionRecord
  <2>2. QED BY <2>1 DEF NotPassedOver
<1>2. QED BY <1>1, Invariant, PTL

(* The nodes of a request for one stream reach no other stream, although   *)
(* streams end while it is queued (session.js 224-231, 265-355, 927-941).  *)
THEOREM TargetsHold == Spec => []NotMixed
<1>1. ASSUME StreamsInv PROVE NotMixed
  BY <1>1 DEF StreamsInv, Records, Sound, Addressed, NotMixed
<1>2. QED BY <1>1, Invariant, PTL
=============================================================================
