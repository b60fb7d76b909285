---------------------------- MODULE SessionProofs ---------------------------
(***************************************************************************)
(* Proofs about Session, for every value of its constants, in three parts. *)
(*                                                                         *)
(* Types: each operator of the module maps a well-typed record to a        *)
(* well-typed record; the actions compose them, and so do the proofs.      *)
(*                                                                         *)
(* Replies: every HTTP request is answered once, and no more responses are *)
(* held than the session allows.  HeldInv relates the held responses, the  *)
(* requests that have arrived and the replies.  An operator either only    *)
(* sends (OnlySends) or takes one request in (TakesIn); an action is one   *)
(* TakesIn at most, followed by OnlySends.                                 *)
(*                                                                         *)
(* Order: what the session does in the order of the request ids.  Requests *)
(* are processed without a gap, their nodes are passed on once, nothing    *)
(* pending is forgotten, the stanzas reach the client in the order of the  *)
(* XMPP server, and none of them is lost.                                  *)
(***************************************************************************)
EXTENDS Session, SequenceLemmas


-----------------------------------------------------------------------------
(* Least and greatest request ids.                                         *)

(* Min of a set of request ids is its least element.                       *)
LEMMA LeastRid ==
  ASSUME NEW S \in SUBSET Rid, S # {}
  PROVE  Min(S) \in S /\ \A q \in S : Min(S) <= q
<1>1. S \subseteq Nat BY BoundsAssumption DEF Rid
<1>2. \E r \in S : \A q \in S : r <= q BY <1>1, LeastNumber
<1>3. QED BY <1>2 DEF Min

(* Max of a set of request ids is its greatest element.                    *)
LEMMA GreatestRid ==
  ASSUME NEW S \in SUBSET Rid, S # {}
  PROVE  Max(S) \in S /\ \A q \in S : q <= Max(S)
<1> DEFINE T == {MaxRid + 1 - r : r \in S}
<1>1. T \in SUBSET Rid BY BoundsAssumption DEF Rid
<1>2. T # {} OBVIOUS
<1> HIDE DEF T
<1>3. PICK t \in T : \A u \in T : t <= u BY <1>1, <1>2, LeastRid
<1>4. PICK r \in S : t = MaxRid + 1 - r BY <1>3 DEF T
<1>5. ASSUME NEW q \in S PROVE q <= r
  <2>1. MaxRid + 1 - q \in T BY DEF T
  <2>2. t <= MaxRid + 1 - q BY <2>1, <1>3
  <2>3. QED BY <2>2, <1>4, BoundsAssumption DEF Rid
<1>6. QED BY <1>5 DEF Max

-----------------------------------------------------------------------------
(* Types.                                                                  *)

(* What res holds: responses, with a rid and a connection each.            *)
LEMMA ResponseFields ==
  ASSUME NEW s \in SessionRecord
  PROVE  /\ s.res \in Seq(Response) /\ Len(s.res) \in Nat
         /\ \A i \in 1..Len(s.res) : s.res[i].rid \in Rid /\ s.res[i].conn \in Conn
<1>1. s.res \in Seq(Response) BY DEF SessionRecord
<1>2. \A i \in 1..Len(s.res) : s.res[i] \in Response BY <1>1, ElementOfSeq
<1>3. QED BY <1>1, <1>2 DEF Response

(* A body without stanzas is a body.                                       *)
LEMMA BareType == \A k \in BodyKind : Bare(k) \in Body
BY DEF Bare, Body

(* SendOnFirst keeps the type, if there is a response for every body.      *)
LEMMA SendOnFirstType ==
  ASSUME NEW s \in SessionRecord, NEW bodies \in Seq(Body), Len(bodies) <= Len(s.res)
  PROVE  SendOnFirst(s, bodies) \in SessionRecord
<1> DEFINE n == Len(bodies)
           last(r) == {i \in 1..n : s.res[i].rid = r
                                     /\ \A j \in (i + 1)..n : s.res[j].rid # r}
           on(c) == {i \in 1..n : s.res[i].conn = c}
           u == [r \in Rid |-> IF last(r) = {} THEN s.unacked_responses[r]
                                ELSE bodies[CHOOSE i \in last(r) : TRUE]]
           p == [c \in Conn |-> IF on(c) = {} THEN s.replies[c]
                                ELSE Append(s.replies[c], bodies[CHOOSE i \in on(c) : TRUE])]
           rest == SubSeq(s.res, n + 1, Len(s.res))
           top == Larger(s.max_rid_sent, s.res[n].rid)
<1>1. n \in Nat /\ \A i \in 1..n : bodies[i] \in Body
  BY ElementOfSeq, LenProperties
<1>2. u \in [Rid -> Body]
  <2>1. ASSUME NEW r \in Rid, last(r) # {} PROVE bodies[CHOOSE i \in last(r) : TRUE] \in Body
    <3>1. (CHOOSE i \in last(r) : TRUE) \in 1..n BY <2>1
    <3>2. QED BY <3>1, <1>1
  <2>2. \A r \in Rid : s.unacked_responses[r] \in Body BY DEF SessionRecord
  <2>3. QED BY <2>1, <2>2
<1>3. p \in [Conn -> Seq(Body)]
  <2>1. ASSUME NEW c \in Conn, on(c) # {} PROVE bodies[CHOOSE i \in on(c) : TRUE] \in Body
    <3>1. (CHOOSE i \in on(c) : TRUE) \in 1..n BY <2>1
    <3>2. QED BY <3>1, <1>1
  <2>2. \A c \in Conn : s.replies[c] \in Seq(Body) BY DEF SessionRecord
  <2>3. QED BY <2>1, <2>2
<1>4. rest \in Seq(Response)
  <2>1. s.res \in Seq(Response) /\ Len(s.res) \in Nat BY ResponseFields
  <2>2. \A i \in (n + 1)..Len(s.res) : s.res[i] \in Response BY <2>1, <1>1, ElementOfSeq
  <2>3. QED BY <1>1, <2>1, <2>2, SubSeqProperties
<1>5. n # 0 => top \in 0..MaxRid
  <2>1. s.max_rid_sent \in 0..MaxRid BY DEF SessionRecord
  <2>2. n # 0 => s.res[n].rid \in Rid BY <1>1, ResponseFields
  <2>3. QED BY <2>1, <2>2, BoundsAssumption DEF Larger, Rid
<1>6. SendOnFirst(s, bodies) =
        IF n = 0 THEN s
        ELSE [s EXCEPT !.res = rest, !.unacked_responses = u, !.max_rid_sent = top, !.replies = p]
  BY Zenon DEF SendOnFirst
<1> HIDE DEF n, last, on, u, p, rest, top
<1>7. CASE n = 0 BY <1>6, <1>7
<1>8. CASE n # 0
  <2>1. [s EXCEPT !.res = rest, !.unacked_responses = u, !.max_rid_sent = top, !.replies = p]
          \in SessionRecord
    BY <1>2, <1>3, <1>4, <1>5, <1>8 DEF SessionRecord
  <2>2. QED BY <1>6, <1>8, <2>1
<1>9. QED BY <1>7, <1>8

(* _send_no_requeue keeps the type.                                        *)
LEMMA SendNoRequeueType ==
  ASSUME NEW s \in SessionRecord, NEW ro \in Response, NEW body \in Body
  PROVE  _send_no_requeue(s, ro, body) \in SessionRecord
<1>1. ro.rid \in Rid /\ ro.conn \in Conn BY DEF Response
<1>2. [s.unacked_responses EXCEPT ![ro.rid] = body] \in [Rid -> Body]
  BY DEF SessionRecord
<1>3. Larger(s.max_rid_sent, ro.rid) \in 0..MaxRid
  BY <1>1, BoundsAssumption DEF SessionRecord, Larger, Rid
<1>4. s.replies \in [Conn -> Seq(Body)] BY DEF SessionRecord
<1>5. [s.replies EXCEPT ![ro.conn] = Append(s.replies[ro.conn], body)] \in [Conn -> Seq(Body)]
  BY <1>1, <1>4
<1>6. QED BY <1>2, <1>3, <1>5 DEF SessionRecord, _send_no_requeue

(* _send_immediate keeps the type.                                         *)
LEMMA SendImmediateType ==
  ASSUME NEW s \in SessionRecord, NEW c \in Conn, NEW body \in Body
  PROVE  _send_immediate(s, c, body) \in SessionRecord
<1>1. s.replies \in [Conn -> Seq(Body)] BY DEF SessionRecord
<1>2. [s.replies EXCEPT ![c] = Append(s.replies[c], body)] \in [Conn -> Seq(Body)] BY <1>1
<1>3. QED BY <1>2 DEF SessionRecord, _send_immediate

(* Empties(n) is a sequence of n bodies.                                   *)
LEMMA EmptiesType ==
  ASSUME NEW n \in Nat
  PROVE  Empties(n) \in Seq(Body) /\ Len(Empties(n)) = n
BY BareType DEF Empties, BodyKind

(* What is pending, element by element.                                    *)
LEMMA PendingFields ==
  ASSUME NEW s \in SessionRecord
  PROVE  /\ s.pending_stanzas \in Seq(Stanza)
         /\ s.pending_bosh_responses \in Seq({"create", "stream-terminate"})
         /\ Len(s.pending_bosh_responses) \in Nat
         /\ \A i \in 1..Len(s.pending_bosh_responses) : s.pending_bosh_responses[i] \in BodyKind
         /\ \A i \in 1..Len(s.pending_stanzas) : s.pending_stanzas[i] \in Stanza
<1>1. /\ s.pending_stanzas \in Seq(Stanza)
      /\ s.pending_bosh_responses \in Seq({"create", "stream-terminate"})
  BY DEF SessionRecord
<1>2. \A i \in 1..Len(s.pending_bosh_responses) :
        s.pending_bosh_responses[i] \in {"create", "stream-terminate"}
  BY <1>1, ElementOfSeq
<1>3. QED BY <1>1, <1>2, ElementOfSeq DEF BodyKind

(* Stitched is a sequence of bodies.                                       *)
LEMMA StitchedType ==
  ASSUME NEW s \in SessionRecord
  PROVE  Stitched(s) \in Seq(Body) /\ Len(Stitched(s)) \in Nat
<1> DEFINE bosh == s.pending_bosh_responses
           n == IF bosh # << >> THEN Len(bosh) ELSE IF s.pending_stanzas # << >> THEN 1 ELSE 0
           b(i) == [kind |-> IF bosh # << >> THEN bosh[i] ELSE "data",
                    stanzas |-> IF i = 1 THEN s.pending_stanzas ELSE << >>]
<1>1. n \in Nat BY PendingFields
<1>2. ASSUME NEW i \in 1..n PROVE b(i) \in Body
  <2>1. (IF bosh # << >> THEN bosh[i] ELSE "data") \in BodyKind
    BY PendingFields DEF BodyKind
  <2>2. (IF i = 1 THEN s.pending_stanzas ELSE << >>) \in Seq(Stanza)
    BY PendingFields
  <2>3. QED BY <2>1, <2>2 DEF Body
<1>3. Stitched(s) = [i \in 1..n |-> b(i)] BY Zenon DEF Stitched
<1> HIDE DEF n, b
<1>4. QED BY <1>1, <1>2, <1>3

(* send_pending_responses keeps the type.                                  *)
LEMMA SendPendingType ==
  ASSUME NEW s \in SessionRecord
  PROVE  send_pending_responses(s) \in SessionRecord
<1> DEFINE n == Smaller(Len(s.res), Len(Stitched(s)))
           bodies == SubSeq(Stitched(s), 1, n)
           t == SendOnFirst(s, bodies)
           bosh == SubSeq(s.pending_bosh_responses, n + 1, Len(s.pending_bosh_responses))
<1>1. /\ n \in Nat /\ n <= Len(s.res) /\ n <= Len(Stitched(s))
      /\ Len(Stitched(s)) \in Nat /\ Stitched(s) \in Seq(Body)
  BY ResponseFields, StitchedType DEF Smaller
<1>2. \A i \in 1..n : Stitched(s)[i] \in Body BY <1>1, ElementOfSeq
<1>3. bodies \in Seq(Body) /\ Len(bodies) = n BY <1>1, <1>2, SubSeqProperties
<1>4. t \in SessionRecord BY <1>1, <1>3, SendOnFirstType
<1>5. bosh \in Seq({"create", "stream-terminate"})
  <2>1. /\ s.pending_bosh_responses \in Seq({"create", "stream-terminate"})
        /\ Len(s.pending_bosh_responses) \in Nat
    BY PendingFields
  <2>2. \A i \in (n + 1)..Len(s.pending_bosh_responses) :
          s.pending_bosh_responses[i] \in {"create", "stream-terminate"}
    BY <2>1, <1>1, ElementOfSeq
  <2>3. QED BY <1>1, <2>1, <2>2, SubSeqProperties
<1>6. t.pending_bosh_responses = s.pending_bosh_responses
  BY DEF SendOnFirst, SessionRecord
<1>7. send_pending_responses(s) =
        IF n = 0 THEN s
        ELSE [t EXCEPT !.pending_stanzas = << >>, !.pending_bosh_responses = bosh]
  BY <1>6, Zenon DEF send_pending_responses
<1> HIDE DEF n, bodies, t, bosh
<1>8. << >> \in Seq(Stanza) OBVIOUS
<1>9. [t EXCEPT !.pending_stanzas = << >>, !.pending_bosh_responses = bosh] \in SessionRecord
  BY <1>4, <1>5, <1>8 DEF SessionRecord
<1>10. QED BY <1>7, <1>9

(* respond_to_extra_held keeps the type.                                   *)
LEMMA RespondToExtraType ==
  ASSUME NEW s \in SessionRecord
  PROVE  respond_to_extra_held(s) \in SessionRecord
<1>1. Len(s.res) \in Nat /\ s.hold \in Nat /\ s.hold >= 1
  BY ResponseFields, OptionsAssumption DEF SessionRecord
<1>2. CASE Len(s.res) <= s.hold BY <1>2 DEF respond_to_extra_held
<1>3. CASE ~(Len(s.res) <= s.hold)
  <2>1. Len(s.res) - s.hold \in Nat /\ Len(s.res) - s.hold <= Len(s.res) BY <1>1, <1>3
  <2>2. /\ Empties(Len(s.res) - s.hold) \in Seq(Body)
        /\ Len(Empties(Len(s.res) - s.hold)) <= Len(s.res)
    BY <2>1, EmptiesType
  <2>3. QED BY <1>3, <2>2, SendOnFirstType DEF respond_to_extra_held
<1>4. QED BY <1>2, <1>3

(* enqueue_bosh_response keeps the type.                                   *)
LEMMA EnqueueBoshType ==
  ASSUME NEW s \in SessionRecord, NEW kind \in {"create", "stream-terminate"}
  PROVE  enqueue_bosh_response(s, kind) \in SessionRecord
<1>1. Append(s.pending_bosh_responses, kind) \in Seq({"create", "stream-terminate"})
  BY DEF SessionRecord
<1>2. QED BY <1>1 DEF enqueue_bosh_response, try_sending, SessionRecord

(* enqueue_stanza keeps the type.                                          *)
LEMMA EnqueueStanzaType ==
  ASSUME NEW s \in SessionRecord, NEW st \in Stanza
  PROVE  enqueue_stanza(s, st) \in SessionRecord
<1>1. Append(s.pending_stanzas, st) \in Seq(Stanza) BY DEF SessionRecord
<1>2. QED BY <1>1 DEF enqueue_stanza, try_sending, SessionRecord

(* delete_stream keeps the type.                                           *)
LEMMA DeleteStreamType ==
  ASSUME NEW s \in SessionRecord
  PROVE  delete_stream(s) \in SessionRecord
<1>1. {s.pending_stanzas[i] : i \in DOMAIN s.pending_stanzas} \in SUBSET Stanza
  BY PendingFields
<1>2. [r \in Rid |-> IF s.queued_requests[r] = "none" THEN "none" ELSE "body"]
        \in [Rid -> Queued]
  BY DEF Queued
<1>3. << >> \in Seq(Stanza) /\ << >> \in Seq({"create", "stream-terminate"}) OBVIOUS
<1>4. QED BY <1>1, <1>2, <1>3 DEF delete_stream, SessionRecord

(* end_session keeps the type.                                             *)
LEMMA EndSessionType ==
  ASSUME NEW s \in SessionRecord, NEW why \in Status
  PROVE  end_session(s, why) \in SessionRecord
<1> DEFINE gone == delete_stream(s)
           bodies == [i \in 1..Len(s.res) |->
                        IF i = 1 THEN Bare("terminate") ELSE Bare("empty")]
           t == SendOnFirst(gone, bodies)
<1>1. Len(s.res) \in Nat BY ResponseFields
<1>2. bodies \in Seq(Body) /\ Len(bodies) = Len(s.res)
  BY <1>1, BareType DEF BodyKind
<1>3. gone \in SessionRecord BY DeleteStreamType
<1>4. gone.res = s.res BY DEF delete_stream, SessionRecord
<1>5. t \in SessionRecord BY <1>1, <1>2, <1>3, <1>4, SendOnFirstType
<1>6. end_session(s, why) = [t EXCEPT !.status = why, !.timeout = FALSE]
  BY Zenon DEF end_session
<1> HIDE DEF t
<1>7. QED BY <1>5, <1>6 DEF SessionRecord

(* A body carries stanzas.                                                 *)
LEMMA StanzasOfType ==
  ASSUME NEW body \in Body
  PROVE  StanzasOf(body) \subseteq Stanza
<1>1. body.stanzas \in Seq(Stanza) BY DEF Body
<1>2. \A i \in 1..Len(body.stanzas) : body.stanzas[i] \in Stanza BY <1>1, ElementOfSeq
<1>3. DOMAIN body.stanzas = 1..Len(body.stanzas) BY <1>1, LenProperties
<1>4. QED BY <1>2, <1>3 DEF StanzasOf

(* NoBody, which stands for "nothing cached", is a body.                   *)
LEMMA NoBodyType == NoBody \in Body
BY BareType DEF NoBody, BodyKind

(* handle_acks keeps the type.                                             *)
LEMMA HandleAcksType ==
  ASSUME NEW s \in SessionRecord, NEW rid \in Rid, NEW attr \in Nat
  PROVE  handle_acks(s, rid, attr) \in SessionRecord
<1> DEFINE given == IF s.ack THEN attr ELSE rid - WindowSize
           ack == IF given = 0 THEN rid - 1 ELSE given
           keys == UnackedRids(s)
           overflow == Cardinality(keys) > 4 * WindowSize
           kept == {r \in keys : overflow => Cardinality({q \in keys : q > r}) < WindowSize}
           stanzas(rids) == UNION {StanzasOf(s.unacked_responses[r]) : r \in rids}
           u == [r \in Rid |-> IF r \in kept /\ r > ack THEN s.unacked_responses[r] ELSE NoBody]
           a == s.acknowledged \union stanzas({r \in kept : r <= ack})
           d == s.trimmed \union stanzas(keys \ kept)
           on == s.ack /\ ~overflow
<1>1. \A r \in Rid : s.unacked_responses[r] \in Body BY DEF SessionRecord
<1>2. u \in [Rid -> Body] BY <1>1, NoBodyType
<1>3. keys \subseteq Rid BY DEF UnackedRids
<1>4. ASSUME NEW rids \in SUBSET Rid PROVE stanzas(rids) \subseteq Stanza
  <2>1. \A r \in rids : StanzasOf(s.unacked_responses[r]) \subseteq Stanza
    BY <1>1, StanzasOfType
  <2>2. QED BY <2>1
<1>5. {r \in kept : r <= ack} \in SUBSET Rid /\ keys \ kept \in SUBSET Rid BY <1>3
<1>6. s.acknowledged \subseteq Stanza /\ s.trimmed \subseteq Stanza BY DEF SessionRecord
<1>7. a \in SUBSET Stanza /\ d \in SUBSET Stanza
  <2>1. stanzas({r \in kept : r <= ack}) \subseteq Stanza BY <1>4, <1>5
  <2>2. stanzas(keys \ kept) \subseteq Stanza BY <1>4, <1>5
  <2> HIDE DEF stanzas, kept, keys, ack
  <2>3. QED BY <2>1, <2>2, <1>6
<1>8. on \in BOOLEAN BY DEF SessionRecord
<1>9. handle_acks(s, rid, attr) =
        [s EXCEPT !.ack = on, !.unacked_responses = u, !.acknowledged = a, !.trimmed = d]
  BY Zenon DEF handle_acks
<1> HIDE DEF on, u, a, d
<1>10. \A b \in BOOLEAN :
         [s EXCEPT !.ack = b, !.unacked_responses = u, !.acknowledged = a, !.trimmed = d]
           \in SessionRecord
  BY <1>2, <1>7 DEF SessionRecord
<1>11. QED BY <1>8, <1>9, <1>10, Zenon

(* handle_broken_connections keeps the type.                               *)
LEMMA HandleBrokenType ==
  ASSUME NEW s \in SessionRecord, NEW rid \in Rid, NEW c \in Conn
  PROVE  handle_broken_connections(s, rid, c) \in SessionRecord
<1> DEFINE known == s.unacked_responses[rid]
           body == IF known # NoBody THEN known ELSE Bare("empty")
           t == [s EXCEPT !.queued_requests[rid] = "none"]
<1>1. body \in Body BY BareType DEF SessionRecord, BodyKind
<1>2. t \in SessionRecord
  <2>1. [s.queued_requests EXCEPT ![rid] = "none"] \in [Rid -> Queued]
    BY DEF SessionRecord, Queued
  <2>2. QED BY <2>1 DEF SessionRecord
<1>3. handle_broken_connections(s, rid, c) = _send_immediate(t, c, body)
  BY Zenon DEF handle_broken_connections
<1> HIDE DEF body, t
<1>4. QED BY <1>1, <1>2, <1>3, SendImmediateType

(* InsertByRid inserts somewhere.                                          *)
LEMMA InsertByRidPosition ==
  ASSUME NEW res \in Seq(Response), NEW ro \in Response
  PROVE  \E pos \in 1..(Len(res) + 1) : InsertByRid(res, ro) = InsertAt(res, pos, ro)
<1> DEFINE notSmaller == {i \in DOMAIN res : res[i].rid >= ro.rid}
<1>1. Len(res) \in Nat /\ DOMAIN res = 1..Len(res) BY LenProperties
<1>2. CASE notSmaller = {}
  <2>1. InsertByRid(res, ro) = InsertAt(res, Len(res) + 1, ro)
    BY <1>2, Zenon DEF InsertByRid
  <2>2. QED BY <1>1, <2>1
<1>3. CASE notSmaller # {}
  <2>1. notSmaller \subseteq Nat BY <1>1
  <2>2. \E i \in notSmaller : \A j \in notSmaller : i <= j BY <1>3, <2>1, LeastNumber
  <2> HIDE DEF notSmaller
  <2>3. Min(notSmaller) \in notSmaller BY <2>2 DEF Min
  <2>4. InsertByRid(res, ro) = InsertAt(res, Min(notSmaller), ro)
    BY <1>3, Zenon DEF InsertByRid, notSmaller
  <2>5. Min(notSmaller) \in 1..(Len(res) + 1) BY <2>3, <1>1 DEF notSmaller
  <2>6. QED BY <2>4, <2>5
<1>4. QED BY <1>2, <1>3

(* InsertByRid, element by element.                                        *)
LEMMA InsertByRidElements ==
  ASSUME NEW res \in Seq(Response), NEW ro \in Response
  PROVE  /\ InsertByRid(res, ro) \in Seq(Response)
         /\ Len(InsertByRid(res, ro)) = Len(res) + 1
         /\ \E pos \in 1..(Len(res) + 1) :
              \A i \in 1..(Len(res) + 1) :
                /\ i < pos => InsertByRid(res, ro)[i] = res[i]
                /\ i = pos => InsertByRid(res, ro)[i] = ro
                /\ i > pos => InsertByRid(res, ro)[i] = res[i - 1]
<1>1. PICK pos \in 1..(Len(res) + 1) : InsertByRid(res, ro) = InsertAt(res, pos, ro)
  BY InsertByRidPosition
<1> DEFINE put == InsertAt(res, pos, ro)
<1>2. /\ put \in Seq(Response)
      /\ Len(put) = Len(res) + 1
      /\ \A i \in 1..(Len(res) + 1) :
           /\ i < pos => put[i] = res[i]
           /\ i = pos => put[i] = ro
           /\ i > pos => put[i] = res[i - 1]
  <2>1. pos \in 1..(Len(res) + 1) BY <1>1
  <2>2. QED BY <2>1, InsertAtElements, SMTT(30)
<1>3. InsertByRid(res, ro) = put BY <1>1
<1> HIDE DEF put
<1>4. QED BY <1>2, <1>3

(* add_held_http_connection keeps the type.                                *)
LEMMA AddHeldType ==
  ASSUME NEW s \in SessionRecord, NEW rid \in Rid, NEW c \in Conn
  PROVE  add_held_http_connection(s, rid, c) \in SessionRecord
<1> DEFINE ro == [rid |-> rid, conn |-> c]
<1>1. ro \in Response BY DEF Response
<1>2. Bare("empty") \in Body BY BareType DEF BodyKind
<1>3. s.res \in Seq(Response) BY ResponseFields
<1>4. InsertByRid(s.res, ro) \in Seq(Response) BY <1>1, <1>3, InsertByRidElements
<1>5. _send_no_requeue(s, ro, Bare("empty")) \in SessionRecord BY <1>1, <1>2, SendNoRequeueType
<1>6. [s EXCEPT !.res = InsertByRid(s.res, ro)] \in SessionRecord BY <1>4 DEF SessionRecord
<1>7. add_held_http_connection(s, rid, c) =
        IF rid < s.max_rid_sent THEN _send_no_requeue(s, ro, Bare("empty"))
        ELSE [s EXCEPT !.res = InsertByRid(s.res, ro)]
  BY Zenon DEF add_held_http_connection
<1>8. QED BY <1>5, <1>6, <1>7

(* ProcessRun keeps the type.                                              *)
LEMMA ProcessRunType ==
  ASSUME NEW s \in SessionRecord, NEW run \in SUBSET Rid
  PROVE  ProcessRun(s, run) \in SessionRecord
<1> DEFINE top == Max(run)
           queue == [r \in Rid |-> IF r \in run THEN "none" ELSE s.queued_requests[r]]
           nodes == [r \in Rid |-> IF r \in run /\ s.queued_requests[r] = "data"
                                   THEN s.nodes[r] + 1 ELSE s.nodes[r]]
           t == [s EXCEPT !.rid = top, !.queued_requests = queue, !.nodes = nodes]
<1>1. queue \in [Rid -> Queued] BY DEF SessionRecord, Queued
<1>2. nodes \in [Rid -> Nat] BY DEF SessionRecord
<1>3. ASSUME run # {} PROVE top \in 0..MaxRid
  <2>2. top \in run BY <1>3, GreatestRid
  <2>3. top \in Rid BY <2>2
  <2> HIDE DEF top
  <2>4. QED BY <2>3, BoundsAssumption DEF Rid
<1>4. ProcessRun(s, run) = IF run = {} THEN s ELSE send_pending_responses(t)
  BY Zenon DEF ProcessRun
<1>5. CASE run = {} BY <1>4, <1>5
<1>6. CASE run # {}
  <2> HIDE DEF top, queue, nodes
  <2>1. t \in SessionRecord BY <1>1, <1>2, <1>3, <1>6 DEF SessionRecord
  <2> HIDE DEF t
  <2>2. QED BY <1>4, <1>6, <2>1, SendPendingType
<1>7. QED BY <1>5, <1>6

(* Taking a terminate request from the queue keeps the type.               *)
LEMMA TakenType ==
  ASSUME NEW s \in SessionRecord, NEW t \in Rid
  PROVE  [s EXCEPT !.rid = t, !.queued_requests[t] = "none", !.nodes[t] = @ + 1]
           \in SessionRecord
<1>1. t \in 0..MaxRid BY BoundsAssumption DEF Rid
<1>2. [s.queued_requests EXCEPT ![t] = "none"] \in [Rid -> Queued]
  BY DEF SessionRecord, Queued
<1>3. [s.nodes EXCEPT ![t] = s.nodes[t] + 1] \in [Rid -> Nat]
  <2>1. s.nodes \in [Rid -> Nat] BY DEF SessionRecord
  <2>2. s.nodes[t] + 1 \in Nat BY <2>1
  <2>3. QED BY <2>1, <2>2
<1>4. QED BY <1>1, <1>2, <1>3 DEF SessionRecord

(* process_requests keeps the type.                                        *)
LEMMA ProcessRequestsType ==
  ASSUME NEW s \in SessionRecord
  PROVE  process_requests(s) \in SessionRecord
<1> DEFINE run == Runnable(s)
           ends == {r \in run : s.queued_requests[r] = "terminate"}
           t == Min(ends)
           before == ProcessRun(s, {r \in run : r < t})
           taken == [before EXCEPT !.rid = t, !.queued_requests[t] = "none", !.nodes[t] = @ + 1]
<1>1. run \in SUBSET Rid BY DEF Runnable
<1>2. process_requests(s) =
        IF ends = {} THEN ProcessRun(s, run)
        ELSE ProcessRun(end_session(taken, "terminated"), {r \in run : r > t})
  BY Zenon DEF process_requests
<1>3. ProcessRun(s, run) \in SessionRecord BY <1>1, ProcessRunType
<1>4. CASE ends = {} BY <1>2, <1>3, <1>4
<1>5. CASE ends # {}
  <2>1. t \in ends BY <1>1, <1>5, LeastRid
  <2>2. t \in Rid BY <2>1, <1>1
  <2>3. {r \in run : r < t} \in SUBSET Rid /\ {r \in run : r > t} \in SUBSET Rid BY <1>1
  <2>4. before \in SessionRecord BY <2>3, ProcessRunType
  <2> HIDE DEF run, ends, t, before
  <2>5. taken \in SessionRecord BY <2>2, <2>4, TakenType
  <2> HIDE DEF taken
  <2>6. end_session(taken, "terminated") \in SessionRecord
    BY <2>5, EndSessionType DEF Status
  <2>7. QED BY <1>2, <1>5, <2>3, <2>6, ProcessRunType
<1>6. QED BY <1>4, <1>5

-----------------------------------------------------------------------------
(* Type correctness of the actions.                                        *)

(* The record of the state before creation is well typed.                  *)
LEMMA EmptyType == EmptySession \in SessionRecord
<1>1. [r \in Rid |-> "none"] \in [Rid -> Queued] BY DEF Queued
<1>2. [r \in Rid |-> NoBody] \in [Rid -> Body] BY NoBodyType
<1>3. << >> \in Seq(Body) OBVIOUS
<1>4. [c \in Conn |-> << >>] \in [Conn -> Seq(Body)] BY <1>3
<1>5. [r \in Rid |-> 0] \in [Rid -> Nat] OBVIOUS
<1>6. /\ << >> \in Seq(Response) /\ << >> \in Seq(Stanza) /\ << >> \in Seq(Rid)
      /\ << >> \in Seq({"create", "stream-terminate"})
  OBVIOUS
<1>7. 0 \in 0..MaxRid /\ 0 \in 0..MaxStanza /\ 1 \in 1..MaxBoshConnections
  BY BoundsAssumption, OptionsAssumption
<1>8. "none" \in Status BY DEF Status
<1>9. QED BY <1>1, <1>2, <1>4, <1>5, <1>6, <1>7, <1>8 DEF EmptySession, SessionRecord

(* Arrive keeps the type.                                                  *)
LEMMA ArriveType ==
  ASSUME NEW s \in SessionRecord, NEW rid \in Rid
  PROVE  Arrive(s, rid) \in SessionRecord
<1>1. Append(s.arrived, rid) \in Seq(Rid) BY DEF SessionRecord
<1>2. QED BY <1>1 DEF Arrive, SessionRecord

(* A new session, holding its creation request, is well typed.             *)
LEMMA NewSessionType ==
  ASSUME NEW h \in HoldAttrs, NEW a \in AckModes
  PROVE  NewSession(h, a) \in SessionRecord
<1> DEFINE fresh == [EmptySession EXCEPT !.status = "open", !.rid = InitRid,
                                !.max_rid_sent = InitRid - 1,
                                !.hold = clamp_hold(h), !.ack = a, !.timeout = TRUE]
<1>1. clamp_hold(h) \in 1..MaxBoshConnections
  BY ClientAssumption, OptionsAssumption DEF clamp_hold, Smaller
<1>2. InitRid \in Rid /\ InitRid \in 0..MaxRid /\ InitRid - 1 \in 0..MaxRid
  BY BoundsAssumption DEF Rid
<1>3. a \in BOOLEAN BY ClientAssumption
<1>4. fresh \in SessionRecord
  BY EmptyType, <1>1, <1>2, <1>3 DEF SessionRecord, Status
<1>5. 1 \in Conn BY BoundsAssumption DEF Conn
<1>6. NewSession(h, a) = add_held_http_connection(Arrive(fresh, InitRid), InitRid, 1)
  BY Zenon DEF NewSession
<1> HIDE DEF fresh
<1>7. QED BY <1>2, <1>4, <1>5, <1>6, ArriveType, AddHeldType

(* EmitNodes keeps the type.                                               *)
LEMMA EmitNodesType ==
  ASSUME NEW s \in SessionRecord, NEW rid \in Rid, NEW kind
  PROVE  EmitNodes(s, rid, kind) \in SessionRecord
<1>1. s.nodes \in [Rid -> Nat] BY DEF SessionRecord
<1>2. s.nodes[rid] + 1 \in Nat BY <1>1
<1>3. [s.nodes EXCEPT ![rid] = s.nodes[rid] + 1] \in [Rid -> Nat] BY <1>1, <1>2
<1>4. QED BY <1>3 DEF EmitNodes, SessionRecord

(* Accept yields a well-typed record.                                      *)
LEMMA AcceptType ==
  ASSUME TypeOK, NEW rid \in Rid, NEW attr \in Nat, NEW kind \in Queued
  PROVE  Accept(rid, attr, kind) \in SessionRecord
<1> DEFINE s == Arrive(session, rid)
           t == [s EXCEPT !.timeout = TRUE, !.queued_requests[rid] = kind]
<1>1. s \in SessionRecord BY ArriveType DEF TypeOK
<1> HIDE DEF s
<1>2. [s.queued_requests EXCEPT ![rid] = kind] \in [Rid -> Queued]
  BY <1>1 DEF SessionRecord
<1>3. t \in SessionRecord BY <1>1, <1>2 DEF SessionRecord
<1>4. Accept(rid, attr, kind) = handle_acks(t, rid, attr) BY Zenon DEF Accept, s
<1> HIDE DEF t
<1>5. QED BY <1>3, <1>4, HandleAcksType

(* A request that may arrive has a connection.                             *)
LEMMA NextConnType ==
  ASSUME TypeOK, MayArrive
  PROVE  NextConn \in Conn
<1>1. Len(session.arrived) \in Nat BY DEF TypeOK, SessionRecord
<1>2. QED BY <1>1, BoundsAssumption DEF MayArrive, NextConn, Conn

(* Creation leads to a well-typed state.                                   *)
LEMMA CreateType ==
  ASSUME TypeOK, NEW h \in HoldAttrs, NEW a \in AckModes, NEW kind,
         CreateSession(h, a, kind) \/ CreateRefused(h, a, kind)
  PROVE  TypeOK'
<1> DEFINE s == NewSession(h, a)
<1>1. s \in SessionRecord BY NewSessionType
<1>2. InitRid \in Rid BY BoundsAssumption
<1>3. CASE CreateSession(h, a, kind)
  <2> DEFINE t == EmitNodes(enqueue_bosh_response(s, "create"), InitRid, kind)
  <2>1. t \in SessionRecord BY <1>1, <1>2, EnqueueBoshType, EmitNodesType
  <2>2. session' = respond_to_extra_held(t) BY <1>3, Zenon DEF CreateSession
  <2> HIDE DEF t
  <2>3. QED BY <2>1, <2>2, RespondToExtraType DEF TypeOK
<1>4. CASE CreateRefused(h, a, kind)
  <2> DEFINE t == end_session(enqueue_bosh_response(s, "stream-terminate"), "terminated")
  <2>1. t \in SessionRecord BY <1>1, EnqueueBoshType, EndSessionType DEF Status
  <2>2. session' = EmitNodes(t, InitRid, kind) BY <1>4, Zenon DEF CreateRefused
  <2> HIDE DEF t
  <2>3. QED BY <1>2, <2>1, <2>2, EmitNodesType DEF TypeOK
<1>5. QED BY <1>3, <1>4

(* So does a request, new or repeated.                                     *)
LEMMA RequestType ==
  ASSUME TypeOK, NEW rid \in Rid, NEW attr \in Nat, NEW kind \in Kinds,
         Request(rid, attr, kind) \/ RepeatedRequest(rid, attr, kind)
  PROVE  TypeOK'
<1>1. kind \in Queued BY ClientAssumption DEF Queued
<1>2. Accept(rid, attr, kind) \in SessionRecord BY <1>1, AcceptType
<1>3. NextConn \in Conn BY NextConnType DEF Request, RepeatedRequest
<1>4. CASE Request(rid, attr, kind)
  <2> DEFINE held == add_held_http_connection(Accept(rid, attr, kind), rid, NextConn)
  <2>1. session' = respond_to_extra_held(process_requests(held)) BY <1>4, Zenon DEF Request
  <2>2. held \in SessionRecord BY <1>2, <1>3, AddHeldType
  <2> HIDE DEF held
  <2>3. QED BY <2>1, <2>2, ProcessRequestsType, RespondToExtraType DEF TypeOK
<1>5. CASE RepeatedRequest(rid, attr, kind)
  <2> DEFINE told == handle_broken_connections(Accept(rid, attr, kind), rid, NextConn)
  <2>1. session' = respond_to_extra_held(send_pending_responses(told))
    BY <1>5, Zenon DEF RepeatedRequest
  <2>2. told \in SessionRecord BY <1>2, <1>3, HandleBrokenType
  <2> HIDE DEF told
  <2>3. QED BY <2>1, <2>2, SendPendingType, RespondToExtraType DEF TypeOK
<1>6. QED BY <1>4, <1>5

(* So does a request for a stream that is gone.                            *)
LEMMA RequestForDeletedStreamType ==
  ASSUME TypeOK, NEW rid \in Rid, NEW attr \in Nat, RequestForDeletedStream(rid, attr)
  PROVE  TypeOK'
<1> DEFINE told == _send_immediate(Accept(rid, attr, "body"), NextConn, Bare("terminate"))
<1>1. Accept(rid, attr, "body") \in SessionRecord BY AcceptType DEF Queued
<1>2. NextConn \in Conn BY NextConnType DEF RequestForDeletedStream
<1>3. told \in SessionRecord BY <1>1, <1>2, SendImmediateType, BareType DEF BodyKind
<1>4. session' = respond_to_extra_held(process_requests(told))
  BY Zenon DEF RequestForDeletedStream
<1> HIDE DEF told
<1>5. QED BY <1>3, <1>4, ProcessRequestsType, RespondToExtraType DEF TypeOK

(* So does a request that is refused.                                      *)
LEMMA RefusedRequestType ==
  ASSUME TypeOK, NEW rid \in Rid, NEW over \in BOOLEAN, InvalidRequest(rid, over) \/ UnknownSession
  PROVE  TypeOK'
<1>1. NextConn \in Conn BY NextConnType DEF InvalidRequest, UnknownSession
<1>2. Bare("terminate") \in Body BY BareType DEF BodyKind
<1>3. CASE InvalidRequest(rid, over)
  <2> DEFINE ended == end_session(Arrive(session, rid), "terminated")
  <2>1. ended \in SessionRecord BY ArriveType, EndSessionType DEF TypeOK, Status
  <2>2. session' = _send_immediate(ended, NextConn, Bare("terminate"))
    BY <1>3, Zenon DEF InvalidRequest
  <2> HIDE DEF ended
  <2>3. QED BY <1>1, <1>2, <2>1, <2>2, SendImmediateType DEF TypeOK
<1>4. CASE UnknownSession
  <2>1. Arrive(session, InitRid) \in SessionRecord BY ArriveType, BoundsAssumption DEF TypeOK
  <2>2. session' = _send_immediate(Arrive(session, InitRid), NextConn, Bare("terminate"))
    BY <1>4, Zenon DEF UnknownSession
  <2>3. QED BY <1>1, <1>2, <2>1, <2>2, SendImmediateType DEF TypeOK
<1>5. QED BY <1>3, <1>4

(* So does the callback of try_sending.                                    *)
LEMMA NextTickType ==
  ASSUME TypeOK, NextTick
  PROVE  TypeOK'
<1>1. [session EXCEPT !.has_next_tick = FALSE] \in SessionRecord BY DEF TypeOK, SessionRecord
<1>2. session' = send_pending_responses([session EXCEPT !.has_next_tick = FALSE])
  BY Zenon DEF NextTick
<1>3. QED BY <1>1, <1>2, SendPendingType DEF TypeOK

(* So do the events of the XMPP server.                                    *)
LEMMA ServerEventType ==
  ASSUME TypeOK, (\E error \in BOOLEAN : OnResponse(error)) \/ OnTerminate
  PROVE  TypeOK'
<1>1. CASE OnTerminate
  <2>1. enqueue_bosh_response(session, "stream-terminate") \in SessionRecord
    BY EnqueueBoshType DEF TypeOK
  <2>2. session' = end_session(enqueue_bosh_response(session, "stream-terminate"), "terminated")
    BY <1>1, Zenon DEF OnTerminate
  <2>3. QED BY <2>1, <2>2, EndSessionType DEF TypeOK, Status
<1>2. ASSUME NEW error \in BOOLEAN, OnResponse(error) PROVE TypeOK'
  <2> DEFINE st == session.stanza_no + 1
             queued == enqueue_stanza([session EXCEPT !.stanza_no = st], st)
  <2>1. st \in 0..MaxStanza /\ st \in Stanza
    BY <1>2, BoundsAssumption DEF OnResponse, TypeOK, SessionRecord, Stanza
  <2>2. [session EXCEPT !.stanza_no = st] \in SessionRecord
    <3> HIDE DEF st
    <3>1. QED BY <2>1 DEF TypeOK, SessionRecord
  <2>3. queued \in SessionRecord BY <2>1, <2>2, EnqueueStanzaType
  <2>4. session' = IF error THEN enqueue_bosh_response(queued, "stream-terminate") ELSE queued
    BY <1>2, Zenon DEF OnResponse
  <2> HIDE DEF queued
  <2>5. enqueue_bosh_response(queued, "stream-terminate") \in SessionRecord
    BY <2>3, EnqueueBoshType
  <2>6. QED BY <2>3, <2>4, <2>5 DEF TypeOK
<1>3. QED BY <1>1, <1>2

(* Told keeps the type.                                                    *)
LEMMA ToldType ==
  ASSUME NEW s \in SessionRecord
  PROVE  [s EXCEPT !.no_client = @ \union UNION {StanzasOf(b) : b \in Unreported(s)},
                   !.pending_stanzas = << >>] \in SessionRecord
<1> DEFINE lost == s.no_client \union UNION {StanzasOf(b) : b \in Unreported(s)}
<1>1. Unreported(s) \subseteq Body
  <2>1. \A r \in UnackedRids(s) : s.unacked_responses[r] \in Body
    BY DEF SessionRecord, UnackedRids
  <2>2. Stitched(s) # << >> => Stitched(s)[1] \in Body
    <3>1. Stitched(s) \in Seq(Body) BY StitchedType
    <3>2. QED BY <3>1, ElementOfSeq
  <2>3. QED BY <2>1, <2>2 DEF Unreported
<1>2. lost \in SUBSET Stanza
  <2>1. \A b \in Unreported(s) : StanzasOf(b) \subseteq Stanza BY <1>1, StanzasOfType
  <2>2. s.no_client \subseteq Stanza BY DEF SessionRecord
  <2>3. QED BY <2>1, <2>2
<1> HIDE DEF lost
<1>3. << >> \in Seq(Stanza) OBVIOUS
<1>4. [s EXCEPT !.no_client = lost, !.pending_stanzas = << >>] \in SessionRecord
  BY <1>2, <1>3 DEF SessionRecord
<1>5. QED BY <1>4, Zenon DEF lost

(* So do the timeouts.                                                     *)
LEMMA TimeoutType ==
  ASSUME TypeOK, RequestTimeout \/ InactivityTimeout
  PROVE  TypeOK'
<1>1. CASE RequestTimeout
  <2> DEFINE res == session.res
             rest(i) == RemoveAt(res, i)
  <2>1. PICK i \in DOMAIN res :
          session' = _send_no_requeue([session EXCEPT !.res = rest(i)], res[i], Bare("empty"))
    BY <1>1, Zenon DEF RequestTimeout
  <2>2. res \in Seq(Response) /\ DOMAIN res = 1..Len(res)
    BY ResponseFields, LenProperties DEF TypeOK
  <2>3. res[i] \in Response BY <2>2, ElementOfSeq
  <2>4. rest(i) \in Seq(Response) BY <2>2, RemoveAtElements
  <2> HIDE DEF rest
  <2>5. [session EXCEPT !.res = rest(i)] \in SessionRecord BY <2>4 DEF TypeOK, SessionRecord
  <2>6. QED BY <2>1, <2>3, <2>5, SendNoRequeueType, BareType DEF BodyKind, TypeOK
<1>2. CASE InactivityTimeout
  <2>1. Told(session) \in SessionRecord BY ToldType DEF Told, TypeOK
  <2>2. session' = end_session(Told(session), "expired") BY <1>2, Zenon DEF InactivityTimeout
  <2>3. QED BY <2>1, <2>2, EndSessionType DEF TypeOK, Status
<1>3. QED BY <1>1, <1>2

(* The session record keeps its type: no handler of session.js leaves a    *)
(* field, a held response or a cached reply of another form behind.        *)
THEOREM TypeCorrect == Spec => []TypeOK
<1>1. Init => TypeOK BY EmptyType DEF Init, TypeOK
<1>2. TypeOK /\ [Next]_session => TypeOK'
  <2> SUFFICES ASSUME TypeOK, [Next]_session PROVE TypeOK' OBVIOUS
  <2>1. ASSUME NEW h \in HoldAttrs, NEW a \in AckModes, NEW kind,
               CreateSession(h, a, kind) \/ CreateRefused(h, a, kind)
        PROVE  TypeOK'
    BY <2>1, CreateType
  <2>2. ASSUME NEW rid \in Rid, NEW attr \in (IF session.ack THEN Acks ELSE {0}),
               NEW kind \in Kinds,
               Request(rid, attr, kind) \/ RepeatedRequest(rid, attr, kind)
        PROVE  TypeOK'
    <3>1. attr \in Nat BY ClientAssumption
    <3>2. QED BY <2>2, <3>1, RequestType
  <2>3. ASSUME NEW rid \in Rid, NEW attr \in (IF session.ack THEN Acks ELSE {0}),
               RequestForDeletedStream(rid, attr)
        PROVE  TypeOK'
    <3>1. attr \in Nat BY ClientAssumption
    <3>2. QED BY <2>3, <3>1, RequestForDeletedStreamType
  <2>4. ASSUME NEW rid \in Rid, NEW over \in BOOLEAN, InvalidRequest(rid, over) PROVE TypeOK'
    BY <2>4, RefusedRequestType
  <2>5. CASE UnknownSession BY <2>5, RefusedRequestType, BoundsAssumption
  <2>6. CASE NextTick BY <2>6, NextTickType
  <2>7. CASE (\E error \in BOOLEAN : OnResponse(error)) \/ OnTerminate BY <2>7, ServerEventType
  <2>8. CASE RequestTimeout \/ InactivityTimeout BY <2>8, TimeoutType
  <2>9. CASE UNCHANGED session BY <2>9 DEF TypeOK
  <2>10. QED BY <2>1, <2>2, <2>3, <2>4, <2>5, <2>6, <2>7, <2>8, <2>9, Zenon DEF Next
<1>3. QED BY <1>1, <1>2, PTL DEF Spec

-----------------------------------------------------------------------------
(* Held responses.  Whatever sends replies, and takes no request in, keeps *)
(* the account of who was answered, and holds no more than before.         *)

OnlySends(s, t) ==
  /\ t.arrived = s.arrived
  /\ t.hold = s.hold
  /\ Len(t.res) <= Len(s.res)
  /\ \A conns : OneReplyEach(s, conns) => OneReplyEach(t, conns)

(* OnlySends is transitive.                                                *)
LEMMA OnlySendsTransitive ==
  ASSUME NEW s \in SessionRecord, NEW t \in SessionRecord, NEW u \in SessionRecord,
         OnlySends(s, t), OnlySends(t, u)
  PROVE  OnlySends(s, u)
<1>1. Len(s.res) \in Nat /\ Len(t.res) \in Nat /\ Len(u.res) \in Nat BY ResponseFields
<1>2. QED BY <1>1 DEF OnlySends

(* What leaves responses and replies alone only sends.                     *)
LEMMA SameResponses ==
  ASSUME NEW s \in SessionRecord, NEW t \in SessionRecord,
         t.arrived = s.arrived, t.hold = s.hold, t.res = s.res, t.replies = s.replies
  PROVE  OnlySends(s, t)
<1>1. Len(s.res) \in Nat BY ResponseFields
<1>2. QED BY <1>1 DEF OnlySends, OneReplyEach, HeldConns

(* SendOnFirst answers each response it removes, once, and no other.       *)
LEMMA SendOnFirstAnswers ==
  ASSUME NEW s \in SessionRecord, NEW bodies \in Seq(Body), Len(bodies) <= Len(s.res)
  PROVE  OnlySends(s, SendOnFirst(s, bodies))
<1> DEFINE n == Len(bodies)
           on(c) == {i \in 1..n : s.res[i].conn = c}
           p == [c \in Conn |-> IF on(c) = {} THEN s.replies[c]
                                ELSE Append(s.replies[c], bodies[CHOOSE i \in on(c) : TRUE])]
           rest == SubSeq(s.res, n + 1, Len(s.res))
           t == SendOnFirst(s, bodies)
<1>1. n \in Nat /\ n <= Len(s.res) BY LenProperties
<1>2. s.res \in Seq(Response) /\ Len(s.res) \in Nat /\ DOMAIN s.res = 1..Len(s.res)
  BY ResponseFields, LenProperties
<1>3. n # 0 => /\ t.res = rest /\ t.replies = p
               /\ t.arrived = s.arrived /\ t.hold = s.hold
  BY DEF SendOnFirst, SessionRecord
<1>4. CASE n = 0
  <2>1. t = s BY <1>4, Zenon DEF SendOnFirst
  <2>2. QED BY <2>1, SameResponses
<1>5. CASE n # 0
  <2>1. /\ Len(rest) = Len(s.res) - n
        /\ \A i \in 1..(Len(s.res) - n) : rest[i] = s.res[n + i]
        /\ DOMAIN rest = 1..(Len(s.res) - n)
    <3>1. \A i \in (n + 1)..Len(s.res) : s.res[i] \in Response BY <1>1, <1>2, ElementOfSeq
    <3>2. QED BY <1>1, <1>2, <3>1, SubSeqProperties
  <2>2. \A c \in Conn : Len(p[c]) = IF on(c) = {} THEN Len(s.replies[c]) ELSE Len(s.replies[c]) + 1
    <3>1. \A c \in Conn : s.replies[c] \in Seq(Body) BY DEF SessionRecord
    <3>2. \A c \in Conn : on(c) # {} => bodies[CHOOSE i \in on(c) : TRUE] \in Body
      <4>1. ASSUME NEW c \in Conn, on(c) # {} PROVE (CHOOSE i \in on(c) : TRUE) \in 1..n
        BY <4>1
      <4>2. QED BY <4>1, ElementOfSeq
    <3> HIDE DEF on
    <3>3. QED BY <3>1, <3>2
  <2> HIDE DEF n, p, rest, t
  <2>3. ASSUME NEW conns, OneReplyEach(s, conns) PROVE OneReplyEach(t, conns)
    <3>1. \A i, j \in 1..Len(s.res) : s.res[i].conn = s.res[j].conn => i = j
      BY <2>3, <1>2 DEF OneReplyEach
    <3>2. HeldConns(t) = {s.res[i].conn : i \in (n + 1)..Len(s.res)}
      <4>1. HeldConns(t) = {rest[i].conn : i \in 1..(Len(s.res) - n)}
        BY <1>3, <1>5, <2>1 DEF HeldConns
      <4>2. ASSUME NEW i \in (n + 1)..Len(s.res)
            PROVE  i - n \in 1..(Len(s.res) - n) /\ rest[i - n] = s.res[i]
        <5>1. i - n \in 1..(Len(s.res) - n) /\ n + (i - n) = i BY <1>1, <1>2
        <5>2. QED BY <5>1, <2>1
      <4>3. ASSUME NEW i \in 1..(Len(s.res) - n)
            PROVE  n + i \in (n + 1)..Len(s.res) /\ rest[i] = s.res[n + i]
        BY <1>1, <1>2, <2>1
      <4>4. QED BY <4>1, <4>2, <4>3
    <3>3. HeldConns(s) = {s.res[i].conn : i \in 1..Len(s.res)} BY <1>2 DEF HeldConns
    <3>4. \A i, j \in DOMAIN t.res : t.res[i].conn = t.res[j].conn => i = j
      <4>1. SUFFICES ASSUME NEW i \in 1..(Len(s.res) - n), NEW j \in 1..(Len(s.res) - n),
                            rest[i].conn = rest[j].conn
                     PROVE  i = j
        BY <1>3, <1>5, <2>1
      <4>2. n + i \in 1..Len(s.res) /\ n + j \in 1..Len(s.res) BY <1>1, <1>2
      <4>3. s.res[n + i].conn = s.res[n + j].conn BY <4>1, <2>1
      <4>4. n + i = n + j BY <3>1, <4>2, <4>3
      <4>5. QED BY <4>4, <1>1
    <3>5. HeldConns(t) \subseteq HeldConns(s) BY <3>2, <3>3, <1>1, <1>2
    <3>6. ASSUME NEW c \in Conn
          PROVE  Len(t.replies[c]) = IF c \in conns \ HeldConns(t) THEN 1 ELSE 0
      <4>1. Len(s.replies[c]) = IF c \in conns \ HeldConns(s) THEN 1 ELSE 0
        BY <2>3 DEF OneReplyEach
      <4>2. HeldConns(s) \subseteq conns BY <2>3 DEF OneReplyEach
      <4>3. Len(t.replies[c]) = IF on(c) = {} THEN Len(s.replies[c]) ELSE Len(s.replies[c]) + 1
        BY <2>2, <1>3, <1>5
      <4>4. CASE on(c) = {}
        <5>1. c \in HeldConns(s) => c \in HeldConns(t)
          <6>1. ASSUME NEW i \in 1..Len(s.res), s.res[i].conn = c PROVE i \in (n + 1)..Len(s.res)
            <7>1. i \notin 1..n BY <4>4, <6>1
            <7>2. QED BY <7>1, <1>1, <1>2
          <6>2. QED BY <6>1, <3>2, <3>3
        <5>2. QED BY <4>1, <4>3, <4>4, <5>1, <3>5
      <4>5. CASE on(c) # {}
        <5>1. PICK i \in 1..n : s.res[i].conn = c BY <4>5
        <5>2. i \in 1..Len(s.res) BY <1>1, <1>2
        <5>3. c \in HeldConns(s) BY <5>1, <5>2, <3>3
        <5>4. c \notin HeldConns(t)
          <6>1. ASSUME NEW j \in (n + 1)..Len(s.res) PROVE s.res[j].conn # c
            <7>1. j \in 1..Len(s.res) /\ j # i BY <1>1, <1>2
            <7>2. QED BY <7>1, <5>1, <5>2, <3>1
          <6>2. QED BY <6>1, <3>2
        <5>5. QED BY <4>1, <4>2, <4>3, <4>5, <5>3, <5>4
      <4>6. QED BY <4>4, <4>5
    <3>7. HeldConns(t) \subseteq conns BY <3>5, <2>3 DEF OneReplyEach
    <3>8. QED BY <3>4, <3>6, <3>7 DEF OneReplyEach
  <2>4. Len(t.res) <= Len(s.res) BY <1>1, <1>2, <1>3, <1>5, <2>1
  <2>5. QED BY <1>3, <1>5, <2>3, <2>4 DEF OnlySends, t
<1>6. QED BY <1>4, <1>5

(* send_pending_responses only sends.                                      *)
LEMMA SendPendingAnswers ==
  ASSUME NEW s \in SessionRecord
  PROVE  OnlySends(s, send_pending_responses(s))
<1> DEFINE n == Smaller(Len(s.res), Len(Stitched(s)))
           bodies == SubSeq(Stitched(s), 1, n)
           t == SendOnFirst(s, bodies)
           bosh == SubSeq(t.pending_bosh_responses, n + 1, Len(t.pending_bosh_responses))
           u == [t EXCEPT !.pending_stanzas = << >>, !.pending_bosh_responses = bosh]
<1>1. /\ n \in Nat /\ n <= Len(s.res) /\ n <= Len(Stitched(s))
      /\ Len(Stitched(s)) \in Nat /\ Stitched(s) \in Seq(Body)
  BY ResponseFields, StitchedType DEF Smaller
<1>2. \A i \in 1..n : Stitched(s)[i] \in Body BY <1>1, ElementOfSeq
<1>3. bodies \in Seq(Body) /\ Len(bodies) = n BY <1>1, <1>2, SubSeqProperties
<1>4. t \in SessionRecord BY <1>1, <1>3, SendOnFirstType
<1>5. OnlySends(s, t) BY <1>1, <1>3, SendOnFirstAnswers
<1>6. send_pending_responses(s) = IF n = 0 THEN s ELSE u
  BY Zenon DEF send_pending_responses
<1>7. u.arrived = t.arrived /\ u.hold = t.hold /\ u.res = t.res /\ u.replies = t.replies
  <2> HIDE DEF t, bosh
  <2>1. QED BY <1>4 DEF SessionRecord
<1>8. send_pending_responses(s) \in SessionRecord BY SendPendingType
<1> HIDE DEF n, t, u
<1>9. CASE n = 0 BY <1>6, <1>9, SameResponses
<1>10. CASE n # 0
  <2>1. u \in SessionRecord BY <1>6, <1>8, <1>10
  <2>2. OnlySends(t, u) BY <1>4, <1>7, <2>1, SameResponses
  <2>3. OnlySends(s, u) BY <1>4, <1>5, <2>1, <2>2, OnlySendsTransitive
  <2>4. QED BY <1>6, <1>10, <2>3
<1>11. QED BY <1>9, <1>10

(* respond_to_extra_held only sends, and leaves at most hold responses.    *)
LEMMA RespondToExtraAnswers ==
  ASSUME NEW s \in SessionRecord
  PROVE  /\ OnlySends(s, respond_to_extra_held(s))
         /\ Len(respond_to_extra_held(s).res) <= respond_to_extra_held(s).hold
<1>1. /\ Len(s.res) \in Nat /\ s.hold \in Nat /\ s.hold >= 1
      /\ s.res \in Seq(Response)
  BY ResponseFields, OptionsAssumption DEF SessionRecord
<1>2. CASE Len(s.res) <= s.hold
  <2>1. respond_to_extra_held(s) = s BY <1>2 DEF respond_to_extra_held
  <2>2. QED BY <1>2, <2>1, SameResponses
<1>3. CASE ~(Len(s.res) <= s.hold)
  <2> DEFINE k == Len(s.res) - s.hold
             t == SendOnFirst(s, Empties(k))
  <2>1. k \in Nat /\ k <= Len(s.res) /\ k # 0 BY <1>1, <1>3
  <2>2. Empties(k) \in Seq(Body) /\ Len(Empties(k)) = k BY <2>1, EmptiesType
  <2>3. respond_to_extra_held(s) = t BY <1>3, Zenon DEF respond_to_extra_held
  <2>4. OnlySends(s, t) BY <2>1, <2>2, SendOnFirstAnswers
  <2>5. t.res = SubSeq(s.res, k + 1, Len(s.res)) /\ t.hold = s.hold
    <3>1. Len(Empties(k)) # 0 BY <2>1, <2>2
    <3> HIDE DEF k
    <3>2. QED BY <2>2, <3>1 DEF SendOnFirst, SessionRecord
  <2>6. Len(SubSeq(s.res, k + 1, Len(s.res))) = s.hold
    <3>1. \A i \in (k + 1)..Len(s.res) : s.res[i] \in Response BY <1>1, <2>1, ElementOfSeq
    <3>2. Len(SubSeq(s.res, k + 1, Len(s.res))) = Len(s.res) - (k + 1) + 1
      BY <1>1, <2>1, <3>1, SubSeqProperties
    <3>3. QED BY <3>2, <1>1
  <2> HIDE DEF t, k
  <2>7. Len(t.res) = t.hold BY <2>5, <2>6
  <2>8. t.hold \in Nat BY <1>1, <2>5
  <2>9. Len(t.res) <= t.hold BY <2>7, <2>8
  <2>10. QED BY <2>3, <2>4, <2>9, Zenon
<1>4. QED BY <1>2, <1>3

(* end_session only sends, and leaves no response.                         *)
LEMMA EndSessionAnswers ==
  ASSUME NEW s \in SessionRecord, NEW why \in Status
  PROVE  OnlySends(s, end_session(s, why)) /\ end_session(s, why).res = << >>
<1> DEFINE gone == delete_stream(s)
           bodies == [i \in 1..Len(s.res) |->
                        IF i = 1 THEN Bare("terminate") ELSE Bare("empty")]
           t == SendOnFirst(gone, bodies)
           u == [t EXCEPT !.status = why, !.timeout = FALSE]
<1>1. Len(s.res) \in Nat /\ s.res \in Seq(Response) BY ResponseFields
<1>2. bodies \in Seq(Body) /\ Len(bodies) = Len(s.res)
  BY <1>1, BareType DEF BodyKind
<1>3. gone \in SessionRecord BY DeleteStreamType
<1>4. /\ gone.res = s.res /\ gone.arrived = s.arrived /\ gone.hold = s.hold
      /\ gone.replies = s.replies
  BY DEF delete_stream, SessionRecord
<1> HIDE DEF gone, bodies
<1>4a. Len(bodies) <= Len(gone.res) BY <1>1, <1>2, <1>4
<1>5. t \in SessionRecord BY <1>2, <1>3, <1>4a, SendOnFirstType
<1>6. OnlySends(gone, t) BY <1>2, <1>3, <1>4a, SendOnFirstAnswers
<1>7. OnlySends(s, gone) BY <1>3, <1>4, SameResponses
<1>8. end_session(s, why) = u BY Zenon DEF end_session, gone, bodies
<1>9. t.res = << >>
  <2>1. CASE Len(s.res) = 0
    <3>1. t = gone BY <2>1, <1>2, Zenon DEF SendOnFirst
    <3>2. s.res = << >> BY <2>1, <1>1, EmptySeq
    <3>3. QED BY <3>1, <3>2, <1>4
  <2>2. CASE Len(s.res) # 0
    <3>1. t.res = SubSeq(s.res, Len(s.res) + 1, Len(s.res))
      BY <1>2, <1>3, <1>4, <2>2 DEF SendOnFirst, SessionRecord
    <3>2. QED BY <3>1, <1>1, SubSeqEmpty
  <2>3. QED BY <2>1, <2>2
<1> HIDE DEF t
<1>10. /\ u.res = t.res /\ u.arrived = t.arrived /\ u.hold = t.hold /\ u.replies = t.replies
  BY <1>5 DEF SessionRecord
<1>11. u \in SessionRecord BY <1>8, EndSessionType
<1> HIDE DEF u
<1>12. OnlySends(t, u) BY <1>5, <1>10, <1>11, SameResponses
<1>13. OnlySends(s, u)
  <2>1. OnlySends(s, t) BY <1>3, <1>5, <1>6, <1>7, OnlySendsTransitive
  <2>2. QED BY <2>1, <1>5, <1>11, <1>12, OnlySendsTransitive
<1>14. QED BY <1>8, <1>9, <1>10, <1>13

(* Enqueueing sends nothing.                                               *)
LEMMA EnqueueAnswers ==
  ASSUME NEW s \in SessionRecord
  PROVE  /\ \A kind \in {"create", "stream-terminate"} :
               OnlySends(s, enqueue_bosh_response(s, kind))
         /\ \A st \in Stanza : OnlySends(s, enqueue_stanza(s, st))
<1>1. ASSUME NEW kind \in {"create", "stream-terminate"}
      PROVE  OnlySends(s, enqueue_bosh_response(s, kind))
  <2> DEFINE t == enqueue_bosh_response(s, kind)
  <2>1. t \in SessionRecord BY EnqueueBoshType
  <2>2. t.arrived = s.arrived /\ t.hold = s.hold /\ t.res = s.res /\ t.replies = s.replies
    BY DEF enqueue_bosh_response, try_sending, SessionRecord
  <2> HIDE DEF t
  <2>3. OnlySends(s, t) BY <2>1, <2>2, SameResponses
  <2>4. QED BY <2>3 DEF t
<1>2. ASSUME NEW st \in Stanza PROVE OnlySends(s, enqueue_stanza(s, st))
  <2> DEFINE t == enqueue_stanza(s, st)
  <2>1. t \in SessionRecord BY EnqueueStanzaType
  <2>2. t.arrived = s.arrived /\ t.hold = s.hold /\ t.res = s.res /\ t.replies = s.replies
    BY DEF enqueue_stanza, try_sending, SessionRecord
  <2> HIDE DEF t
  <2>3. OnlySends(s, t) BY <2>1, <2>2, SameResponses
  <2>4. QED BY <2>3 DEF t
<1>3. QED BY <1>1, <1>2

(* EmitNodes sends nothing.                                                *)
LEMMA EmitNodesAnswers ==
  ASSUME NEW s \in SessionRecord, NEW rid \in Rid, NEW kind
  PROVE  OnlySends(s, EmitNodes(s, rid, kind))
<1> DEFINE t == EmitNodes(s, rid, kind)
<1>1. t \in SessionRecord BY EmitNodesType
<1>2. t.arrived = s.arrived /\ t.hold = s.hold /\ t.res = s.res /\ t.replies = s.replies
  BY DEF EmitNodes, SessionRecord
<1> HIDE DEF t
<1>3. OnlySends(s, t) BY <1>1, <1>2, SameResponses
<1>4. QED BY <1>3 DEF t

(* ProcessRun only sends.                                                  *)
LEMMA ProcessRunAnswers ==
  ASSUME NEW s \in SessionRecord, NEW run \in SUBSET Rid
  PROVE  OnlySends(s, ProcessRun(s, run))
<1> DEFINE top == Max(run)
           queue == [r \in Rid |-> IF r \in run THEN "none" ELSE s.queued_requests[r]]
           nodes == [r \in Rid |-> IF r \in run /\ s.queued_requests[r] = "data"
                                   THEN s.nodes[r] + 1 ELSE s.nodes[r]]
           t == [s EXCEPT !.rid = top, !.queued_requests = queue, !.nodes = nodes]
<1>1. ProcessRun(s, run) = IF run = {} THEN s ELSE send_pending_responses(t)
  BY Zenon DEF ProcessRun
<1>2. CASE run = {} BY <1>1, <1>2, SameResponses
<1>3. CASE run # {}
  <2>1. queue \in [Rid -> Queued] BY DEF SessionRecord, Queued
  <2>2. nodes \in [Rid -> Nat] BY DEF SessionRecord
  <2>3. top \in Rid BY <1>3, GreatestRid
  <2> HIDE DEF top, queue, nodes
  <2>4. top \in 0..MaxRid BY <2>3, BoundsAssumption DEF Rid
  <2>5. t \in SessionRecord BY <2>1, <2>2, <2>4 DEF SessionRecord
  <2>6. t.arrived = s.arrived /\ t.hold = s.hold /\ t.res = s.res /\ t.replies = s.replies
    BY DEF SessionRecord
  <2> HIDE DEF t
  <2>7. OnlySends(s, t) BY <2>5, <2>6, SameResponses
  <2>8. OnlySends(t, send_pending_responses(t)) BY <2>5, SendPendingAnswers
  <2>9. OnlySends(s, send_pending_responses(t))
    BY <2>5, <2>7, <2>8, SendPendingType, OnlySendsTransitive
  <2>10. QED BY <1>1, <1>3, <2>9
<1>4. QED BY <1>2, <1>3

(* process_requests only sends.                                            *)
LEMMA ProcessRequestsAnswers ==
  ASSUME NEW s \in SessionRecord
  PROVE  OnlySends(s, process_requests(s))
<1> DEFINE run == Runnable(s)
           ends == {r \in run : s.queued_requests[r] = "terminate"}
           t == Min(ends)
           before == ProcessRun(s, {r \in run : r < t})
           taken == [before EXCEPT !.rid = t, !.queued_requests[t] = "none", !.nodes[t] = @ + 1]
           ended == end_session(taken, "terminated")
           after == ProcessRun(ended, {r \in run : r > t})
<1>1. run \in SUBSET Rid BY DEF Runnable
<1>2. process_requests(s) = IF ends = {} THEN ProcessRun(s, run) ELSE after
  BY Zenon DEF process_requests
<1>3. OnlySends(s, ProcessRun(s, run)) BY <1>1, ProcessRunAnswers
<1>4. CASE ends = {} BY <1>2, <1>3, <1>4
<1>5. CASE ends # {}
  <2>1. t \in ends BY <1>1, <1>5, LeastRid
  <2>2. t \in Rid /\ t \in 0..MaxRid BY <2>1, <1>1, BoundsAssumption DEF Rid
  <2>3. {r \in run : r < t} \in SUBSET Rid /\ {r \in run : r > t} \in SUBSET Rid BY <1>1
  <2>4. before \in SessionRecord /\ OnlySends(s, before)
    BY <2>3, ProcessRunType, ProcessRunAnswers
  <2> HIDE DEF run, ends, t, before
  <2>5. taken \in SessionRecord BY <2>2, <2>4, TakenType
  <2>6. /\ taken.arrived = before.arrived /\ taken.hold = before.hold
        /\ taken.res = before.res /\ taken.replies = before.replies
    BY <2>4 DEF SessionRecord
  <2> HIDE DEF taken
  <2>7. OnlySends(before, taken) BY <2>4, <2>5, <2>6, SameResponses
  <2>8. ended \in SessionRecord /\ OnlySends(taken, ended)
    BY <2>5, EndSessionType, EndSessionAnswers DEF Status
  <2> HIDE DEF ended
  <2>9. after \in SessionRecord /\ OnlySends(ended, after)
    BY <2>3, <2>8, ProcessRunType, ProcessRunAnswers
  <2> HIDE DEF after
  <2>10. OnlySends(s, taken) BY <2>4, <2>5, <2>7, OnlySendsTransitive
  <2>11. OnlySends(s, ended) BY <2>5, <2>8, <2>10, OnlySendsTransitive
  <2>12. OnlySends(s, after) BY <2>8, <2>9, <2>11, OnlySendsTransitive
  <2>13. QED BY <1>2, <1>5, <2>12
<1>6. QED BY <1>4, <1>5

-----------------------------------------------------------------------------
(* A request is taken in by holding its response or by answering it.       *)

TakesIn(s, c, t) ==
  /\ t.arrived = s.arrived
  /\ t.hold = s.hold
  /\ \A conns : c \notin conns /\ OneReplyEach(s, conns) => OneReplyEach(t, conns \union {c})

(* The account depends on the held responses and the replies alone.        *)
LEMMA SameAccount ==
  ASSUME NEW s, NEW t, NEW conns, t.res = s.res, t.replies = s.replies, OneReplyEach(s, conns)
  PROVE  OneReplyEach(t, conns)
BY DEF OneReplyEach, HeldConns

(* A reply on a new connection takes its request in.                       *)
LEMMA AnswerTakesIn ==
  ASSUME NEW s \in SessionRecord, NEW t \in SessionRecord, NEW c \in Conn, NEW body \in Body,
         t.arrived = s.arrived, t.hold = s.hold, t.res = s.res,
         t.replies = [s.replies EXCEPT ![c] = Append(s.replies[c], body)]
  PROVE  TakesIn(s, c, t)
<1>1. ASSUME NEW conns, c \notin conns, OneReplyEach(s, conns)
      PROVE  OneReplyEach(t, conns \union {c})
  <2>1. HeldConns(t) = HeldConns(s) BY DEF HeldConns
  <2>2. HeldConns(s) \subseteq conns BY <1>1 DEF OneReplyEach
  <2>3. s.replies \in [Conn -> Seq(Body)] BY DEF SessionRecord
  <2>4. ASSUME NEW d \in Conn
        PROVE  Len(t.replies[d]) = IF d \in (conns \union {c}) \ HeldConns(t) THEN 1 ELSE 0
    <3>1. Len(s.replies[d]) = IF d \in conns \ HeldConns(s) THEN 1 ELSE 0
      BY <1>1 DEF OneReplyEach
    <3>2. CASE d = c
      <4>1. Len(s.replies[c]) = 0 BY <3>1, <3>2, <1>1
      <4>2. t.replies[c] = Append(s.replies[c], body) BY <2>3
      <4>3. Len(t.replies[c]) = 1 BY <4>1, <4>2, <2>3
      <4>4. c \in (conns \union {c}) \ HeldConns(t) BY <1>1, <2>1, <2>2
      <4>5. QED BY <3>2, <4>3, <4>4
    <3>3. CASE d # c
      <4>1. t.replies[d] = s.replies[d] BY <3>3, <2>3
      <4>2. d \in (conns \union {c}) \ HeldConns(t) <=> d \in conns \ HeldConns(s)
        BY <3>3, <2>1
      <4>3. QED BY <3>1, <4>1, <4>2
    <3>4. QED BY <3>2, <3>3
  <2>5. QED BY <1>1, <2>1, <2>2, <2>4 DEF OneReplyEach
<1>2. QED BY <1>1 DEF TakesIn

(* _send_immediate takes a request in.                                     *)
LEMMA SendImmediateTakesIn ==
  ASSUME NEW s \in SessionRecord, NEW c \in Conn, NEW body \in Body
  PROVE  TakesIn(s, c, _send_immediate(s, c, body))
<1> DEFINE t == _send_immediate(s, c, body)
<1>1. t \in SessionRecord BY SendImmediateType
<1>2. /\ t.arrived = s.arrived /\ t.hold = s.hold /\ t.res = s.res
      /\ t.replies = [s.replies EXCEPT ![c] = Append(s.replies[c], body)]
  BY DEF _send_immediate, SessionRecord
<1> HIDE DEF t
<1>3. TakesIn(s, c, t) BY <1>1, <1>2, AnswerTakesIn
<1>4. QED BY <1>3 DEF t

(* _send_no_requeue takes the request of its response in.                  *)
LEMMA SendNoRequeueTakesIn ==
  ASSUME NEW s \in SessionRecord, NEW ro \in Response, NEW body \in Body
  PROVE  TakesIn(s, ro.conn, _send_no_requeue(s, ro, body))
<1> DEFINE t == _send_no_requeue(s, ro, body)
<1>1. t \in SessionRecord BY SendNoRequeueType
<1>2. ro.conn \in Conn BY DEF Response
<1>3. /\ t.arrived = s.arrived /\ t.hold = s.hold /\ t.res = s.res
      /\ t.replies = [s.replies EXCEPT ![ro.conn] = Append(s.replies[ro.conn], body)]
  BY DEF _send_no_requeue, SessionRecord
<1> HIDE DEF t
<1>4. TakesIn(s, ro.conn, t) BY <1>1, <1>2, <1>3, AnswerTakesIn
<1>5. QED BY <1>4 DEF t

(* Holding a response takes its request in.                                *)
LEMMA HoldTakesIn ==
  ASSUME NEW s \in SessionRecord, NEW ro \in Response
  PROVE  TakesIn(s, ro.conn, [s EXCEPT !.res = InsertByRid(s.res, ro)])
<1> DEFINE res == InsertByRid(s.res, ro)
           t == [s EXCEPT !.res = res]
<1>1. s.res \in Seq(Response) /\ Len(s.res) \in Nat /\ DOMAIN s.res = 1..Len(s.res)
  BY ResponseFields, LenProperties
<1>2. /\ res \in Seq(Response) /\ Len(res) = Len(s.res) + 1
      /\ DOMAIN res = 1..(Len(s.res) + 1)
  <2>1. res \in Seq(Response) /\ Len(res) = Len(s.res) + 1 BY <1>1, InsertByRidElements
  <2> HIDE DEF res
  <2>2. QED BY <2>1, LenProperties
<1>3. PICK pos \in 1..(Len(s.res) + 1) :
        \A i \in 1..(Len(s.res) + 1) :
          /\ i < pos => res[i] = s.res[i]
          /\ i = pos => res[i] = ro
          /\ i > pos => res[i] = s.res[i - 1]
  BY <1>1, InsertByRidElements
<1>4. /\ t.arrived = s.arrived /\ t.hold = s.hold /\ t.res = res /\ t.replies = s.replies
  BY DEF SessionRecord
<1> HIDE DEF res
<1>5. ASSUME NEW i \in 1..(Len(s.res) + 1), i # pos
      PROVE  \E k \in 1..Len(s.res) : res[i] = s.res[k] /\ k = IF i < pos THEN i ELSE i - 1
  <2>1. CASE i < pos
    <3>1. i \in 1..Len(s.res) BY <1>1, <2>1
    <3>2. QED BY <3>1, <2>1, <1>3
  <2>2. CASE i > pos
    <3>1. i - 1 \in 1..Len(s.res) /\ ~(i < pos) BY <1>1, <2>2
    <3>2. QED BY <3>1, <2>2, <1>3
  <2>3. QED BY <2>1, <2>2, <1>1, <1>5
<1>6. ASSUME NEW conns, ro.conn \notin conns, OneReplyEach(s, conns)
      PROVE  OneReplyEach(t, conns \union {ro.conn})
  <2>1. HeldConns(s) = {s.res[k].conn : k \in 1..Len(s.res)} BY <1>1 DEF HeldConns
  <2>2. HeldConns(s) \subseteq conns BY <1>6 DEF OneReplyEach
  <2>3. HeldConns(t) = {res[i].conn : i \in 1..(Len(s.res) + 1)} BY <1>2, <1>4 DEF HeldConns
  <2>4. HeldConns(t) = HeldConns(s) \union {ro.conn}
    <3>1. ASSUME NEW i \in 1..(Len(s.res) + 1) PROVE res[i].conn \in HeldConns(s) \union {ro.conn}
      BY <1>3, <1>5, <2>1
    <3>2. ASSUME NEW k \in 1..Len(s.res) PROVE s.res[k].conn \in HeldConns(t)
      <4>1. CASE k < pos
        <5>1. k \in 1..(Len(s.res) + 1) /\ res[k] = s.res[k] BY <4>1, <1>1, <1>3
        <5>2. QED BY <5>1, <2>3
      <4>2. CASE ~(k < pos)
        <5>1. k + 1 \in 1..(Len(s.res) + 1) /\ k + 1 > pos /\ (k + 1) - 1 = k BY <4>2, <1>1
        <5>2. res[k + 1] = s.res[k] BY <5>1, <1>3
        <5>3. QED BY <5>1, <5>2, <2>3
      <4>3. QED BY <4>1, <4>2
    <3>3. ro.conn \in HeldConns(t) BY <1>3, <2>3
    <3>4. QED BY <3>1, <3>2, <3>3, <2>1, <2>3
  <2>5. ASSUME NEW i \in DOMAIN t.res, NEW j \in DOMAIN t.res, t.res[i].conn = t.res[j].conn
        PROVE  i = j
    <3>1. i \in 1..(Len(s.res) + 1) /\ j \in 1..(Len(s.res) + 1) /\ res[i].conn = res[j].conn
      BY <2>5, <1>2, <1>4
    <3>2. \A k \in 1..Len(s.res) : s.res[k].conn # ro.conn BY <1>6, <2>1, <2>2
    <3>3. CASE i = pos \/ j = pos BY <3>1, <3>2, <3>3, <1>3, <1>5
    <3>4. CASE i # pos /\ j # pos
      <4>1. PICK k \in 1..Len(s.res) : res[i] = s.res[k] /\ k = IF i < pos THEN i ELSE i - 1
        BY <3>1, <3>4, <1>5
      <4>2. PICK m \in 1..Len(s.res) : res[j] = s.res[m] /\ m = IF j < pos THEN j ELSE j - 1
        BY <3>1, <3>4, <1>5
      <4>3. k = m BY <3>1, <4>1, <4>2, <1>1, <1>6 DEF OneReplyEach
      <4>4. QED BY <4>1, <4>2, <4>3, <3>1, <3>4
    <3>5. QED BY <3>3, <3>4
  <2>6. ASSUME NEW d \in Conn
        PROVE  Len(t.replies[d]) =
                 IF d \in (conns \union {ro.conn}) \ HeldConns(t) THEN 1 ELSE 0
    <3>1. Len(s.replies[d]) = IF d \in conns \ HeldConns(s) THEN 1 ELSE 0
      BY <1>6 DEF OneReplyEach
    <3>2. d \in (conns \union {ro.conn}) \ HeldConns(t) <=> d \in conns \ HeldConns(s)
      BY <1>6, <2>4
    <3>3. QED BY <3>1, <3>2, <1>4
  <2>7. HeldConns(t) \subseteq conns \union {ro.conn} BY <2>2, <2>4
  <2>8. QED BY <2>5, <2>6, <2>7 DEF OneReplyEach
<1> HIDE DEF t
<1>7. TakesIn(s, ro.conn, t) BY <1>4, <1>6 DEF TakesIn
<1>8. QED BY <1>7 DEF t, res

(* add_held_http_connection takes a request in.                            *)
LEMMA AddHeldTakesIn ==
  ASSUME NEW s \in SessionRecord, NEW rid \in Rid, NEW c \in Conn
  PROVE  TakesIn(s, c, add_held_http_connection(s, rid, c))
<1> DEFINE ro == [rid |-> rid, conn |-> c]
<1>1. ro \in Response /\ ro.conn = c BY DEF Response
<1>2. Bare("empty") \in Body BY BareType DEF BodyKind
<1>3. add_held_http_connection(s, rid, c) =
        IF rid < s.max_rid_sent THEN _send_no_requeue(s, ro, Bare("empty"))
        ELSE [s EXCEPT !.res = InsertByRid(s.res, ro)]
  BY Zenon DEF add_held_http_connection
<1> HIDE DEF ro
<1>4. TakesIn(s, c, _send_no_requeue(s, ro, Bare("empty")))
  BY <1>1, <1>2, SendNoRequeueTakesIn
<1>5. TakesIn(s, c, [s EXCEPT !.res = InsertByRid(s.res, ro)])
  BY <1>1, HoldTakesIn
<1>6. QED BY <1>3, <1>4, <1>5, Zenon

(* A response that leaves the held ones unanswered leaves the account too. *)
LEMMA RemoveHeld ==
  ASSUME NEW s \in SessionRecord, NEW i \in 1..Len(s.res), NEW conns, OneReplyEach(s, conns)
  PROVE  OneReplyEach([s EXCEPT !.res = RemoveAt(s.res, i)], conns \ {s.res[i].conn})
<1> DEFINE rest == RemoveAt(s.res, i)
           t == [s EXCEPT !.res = rest]
           c == s.res[i].conn
<1>1. s.res \in Seq(Response) /\ Len(s.res) \in Nat /\ DOMAIN s.res = 1..Len(s.res)
  BY ResponseFields, LenProperties
<1>2. /\ rest \in Seq(Response) /\ Len(rest) = Len(s.res) - 1
      /\ \A k \in 1..(Len(s.res) - 1) :
           /\ k < i => rest[k] = s.res[k]
           /\ k >= i => rest[k] = s.res[k + 1]
  BY <1>1, RemoveAtElements
<1>3. t.res = rest /\ t.replies = s.replies BY DEF SessionRecord
<1> HIDE DEF rest, t
<1>4. DOMAIN rest = 1..(Len(s.res) - 1) BY <1>2, LenProperties
<1>5. \A j, k \in 1..Len(s.res) : s.res[j].conn = s.res[k].conn => j = k
  BY <1>1 DEF OneReplyEach
<1>6. HeldConns(s) = {s.res[k].conn : k \in 1..Len(s.res)} BY <1>1 DEF HeldConns
<1>7. HeldConns(t) = {rest[k].conn : k \in 1..(Len(s.res) - 1)} BY <1>3, <1>4 DEF HeldConns
<1>8. ASSUME NEW k \in 1..(Len(s.res) - 1)
      PROVE  \E j \in 1..Len(s.res) :
               j # i /\ rest[k] = s.res[j] /\ j = IF k < i THEN k ELSE k + 1
  <2>1. CASE k < i
    <3>1. k \in 1..Len(s.res) /\ k # i BY <2>1, <1>1
    <3>2. QED BY <3>1, <2>1, <1>2
  <2>2. CASE k >= i
    <3>1. k + 1 \in 1..Len(s.res) /\ k + 1 # i /\ ~(k < i) BY <2>2, <1>1
    <3>2. QED BY <3>1, <2>2, <1>2
  <2>3. QED BY <2>1, <2>2
<1>9. HeldConns(t) = HeldConns(s) \ {c}
  <2>1. ASSUME NEW k \in 1..(Len(s.res) - 1) PROVE rest[k].conn \in HeldConns(s) \ {c}
    BY <1>5, <1>6, <1>8
  <2>2. ASSUME NEW j \in 1..Len(s.res), s.res[j].conn # c PROVE s.res[j].conn \in HeldConns(t)
    <3>1. CASE j < i
      <4>1. j \in 1..(Len(s.res) - 1) /\ rest[j] = s.res[j] BY <3>1, <1>1, <1>2
      <4>2. QED BY <4>1, <1>7
    <3>2. CASE ~(j < i)
      <4>1. j - 1 \in 1..(Len(s.res) - 1) /\ j - 1 >= i /\ (j - 1) + 1 = j BY <2>2, <3>2, <1>1
      <4>2. rest[j - 1] = s.res[j] BY <4>1, <1>2
      <4>3. QED BY <4>1, <4>2, <1>7
    <3>3. QED BY <3>1, <3>2
  <2> HIDE DEF c
  <2>3. QED BY <2>1, <2>2, <1>6, <1>7
<1>10. ASSUME NEW j \in DOMAIN t.res, NEW k \in DOMAIN t.res, t.res[j].conn = t.res[k].conn
       PROVE  j = k
  <2>1. /\ j \in 1..(Len(s.res) - 1) /\ k \in 1..(Len(s.res) - 1)
        /\ rest[j].conn = rest[k].conn
    BY <1>3, <1>4, <1>10
  <2>2. PICK x \in 1..Len(s.res) :
          x # i /\ rest[j] = s.res[x] /\ x = IF j < i THEN j ELSE j + 1
    BY <2>1, <1>8
  <2>3. PICK y \in 1..Len(s.res) :
          y # i /\ rest[k] = s.res[y] /\ y = IF k < i THEN k ELSE k + 1
    BY <2>1, <1>8
  <2>4. x = y BY <2>1, <2>2, <2>3, <1>5
  <2>5. QED BY <2>1, <2>2, <2>3, <2>4
<1>11. c \in HeldConns(s) BY <1>6
<1> HIDE DEF c
<1>12. ASSUME NEW d \in Conn
       PROVE  Len(t.replies[d]) = IF d \in (conns \ {c}) \ HeldConns(t) THEN 1 ELSE 0
  <2>1. Len(s.replies[d]) = IF d \in conns \ HeldConns(s) THEN 1 ELSE 0 BY DEF OneReplyEach
  <2>2. d \in (conns \ {c}) \ HeldConns(t) <=> d \in conns \ HeldConns(s)
    BY <1>9, <1>11
  <2>3. QED BY <2>1, <2>2, <1>3
<1>13. HeldConns(t) \subseteq conns \ {c} BY <1>9 DEF OneReplyEach
<1>14. OneReplyEach(t, conns \ {c}) BY <1>10, <1>12, <1>13 DEF OneReplyEach
<1>15. QED BY <1>14 DEF t, rest, c

(* handle_broken_connections takes a request in.                           *)
LEMMA HandleBrokenTakesIn ==
  ASSUME NEW s \in SessionRecord, NEW rid \in Rid, NEW c \in Conn
  PROVE  TakesIn(s, c, handle_broken_connections(s, rid, c))
<1> DEFINE known == s.unacked_responses[rid]
           body == IF known # NoBody THEN known ELSE Bare("empty")
           t == [s EXCEPT !.queued_requests[rid] = "none"]
           u == _send_immediate(t, c, body)
<1>1. body \in Body BY BareType DEF SessionRecord, BodyKind
<1>2. t \in SessionRecord
  <2>1. [s.queued_requests EXCEPT ![rid] = "none"] \in [Rid -> Queued]
    BY DEF SessionRecord, Queued
  <2>2. QED BY <2>1 DEF SessionRecord
<1>3. t.arrived = s.arrived /\ t.hold = s.hold /\ t.res = s.res /\ t.replies = s.replies
  BY DEF SessionRecord
<1>4. handle_broken_connections(s, rid, c) = u
  BY Zenon DEF handle_broken_connections
<1> HIDE DEF body, t
<1>5. TakesIn(t, c, u) BY <1>1, <1>2, SendImmediateTakesIn
<1> HIDE DEF u
<1>6. ASSUME NEW conns, OneReplyEach(s, conns) PROVE OneReplyEach(t, conns)
  BY <1>3, <1>6, SameAccount
<1>7. TakesIn(s, c, u) BY <1>3, <1>5, <1>6 DEF TakesIn
<1>8. QED BY <1>4, <1>7

-----------------------------------------------------------------------------
(* Every action keeps the account and the bound of held responses.         *)

HeldInv == AnsweredOnce /\ Len(session.res) <= session.hold

(* session follows s by sending only; s follows t by taking c in.          *)
LEMMA TakenIn ==
  ASSUME NEW t \in SessionRecord, NEW rid, NEW c, NEW s \in SessionRecord,
         NEW before \in Seq(Rid), OneReplyEach(t, DOMAIN before),
         t.arrived = Append(before, rid), c = Len(before) + 1,
         TakesIn(t, c, s), OnlySends(s, session'), TypeOK'
  PROVE  AnsweredOnce'
<1>1. Len(before) \in Nat /\ DOMAIN before = 1..Len(before) BY LenProperties
<1>2. session'.arrived = Append(before, rid) BY DEF OnlySends, TakesIn
<1>3. DOMAIN Append(before, rid) = 1..(Len(before) + 1) BY <1>1
<1>4. DOMAIN session'.arrived = DOMAIN before \union {c} BY <1>1, <1>2, <1>3
<1>5. c \notin DOMAIN before BY <1>1
<1>6. OneReplyEach(s, DOMAIN before \union {c}) BY <1>5 DEF TakesIn
<1>7. OneReplyEach(session', DOMAIN before \union {c}) BY <1>6 DEF OnlySends
<1>8. QED BY <1>4, <1>7 DEF AnsweredOnce

(* The same when nothing is taken in.                                      *)
LEMMA NothingTakenIn ==
  ASSUME NEW t, OneReplyEach(t, DOMAIN t.arrived), OnlySends(t, session')
  PROVE  AnsweredOnce'
BY DEF OnlySends, AnsweredOnce

(* Accept takes note of the arrival and answers nothing.                   *)
LEMMA AcceptKeeps ==
  ASSUME TypeOK, NEW rid \in Rid, NEW attr \in Nat, NEW kind \in Queued
  PROVE  /\ Accept(rid, attr, kind).arrived = Append(session.arrived, rid)
         /\ Accept(rid, attr, kind).hold = session.hold
         /\ Accept(rid, attr, kind).res = session.res
         /\ Accept(rid, attr, kind).replies = session.replies
BY DEF Accept, Arrive, handle_acks, TypeOK, SessionRecord

(* Creation keeps HeldInv.                                                 *)
LEMMA CreateHeld ==
  ASSUME NEW h \in HoldAttrs, NEW a \in AckModes, NEW kind, TypeOK',
         CreateSession(h, a, kind) \/ CreateRefused(h, a, kind)
  PROVE  HeldInv'
<1> DEFINE fresh == [EmptySession EXCEPT !.status = "open", !.rid = InitRid,
                                !.max_rid_sent = InitRid - 1,
                                !.hold = clamp_hold(h), !.ack = a, !.timeout = TRUE]
           t == Arrive(fresh, InitRid)
           s == NewSession(h, a)
<1>1. s \in SessionRecord BY NewSessionType
<1>2. InitRid \in Rid /\ 1 \in Conn BY BoundsAssumption DEF Conn
<1>3. t \in SessionRecord /\ t.res = << >> /\ t.arrived = Append(<< >>, InitRid)
      /\ t.replies = [c \in Conn |-> << >>]
  <2>1. clamp_hold(h) \in 1..MaxBoshConnections
    BY ClientAssumption, OptionsAssumption DEF clamp_hold, Smaller
  <2>2. InitRid \in 0..MaxRid /\ InitRid - 1 \in 0..MaxRid BY BoundsAssumption DEF Rid
  <2>3. a \in BOOLEAN BY ClientAssumption
  <2>4. fresh \in SessionRecord
    BY EmptyType, <2>1, <2>2, <2>3 DEF SessionRecord, Status
  <2>5. /\ fresh.res = << >> /\ fresh.arrived = << >>
        /\ fresh.replies = [c \in Conn |-> << >>]
    BY DEF EmptySession
  <2> HIDE DEF fresh
  <2>6. t \in SessionRecord BY <2>4, <1>2, ArriveType
  <2>7. QED BY <2>4, <2>5, <2>6 DEF Arrive, SessionRecord
<1>4. s = add_held_http_connection(t, InitRid, 1) BY Zenon DEF NewSession
<1> HIDE DEF t, s
<1>5. OneReplyEach(t, DOMAIN << >>)
  <2>1. DOMAIN t.res = {} /\ DOMAIN << >> = {} BY <1>3
  <2>2. HeldConns(t) = {} BY <2>1 DEF HeldConns
  <2>3. \A c \in Conn : Len(t.replies[c]) = 0 BY <1>3
  <2>4. QED BY <2>1, <2>2, <2>3 DEF OneReplyEach
<1>6. TakesIn(t, 1, s) BY <1>2, <1>3, <1>4, AddHeldTakesIn
<1>7. << >> \in Seq(Rid) /\ 1 = Len(<< >>) + 1 OBVIOUS
<1>8. ASSUME OnlySends(s, session') PROVE AnsweredOnce'
  BY <1>1, <1>3, <1>5, <1>6, <1>7, <1>8, TakenIn
<1>9. CASE CreateSession(h, a, kind)
  <2> DEFINE q == enqueue_bosh_response(s, "create")
             e == EmitNodes(q, InitRid, kind)
  <2>1. q \in SessionRecord /\ OnlySends(s, q) BY <1>1, EnqueueBoshType, EnqueueAnswers
  <2> HIDE DEF q
  <2>2. e \in SessionRecord /\ OnlySends(s, e)
    BY <1>1, <1>2, <2>1, EmitNodesAnswers, EmitNodesType, OnlySendsTransitive
  <2>3. session' = respond_to_extra_held(e) BY <1>9, Zenon DEF CreateSession, s, q
  <2> HIDE DEF e
  <2>4. OnlySends(e, session') /\ Len(session'.res) <= session'.hold
    BY <2>2, <2>3, RespondToExtraAnswers
  <2>5. OnlySends(s, session') BY <1>1, <2>2, <2>4, OnlySendsTransitive DEF TypeOK
  <2>6. QED BY <1>8, <2>4, <2>5 DEF HeldInv
<1>10. CASE CreateRefused(h, a, kind)
  <2> DEFINE q == enqueue_bosh_response(s, "stream-terminate")
             e == end_session(q, "terminated")
  <2>1. q \in SessionRecord /\ OnlySends(s, q) BY <1>1, EnqueueBoshType, EnqueueAnswers
  <2>2. session' = EmitNodes(e, InitRid, kind) BY <1>10, Zenon DEF CreateRefused, s
  <2> HIDE DEF q
  <2>3. e \in SessionRecord /\ OnlySends(q, e) /\ e.res = << >>
    BY <2>1, EndSessionType, EndSessionAnswers DEF Status
  <2> HIDE DEF e
  <2>4. OnlySends(e, session') BY <1>2, <2>2, <2>3, EmitNodesAnswers
  <2>5. OnlySends(s, e) BY <1>1, <2>1, <2>3, OnlySendsTransitive
  <2>6. OnlySends(s, session') BY <1>1, <2>3, <2>4, <2>5, OnlySendsTransitive DEF TypeOK
  <2>7. Len(session'.res) <= session'.hold
    <3>1. session'.res \in Seq(Response) /\ Len(session'.res) <= 0 BY <2>3, <2>4 DEF OnlySends, TypeOK, SessionRecord
    <3>2. session'.hold \in Nat BY OptionsAssumption DEF TypeOK, SessionRecord
    <3>3. QED BY <3>1, <3>2
  <2>8. QED BY <1>8, <2>6, <2>7 DEF HeldInv
<1>11. QED BY <1>9, <1>10

(* A request, new or repeated, keeps HeldInv.                              *)
LEMMA RequestHeld ==
  ASSUME TypeOK, AnsweredOnce, TypeOK', NEW rid \in Rid, NEW attr \in Nat, NEW kind \in Kinds,
         Request(rid, attr, kind) \/ RepeatedRequest(rid, attr, kind)
  PROVE  HeldInv'
<1> DEFINE t == Accept(rid, attr, kind)
<1>1. kind \in Queued BY ClientAssumption DEF Queued
<1>2. t \in SessionRecord BY <1>1, AcceptType
<1>3. NextConn \in Conn BY NextConnType DEF Request, RepeatedRequest
<1>4. session.arrived \in Seq(Rid) BY DEF TypeOK, SessionRecord
<1>5. t.arrived = Append(session.arrived, rid) /\ OneReplyEach(t, DOMAIN session.arrived)
  BY <1>1, AcceptKeeps, SameAccount DEF AnsweredOnce
<1> HIDE DEF t
<1>6. ASSUME NEW s \in SessionRecord, TakesIn(t, NextConn, s), OnlySends(s, session')
      PROVE  AnsweredOnce'
  BY <1>2, <1>4, <1>5, <1>6, TakenIn DEF NextConn
<1>7. CASE Request(rid, attr, kind)
  <2> DEFINE held == add_held_http_connection(t, rid, NextConn)
             done == process_requests(held)
  <2>1. session' = respond_to_extra_held(done) BY <1>7, Zenon DEF Request, t
  <2>2. held \in SessionRecord /\ TakesIn(t, NextConn, held)
    BY <1>2, <1>3, AddHeldType, AddHeldTakesIn
  <2> HIDE DEF held
  <2>3. done \in SessionRecord /\ OnlySends(held, done)
    BY <2>2, ProcessRequestsType, ProcessRequestsAnswers
  <2> HIDE DEF done
  <2>4. OnlySends(done, session') /\ Len(session'.res) <= session'.hold
    BY <2>1, <2>3, RespondToExtraAnswers
  <2>5. OnlySends(held, session') BY <2>2, <2>3, <2>4, OnlySendsTransitive DEF TypeOK
  <2>6. QED BY <1>6, <2>2, <2>4, <2>5 DEF HeldInv
<1>8. CASE RepeatedRequest(rid, attr, kind)
  <2> DEFINE told == handle_broken_connections(t, rid, NextConn)
             done == send_pending_responses(told)
  <2>1. session' = respond_to_extra_held(done) BY <1>8, Zenon DEF RepeatedRequest, t
  <2>2. told \in SessionRecord /\ TakesIn(t, NextConn, told)
    BY <1>2, <1>3, HandleBrokenType, HandleBrokenTakesIn
  <2> HIDE DEF told
  <2>3. done \in SessionRecord /\ OnlySends(told, done)
    BY <2>2, SendPendingType, SendPendingAnswers
  <2> HIDE DEF done
  <2>4. OnlySends(done, session') /\ Len(session'.res) <= session'.hold
    BY <2>1, <2>3, RespondToExtraAnswers
  <2>5. OnlySends(told, session') BY <2>2, <2>3, <2>4, OnlySendsTransitive DEF TypeOK
  <2>6. QED BY <1>6, <2>2, <2>4, <2>5 DEF HeldInv
<1>9. QED BY <1>7, <1>8

(* A request for a stream that is gone keeps HeldInv.                      *)
LEMMA RequestForDeletedStreamHeld ==
  ASSUME TypeOK, AnsweredOnce, TypeOK', NEW rid \in Rid, NEW attr \in Nat,
         RequestForDeletedStream(rid, attr)
  PROVE  HeldInv'
<1> DEFINE t == Accept(rid, attr, "body")
           told == _send_immediate(t, NextConn, Bare("terminate"))
           done == process_requests(told)
<1>1. t \in SessionRecord BY AcceptType DEF Queued
<1>2. NextConn \in Conn BY NextConnType DEF RequestForDeletedStream
<1>3. session.arrived \in Seq(Rid) BY DEF TypeOK, SessionRecord
<1>4. t.arrived = Append(session.arrived, rid) /\ OneReplyEach(t, DOMAIN session.arrived)
  BY AcceptKeeps, SameAccount DEF AnsweredOnce, Queued
<1>5. session' = respond_to_extra_held(done) BY Zenon DEF RequestForDeletedStream
<1> HIDE DEF t
<1>6. told \in SessionRecord /\ TakesIn(t, NextConn, told)
  BY <1>1, <1>2, SendImmediateType, SendImmediateTakesIn, BareType DEF BodyKind
<1> HIDE DEF told
<1>7. done \in SessionRecord /\ OnlySends(told, done)
  BY <1>6, ProcessRequestsType, ProcessRequestsAnswers
<1> HIDE DEF done
<1>8. OnlySends(done, session') /\ Len(session'.res) <= session'.hold
  BY <1>5, <1>7, RespondToExtraAnswers
<1>9. OnlySends(told, session') BY <1>6, <1>7, <1>8, OnlySendsTransitive DEF TypeOK
<1>10. AnsweredOnce' BY <1>1, <1>3, <1>4, <1>6, <1>9, TakenIn DEF NextConn
<1>11. QED BY <1>8, <1>10 DEF HeldInv

(* A refused request keeps HeldInv.                                        *)
LEMMA RefusedRequestHeld ==
  ASSUME TypeOK, HeldInv, TypeOK', NEW rid \in Rid, NEW over \in BOOLEAN, InvalidRequest(rid, over) \/ UnknownSession
  PROVE  HeldInv'
<1>1. NextConn \in Conn BY NextConnType DEF InvalidRequest, UnknownSession
<1>2. Bare("terminate") \in Body BY BareType DEF BodyKind
<1>3. session.arrived \in Seq(Rid) /\ session.hold \in Nat
  BY OptionsAssumption DEF TypeOK, SessionRecord
<1>4. ASSUME NEW s \in SessionRecord,
             session' = _send_immediate(s, NextConn, Bare("terminate"))
      PROVE  /\ session'.res = s.res /\ session'.hold = s.hold
             /\ TakesIn(s, NextConn, session') /\ OnlySends(session', session')
  <2>1. session'.res = s.res /\ session'.hold = s.hold
    BY <1>4 DEF _send_immediate, SessionRecord
  <2>2. TakesIn(s, NextConn, session') BY <1>1, <1>2, <1>4, SendImmediateTakesIn
  <2>3. OnlySends(session', session') BY SameResponses DEF TypeOK
  <2>4. QED BY <2>1, <2>2, <2>3
<1>5. ASSUME NEW r \in Rid
      PROVE  /\ Arrive(session, r) \in SessionRecord
             /\ Arrive(session, r).arrived = Append(session.arrived, r)
             /\ Arrive(session, r).res = session.res /\ Arrive(session, r).hold = session.hold
             /\ OneReplyEach(Arrive(session, r), DOMAIN session.arrived)
  <2> DEFINE t == Arrive(session, r)
  <2>1. t \in SessionRecord BY ArriveType DEF TypeOK
  <2>2. /\ t.arrived = Append(session.arrived, r) /\ t.res = session.res
        /\ t.replies = session.replies /\ t.hold = session.hold
    BY DEF Arrive, TypeOK, SessionRecord
  <2> HIDE DEF t
  <2>3. OneReplyEach(t, DOMAIN session.arrived)
    BY <2>2, SameAccount DEF HeldInv, AnsweredOnce
  <2>4. QED BY <2>1, <2>2, <2>3 DEF t
<1>6. CASE InvalidRequest(rid, over)
  <2> DEFINE t == Arrive(session, rid)
             e == end_session(t, "terminated")
  <2>1. session' = _send_immediate(e, NextConn, Bare("terminate"))
    BY <1>6, Zenon DEF InvalidRequest
  <2>2. /\ t \in SessionRecord /\ t.arrived = Append(session.arrived, rid)
        /\ t.hold = session.hold /\ OneReplyEach(t, DOMAIN session.arrived)
    BY <1>5
  <2> HIDE DEF t
  <2>3. e \in SessionRecord /\ OnlySends(t, e) /\ e.res = << >>
    BY <2>2, EndSessionType, EndSessionAnswers DEF Status
  <2> HIDE DEF e
  <2>4. /\ session'.res = << >> /\ session'.hold = session.hold
        /\ TakesIn(e, NextConn, session') /\ OnlySends(session', session')
    BY <1>4, <2>1, <2>2, <2>3 DEF OnlySends
  <2>5. /\ OneReplyEach(e, DOMAIN session.arrived)
        /\ e.arrived = Append(session.arrived, rid)
    BY <2>2, <2>3 DEF OnlySends
  <2>6. TakesIn(e, NextConn, session') /\ session' \in SessionRecord BY <2>4 DEF TypeOK
  <2>7. AnsweredOnce' BY <1>3, <2>3, <2>4, <2>5, <2>6, TakenIn DEF NextConn
  <2>8. Len(session'.res) <= session'.hold BY <1>3, <2>4
  <2>9. QED BY <2>7, <2>8 DEF HeldInv
<1>7. CASE UnknownSession
  <2> DEFINE t == Arrive(session, InitRid)
  <2>1. session' = _send_immediate(t, NextConn, Bare("terminate"))
    BY <1>7, Zenon DEF UnknownSession
  <2>2. /\ t \in SessionRecord /\ t.arrived = Append(session.arrived, InitRid)
        /\ t.res = session.res /\ t.hold = session.hold
        /\ OneReplyEach(t, DOMAIN session.arrived)
    BY <1>5, BoundsAssumption
  <2> HIDE DEF t
  <2>3. /\ session'.res = session.res /\ session'.hold = session.hold
        /\ TakesIn(t, NextConn, session') /\ OnlySends(session', session')
    BY <1>4, <2>1, <2>2
  <2>4. session' \in SessionRecord BY DEF TypeOK
  <2>5. AnsweredOnce' BY <1>3, <2>2, <2>3, <2>4, TakenIn DEF NextConn
  <2>6. QED BY <2>3, <2>5 DEF HeldInv
<1>8. QED BY <1>6, <1>7

(* Events other than requests only send.                                   *)
LEMMA EventHeld ==
  ASSUME TypeOK, HeldInv, TypeOK',
         \/ NextTick \/ (\E error \in BOOLEAN : OnResponse(error))
         \/ OnTerminate \/ InactivityTimeout
  PROVE  HeldInv'
<1>1. /\ session \in SessionRecord /\ session' \in SessionRecord
      /\ session.hold \in Nat
      /\ Len(session.res) \in Nat /\ Len(session'.res) \in Nat
  <2>1. session \in SessionRecord /\ session' \in SessionRecord BY DEF TypeOK
  <2>2. session.hold \in Nat BY <2>1, OptionsAssumption DEF SessionRecord
  <2>3. QED BY <2>1, <2>2, ResponseFields
<1>2. SUFFICES OnlySends(session, session')
  <2>1. AnsweredOnce' BY <1>2, NothingTakenIn DEF HeldInv, AnsweredOnce
  <2>2. Len(session'.res) <= session'.hold BY <1>1, <1>2 DEF OnlySends, HeldInv
  <2>3. QED BY <2>1, <2>2 DEF HeldInv
<1>3. CASE NextTick
  <2> DEFINE t == [session EXCEPT !.has_next_tick = FALSE]
  <2>1. session' = send_pending_responses(t) BY <1>3, Zenon DEF NextTick
  <2>2. t \in SessionRecord BY <1>1 DEF SessionRecord
  <2>3. /\ t.arrived = session.arrived /\ t.hold = session.hold
        /\ t.res = session.res /\ t.replies = session.replies
    BY <1>1 DEF SessionRecord
  <2> HIDE DEF t
  <2>4. OnlySends(session, t) BY <1>1, <2>2, <2>3, SameResponses
  <2>5. OnlySends(t, session') BY <2>1, <2>2, SendPendingAnswers
  <2>6. QED BY <1>1, <2>2, <2>4, <2>5, OnlySendsTransitive
<1>4. ASSUME NEW error \in BOOLEAN, OnResponse(error) PROVE OnlySends(session, session')
  <2> DEFINE st == session.stanza_no + 1
             t == [session EXCEPT !.stanza_no = st]
             q == enqueue_stanza(t, st)
  <2>1. st \in 0..MaxStanza /\ st \in Stanza
    <3>1. session.stanza_no \in 0..MaxStanza BY <1>1 DEF SessionRecord
    <3>2. session.stanza_no < MaxStanza BY <1>4 DEF OnResponse
    <3>3. QED BY <3>1, <3>2, BoundsAssumption DEF Stanza
  <2>2. session' = IF error THEN enqueue_bosh_response(q, "stream-terminate") ELSE q
    BY <1>4, Zenon DEF OnResponse
  <2> HIDE DEF st
  <2>3. t \in SessionRecord BY <1>1, <2>1 DEF SessionRecord
  <2>4. /\ t.arrived = session.arrived /\ t.hold = session.hold
        /\ t.res = session.res /\ t.replies = session.replies
    BY <1>1 DEF SessionRecord
  <2> HIDE DEF t
  <2>5. OnlySends(session, t) BY <1>1, <2>3, <2>4, SameResponses
  <2>6. q \in SessionRecord /\ OnlySends(t, q) BY <2>1, <2>3, EnqueueStanzaType, EnqueueAnswers
  <2> HIDE DEF q
  <2>7. OnlySends(session, q) BY <1>1, <2>3, <2>5, <2>6, OnlySendsTransitive
  <2>8. OnlySends(q, enqueue_bosh_response(q, "stream-terminate")) BY <2>6, EnqueueAnswers
  <2>9. OnlySends(session, enqueue_bosh_response(q, "stream-terminate"))
    BY <1>1, <2>6, <2>7, <2>8, EnqueueBoshType, OnlySendsTransitive
  <2>10. QED BY <2>2, <2>7, <2>9
<1>5. CASE OnTerminate
  <2> DEFINE q == enqueue_bosh_response(session, "stream-terminate")
  <2>1. session' = end_session(q, "terminated") BY <1>5, Zenon DEF OnTerminate
  <2>2. q \in SessionRecord /\ OnlySends(session, q) BY <1>1, EnqueueBoshType, EnqueueAnswers
  <2> HIDE DEF q
  <2>3. OnlySends(q, session') BY <2>1, <2>2, EndSessionAnswers DEF Status
  <2>4. QED BY <1>1, <2>2, <2>3, OnlySendsTransitive
<1>6. CASE InactivityTimeout
  <2> DEFINE t == Told(session)
  <2>1. session' = end_session(t, "expired") BY <1>6, Zenon DEF InactivityTimeout
  <2>2. t \in SessionRecord BY <1>1, ToldType DEF Told
  <2>3. /\ t.arrived = session.arrived /\ t.hold = session.hold
        /\ t.res = session.res /\ t.replies = session.replies
    BY <1>1 DEF Told, SessionRecord
  <2> HIDE DEF t
  <2>4. OnlySends(session, t) BY <1>1, <2>2, <2>3, SameResponses
  <2>5. OnlySends(t, session') BY <2>1, <2>2, EndSessionAnswers DEF Status
  <2>6. QED BY <1>1, <2>2, <2>4, <2>5, OnlySendsTransitive
<1>7. QED BY <1>3, <1>4, <1>5, <1>6

(* A request timeout keeps HeldInv.                                        *)
LEMMA RequestTimeoutHeld ==
  ASSUME TypeOK, HeldInv, TypeOK', RequestTimeout
  PROVE  HeldInv'
<1> DEFINE res == session.res
           t(i) == [session EXCEPT !.res = RemoveAt(res, i)]
<1>1. /\ session \in SessionRecord /\ res \in Seq(Response) /\ Len(res) \in Nat
      /\ DOMAIN res = 1..Len(res) /\ session.hold \in Nat
  <2>1. session \in SessionRecord BY DEF TypeOK
  <2>2. res \in Seq(Response) BY <2>1, ResponseFields
  <2>3. session.hold \in Nat BY <2>1, OptionsAssumption DEF SessionRecord
  <2>4. QED BY <2>1, <2>2, <2>3, LenProperties
<1>2. PICK i \in DOMAIN res : session' = _send_no_requeue(t(i), res[i], Bare("empty"))
  BY Zenon DEF RequestTimeout
<1>3. i \in 1..Len(res) /\ res[i] \in Response /\ res[i].conn \in Conn
  <2>1. i \in 1..Len(res) BY <1>1, <1>2
  <2>2. res[i] \in Response BY <1>1, <2>1, ElementOfSeq
  <2>3. QED BY <2>1, <2>2 DEF Response
<1>4. /\ RemoveAt(res, i) \in Seq(Response)
      /\ Len(RemoveAt(res, i)) = Len(res) - 1
  BY <1>1, <1>3, RemoveAtElements
<1>5. t(i) \in SessionRecord BY <1>1, <1>4 DEF SessionRecord
<1>6. OneReplyEach(t(i), DOMAIN session.arrived \ {res[i].conn})
  BY <1>1, <1>3, RemoveHeld DEF HeldInv, AnsweredOnce
<1>7. /\ t(i).arrived = session.arrived /\ t(i).hold = session.hold
      /\ t(i).res = RemoveAt(res, i)
  BY <1>1 DEF SessionRecord
<1> HIDE DEF t
<1>8. TakesIn(t(i), res[i].conn, session')
  BY <1>2, <1>3, <1>5, SendNoRequeueTakesIn, BareType DEF BodyKind
<1>9. res[i].conn \in DOMAIN session.arrived
  BY <1>2 DEF HeldInv, AnsweredOnce, OneReplyEach, HeldConns
<1>10. AnsweredOnce'
  <2> DEFINE c == res[i].conn
             conns == DOMAIN session.arrived \ {c}
  <2>1. c \notin conns /\ conns \union {c} = DOMAIN session.arrived BY <1>9
  <2>2. OneReplyEach(session', conns \union {c}) BY <1>6, <1>8, <2>1 DEF TakesIn
  <2>3. session'.arrived = session.arrived BY <1>7, <1>8 DEF TakesIn
  <2>4. QED BY <2>1, <2>2, <2>3 DEF AnsweredOnce
<1>11. Len(session'.res) <= session'.hold
  <2>1. session'.res = t(i).res /\ session'.hold = t(i).hold
    BY <1>2, <1>5 DEF _send_no_requeue, SessionRecord
  <2>2. Len(session'.res) = Len(res) - 1 /\ session'.hold = session.hold
    BY <2>1, <1>4, <1>7
  <2>3. QED BY <2>2, <1>1 DEF HeldInv
<1>12. QED BY <1>10, <1>11 DEF HeldInv

(* Every step keeps HeldInv.                                               *)
LEMMA StepHeld ==
  ASSUME TypeOK, HeldInv, TypeOK', [Next]_session
  PROVE  HeldInv'
<1>1. ASSUME NEW h \in HoldAttrs, NEW a \in AckModes, NEW kind,
             CreateSession(h, a, kind) \/ CreateRefused(h, a, kind)
      PROVE  HeldInv'
  BY <1>1, CreateHeld
<1>2. ASSUME NEW rid \in Rid, NEW attr \in (IF session.ack THEN Acks ELSE {0}),
             NEW kind \in Kinds,
             Request(rid, attr, kind) \/ RepeatedRequest(rid, attr, kind)
      PROVE  HeldInv'
  <2>1. attr \in Nat BY ClientAssumption
  <2>2. QED BY <1>2, <2>1, RequestHeld DEF HeldInv
<1>3. ASSUME NEW rid \in Rid, NEW attr \in (IF session.ack THEN Acks ELSE {0}),
             RequestForDeletedStream(rid, attr)
      PROVE  HeldInv'
  <2>1. attr \in Nat BY ClientAssumption
  <2>2. QED BY <1>3, <2>1, RequestForDeletedStreamHeld DEF HeldInv
<1>4. ASSUME NEW rid \in Rid, NEW over \in BOOLEAN, InvalidRequest(rid, over) PROVE HeldInv'
  BY <1>4, RefusedRequestHeld
<1>5. CASE UnknownSession BY <1>5, RefusedRequestHeld, BoundsAssumption
<1>6. CASE \/ NextTick \/ (\E error \in BOOLEAN : OnResponse(error))
           \/ OnTerminate \/ InactivityTimeout
  BY <1>6, EventHeld
<1>7. CASE RequestTimeout BY <1>7, RequestTimeoutHeld
<1>8. CASE UNCHANGED session
  BY <1>8 DEF HeldInv, AnsweredOnce, OneReplyEach, HeldConns
<1>9. QED BY <1>1, <1>2, <1>3, <1>4, <1>5, <1>6, <1>7, <1>8, Zenon DEF Next

(* HeldInv is an invariant.                                                *)
LEMMA HeldInvariant == Spec => []HeldInv
<1>1. Init => HeldInv
  <2> SUFFICES ASSUME Init PROVE HeldInv OBVIOUS
  <2>1. /\ session.res = << >> /\ session.arrived = << >> /\ session.hold = 1
        /\ session.replies = [c \in Conn |-> << >>]
    BY DEF Init, EmptySession
  <2>2. DOMAIN session.res = {} /\ Len(session.res) = 0 BY <2>1
  <2>3. HeldConns(session) = {} BY <2>2 DEF HeldConns
  <2>4. \A c \in Conn : Len(session.replies[c]) = 0 BY <2>1
  <2>5. DOMAIN session.arrived = {} BY <2>1
  <2>6. AnsweredOnce BY <2>2, <2>3, <2>4, <2>5 DEF AnsweredOnce, OneReplyEach
  <2>7. QED BY <2>1, <2>2, <2>6 DEF HeldInv
<1>2. TypeOK /\ HeldInv /\ TypeOK' /\ [Next]_session => HeldInv' BY StepHeld
<1>3. QED BY <1>1, <1>2, TypeCorrect, PTL DEF Spec

(* Every HTTP request is held or has been answered, and answered once,     *)
(* whatever the order of requests, stanzas, timeouts and terminations:     *)
(* res.end is never called twice, and no request is lost.                  *)
THEOREM AnswersOnce == Spec => []AnsweredOnce
<1>1. HeldInv => AnsweredOnce BY DEF HeldInv
<1>2. QED BY <1>1, HeldInvariant, PTL

(* No more responses are held than the client asked for and the server's   *)
(* options allow, so the policy branch of add_held_http_connection         *)
(* (session.js 453-465) is dead code.                                      *)
THEOREM HoldsWithinHold == Spec => []HeldWithinHold
<1>1. TypeOK /\ HeldInv => HeldWithinHold
  <2> SUFFICES ASSUME TypeOK, HeldInv PROVE HeldWithinHold OBVIOUS
  <2>1. session.hold \in 1..MaxBoshConnections BY DEF TypeOK, SessionRecord
  <2>2. session.hold <= MaxBoshConnections BY <2>1, OptionsAssumption
  <2>3. QED BY <2>2 DEF HeldInv, HeldWithinHold
<1>2. QED BY <1>1, HeldInvariant, TypeCorrect, PTL

-----------------------------------------------------------------------------
(* The queue.  Whatever only sends leaves the queue, the session's rid and *)
(* the nodes alone.                                                        *)

Ahead(s) == \A r \in Rid : s.queued_requests[r] # "none" => r > s.rid + 1
Waiting(s) == \A r \in Rid : s.queued_requests[r] # "none" => r > s.rid
Untouched(s) == \A r \in Rid : r > s.rid => s.nodes[r] = 0

NoMoreQueued(s, t) ==
  \A r \in Rid : t.queued_requests[r] # "none" => s.queued_requests[r] # "none"

KeepsQueue(s, t) == t.rid = s.rid /\ t.nodes = s.nodes /\ NoMoreQueued(s, t)

(* Nodes are passed on only where the rid moves past, once.                *)
NodesMove(s, t) ==
  /\ s.rid <= t.rid
  /\ \A r \in Rid : \/ t.nodes[r] = s.nodes[r]
                    \/ t.nodes[r] = s.nodes[r] + 1 /\ s.rid < r /\ r <= t.rid

(* The numbers of a record.                                                *)
LEMMA NumberFields ==
  ASSUME NEW s \in SessionRecord
  PROVE  /\ s.rid \in Nat /\ s.max_rid_sent \in Nat /\ s.stanza_no \in Nat /\ s.hold \in Nat
         /\ \A r \in Rid : s.nodes[r] \in Nat
         /\ Rid \subseteq Nat
BY BoundsAssumption, OptionsAssumption DEF SessionRecord, Rid

(* What keeps the queue keeps what it says, and passes no nodes on.        *)
LEMMA KeptQueue ==
  ASSUME NEW s \in SessionRecord, NEW t \in SessionRecord, KeepsQueue(s, t)
  PROVE  /\ Ahead(s) => Ahead(t)
         /\ Waiting(s) => Waiting(t)
         /\ NodesMove(s, t)
BY NumberFields DEF KeepsQueue, NoMoreQueued, Ahead, Waiting, NodesMove

(* KeepsQueue is transitive.                                               *)
LEMMA KeepsQueueTransitive ==
  ASSUME NEW s, NEW t, NEW u, KeepsQueue(s, t), KeepsQueue(t, u)
  PROVE  KeepsQueue(s, u)
BY DEF KeepsQueue, NoMoreQueued

(* NodesMove is transitive: a request that was passed over in the first    *)
(* part is not above the rid in the second.                                *)
LEMMA NodesMoveTransitive ==
  ASSUME NEW s \in SessionRecord, NEW t \in SessionRecord, NEW u \in SessionRecord,
         NodesMove(s, t), NodesMove(t, u)
  PROVE  NodesMove(s, u)
<1>1. s.rid \in Nat /\ t.rid \in Nat /\ u.rid \in Nat BY NumberFields
<1>2. s.rid <= u.rid BY <1>1 DEF NodesMove
<1>3. ASSUME NEW r \in Rid
      PROVE  \/ u.nodes[r] = s.nodes[r]
             \/ u.nodes[r] = s.nodes[r] + 1 /\ s.rid < r /\ r <= u.rid
  <2>1. r \in Nat BY NumberFields
  <2>2. \/ t.nodes[r] = s.nodes[r]
        \/ t.nodes[r] = s.nodes[r] + 1 /\ s.rid < r /\ r <= t.rid
    BY DEF NodesMove
  <2>3. \/ u.nodes[r] = t.nodes[r]
        \/ u.nodes[r] = t.nodes[r] + 1 /\ t.rid < r /\ r <= u.rid
    BY DEF NodesMove
  <2>4. t.rid <= u.rid /\ s.rid <= t.rid BY DEF NodesMove
  <2>5. QED BY <1>1, <2>1, <2>2, <2>3, <2>4
<1>4. QED BY <1>2, <1>3 DEF NodesMove

(* SendOnFirst keeps the queue, and much else.                             *)
LEMMA SendOnFirstKeeps ==
  ASSUME NEW s \in SessionRecord, NEW bodies
  PROVE  /\ KeepsQueue(s, SendOnFirst(s, bodies))
         /\ SendOnFirst(s, bodies).status = s.status
         /\ SendOnFirst(s, bodies).pending_stanzas = s.pending_stanzas
         /\ SendOnFirst(s, bodies).pending_bosh_responses = s.pending_bosh_responses
         /\ SendOnFirst(s, bodies).has_next_tick = s.has_next_tick
<1>1. CASE Len(bodies) = 0
  <2>1. SendOnFirst(s, bodies) = s BY <1>1, Zenon DEF SendOnFirst
  <2>2. QED BY <2>1 DEF KeepsQueue, NoMoreQueued
<1>2. CASE Len(bodies) # 0
  BY <1>2 DEF SendOnFirst, SessionRecord, KeepsQueue, NoMoreQueued
<1>3. QED BY <1>1, <1>2

(* send_pending_responses keeps the queue.                                 *)
LEMMA SendPendingKeeps ==
  ASSUME NEW s \in SessionRecord
  PROVE  /\ KeepsQueue(s, send_pending_responses(s))
         /\ send_pending_responses(s).status = s.status
         /\ send_pending_responses(s).has_next_tick = s.has_next_tick
<1> DEFINE n == Smaller(Len(s.res), Len(Stitched(s)))
           t == SendOnFirst(s, SubSeq(Stitched(s), 1, n))
           bosh == SubSeq(t.pending_bosh_responses, n + 1, Len(t.pending_bosh_responses))
           u == [t EXCEPT !.pending_stanzas = << >>, !.pending_bosh_responses = bosh]
<1>1. send_pending_responses(s) = IF n = 0 THEN s ELSE u
  BY Zenon DEF send_pending_responses
<1>2. KeepsQueue(s, t) /\ t.status = s.status /\ t.has_next_tick = s.has_next_tick
  BY SendOnFirstKeeps
<1> HIDE DEF t, n, bosh
<1>3. /\ u.rid = t.rid /\ u.nodes = t.nodes /\ u.queued_requests = t.queued_requests
      /\ u.status = t.status /\ u.has_next_tick = t.has_next_tick
  OBVIOUS
<1> HIDE DEF u
<1>4. KeepsQueue(s, u) /\ u.status = s.status /\ u.has_next_tick = s.has_next_tick
  BY <1>2, <1>3 DEF KeepsQueue, NoMoreQueued
<1>5. KeepsQueue(s, s) BY DEF KeepsQueue, NoMoreQueued
<1>6. QED BY <1>1, <1>4, <1>5

(* So do respond_to_extra_held and end_session.                            *)
LEMMA RespondToExtraKeeps ==
  ASSUME NEW s \in SessionRecord
  PROVE  /\ KeepsQueue(s, respond_to_extra_held(s))
         /\ respond_to_extra_held(s).status = s.status
         /\ respond_to_extra_held(s).pending_stanzas = s.pending_stanzas
         /\ respond_to_extra_held(s).pending_bosh_responses = s.pending_bosh_responses
         /\ respond_to_extra_held(s).has_next_tick = s.has_next_tick
<1>1. KeepsQueue(s, s) BY DEF KeepsQueue, NoMoreQueued
<1>2. QED BY <1>1, SendOnFirstKeeps, Zenon DEF respond_to_extra_held

(* The end of a session leaves the rid and the nodes alone, and nothing    *)
(* pending; what was queued is an empty body.                              *)
LEMMA EndSessionKeeps ==
  ASSUME NEW s \in SessionRecord, NEW why \in Status
  PROVE  /\ KeepsQueue(s, end_session(s, why))
         /\ end_session(s, why).status = why
         /\ end_session(s, why).timeout = FALSE
         /\ end_session(s, why).pending_stanzas = << >>
         /\ end_session(s, why).pending_bosh_responses = << >>
         /\ \A r \in Rid : end_session(s, why).queued_requests[r] \in {"none", "body"}
<1> DEFINE gone == delete_stream(s)
           bodies == [i \in 1..Len(s.res) |->
                        IF i = 1 THEN Bare("terminate") ELSE Bare("empty")]
           t == SendOnFirst(gone, bodies)
           u == [t EXCEPT !.status = why, !.timeout = FALSE]
<1>1. gone \in SessionRecord BY DeleteStreamType
<1>2. /\ KeepsQueue(s, gone) /\ gone.pending_stanzas = << >>
      /\ gone.pending_bosh_responses = << >>
      /\ \A r \in Rid : gone.queued_requests[r] \in {"none", "body"}
  BY DEF delete_stream, SessionRecord, KeepsQueue, NoMoreQueued
<1> HIDE DEF gone, bodies
<1>3. /\ KeepsQueue(gone, t) /\ t.pending_stanzas = gone.pending_stanzas
      /\ t.pending_bosh_responses = gone.pending_bosh_responses
  BY <1>1, SendOnFirstKeeps
<1>4. t.queued_requests = gone.queued_requests /\ "timeout" \in DOMAIN t /\ "status" \in DOMAIN t
  <2>1. CASE Len(bodies) = 0
    <3>1. t = gone BY <2>1, Zenon DEF SendOnFirst
    <3>2. QED BY <3>1, <1>1 DEF SessionRecord
  <2>2. CASE Len(bodies) # 0 BY <2>2, <1>1 DEF SendOnFirst, SessionRecord
  <2>3. QED BY <2>1, <2>2
<1>5. end_session(s, why) = u BY Zenon DEF end_session, gone, bodies
<1> HIDE DEF t
<1>6. /\ u.rid = t.rid /\ u.nodes = t.nodes /\ u.queued_requests = t.queued_requests
      /\ u.status = why /\ u.timeout = FALSE
      /\ u.pending_stanzas = t.pending_stanzas
      /\ u.pending_bosh_responses = t.pending_bosh_responses
  BY <1>4
<1> HIDE DEF u
<1>7. KeepsQueue(s, u)
  BY <1>2, <1>3, <1>6 DEF KeepsQueue, NoMoreQueued
<1>8. QED BY <1>2, <1>3, <1>4, <1>5, <1>6, <1>7

-----------------------------------------------------------------------------
(* What is sent when something is pending: all of it, or every response.   *)

Calm(s) == s.pending_stanzas = << >> /\ s.pending_bosh_responses = << >>
Quiet(s) == Calm(s) \/ s.res = << >>

(* After send_pending_responses nothing is pending or nothing is held.     *)
LEMMA SendPendingQuiet ==
  ASSUME NEW s \in SessionRecord
  PROVE  Quiet(send_pending_responses(s))
<1> DEFINE m == Len(Stitched(s))
           n == Smaller(Len(s.res), m)
           bodies == SubSeq(Stitched(s), 1, n)
           t == SendOnFirst(s, bodies)
           bosh == SubSeq(t.pending_bosh_responses, n + 1, Len(t.pending_bosh_responses))
           u == [t EXCEPT !.pending_stanzas = << >>, !.pending_bosh_responses = bosh]
<1>1. /\ Len(s.res) \in Nat /\ s.res \in Seq(Response)
      /\ s.pending_bosh_responses \in Seq({"create", "stream-terminate"})
      /\ Len(s.pending_bosh_responses) \in Nat
  BY ResponseFields, PendingFields
<1>2. m = IF s.pending_bosh_responses # << >> THEN Len(s.pending_bosh_responses)
          ELSE IF s.pending_stanzas # << >> THEN 1 ELSE 0
  <2> DEFINE k == IF s.pending_bosh_responses # << >> THEN Len(s.pending_bosh_responses)
                  ELSE IF s.pending_stanzas # << >> THEN 1 ELSE 0
  <2>1. k \in Nat BY <1>1
  <2>2. Stitched(s) = [i \in 1..k |-> [kind |-> IF s.pending_bosh_responses # << >>
                                                THEN s.pending_bosh_responses[i] ELSE "data",
                                       stanzas |-> IF i = 1 THEN s.pending_stanzas ELSE << >>]]
    BY Zenon DEF Stitched
  <2> HIDE DEF k
  <2>3. Len(Stitched(s)) = k BY <2>1, <2>2
  <2>4. QED BY <2>3 DEF k
<1>3. m \in Nat /\ Stitched(s) \in Seq(Body) BY StitchedType
<1>4. n \in Nat /\ n <= m /\ n <= Len(s.res) /\ (n = m \/ n = Len(s.res))
  BY <1>1, <1>3 DEF Smaller
<1>5. send_pending_responses(s) = IF n = 0 THEN s ELSE u
  BY Zenon DEF send_pending_responses
<1>6. s.pending_bosh_responses # << >> => Len(s.pending_bosh_responses) # 0
  BY <1>1, EmptySeq
<1>7. CASE n = 0
  <2>1. CASE m = 0
    <3>1. s.pending_bosh_responses = << >> BY <1>2, <1>6, <2>1
    <3>2. s.pending_stanzas = << >> BY <1>2, <2>1, <3>1
    <3>3. QED BY <1>5, <1>7, <3>1, <3>2 DEF Quiet, Calm
  <2>2. CASE m # 0
    <3>1. Len(s.res) = 0 BY <1>4, <1>7, <2>2
    <3>2. s.res = << >> BY <1>1, <3>1, EmptySeq
    <3>3. QED BY <1>5, <1>7, <3>2 DEF Quiet
  <2>3. QED BY <2>1, <2>2
<1>8. CASE n # 0
  <2>1. Len(bodies) = n
    <3>1. \A i \in 1..n : Stitched(s)[i] \in Body BY <1>3, <1>4, ElementOfSeq
    <3>2. QED BY <1>3, <1>4, <3>1, SubSeqProperties
  <2>2. t.pending_bosh_responses = s.pending_bosh_responses BY SendOnFirstKeeps
  <2>3. t.res = SubSeq(s.res, n + 1, Len(s.res))
    <3> HIDE DEF n, bodies
    <3>1. QED BY <1>8, <2>1 DEF SendOnFirst, SessionRecord
  <2>4. /\ "pending_stanzas" \in DOMAIN t /\ "pending_bosh_responses" \in DOMAIN t
    <3> HIDE DEF n, bodies
    <3>1. QED BY <1>8, <2>1 DEF SendOnFirst, SessionRecord
  <2> HIDE DEF t, bodies
  <2>5. u.res = t.res /\ u.pending_stanzas = << >> /\ u.pending_bosh_responses = bosh
    <3> HIDE DEF bosh
    <3>1. QED BY <2>4
  <2> HIDE DEF u
  <2>6. CASE n = Len(s.res)
    <3>1. u.res = << >> BY <1>1, <2>3, <2>5, <2>6, SubSeqEmpty
    <3>2. QED BY <1>5, <1>8, <3>1 DEF Quiet
  <2>7. CASE n = m
    <3>1. bosh = << >>
      <4>1. CASE s.pending_bosh_responses = << >>
        <5>1. n = 1 BY <1>2, <1>8, <2>7, <4>1
        <5>2. Len(<< >>) = 0 /\ t.pending_bosh_responses = << >> BY <4>1, <2>2
        <5>3. bosh = SubSeq(<< >>, 2, 0) BY <5>1, <5>2
        <5>4. SubSeq(<< >>, 2, 0) = << >>
          <6>1. 2 \in Int /\ 0 \in Int /\ 0 < 2 OBVIOUS
          <6>2. QED BY <6>1, SubSeqEmpty, Zenon
        <5>5. QED BY <5>3, <5>4
      <4>2. CASE s.pending_bosh_responses # << >>
        <5>1. n = Len(s.pending_bosh_responses) BY <1>2, <2>7, <4>2
        <5>2. QED BY <5>1, <2>2, <1>1, SubSeqEmpty
      <4>3. QED BY <4>1, <4>2
    <3>2. QED BY <1>5, <1>8, <2>5, <3>1 DEF Quiet, Calm
  <2>8. QED BY <1>4, <2>6, <2>7
<1>9. QED BY <1>7, <1>8

-----------------------------------------------------------------------------
(* Processing.                                                             *)

(* Those of a run are taken, and no other, up to the greatest.             *)
TakesRun(s, run, t) ==
  /\ t.rid = (IF run = {} THEN s.rid ELSE Max(run))
  /\ \A r \in Rid : t.queued_requests[r] # "none" => s.queued_requests[r] # "none" /\ r \notin run
  /\ \A r \in Rid : \/ t.nodes[r] = s.nodes[r]
                    \/ /\ t.nodes[r] = s.nodes[r] + 1
                       /\ r \in run /\ s.queued_requests[r] = "data"

(* ProcessRun takes its run, and then sends what is pending.               *)
LEMMA ProcessRunTakes ==
  ASSUME NEW s \in SessionRecord, NEW run \in SUBSET Rid
  PROVE  /\ TakesRun(s, run, ProcessRun(s, run))
         /\ ProcessRun(s, run).status = s.status
         /\ run = {} => ProcessRun(s, run) = s
         /\ run # {} => Quiet(ProcessRun(s, run))
<1> DEFINE top == Max(run)
           queue == [r \in Rid |-> IF r \in run THEN "none" ELSE s.queued_requests[r]]
           nodes == [r \in Rid |-> IF r \in run /\ s.queued_requests[r] = "data"
                                   THEN s.nodes[r] + 1 ELSE s.nodes[r]]
           t == [s EXCEPT !.rid = top, !.queued_requests = queue, !.nodes = nodes]
<1>1. ProcessRun(s, run) = IF run = {} THEN s ELSE send_pending_responses(t)
  BY Zenon DEF ProcessRun
<1>2. CASE run = {} BY <1>1, <1>2, Zenon DEF TakesRun
<1>3. CASE run # {}
  <2>1. queue \in [Rid -> Queued] BY DEF SessionRecord, Queued
  <2>2. nodes \in [Rid -> Nat] BY DEF SessionRecord
  <2>3. top \in Rid BY <1>3, GreatestRid
  <2>4. /\ \A r \in Rid : queue[r] = IF r \in run THEN "none" ELSE s.queued_requests[r]
        /\ \A r \in Rid : nodes[r] = IF r \in run /\ s.queued_requests[r] = "data"
                                     THEN s.nodes[r] + 1 ELSE s.nodes[r]
    OBVIOUS
  <2> HIDE DEF top, queue, nodes
  <2>5. top \in 0..MaxRid BY <2>3, BoundsAssumption DEF Rid
  <2>6. t \in SessionRecord BY <2>1, <2>2, <2>5 DEF SessionRecord
  <2>7. t.rid = top /\ t.queued_requests = queue /\ t.nodes = nodes /\ t.status = s.status
    BY DEF SessionRecord
  <2> HIDE DEF t
  <2> DEFINE u == send_pending_responses(t)
  <2>8. KeepsQueue(t, u) /\ u.status = s.status /\ Quiet(u)
    BY <2>6, <2>7, SendPendingKeeps, SendPendingQuiet
  <2> HIDE DEF u
  <2>9. u.rid = Max(run) /\ u.nodes = nodes BY <2>7, <2>8 DEF KeepsQueue, top
  <2>10. \A r \in Rid : u.queued_requests[r] # "none" =>
                          s.queued_requests[r] # "none" /\ r \notin run
    BY <2>4, <2>7, <2>8 DEF KeepsQueue, NoMoreQueued
  <2>11. TakesRun(s, run, u) BY <1>3, <2>4, <2>9, <2>10 DEF TakesRun
  <2>12. QED BY <1>1, <1>3, <2>8, <2>11 DEF u
<1>4. QED BY <1>2, <1>3

(* What takes a run above the rid moves over it only.                      *)
LEMMA TakesRunMoves ==
  ASSUME NEW s \in SessionRecord, NEW t \in SessionRecord, NEW run \in SUBSET Rid,
         TakesRun(s, run, t), \A r \in run : r > s.rid
  PROVE  NodesMove(s, t)
<1>1. s.rid \in Nat /\ run \subseteq Nat BY NumberFields
<1>2. CASE run = {} BY <1>1, <1>2 DEF TakesRun, NodesMove
<1>3. CASE run # {}
  <2>1. Max(run) \in run /\ \A q \in run : q <= Max(run) BY <1>3, GreatestRid
  <2>2. t.rid = Max(run) BY <1>3 DEF TakesRun
  <2>3. Max(run) \in Nat /\ Max(run) > s.rid BY <1>1, <2>1
  <2>4. s.rid <= t.rid BY <1>1, <2>2, <2>3
  <2>5. QED BY <2>1, <2>2, <2>4 DEF TakesRun, NodesMove
<1>4. QED BY <1>2, <1>3

(* A request that is queued and not taken waits for a rid that is missing. *)
LEMMA RunIsGapFree ==
  ASSUME NEW s \in SessionRecord, NEW top \in Nat,
         \A q \in Runnable(s) : q <= top,
         top = s.rid \/ top \in Runnable(s),
         Waiting(s), NEW r \in Rid, s.queued_requests[r] # "none", r \notin Runnable(s)
  PROVE  r > top + 1
<1>1. s.rid \in Nat /\ r \in Nat /\ r > s.rid /\ Rid \subseteq Nat BY NumberFields DEF Waiting
<1>2. PICK q \in (s.rid + 1)..r : s.queued_requests[q] = "none" BY <1>1 DEF Runnable
<1>3. q \in Nat /\ s.rid < q /\ q <= r /\ q # r BY <1>1, <1>2
<1>4. ASSUME r <= top + 1 PROVE FALSE
  <2>1. q <= top /\ top # s.rid BY <1>1, <1>3, <1>4
  <2>2. top \in Runnable(s) BY <2>1
  <2>3. q \in (s.rid + 1)..top BY <1>1, <1>3, <2>1
  <2>4. QED BY <1>2, <2>2, <2>3 DEF Runnable
<1>5. QED BY <1>1, <1>4

(* The next request is taken if it is queued.                              *)
LEMMA NextIsRunnable ==
  ASSUME NEW s \in SessionRecord, NEW r \in Rid, r = s.rid + 1, s.queued_requests[r] # "none"
  PROVE  r \in Runnable(s)
BY NumberFields DEF Runnable

(* process_requests takes every request it can.                            *)
LEMMA ProcessRequestsTakes ==
  ASSUME NEW s \in SessionRecord, Waiting(s)
  PROVE  /\ Ahead(process_requests(s))
         /\ NodesMove(s, process_requests(s))
         /\ process_requests(s).status \in {s.status, "terminated"}
         /\ Runnable(s) = {} => process_requests(s) = s
         /\ Runnable(s) # {} => Quiet(process_requests(s))
<1> DEFINE run == Runnable(s)
           ends == {r \in run : s.queued_requests[r] = "terminate"}
           t == Min(ends)
           low == {r \in run : r < t}
           high == {r \in run : r > t}
           before == ProcessRun(s, low)
           taken == [before EXCEPT !.rid = t, !.queued_requests[t] = "none", !.nodes[t] = @ + 1]
           ended == end_session(taken, "terminated")
           after == ProcessRun(ended, high)
<1>1. /\ run \in SUBSET Rid /\ s.rid \in Nat /\ Rid \subseteq Nat
      /\ \A r \in run : r > s.rid /\ s.queued_requests[r] # "none"
  BY NumberFields DEF Runnable
<1>2. process_requests(s) = IF ends = {} THEN ProcessRun(s, run) ELSE after
  BY Zenon DEF process_requests
<1>3. CASE ends = {}
  <2> DEFINE u == ProcessRun(s, run)
  <2>1. /\ TakesRun(s, run, u) /\ u \in SessionRecord /\ u.status = s.status
        /\ run = {} => u = s
        /\ run # {} => Quiet(u)
    BY <1>1, ProcessRunTakes, ProcessRunType
  <2> HIDE DEF u
  <2>2. NodesMove(s, u) BY <1>1, <2>1, TakesRunMoves
  <2>3. u.rid \in Nat /\ (u.rid = s.rid \/ u.rid \in run) /\ \A q \in run : q <= u.rid
    <3>1. CASE run = {} BY <1>1, <2>1, <3>1 DEF TakesRun
    <3>2. CASE run # {}
      <4>1. u.rid = Max(run) BY <2>1, <3>2 DEF TakesRun
      <4>2. QED BY <1>1, <3>2, <4>1, GreatestRid
    <3>3. QED BY <3>1, <3>2
  <2>4. Ahead(u)
    <3>1. ASSUME NEW r \in Rid, u.queued_requests[r] # "none" PROVE r > u.rid + 1
      <4>1. s.queued_requests[r] # "none" /\ r \notin run BY <2>1, <3>1 DEF TakesRun
      <4>2. QED BY <4>1, <2>3, RunIsGapFree
    <3>2. QED BY <3>1 DEF Ahead
  <2>5. QED BY <1>2, <1>3, <2>1, <2>2, <2>4 DEF u
<1>4. CASE ends # {}
  <2>1. t \in run /\ s.queued_requests[t] = "terminate" BY <1>1, <1>4, LeastRid
  <2>2. low \in SUBSET Rid /\ high \in SUBSET Rid /\ t \in Rid BY <1>1, <2>1
  <2>3. /\ t \in Nat /\ low \subseteq run /\ high \subseteq run
        /\ \A r \in low : r < t
        /\ \A r \in high : r > t
        /\ \A r \in run : r = t \/ r \in low \/ r \in high
    <3>1. t \in Nat /\ run \subseteq Nat BY <1>1, <2>1
    <3> HIDE DEF run, ends, t
    <3>2. QED BY <3>1
  <2> HIDE DEF run, ends, t, low, high
  <2>4. /\ TakesRun(s, low, before) /\ before \in SessionRecord /\ before.status = s.status
    BY <2>2, ProcessRunTakes, ProcessRunType
  <2> HIDE DEF before
  <2>5. NodesMove(s, before) BY <1>1, <2>2, <2>3, <2>4, TakesRunMoves
  <2>6. before.rid \in Nat /\ before.rid < t
    <3>1. CASE low = {} BY <1>1, <2>1, <2>4, <3>1 DEF TakesRun
    <3>2. CASE low # {}
      <4>1. Max(low) \in low BY <2>2, <3>2, GreatestRid
      <4>2. before.rid = Max(low) BY <2>4, <3>2 DEF TakesRun
      <4>3. QED BY <1>1, <2>2, <2>3, <4>1, <4>2
    <3>3. QED BY <3>1, <3>2
  <2>7. taken \in SessionRecord BY <2>2, <2>4, TakenType
  <2>8. /\ taken.rid = t
        /\ \A r \in Rid : taken.queued_requests[r] =
                            IF r = t THEN "none" ELSE before.queued_requests[r]
        /\ \A r \in Rid : taken.nodes[r] =
                            IF r = t THEN before.nodes[r] + 1 ELSE before.nodes[r]
    BY <2>4 DEF SessionRecord
  <2> HIDE DEF taken
  <2>9. NodesMove(before, taken) BY <2>3, <2>6, <2>8 DEF NodesMove
  <2>10. /\ ended \in SessionRecord /\ KeepsQueue(taken, ended) /\ ended.status = "terminated"
         /\ ended.pending_stanzas = << >> /\ ended.pending_bosh_responses = << >>
         /\ \A r \in Rid : ended.queued_requests[r] \in {"none", "body"}
    BY <2>7, EndSessionType, EndSessionKeeps DEF Status
  <2>11. NodesMove(taken, ended) BY <2>7, <2>10, KeptQueue
  <2> HIDE DEF ended
  <2>12. /\ TakesRun(ended, high, after) /\ after \in SessionRecord
         /\ after.status = "terminated"
         /\ high = {} => after = ended
         /\ high # {} => Quiet(after)
    BY <2>2, <2>10, ProcessRunTakes, ProcessRunType
  <2>13. ended.rid = t BY <2>8, <2>10 DEF KeepsQueue
  <2> HIDE DEF after
  <2>14. NodesMove(ended, after) BY <2>2, <2>3, <2>10, <2>12, <2>13, TakesRunMoves
  <2>15. NodesMove(s, after)
    <3>1. NodesMove(s, taken) BY <2>4, <2>5, <2>7, <2>9, NodesMoveTransitive
    <3>2. NodesMove(s, ended) BY <2>7, <2>10, <2>11, <3>1, NodesMoveTransitive
    <3>3. QED BY <2>10, <2>12, <2>14, <3>2, NodesMoveTransitive
  <2>16. after.rid \in run /\ \A q \in run : q <= after.rid
    <3>1. CASE high = {}
      <4>1. after.rid = t BY <2>12, <2>13, <3>1
      <4>2. QED BY <1>1, <2>1, <2>3, <3>1, <4>1
    <3>2. CASE high # {}
      <4>1. Max(high) \in high /\ \A q \in high : q <= Max(high) BY <2>2, <3>2, GreatestRid
      <4>2. after.rid = Max(high) BY <2>12, <3>2 DEF TakesRun
      <4>3. PICK m : m = after.rid OBVIOUS
      <4>4. m \in high /\ \A q \in high : q <= m BY <4>1, <4>2, <4>3
      <4>5. m \in run /\ m \in Nat /\ m > t BY <1>1, <2>3, <4>4
      <4>6. ASSUME NEW q \in run PROVE q <= m
        <5>1. q \in Nat BY <1>1
        <5>2. q = t \/ q < t \/ q \in high BY <2>3
        <5>3. QED BY <2>3, <4>4, <4>5, <5>1, <5>2
      <4>7. QED BY <4>3, <4>5, <4>6
    <3>3. QED BY <3>1, <3>2
  <2>17. Ahead(after)
    <3>1. ASSUME NEW r \in Rid, after.queued_requests[r] # "none" PROVE r > after.rid + 1
      <4>1. ended.queued_requests[r] # "none" /\ r \notin high BY <2>12, <3>1 DEF TakesRun
      <4>2. taken.queued_requests[r] # "none" BY <2>10, <4>1 DEF KeepsQueue, NoMoreQueued
      <4>3. r # t /\ before.queued_requests[r] # "none" BY <2>8, <4>2
      <4>4. s.queued_requests[r] # "none" /\ r \notin low BY <2>4, <4>3 DEF TakesRun
      <4>5. r \notin run BY <2>3, <4>1, <4>3, <4>4
      <4>6. after.rid \in Nat BY <1>1, <2>16
      <4>7. QED BY <2>16, <4>4, <4>5, <4>6, RunIsGapFree DEF run
    <3>2. QED BY <3>1 DEF Ahead
  <2>18. Quiet(after)
    <3>1. Quiet(ended) BY <2>10 DEF Quiet, Calm
    <3>2. CASE high = {}
      <4>1. after = ended BY <2>12, <3>2
      <4>2. QED BY <3>1, <4>1, Zenon
    <3>3. CASE high # {} BY <2>12, <3>3
    <3>4. QED BY <3>2, <3>3
  <2>19. Runnable(s) # {} BY <2>1 DEF run
  <2>20. QED BY <1>2, <1>4, <2>12, <2>15, <2>17, <2>18, <2>19
<1>5. QED BY <1>3, <1>4

-----------------------------------------------------------------------------
(* Held responses that remain are among those that were held.              *)

FewerHeld(s, t) ==
  \A j \in DOMAIN t.res : \E i \in DOMAIN s.res : t.res[j] = s.res[i]

(* SendOnFirst removes the first responses.                                *)
LEMMA SendOnFirstHeld ==
  ASSUME NEW s \in SessionRecord, NEW bodies \in Seq(Body), Len(bodies) <= Len(s.res)
  PROVE  /\ DOMAIN SendOnFirst(s, bodies).res = 1..(Len(s.res) - Len(bodies))
         /\ \A j \in 1..(Len(s.res) - Len(bodies)) :
              SendOnFirst(s, bodies).res[j] = s.res[Len(bodies) + j]
         /\ FewerHeld(s, SendOnFirst(s, bodies))
<1> DEFINE n == Len(bodies)
           rest == SubSeq(s.res, n + 1, Len(s.res))
           t == SendOnFirst(s, bodies)
<1>1. n \in Nat /\ n <= Len(s.res) BY LenProperties
<1>2. s.res \in Seq(Response) /\ Len(s.res) \in Nat /\ DOMAIN s.res = 1..Len(s.res)
  BY ResponseFields, LenProperties
<1>3. CASE n = 0
  <2>1. t = s BY <1>3, Zenon DEF SendOnFirst
  <2>2. FewerHeld(s, t) BY <2>1, Zenon DEF FewerHeld
  <2>3. \A j \in 1..Len(s.res) : n + j = j BY <1>2, <1>3
  <2>4. Len(s.res) - n = Len(s.res) BY <1>2, <1>3
  <2> HIDE DEF t, n
  <2>5. QED BY <1>2, <2>1, <2>2, <2>3, <2>4 DEF t, n
<1>4. CASE n # 0
  <2>1. t.res = rest BY <1>4 DEF SendOnFirst, SessionRecord
  <2>2. \A i \in (n + 1)..Len(s.res) : s.res[i] \in Response BY <1>1, <1>2, ElementOfSeq
  <2>3. /\ Len(rest) = Len(s.res) - n
        /\ \A j \in 1..(Len(s.res) - n) : rest[j] = s.res[n + j]
        /\ DOMAIN rest = 1..(Len(s.res) - n)
    BY <1>1, <1>2, <2>2, SubSeqProperties
  <2>4. \A j \in 1..(Len(s.res) - n) : n + j \in 1..Len(s.res) BY <1>1, <1>2
  <2> HIDE DEF t, rest, n
  <2>5. FewerHeld(s, t) BY <1>2, <2>1, <2>3, <2>4 DEF FewerHeld
  <2>6. QED BY <2>1, <2>3, <2>5 DEF n, t
<1>5. QED BY <1>3, <1>4

(* respond_to_extra_held leaves a part of what was held.                   *)
LEMMA RespondToExtraHeld ==
  ASSUME NEW s \in SessionRecord
  PROVE  FewerHeld(s, respond_to_extra_held(s))
<1>1. Len(s.res) \in Nat /\ s.hold \in Nat BY ResponseFields, NumberFields
<1>2. CASE Len(s.res) <= s.hold
  <2>1. respond_to_extra_held(s) = s BY <1>2 DEF respond_to_extra_held
  <2>2. QED BY <2>1 DEF FewerHeld
<1>3. CASE ~(Len(s.res) <= s.hold)
  <2> DEFINE k == Len(s.res) - s.hold
  <2>1. k \in Nat /\ k <= Len(s.res) BY <1>1, <1>3
  <2>2. Empties(k) \in Seq(Body) /\ Len(Empties(k)) = k BY <2>1, EmptiesType
  <2>3. respond_to_extra_held(s) = SendOnFirst(s, Empties(k))
    BY <1>3, Zenon DEF respond_to_extra_held
  <2> HIDE DEF k
  <2>4. QED BY <2>1, <2>2, <2>3, SendOnFirstHeld
<1>4. QED BY <1>2, <1>3

(* The new response is inserted, and the others stay.                      *)
LEMMA AddHeldHeld ==
  ASSUME NEW s \in SessionRecord, NEW rid \in Rid, NEW c \in Conn,
         NEW j \in DOMAIN add_held_http_connection(s, rid, c).res
  PROVE  \/ add_held_http_connection(s, rid, c).res[j].rid = rid
         \/ \E i \in DOMAIN s.res : add_held_http_connection(s, rid, c).res[j] = s.res[i]
<1> DEFINE ro == [rid |-> rid, conn |-> c]
           res == InsertByRid(s.res, ro)
           t == add_held_http_connection(s, rid, c)
<1>1. ro \in Response /\ ro.rid = rid BY DEF Response
<1>2. s.res \in Seq(Response) /\ Len(s.res) \in Nat /\ DOMAIN s.res = 1..Len(s.res)
  BY ResponseFields, LenProperties
<1>3. t = IF rid < s.max_rid_sent THEN _send_no_requeue(s, ro, Bare("empty"))
          ELSE [s EXCEPT !.res = res]
  BY Zenon DEF add_held_http_connection
<1> HIDE DEF ro
<1>4. res \in Seq(Response) /\ Len(res) = Len(s.res) + 1 BY <1>1, <1>2, InsertByRidElements
<1>5. PICK pos \in 1..(Len(s.res) + 1) :
        \A i \in 1..(Len(s.res) + 1) :
          /\ i < pos => res[i] = s.res[i]
          /\ i = pos => res[i] = ro
          /\ i > pos => res[i] = s.res[i - 1]
  BY <1>1, <1>2, InsertByRidElements
<1> HIDE DEF res
<1>6. CASE rid < s.max_rid_sent
  <2>1. t.res = s.res BY <1>3, <1>6 DEF _send_no_requeue, SessionRecord
  <2>2. QED BY <2>1
<1>7. CASE ~(rid < s.max_rid_sent)
  <2>1. t.res = res BY <1>3, <1>7 DEF SessionRecord
  <2>2. j \in 1..(Len(s.res) + 1) BY <1>4, <2>1, LenProperties
  <2> HIDE DEF t
  <2>3. CASE j = pos BY <1>1, <1>5, <2>1, <2>2, <2>3 DEF t
  <2>4. CASE j < pos
    <3>1. j \in 1..Len(s.res) /\ res[j] = s.res[j] BY <1>2, <1>5, <2>2, <2>4
    <3>2. QED BY <1>2, <2>1, <3>1 DEF t
  <2>5. CASE j > pos
    <3>1. j - 1 \in 1..Len(s.res) /\ res[j] = s.res[j - 1] BY <1>2, <1>5, <2>2, <2>5
    <3>2. QED BY <1>2, <2>1, <3>1 DEF t
  <2>6. QED BY <2>2, <2>3, <2>4, <2>5
<1>8. QED BY <1>6, <1>7

(* add_held_http_connection leaves the queue and what is pending alone.    *)
LEMMA AddHeldKeeps ==
  ASSUME NEW s \in SessionRecord, NEW rid \in Rid, NEW c \in Conn
  PROVE  /\ add_held_http_connection(s, rid, c).rid = s.rid
         /\ add_held_http_connection(s, rid, c).nodes = s.nodes
         /\ add_held_http_connection(s, rid, c).queued_requests = s.queued_requests
         /\ add_held_http_connection(s, rid, c).status = s.status
         /\ add_held_http_connection(s, rid, c).pending_stanzas = s.pending_stanzas
         /\ add_held_http_connection(s, rid, c).pending_bosh_responses = s.pending_bosh_responses
         /\ add_held_http_connection(s, rid, c).has_next_tick = s.has_next_tick
BY DEF add_held_http_connection, _send_no_requeue, SessionRecord

-----------------------------------------------------------------------------
(* Every action keeps what is said of the queue and of what is pending.    *)

HeldHigh(s) == \A i \in DOMAIN s.res : s.res[i].rid > s.rid + 1

Moving(s) ==
  Calm(s) \/ s.has_next_tick \/ HeldHigh(s) \/ (PidginCompatible /\ s.rid = InitRid)

(* The queue waits for a lower rid, the nodes of requests above the rid    *)
(* have not been passed on, and a session that does not exist has no rid.  *)
QueueInv ==
  /\ Ahead(session)
  /\ Untouched(session)
  /\ session.status = "none" => session.rid = 0
  /\ Moving(session)

(* How an action leaves the queue.                                         *)
QueueGood ==
  /\ Ahead(session)'
  /\ NodesMove(session, session')
  /\ session'.status = "none" => session'.rid = 0
  /\ Moving(session)'

(* Where nothing is pending, or nothing is held, there is no stall.        *)
LEMMA QuietMoves ==
  ASSUME NEW s, Quiet(s)
  PROVE  Moving(s)
<1>1. CASE Calm(s) BY <1>1 DEF Moving
<1>2. CASE s.res = << >>
  <2>1. DOMAIN s.res = {} BY <1>2
  <2>2. HeldHigh(s) BY <2>1 DEF HeldHigh
  <2>3. QED BY <2>2 DEF Moving
<1>3. QED BY <1>1, <1>2 DEF Quiet

(* Fewer held responses do no harm.                                        *)
LEMMA MovingKept ==
  ASSUME NEW s, NEW t, Moving(s), t.rid = s.rid, FewerHeld(s, t),
         Calm(s) => Calm(t), s.has_next_tick => t.has_next_tick
  PROVE  Moving(t)
<1>1. HeldHigh(s) => HeldHigh(t) BY Zenon DEF HeldHigh, FewerHeld
<1>2. QED BY <1>1 DEF Moving

(* respond_to_extra_held does no harm.                                     *)
LEMMA RespondToExtraMoves ==
  ASSUME NEW s \in SessionRecord
  PROVE  Moving(s) => Moving(respond_to_extra_held(s))
<1>1. /\ KeepsQueue(s, respond_to_extra_held(s))
      /\ respond_to_extra_held(s).pending_stanzas = s.pending_stanzas
      /\ respond_to_extra_held(s).pending_bosh_responses = s.pending_bosh_responses
      /\ respond_to_extra_held(s).has_next_tick = s.has_next_tick
      /\ FewerHeld(s, respond_to_extra_held(s))
  BY RespondToExtraKeeps, RespondToExtraHeld
<1>2. QED BY <1>1, MovingKept DEF KeepsQueue, Calm

(* Accept queues the request and leaves what is pending alone.             *)
LEMMA AcceptQueues ==
  ASSUME TypeOK, NEW rid \in Rid, NEW attr \in Nat, NEW kind \in Queued
  PROVE  /\ Accept(rid, attr, kind).rid = session.rid
         /\ Accept(rid, attr, kind).nodes = session.nodes
         /\ Accept(rid, attr, kind).queued_requests = [session.queued_requests EXCEPT ![rid] = kind]
         /\ Accept(rid, attr, kind).status = session.status
         /\ Accept(rid, attr, kind).pending_stanzas = session.pending_stanzas
         /\ Accept(rid, attr, kind).pending_bosh_responses = session.pending_bosh_responses
         /\ Accept(rid, attr, kind).has_next_tick = session.has_next_tick
BY DEF Accept, Arrive, handle_acks, TypeOK, SessionRecord

(* Processing after a request was queued, its response held or sent.       *)
LEMMA ProcessGood ==
  ASSUME TypeOK, QueueInv, NEW rid \in Rid, rid > session.rid, session.status = "open",
         NEW kind \in Queued \ {"none"}, NEW s \in SessionRecord,
         s.rid = session.rid, s.nodes = session.nodes,
         s.queued_requests = [session.queued_requests EXCEPT ![rid] = kind],
         s.status = session.status, Calm(session) => Calm(s),
         session.has_next_tick => s.has_next_tick,
         \A j \in DOMAIN s.res : \/ s.res[j].rid = rid
                                 \/ \E i \in DOMAIN session.res : s.res[j] = session.res[i],
         session' = respond_to_extra_held(process_requests(s))
  PROVE  QueueGood
<1> DEFINE t == process_requests(s)
<1>1. session \in SessionRecord /\ session.rid \in Nat /\ rid \in Nat BY NumberFields DEF TypeOK
<1>2. \A r \in Rid : s.queued_requests[r] = IF r = rid THEN kind ELSE session.queued_requests[r]
  BY <1>1 DEF SessionRecord
<1>3. Waiting(s)
  <2>1. ASSUME NEW r \in Rid, s.queued_requests[r] # "none" PROVE r > s.rid
    <3>1. r \in Nat BY NumberFields, <1>1
    <3>2. CASE r = rid BY <3>2
    <3>3. CASE r # rid
      <4>1. session.queued_requests[r] # "none" BY <1>2, <2>1, <3>3
      <4>2. r > session.rid + 1 BY <4>1 DEF QueueInv, Ahead
      <4>3. QED BY <1>1, <3>1, <4>2
    <3>4. QED BY <3>2, <3>3
  <2>2. QED BY <2>1 DEF Waiting
<1>4. /\ Ahead(t) /\ NodesMove(s, t) /\ t \in SessionRecord
      /\ t.status \in {s.status, "terminated"}
      /\ Runnable(s) = {} => t = s
      /\ Runnable(s) # {} => Quiet(t)
  BY <1>3, ProcessRequestsTakes, ProcessRequestsType
<1>5. Moving(t)
  <2>1. CASE Runnable(s) # {} BY <1>4, <2>1, QuietMoves
  <2>2. CASE Runnable(s) = {}
    <3>1. rid # s.rid + 1 BY <1>2, <2>2, NextIsRunnable
    <3>2. rid > s.rid + 1 BY <1>1, <3>1
    <3>3. HeldHigh(session) => HeldHigh(s) BY <3>2 DEF HeldHigh
    <3>4. Moving(s) BY <3>3 DEF Moving, QueueInv
    <3>5. QED BY <1>4, <2>2, <3>4, Zenon
  <2>3. QED BY <2>1, <2>2
<1> HIDE DEF t
<1>6. session' = respond_to_extra_held(t) BY DEF t
<1>7. KeepsQueue(t, session') /\ session'.status = t.status /\ Moving(session')
  BY <1>4, <1>5, <1>6, RespondToExtraKeeps, RespondToExtraMoves
<1>8. session' \in SessionRecord BY <1>4, <1>6, RespondToExtraType
<1>9. Ahead(session') /\ NodesMove(t, session') BY <1>4, <1>7, <1>8, KeptQueue
<1>10. NodesMove(session, session')
  <2>1. NodesMove(session, t) BY <1>4 DEF NodesMove
  <2>2. QED BY <1>1, <1>4, <1>8, <1>9, <2>1, NodesMoveTransitive
<1>11. session'.status # "none" BY <1>4, <1>7
<1>12. QED BY <1>7, <1>9, <1>10, <1>11 DEF QueueGood

(* A request with a new rid.                                               *)
LEMMA RequestQueue ==
  ASSUME TypeOK, QueueInv, NEW rid \in Rid, NEW attr \in Nat, NEW kind \in Kinds,
         Request(rid, attr, kind)
  PROVE  QueueGood
<1> DEFINE t == Accept(rid, attr, kind)
           s == add_held_http_connection(t, rid, NextConn)
<1>1. kind \in Queued \ {"none"} BY ClientAssumption DEF Queued
<1>2. t \in SessionRecord BY <1>1, AcceptType
<1>3. NextConn \in Conn BY NextConnType DEF Request
<1>4. session' = respond_to_extra_held(process_requests(s)) BY Zenon DEF Request
<1>5. rid > session.rid /\ session.status = "open" BY DEF Request
<1>6. /\ t.rid = session.rid /\ t.nodes = session.nodes
      /\ t.queued_requests = [session.queued_requests EXCEPT ![rid] = kind]
      /\ t.status = session.status /\ t.pending_stanzas = session.pending_stanzas
      /\ t.pending_bosh_responses = session.pending_bosh_responses
      /\ t.has_next_tick = session.has_next_tick
      /\ t.res = session.res
  BY <1>1, AcceptQueues, AcceptKeeps
<1> HIDE DEF t
<1>7. /\ s \in SessionRecord /\ s.rid = t.rid /\ s.nodes = t.nodes
      /\ s.queued_requests = t.queued_requests /\ s.status = t.status
      /\ s.pending_stanzas = t.pending_stanzas
      /\ s.pending_bosh_responses = t.pending_bosh_responses
      /\ s.has_next_tick = t.has_next_tick
  BY <1>2, <1>3, AddHeldType, AddHeldKeeps
<1>8. \A j \in DOMAIN s.res : \/ s.res[j].rid = rid
                              \/ \E i \in DOMAIN session.res : s.res[j] = session.res[i]
  BY <1>2, <1>3, <1>6, AddHeldHeld
<1> HIDE DEF s
<1>9. Calm(session) => Calm(s) BY <1>6, <1>7 DEF Calm
<1>10. QED BY <1>1, <1>4, <1>5, <1>6, <1>7, <1>8, <1>9, ProcessGood

(* A request for a stream that is gone.                                    *)
LEMMA RequestForDeletedStreamQueue ==
  ASSUME TypeOK, QueueInv, NEW rid \in Rid, NEW attr \in Nat,
         RequestForDeletedStream(rid, attr)
  PROVE  QueueGood
<1> DEFINE t == Accept(rid, attr, "body")
           s == _send_immediate(t, NextConn, Bare("terminate"))
<1>1. "body" \in Queued \ {"none"} BY DEF Queued
<1>2. t \in SessionRecord BY <1>1, AcceptType
<1>3. NextConn \in Conn BY NextConnType DEF RequestForDeletedStream
<1>4. session' = respond_to_extra_held(process_requests(s)) BY Zenon DEF RequestForDeletedStream
<1>5. rid > session.rid /\ session.status = "open" BY DEF RequestForDeletedStream
<1>6. /\ t.rid = session.rid /\ t.nodes = session.nodes
      /\ t.queued_requests = [session.queued_requests EXCEPT ![rid] = "body"]
      /\ t.status = session.status /\ t.pending_stanzas = session.pending_stanzas
      /\ t.pending_bosh_responses = session.pending_bosh_responses
      /\ t.has_next_tick = session.has_next_tick
      /\ t.res = session.res
  BY <1>1, AcceptQueues, AcceptKeeps
<1> HIDE DEF t
<1>7. /\ s \in SessionRecord /\ s.rid = t.rid /\ s.nodes = t.nodes
      /\ s.queued_requests = t.queued_requests /\ s.status = t.status
      /\ s.pending_stanzas = t.pending_stanzas
      /\ s.pending_bosh_responses = t.pending_bosh_responses
      /\ s.has_next_tick = t.has_next_tick /\ s.res = t.res
  BY <1>2, <1>3, SendImmediateType, BareType DEF _send_immediate, SessionRecord, BodyKind
<1> HIDE DEF s
<1>8. \A j \in DOMAIN s.res : \E i \in DOMAIN session.res : s.res[j] = session.res[i]
  BY <1>6, <1>7
<1>9. Calm(session) => Calm(s) BY <1>6, <1>7 DEF Calm
<1>10. QED BY <1>1, <1>4, <1>5, <1>6, <1>7, <1>8, <1>9, ProcessGood

(* A repeated request: what is pending goes out on what is held.           *)
LEMMA RepeatedRequestQueue ==
  ASSUME TypeOK, QueueInv, NEW rid \in Rid, NEW attr \in Nat, NEW kind \in Kinds,
         RepeatedRequest(rid, attr, kind)
  PROVE  QueueGood
<1> DEFINE t == Accept(rid, attr, kind)
           told == handle_broken_connections(t, rid, NextConn)
           sent == send_pending_responses(told)
<1>1. kind \in Queued BY ClientAssumption DEF Queued
<1>2. t \in SessionRecord BY <1>1, AcceptType
<1>3. NextConn \in Conn BY NextConnType DEF RepeatedRequest
<1>4. session' = respond_to_extra_held(sent) BY Zenon DEF RepeatedRequest
<1>5. session.status = "open" BY DEF RepeatedRequest
<1>6. /\ t.rid = session.rid /\ t.nodes = session.nodes
      /\ t.queued_requests = [session.queued_requests EXCEPT ![rid] = kind]
      /\ t.status = session.status
  BY <1>1, AcceptQueues
<1> HIDE DEF t
<1>7. /\ told \in SessionRecord /\ told.rid = t.rid /\ told.nodes = t.nodes
      /\ told.queued_requests = [t.queued_requests EXCEPT ![rid] = "none"]
      /\ told.status = t.status
  <2>1. told \in SessionRecord BY <1>2, <1>3, HandleBrokenType
  <2>2. QED BY <1>2, <2>1 DEF handle_broken_connections, _send_immediate, SessionRecord
<1>8. KeepsQueue(session, told)
  <2>1. session.queued_requests \in [Rid -> Queued] BY DEF TypeOK, SessionRecord
  <2>2. NoMoreQueued(session, told) BY <1>6, <1>7, <2>1 DEF NoMoreQueued
  <2>3. QED BY <1>6, <1>7, <2>2 DEF KeepsQueue
<1> HIDE DEF told
<1>9. /\ sent \in SessionRecord /\ KeepsQueue(told, sent) /\ sent.status = told.status
      /\ Moving(sent)
  BY <1>7, SendPendingType, SendPendingKeeps, SendPendingQuiet, QuietMoves
<1> HIDE DEF sent
<1>10. /\ KeepsQueue(sent, session') /\ session'.status = sent.status /\ Moving(session')
       /\ session' \in SessionRecord
  BY <1>4, <1>9, RespondToExtraKeeps, RespondToExtraMoves, RespondToExtraType
<1>11. KeepsQueue(session, session') BY <1>8, <1>9, <1>10, KeepsQueueTransitive
<1>12. Ahead(session') /\ NodesMove(session, session')
  BY <1>10, <1>11, KeptQueue DEF QueueInv, TypeOK
<1>13. session'.status # "none" BY <1>5, <1>6, <1>7, <1>9, <1>10
<1>14. QED BY <1>10, <1>12, <1>13 DEF QueueGood

(* The end of a session.                                                   *)
LEMMA EndQueue ==
  ASSUME TypeOK, QueueInv, NEW s \in SessionRecord, KeepsQueue(session, s),
         NEW why \in {"terminated", "expired"}, session' \in SessionRecord,
         KeepsQueue(end_session(s, why), session'),
         session'.status = end_session(s, why).status,
         Calm(end_session(s, why)) => Calm(session')
  PROVE  QueueGood
<1> DEFINE e == end_session(s, why)
<1>1. why \in Status BY DEF Status
<1>2. KeepsQueue(s, e) /\ e.status = why /\ Calm(e) BY <1>1, EndSessionKeeps DEF Calm
<1> HIDE DEF e
<1>3. KeepsQueue(session, session') BY <1>2, KeepsQueueTransitive DEF e
<1>4. Ahead(session') /\ NodesMove(session, session')
  BY <1>3, KeptQueue DEF QueueInv, TypeOK
<1>5. Moving(session') BY <1>2 DEF Moving, e
<1>6. session'.status # "none" BY <1>2 DEF e
<1>7. QED BY <1>4, <1>5, <1>6 DEF QueueGood

(* Refused requests, the end of the stream, and silence.                   *)
LEMMA EndingQueue ==
  ASSUME TypeOK, QueueInv, TypeOK',
         (\E rid \in Rid, over \in BOOLEAN : InvalidRequest(rid, over)) \/ OnTerminate \/ InactivityTimeout
  PROVE  QueueGood
<1>1. session \in SessionRecord /\ session' \in SessionRecord BY DEF TypeOK
<1>2. ASSUME NEW s \in SessionRecord
      PROVE  KeepsQueue(s, s) /\ (Calm(s) => Calm(s))
  BY DEF KeepsQueue, NoMoreQueued
<1>3. ASSUME NEW rid \in Rid, NEW over \in BOOLEAN, InvalidRequest(rid, over) PROVE QueueGood
  <2> DEFINE s == Arrive(session, rid)
             e == end_session(s, "terminated")
  <2>1. session' = _send_immediate(e, NextConn, Bare("terminate"))
    BY <1>3, Zenon DEF InvalidRequest
  <2>2. s \in SessionRecord BY <1>1, ArriveType
  <2>3. KeepsQueue(session, s) BY <1>1 DEF Arrive, KeepsQueue, NoMoreQueued, SessionRecord
  <2> HIDE DEF s
  <2>4. e \in SessionRecord BY <2>2, EndSessionType DEF Status
  <2> HIDE DEF e
  <2>5. KeepsQueue(e, session') /\ session'.status = e.status /\ (Calm(e) => Calm(session'))
    BY <2>1, <2>4 DEF _send_immediate, SessionRecord, KeepsQueue, NoMoreQueued, Calm
  <2>6. QED BY <1>1, <2>2, <2>3, <2>5, EndQueue DEF e
<1>4. CASE OnTerminate
  <2> DEFINE s == enqueue_bosh_response(session, "stream-terminate")
  <2>1. session' = end_session(s, "terminated") BY <1>4, Zenon DEF OnTerminate
  <2>2. s \in SessionRecord BY <1>1, EnqueueBoshType
  <2>3. KeepsQueue(session, s)
    BY <1>1 DEF enqueue_bosh_response, try_sending, KeepsQueue, NoMoreQueued, SessionRecord
  <2> HIDE DEF s
  <2>4. QED BY <1>1, <1>2, <2>1, <2>2, <2>3, EndQueue
<1>5. CASE InactivityTimeout
  <2> DEFINE s == Told(session)
  <2>1. session' = end_session(s, "expired") BY <1>5, Zenon DEF InactivityTimeout
  <2>2. s \in SessionRecord BY <1>1, ToldType DEF Told
  <2>3. KeepsQueue(session, s) BY <1>1 DEF Told, KeepsQueue, NoMoreQueued, SessionRecord
  <2> HIDE DEF s
  <2>4. QED BY <1>1, <1>2, <2>1, <2>2, <2>3, EndQueue
<1>6. QED BY <1>3, <1>4, <1>5

(* Events that end nothing.                                                *)
LEMMA EventQueue ==
  ASSUME TypeOK, QueueInv, TypeOK',
         \/ UnknownSession \/ NextTick \/ (\E error \in BOOLEAN : OnResponse(error))
         \/ RequestTimeout
  PROVE  QueueGood
<1>1. session \in SessionRecord /\ session' \in SessionRecord BY DEF TypeOK
<1>2. SUFFICES KeepsQueue(session, session') /\ session'.status = session.status /\ Moving(session')
  BY <1>1, KeptQueue DEF QueueInv, QueueGood, KeepsQueue
<1>3. Moving(session) BY DEF QueueInv
<1>4. CASE UnknownSession
  <2> DEFINE s == Arrive(session, InitRid)
  <2>1. session' = _send_immediate(s, NextConn, Bare("terminate"))
    BY <1>4, Zenon DEF UnknownSession
  <2>2. /\ s \in SessionRecord /\ KeepsQueue(session, s) /\ s.status = session.status
        /\ s.res = session.res /\ s.pending_stanzas = session.pending_stanzas
        /\ s.pending_bosh_responses = session.pending_bosh_responses
        /\ s.has_next_tick = session.has_next_tick
    BY <1>1, ArriveType, BoundsAssumption DEF Arrive, KeepsQueue, NoMoreQueued, SessionRecord
  <2> HIDE DEF s
  <2>3. /\ KeepsQueue(s, session') /\ session'.status = s.status
        /\ session'.res = s.res /\ session'.pending_stanzas = s.pending_stanzas
        /\ session'.pending_bosh_responses = s.pending_bosh_responses
        /\ session'.has_next_tick = s.has_next_tick
    BY <2>1, <2>2 DEF _send_immediate, KeepsQueue, NoMoreQueued, SessionRecord
  <2>4. FewerHeld(session, session') BY <2>2, <2>3 DEF FewerHeld
  <2>5. KeepsQueue(session, session') BY <2>2, <2>3, KeepsQueueTransitive
  <2>6. Moving(session') BY <1>3, <2>2, <2>3, <2>4, <2>5, MovingKept DEF Calm, KeepsQueue
  <2>7. QED BY <2>2, <2>3, <2>5, <2>6
<1>5. CASE NextTick
  <2> DEFINE s == [session EXCEPT !.has_next_tick = FALSE]
  <2>1. session' = send_pending_responses(s) BY <1>5, Zenon DEF NextTick
  <2>2. s \in SessionRecord /\ KeepsQueue(session, s) /\ s.status = session.status
    BY <1>1 DEF SessionRecord, KeepsQueue, NoMoreQueued
  <2> HIDE DEF s
  <2>3. KeepsQueue(s, session') /\ session'.status = s.status /\ Quiet(session')
    BY <2>1, <2>2, SendPendingKeeps, SendPendingQuiet
  <2>4. QED BY <2>2, <2>3, QuietMoves, KeepsQueueTransitive
<1>6. ASSUME NEW error \in BOOLEAN, OnResponse(error)
      PROVE  KeepsQueue(session, session') /\ session'.status = session.status /\ Moving(session')
  <2> DEFINE st == session.stanza_no + 1
             q == enqueue_stanza([session EXCEPT !.stanza_no = st], st)
  <2>1. session' = IF error THEN enqueue_bosh_response(q, "stream-terminate") ELSE q
    BY <1>6, Zenon DEF OnResponse
  <2> HIDE DEF st
  <2>2. /\ q.rid = session.rid /\ q.nodes = session.nodes /\ q.status = session.status
        /\ q.queued_requests = session.queued_requests /\ q.has_next_tick
        /\ "first_response" \in DOMAIN q /\ "has_next_tick" \in DOMAIN q
    BY <1>1 DEF enqueue_stanza, try_sending, SessionRecord
  <2> HIDE DEF q
  <2>3. /\ session'.rid = q.rid /\ session'.nodes = q.nodes /\ session'.status = q.status
        /\ session'.queued_requests = q.queued_requests /\ session'.has_next_tick
    BY <2>1, <2>2 DEF enqueue_bosh_response, try_sending
  <2>4. QED BY <2>2, <2>3 DEF KeepsQueue, NoMoreQueued, Moving
<1>7. CASE RequestTimeout
  <2> DEFINE res == session.res
             s(i) == [session EXCEPT !.res = RemoveAt(res, i)]
  <2>1. PICK i \in DOMAIN res : session' = _send_no_requeue(s(i), res[i], Bare("empty"))
    BY <1>7, Zenon DEF RequestTimeout
  <2>2. res \in Seq(Response) /\ Len(res) \in Nat /\ DOMAIN res = 1..Len(res)
    BY <1>1, ResponseFields, LenProperties
  <2>3. /\ RemoveAt(res, i) \in Seq(Response) /\ Len(RemoveAt(res, i)) = Len(res) - 1
        /\ \A k \in 1..(Len(res) - 1) : /\ k < i => RemoveAt(res, i)[k] = res[k]
                                        /\ k >= i => RemoveAt(res, i)[k] = res[k + 1]
    BY <2>1, <2>2, RemoveAtElements
  <2>4. DOMAIN RemoveAt(res, i) = 1..(Len(res) - 1) BY <2>3, LenProperties
  <2> DEFINE rest == RemoveAt(res, i)
  <2> HIDE DEF rest
  <2>5. ASSUME NEW j \in DOMAIN rest PROVE \E k \in DOMAIN res : rest[j] = res[k]
    <3>1. j \in 1..(Len(res) - 1) BY <2>4 DEF rest
    <3>2. CASE j < i
      <4>1. j \in DOMAIN res BY <2>2, <3>1
      <4>2. QED BY <2>3, <3>1, <3>2, <4>1 DEF rest
    <3>3. CASE j >= i
      <4>1. j + 1 \in DOMAIN res BY <2>2, <3>1
      <4>2. QED BY <2>3, <3>1, <3>3, <4>1 DEF rest
    <3>4. i \in Nat /\ j \in Nat BY <2>1, <2>2, <3>1
    <3>5. QED BY <3>2, <3>3, <3>4
  <2>6. /\ s(i).rid = session.rid /\ s(i).nodes = session.nodes
        /\ s(i).queued_requests = session.queued_requests /\ s(i).status = session.status
        /\ s(i).pending_stanzas = session.pending_stanzas
        /\ s(i).pending_bosh_responses = session.pending_bosh_responses
        /\ s(i).has_next_tick = session.has_next_tick /\ s(i).res = rest
    BY <1>1 DEF SessionRecord, rest
  <2> HIDE DEF s
  <2>7. /\ session'.rid = session.rid /\ session'.nodes = session.nodes
        /\ session'.queued_requests = session.queued_requests
        /\ session'.status = session.status
        /\ session'.pending_stanzas = session.pending_stanzas
        /\ session'.pending_bosh_responses = session.pending_bosh_responses
        /\ session'.has_next_tick = session.has_next_tick /\ session'.res = rest
    BY <2>1, <2>6 DEF _send_no_requeue
  <2>8. FewerHeld(session, session') BY <2>5, <2>7 DEF FewerHeld
  <2>9. Moving(session') BY <1>3, <2>7, <2>8, MovingKept DEF Calm
  <2>10. QED BY <2>7, <2>9 DEF KeepsQueue, NoMoreQueued
<1>8. QED BY <1>4, <1>5, <1>6, <1>7

(* Creation, whether the connector accepts the stream or not.              *)
LEMMA CreateQueue ==
  ASSUME TypeOK, QueueInv, TypeOK', NEW h \in HoldAttrs, NEW a \in AckModes, NEW kind,
         CreateSession(h, a, kind) \/ CreateRefused(h, a, kind)
  PROVE  QueueGood
<1> DEFINE fresh == [EmptySession EXCEPT !.status = "open", !.rid = InitRid,
                                !.max_rid_sent = InitRid - 1,
                                !.hold = clamp_hold(h), !.ack = a, !.timeout = TRUE]
           t == Arrive(fresh, InitRid)
           s == NewSession(h, a)
<1>1. /\ session \in SessionRecord /\ session' \in SessionRecord
      /\ InitRid \in Rid /\ 1 \in Conn /\ InitRid \in Nat /\ InitRid > 0
      /\ Rid \subseteq Nat \ {0}
  BY BoundsAssumption DEF TypeOK, Conn, Rid
<1>2. session.rid = 0 /\ \A r \in Rid : session.nodes[r] = 0
  <2>1. session.rid = 0 BY DEF CreateSession, CreateRefused, QueueInv
  <2>2. QED BY <1>1, <2>1 DEF QueueInv, Untouched
<1>3. /\ t \in SessionRecord /\ t.rid = InitRid /\ t.status = "open" /\ t.first_response = TRUE
      /\ \A r \in Rid : t.nodes[r] = 0 /\ t.queued_requests[r] = "none"
  <2>1. clamp_hold(h) \in 1..MaxBoshConnections
    BY ClientAssumption, OptionsAssumption DEF clamp_hold, Smaller
  <2>2. InitRid \in 0..MaxRid /\ InitRid - 1 \in 0..MaxRid BY BoundsAssumption DEF Rid
  <2>3. a \in BOOLEAN BY ClientAssumption
  <2>4. fresh \in SessionRecord
    BY EmptyType, <2>1, <2>2, <2>3 DEF SessionRecord, Status
  <2>5. /\ fresh.rid = InitRid /\ fresh.status = "open" /\ fresh.first_response = TRUE
        /\ \A r \in Rid : fresh.nodes[r] = 0 /\ fresh.queued_requests[r] = "none"
    BY DEF EmptySession
  <2> HIDE DEF fresh
  <2>6. t \in SessionRecord BY <1>1, <2>4, ArriveType
  <2>7. /\ t.rid = fresh.rid /\ t.status = fresh.status /\ t.nodes = fresh.nodes
        /\ t.first_response = fresh.first_response
        /\ t.queued_requests = fresh.queued_requests
    BY <2>4 DEF Arrive, SessionRecord
  <2>8. QED BY <2>5, <2>6, <2>7
<1>4. s = add_held_http_connection(t, InitRid, 1) BY Zenon DEF NewSession
<1> HIDE DEF t
<1>5. /\ s \in SessionRecord /\ s.rid = InitRid /\ s.status = "open" /\ s.first_response = TRUE
      /\ \A r \in Rid : s.nodes[r] = 0 /\ s.queued_requests[r] = "none"
  <2>1. s.first_response = t.first_response
    BY <1>3, <1>4 DEF add_held_http_connection, _send_no_requeue, SessionRecord
  <2>2. s \in SessionRecord BY NewSessionType
  <2>3. /\ s.rid = t.rid /\ s.nodes = t.nodes /\ s.queued_requests = t.queued_requests
        /\ s.status = t.status
    BY <1>1, <1>3, <1>4, AddHeldKeeps
  <2>4. QED BY <1>3, <2>1, <2>2, <2>3
<1> HIDE DEF s
<1>6. ASSUME NEW u \in SessionRecord, u.nodes \in [Rid -> Nat], u.rid = InitRid,
             \A r \in Rid : u.nodes[r] = 0 /\ u.queued_requests[r] = "none"
      PROVE  LET v == EmitNodes(u, InitRid, kind) IN
             /\ v.rid = InitRid /\ v.status = u.status /\ v.has_next_tick = u.has_next_tick
             /\ v.pending_stanzas = u.pending_stanzas
             /\ v.pending_bosh_responses = u.pending_bosh_responses
             /\ \A r \in Rid : v.queued_requests[r] = "none"
             /\ NodesMove(session, v)
  <2> DEFINE v == EmitNodes(u, InitRid, kind)
  <2>1. /\ v.rid = InitRid /\ v.status = u.status /\ v.has_next_tick = u.has_next_tick
        /\ v.pending_stanzas = u.pending_stanzas
        /\ v.pending_bosh_responses = u.pending_bosh_responses
        /\ v.queued_requests = u.queued_requests
        /\ \A r \in Rid : v.nodes[r] = 0 \/ (r = InitRid /\ v.nodes[r] = 1)
    BY <1>6 DEF EmitNodes, SessionRecord
  <2> HIDE DEF v
  <2>2. NodesMove(session, v) BY <1>1, <1>2, <2>1 DEF NodesMove
  <2>3. QED BY <1>6, <2>1, <2>2 DEF v
<1>7. CASE CreateSession(h, a, kind)
  <2> DEFINE q == enqueue_bosh_response(s, "create")
             e == EmitNodes(q, InitRid, kind)
  <2>1. /\ q \in SessionRecord /\ q.rid = InitRid /\ q.status = "open"
        /\ q.nodes = s.nodes /\ q.queued_requests = s.queued_requests
        /\ q.has_next_tick \/ PidginCompatible
    <3>1. q \in SessionRecord BY <1>5, EnqueueBoshType
    <3>2. QED BY <1>5, <3>1 DEF enqueue_bosh_response, try_sending, SessionRecord
  <2> HIDE DEF q
  <2>2. q.nodes \in [Rid -> Nat] BY <2>1 DEF SessionRecord
  <2>3. /\ e.rid = InitRid /\ e.status = "open" /\ e.has_next_tick = q.has_next_tick
        /\ \A r \in Rid : e.queued_requests[r] = "none"
        /\ NodesMove(session, e)
    BY <1>5, <1>6, <2>1, <2>2
  <2>4. e \in SessionRecord BY <1>1, <2>1, EmitNodesType
  <2>5. session' = respond_to_extra_held(e) BY <1>7, Zenon DEF CreateSession, s, q
  <2> HIDE DEF e
  <2>6. Moving(e) BY <2>1, <2>3 DEF Moving
  <2>7. /\ KeepsQueue(e, session') /\ session'.status = "open" /\ Moving(session')
    BY <2>3, <2>4, <2>5, <2>6, RespondToExtraKeeps, RespondToExtraMoves
  <2>8. Ahead(session') BY <2>3, <2>7 DEF KeepsQueue, NoMoreQueued, Ahead
  <2>9. NodesMove(session, session')
    BY <1>1, <2>3, <2>4, <2>7, KeptQueue, NodesMoveTransitive
  <2>10. QED BY <2>7, <2>8, <2>9 DEF QueueGood
<1>8. CASE CreateRefused(h, a, kind)
  <2> DEFINE q == enqueue_bosh_response(s, "stream-terminate")
             e == end_session(q, "terminated")
  <2>1. session' = EmitNodes(e, InitRid, kind) BY <1>8, Zenon DEF CreateRefused, s
  <2>2. /\ q \in SessionRecord /\ KeepsQueue(s, q)
    <3>1. q \in SessionRecord BY <1>5, EnqueueBoshType
    <3>2. QED BY <1>5, <3>1
            DEF enqueue_bosh_response, try_sending, KeepsQueue, NoMoreQueued, SessionRecord
  <2> HIDE DEF q
  <2>3. /\ e \in SessionRecord /\ KeepsQueue(q, e) /\ e.status = "terminated"
        /\ e.pending_stanzas = << >> /\ e.pending_bosh_responses = << >>
    BY <2>2, EndSessionType, EndSessionKeeps DEF Status
  <2> HIDE DEF e
  <2>4. KeepsQueue(s, e) BY <2>2, <2>3, KeepsQueueTransitive
  <2>5. e.nodes \in [Rid -> Nat] BY <2>3 DEF SessionRecord
  <2>6. e.rid = InitRid /\ \A r \in Rid : e.nodes[r] = 0 /\ e.queued_requests[r] = "none"
    BY <1>5, <2>4 DEF KeepsQueue, NoMoreQueued
  <2>7. /\ session'.status = "terminated" /\ NodesMove(session, session')
        /\ session'.pending_stanzas = << >> /\ session'.pending_bosh_responses = << >>
        /\ \A r \in Rid : session'.queued_requests[r] = "none"
    BY <1>6, <2>1, <2>3, <2>5, <2>6
  <2>8. QED BY <2>7 DEF QueueGood, Ahead, Moving, Calm
<1>9. QED BY <1>7, <1>8

(* Every action leaves the queue good.                                     *)
LEMMA NextQueue ==
  ASSUME TypeOK, QueueInv, TypeOK', Next
  PROVE  QueueGood
<1>1. ASSUME NEW h \in HoldAttrs, NEW a \in AckModes, NEW kind,
             CreateSession(h, a, kind) \/ CreateRefused(h, a, kind)
      PROVE  QueueGood
  BY <1>1, CreateQueue
<1>2. ASSUME NEW rid \in Rid, NEW attr \in (IF session.ack THEN Acks ELSE {0}),
             NEW kind \in Kinds,
             Request(rid, attr, kind) \/ RepeatedRequest(rid, attr, kind)
      PROVE  QueueGood
  <2>1. attr \in Nat BY ClientAssumption
  <2>2. QED BY <1>2, <2>1, RequestQueue, RepeatedRequestQueue
<1>3. ASSUME NEW rid \in Rid, NEW attr \in (IF session.ack THEN Acks ELSE {0}),
             RequestForDeletedStream(rid, attr)
      PROVE  QueueGood
  <2>1. attr \in Nat BY ClientAssumption
  <2>2. QED BY <1>3, <2>1, RequestForDeletedStreamQueue
<1>4. CASE (\E rid \in Rid, over \in BOOLEAN : InvalidRequest(rid, over)) \/ OnTerminate \/ InactivityTimeout
  BY <1>4, EndingQueue
<1>5. CASE \/ UnknownSession \/ NextTick \/ (\E error \in BOOLEAN : OnResponse(error))
           \/ RequestTimeout
  BY <1>5, EventQueue
<1>6. QED BY <1>1, <1>2, <1>3, <1>4, <1>5, Zenon DEF Next

(* So QueueInv is kept.                                                    *)
LEMMA StepQueue ==
  ASSUME TypeOK, QueueInv, TypeOK', [Next]_session
  PROVE  QueueInv'
<1>1. CASE Next
  <2>1. QueueGood BY <1>1, NextQueue
  <2>2. Untouched(session')
    <3>1. ASSUME NEW r \in Rid, r > session'.rid PROVE session'.nodes[r] = 0
      <4>1. r \in Nat /\ session.rid \in Nat /\ session'.rid \in Nat
        BY NumberFields DEF TypeOK
      <4>2. session.rid <= session'.rid /\ session'.nodes[r] = session.nodes[r]
        BY <2>1, <3>1, <4>1 DEF QueueGood, NodesMove
      <4>3. QED BY <3>1, <4>1, <4>2 DEF QueueInv, Untouched
    <3>2. QED BY <3>1 DEF Untouched
  <2>3. QED BY <2>1, <2>2 DEF QueueGood, QueueInv
<1>2. CASE UNCHANGED session BY <1>2 DEF QueueInv
<1>3. QED BY <1>1, <1>2

(* QueueInv is an invariant.                                               *)
LEMMA QueueInvariant == Spec => []QueueInv
<1>1. Init => QueueInv
  <2> SUFFICES ASSUME Init PROVE QueueInv OBVIOUS
  <2>1. /\ session.rid = 0 /\ session.pending_stanzas = << >>
        /\ session.pending_bosh_responses = << >>
        /\ \A r \in Rid : session.queued_requests[r] = "none" /\ session.nodes[r] = 0
    BY DEF Init, EmptySession
  <2>2. QED BY <2>1 DEF QueueInv, Ahead, Untouched, Moving, Calm
<1>2. TypeOK /\ QueueInv /\ TypeOK' /\ [Next]_session => QueueInv' BY StepQueue
<1>3. QED BY <1>1, <1>2, TypeCorrect, PTL DEF Spec

(* What stays in the queue after a handler waits for a lower rid that has  *)
(* not come: process_requests never stops early, however the requests were *)
(* interleaved, repeated or refused.  So the assertion of                  *)
(* handle_broken_connections (session.js 1095) does not fail, if every rid *)
(* is a whole number, as the module takes them to be (Rid); one fraction   *)
(* in the queue and it does.                                               *)
THEOREM QueueIsAhead == Spec => []QueueAhead
<1>1. QueueInv => QueueAhead BY DEF QueueInv, Ahead, QueueAhead
<1>2. QED BY <1>1, QueueInvariant, PTL

(* Nothing pending is forgotten: a callback is set, every held request     *)
(* waits behind a missing rid, or a Pidgin client has only created its     *)
(* session.                                                                *)
THEOREM NothingStalls == Spec => []NoStall
<1>1. QueueInv => NoStall BY DEF QueueInv, Moving, Calm, HeldHigh, NoStall
<1>2. QED BY <1>1, QueueInvariant, PTL

(* The nodes of a request are passed on once, and only while the session's *)
(* rid moves past it: process_requests, the repeated requests and the      *)
(* requests queued behind a terminate change nothing of that.              *)
THEOREM NodesAreInOrder == Spec => NodesInOrder
<1>1. TypeOK /\ TypeOK' /\ QueueInv /\ [Next]_session =>
        [\A r \in Rid : session'.nodes[r] # session.nodes[r] =>
           /\ session.nodes[r] = 0 /\ session'.nodes[r] = 1
           /\ session.rid < r /\ r <= session'.rid]_session
  <2> SUFFICES ASSUME TypeOK, TypeOK', QueueInv, Next, NEW r \in Rid,
                      session'.nodes[r] # session.nodes[r]
               PROVE  /\ session.nodes[r] = 0 /\ session'.nodes[r] = 1
                      /\ session.rid < r /\ r <= session'.rid
    OBVIOUS
  <2>1. NodesMove(session, session') BY NextQueue DEF QueueGood
  <2>2. session'.nodes[r] = session.nodes[r] + 1 /\ session.rid < r /\ r <= session'.rid
    BY <2>1 DEF NodesMove
  <2>3. session.nodes[r] = 0 BY <2>2, NumberFields DEF QueueInv, Untouched, TypeOK
  <2>4. QED BY <2>2, <2>3
<1>2. QED BY <1>1, QueueInvariant, TypeCorrect, PTL DEF Spec, NodesInOrder

-----------------------------------------------------------------------------
(* Where the stanzas are.  On(s, r, x): x went out on a reply to a request *)
(* with rid r, or is in the reply that is cached for it.                   *)

InPending(s, x) == \E i \in DOMAIN s.pending_stanzas : s.pending_stanzas[i] = x
Cached(s, r, x) == x \in StanzasOf(s.unacked_responses[r])
InReply(s, c, x) == \E i \in DOMAIN s.replies[c] : x \in StanzasOf(s.replies[c][i])
Answered(s, r, x) == \E c \in DOMAIN s.arrived : s.arrived[c] = r /\ InReply(s, c, x)
On(s, r, x) == Cached(s, r, x) \/ Answered(s, r, x)

Ordered(s) ==
  \A r, q \in Rid : \A x, y \in Stanza : r < q /\ On(s, r, x) /\ On(s, q, y) => x < y
Bounded(s) ==
  \A r \in Rid : \A x \in Stanza : On(s, r, x) => x <= s.stanza_no /\ r <= s.max_rid_sent
PendingLast(s) ==
  \A y \in Stanza : InPending(s, y) =>
    y <= s.stanza_no /\ \A r \in Rid : \A x \in Stanza : On(s, r, x) => x < y
HeldAbove(s) ==
  \A i \in DOMAIN s.res : \A r \in Rid : \A x \in Stanza : On(s, r, x) => r <= s.res[i].rid
Sorted(s) == \A i, j \in DOMAIN s.res : i < j => s.res[i].rid <= s.res[j].rid
ConnsAgree(s) ==
  \A i \in DOMAIN s.res :
    s.res[i].conn \in DOMAIN s.arrived /\ s.arrived[s.res[i].conn] = s.res[i].rid

(* Sent stanzas are in the order of the rids, the pending ones come after  *)
(* them, and every held response is for a rid on which they may go out.    *)
OrderGood(s) ==
  /\ Ordered(s) /\ Bounded(s) /\ PendingLast(s)
  /\ HeldAbove(s) /\ Sorted(s) /\ ConnsAgree(s)
  /\ Len(s.arrived) <= MaxConn

(* A step that sends no stanza it had not sent before.                     *)
NothingNew(s, t) == \A r \in Rid : \A x \in Stanza : On(t, r, x) => On(s, r, x)

Fades(s, t) ==
  /\ NothingNew(s, t)
  /\ \A x \in Stanza : InPending(t, x) => InPending(s, x)
  /\ FewerHeld(s, t)
  /\ Sorted(s) => Sorted(t)
  /\ s.max_rid_sent <= t.max_rid_sent
  /\ t.stanza_no = s.stanza_no
  /\ t.arrived = s.arrived

(* Such a step keeps the order.                                            *)
LEMMA FadesGood ==
  ASSUME NEW s \in SessionRecord, NEW t \in SessionRecord, Fades(s, t), OrderGood(s)
  PROVE  OrderGood(t)
<1>1. /\ s.max_rid_sent \in Nat /\ t.max_rid_sent \in Nat /\ Rid \subseteq Nat
  BY NumberFields
<1>2. Ordered(t) BY Zenon DEF Fades, NothingNew, OrderGood, Ordered
<1>3. Bounded(t)
  <2>1. ASSUME NEW r \in Rid, NEW x \in Stanza, On(t, r, x)
        PROVE  x <= t.stanza_no /\ r <= t.max_rid_sent
    <3>1. On(s, r, x) BY <2>1 DEF Fades, NothingNew
    <3>2. x <= s.stanza_no /\ r <= s.max_rid_sent BY <3>1 DEF OrderGood, Bounded
    <3>3. r \in Nat BY <1>1
    <3>4. QED BY <1>1, <3>2, <3>3 DEF Fades
  <2>2. QED BY <2>1 DEF Bounded
<1>4. PendingLast(t)
  <2>1. ASSUME NEW y \in Stanza, InPending(t, y)
        PROVE  y <= t.stanza_no /\ \A r \in Rid : \A x \in Stanza : On(t, r, x) => x < y
    <3>1. InPending(s, y) BY <2>1 DEF Fades
    <3>2. y <= s.stanza_no /\ \A r \in Rid : \A x \in Stanza : On(s, r, x) => x < y
      BY <3>1 DEF OrderGood, PendingLast
    <3>3. QED BY <3>2 DEF Fades, NothingNew
  <2>2. QED BY <2>1 DEF PendingLast
<1>5. HeldAbove(t) BY Zenon DEF Fades, NothingNew, FewerHeld, OrderGood, HeldAbove
<1>6. ConnsAgree(t) BY Zenon DEF Fades, FewerHeld, OrderGood, ConnsAgree
<1>7. QED BY <1>2, <1>3, <1>4, <1>5, <1>6 DEF Fades, OrderGood

(* A record that differs in other fields says the same.                    *)
SameOrder(s, t) ==
  /\ t.unacked_responses = s.unacked_responses /\ t.replies = s.replies
  /\ t.arrived = s.arrived /\ t.res = s.res /\ t.max_rid_sent = s.max_rid_sent
  /\ t.stanza_no = s.stanza_no

(* It only loses what was pending.                                         *)
LEMMA SameOrderFades ==
  ASSUME NEW s \in SessionRecord, NEW t \in SessionRecord, SameOrder(s, t),
         \A x \in Stanza : InPending(t, x) => InPending(s, x)
  PROVE  Fades(s, t)
<1>1. NothingNew(s, t) BY Zenon DEF SameOrder, NothingNew, On, Cached, Answered, InReply
<1>2. FewerHeld(s, t) BY Zenon DEF SameOrder, FewerHeld
<1>3. Sorted(s) => Sorted(t) BY Zenon DEF SameOrder, Sorted
<1>4. s.max_rid_sent <= t.max_rid_sent BY NumberFields DEF SameOrder
<1>5. QED BY <1>1, <1>2, <1>3, <1>4 DEF Fades, SameOrder

(* A bare body carries nothing, and neither does an absent one.            *)
LEMMA BareStanzas ==
  /\ \A kind : StanzasOf(Bare(kind)) = {}
  /\ StanzasOf(NoBody) = {}
  /\ \A n \in Nat : \A i \in 1..n : StanzasOf(Empties(n)[i]) = {}
<1>1. ASSUME NEW kind PROVE StanzasOf(Bare(kind)) = {}
  <2>1. Bare(kind).stanzas = << >> BY DEF Bare
  <2>2. DOMAIN << >> = {} OBVIOUS
  <2>3. QED BY <2>1, <2>2 DEF StanzasOf
<1>2. ASSUME NEW n \in Nat, NEW i \in 1..n PROVE Empties(n)[i] = Bare("empty")
  BY DEF Empties
<1>3. QED BY <1>1, <1>2 DEF NoBody

(* What a reply that is appended adds to the connection it is sent on.     *)
LEMMA AppendedReply ==
  ASSUME NEW replies \in Seq(Body), NEW body \in Body, NEW x,
         \E i \in DOMAIN Append(replies, body) : x \in StanzasOf(Append(replies, body)[i])
  PROVE  \/ \E i \in DOMAIN replies : x \in StanzasOf(replies[i])
         \/ x \in StanzasOf(body)
<1>1. PICK i \in DOMAIN Append(replies, body) : x \in StanzasOf(Append(replies, body)[i])
  OBVIOUS
<1>2. /\ Len(replies) \in Nat /\ DOMAIN replies = 1..Len(replies)
      /\ DOMAIN Append(replies, body) = 1..(Len(replies) + 1)
      /\ i \in 1..(Len(replies) + 1)
  BY <1>1, LenProperties, AppendProperties
<1>3. CASE i = Len(replies) + 1
  <2>1. Append(replies, body)[i] = body BY <1>3, AppendProperties
  <2>2. QED BY <1>1, <2>1
<1>4. CASE i # Len(replies) + 1
  <2>1. i \in 1..Len(replies) BY <1>2, <1>4
  <2>2. Append(replies, body)[i] = replies[i] BY <2>1, AppendProperties
  <2>3. QED BY <1>1, <1>2, <2>1, <2>2
<1>5. QED BY <1>3, <1>4

(* SendOnFirst, request by request.                                        *)
LEMMA SendOnFirstFields ==
  ASSUME NEW s \in SessionRecord, NEW bodies \in Seq(Body), Len(bodies) <= Len(s.res)
  PROVE  LET t == SendOnFirst(s, bodies) IN
         /\ t \in SessionRecord
         /\ \A r \in Rid :
              \/ t.unacked_responses[r] = s.unacked_responses[r]
              \/ \E i \in 1..Len(bodies) :
                   s.res[i].rid = r /\ t.unacked_responses[r] = bodies[i]
         /\ \A c \in Conn :
              \/ t.replies[c] = s.replies[c]
              \/ \E i \in 1..Len(bodies) :
                   s.res[i].conn = c /\ t.replies[c] = Append(s.replies[c], bodies[i])
         /\ t.max_rid_sent = IF Len(bodies) = 0 THEN s.max_rid_sent
                             ELSE Larger(s.max_rid_sent, s.res[Len(bodies)].rid)
         /\ t.arrived = s.arrived /\ t.stanza_no = s.stanza_no
         /\ t.acknowledged = s.acknowledged /\ t.trimmed = s.trimmed
         /\ t.no_client = s.no_client /\ t.timeout = s.timeout
<1> DEFINE n == Len(bodies)
           last(r) == {i \in 1..n : s.res[i].rid = r
                                     /\ \A j \in (i + 1)..n : s.res[j].rid # r}
           on(c) == {i \in 1..n : s.res[i].conn = c}
           u == [r \in Rid |-> IF last(r) = {} THEN s.unacked_responses[r]
                               ELSE bodies[CHOOSE i \in last(r) : TRUE]]
           p == [c \in Conn |-> IF on(c) = {} THEN s.replies[c]
                                ELSE Append(s.replies[c], bodies[CHOOSE i \in on(c) : TRUE])]
           t == SendOnFirst(s, bodies)
<1>1. t \in SessionRecord BY SendOnFirstType
<1>2. CASE n = 0
  <2>1. t = s BY <1>2, Zenon DEF SendOnFirst
  <2> HIDE DEF t
  <2>2. QED BY <1>1, <1>2, <2>1 DEF t
<1>3. CASE n # 0
  <2>1. /\ t.unacked_responses = u /\ t.replies = p
        /\ t.max_rid_sent = Larger(s.max_rid_sent, s.res[n].rid)
        /\ t.arrived = s.arrived /\ t.stanza_no = s.stanza_no
        /\ t.acknowledged = s.acknowledged /\ t.trimmed = s.trimmed
        /\ t.no_client = s.no_client /\ t.timeout = s.timeout
    BY <1>3 DEF SendOnFirst, SessionRecord
  <2>2. ASSUME NEW r \in Rid
        PROVE  \/ u[r] = s.unacked_responses[r]
               \/ \E i \in 1..n : s.res[i].rid = r /\ u[r] = bodies[i]
    <3>1. CASE last(r) = {} BY <3>1
    <3>2. CASE last(r) # {}
      <4>1. PICK i : i = CHOOSE j \in last(r) : TRUE OBVIOUS
      <4>2. i \in last(r) BY <3>2, <4>1
      <4>3. u[r] = bodies[i] BY <3>2, <4>1
      <4>4. QED BY <4>2, <4>3
    <3>3. QED BY <3>1, <3>2
  <2>3. ASSUME NEW c \in Conn
        PROVE  \/ p[c] = s.replies[c]
               \/ \E i \in 1..n : s.res[i].conn = c /\ p[c] = Append(s.replies[c], bodies[i])
    <3>1. CASE on(c) = {} BY <3>1
    <3>2. CASE on(c) # {}
      <4>1. PICK i : i = CHOOSE j \in on(c) : TRUE OBVIOUS
      <4>2. i \in on(c) BY <3>2, <4>1
      <4>3. p[c] = Append(s.replies[c], bodies[i]) BY <3>2, <4>1
      <4>4. QED BY <4>2, <4>3
    <3>3. QED BY <3>1, <3>2
  <2> HIDE DEF t, u, p, n
  <2>4. QED BY <1>1, <1>3, <2>1, <2>2, <2>3 DEF t, n
<1>4. QED BY <1>2, <1>3

(* A stanza that is on a reply after SendOnFirst was there or is sent.     *)
LEMMA SendOnFirstOn ==
  ASSUME NEW s \in SessionRecord, NEW bodies \in Seq(Body), Len(bodies) <= Len(s.res),
         ConnsAgree(s), Len(s.arrived) <= MaxConn,
         NEW r \in Rid, NEW x, On(SendOnFirst(s, bodies), r, x)
  PROVE  \/ On(s, r, x)
         \/ \E i \in 1..Len(bodies) : s.res[i].rid = r /\ x \in StanzasOf(bodies[i])
<1> DEFINE n == Len(bodies)
           t == SendOnFirst(s, bodies)
<1>1. /\ t \in SessionRecord
      /\ \/ t.unacked_responses[r] = s.unacked_responses[r]
         \/ \E i \in 1..n : s.res[i].rid = r /\ t.unacked_responses[r] = bodies[i]
      /\ \A c \in Conn :
           \/ t.replies[c] = s.replies[c]
           \/ \E i \in 1..n : s.res[i].conn = c /\ t.replies[c] = Append(s.replies[c], bodies[i])
      /\ t.arrived = s.arrived
  BY SendOnFirstFields
<1>2. /\ n \in Nat /\ n <= Len(s.res) /\ Len(s.res) \in Nat /\ DOMAIN s.res = 1..Len(s.res)
      /\ DOMAIN s.arrived \subseteq Conn
  <2>1. s.arrived \in Seq(Rid) BY DEF SessionRecord
  <2>2. DOMAIN s.arrived = 1..Len(s.arrived) /\ Len(s.arrived) \in Nat BY <2>1, LenProperties
  <2>3. DOMAIN s.arrived \subseteq Conn BY <2>2, BoundsAssumption DEF Conn
  <2>4. QED BY <2>3, ResponseFields, LenProperties
<1> HIDE DEF t, n
<1>3. CASE Cached(t, r, x) BY <1>1, <1>3 DEF Cached, On, n
<1>4. CASE Answered(t, r, x)
  <2>1. PICK c \in DOMAIN s.arrived : s.arrived[c] = r /\ InReply(t, c, x)
    BY <1>1, <1>4 DEF Answered
  <2>2. c \in Conn BY <1>2, <2>1
  <2>3. CASE t.replies[c] = s.replies[c]
    <3>1. InReply(s, c, x) BY <2>1, <2>3 DEF InReply
    <3>2. QED BY <2>1, <3>1 DEF On, Answered
  <2>4. CASE \E i \in 1..n : s.res[i].conn = c /\ t.replies[c] = Append(s.replies[c], bodies[i])
    <3>1. PICK i \in 1..n : s.res[i].conn = c /\ t.replies[c] = Append(s.replies[c], bodies[i])
      BY <2>4
    <3>2. s.res[i].rid = r BY <1>2, <2>1, <3>1 DEF ConnsAgree
    <3>3. s.replies[c] \in Seq(Body) BY <2>2 DEF SessionRecord
    <3>4. bodies[i] \in Body BY <1>2, <3>1, ElementOfSeq DEF n
    <3>5. \E k \in DOMAIN Append(s.replies[c], bodies[i]) :
             x \in StanzasOf(Append(s.replies[c], bodies[i])[k])
      BY <2>1, <3>1 DEF InReply
    <3>6. InReply(s, c, x) \/ x \in StanzasOf(bodies[i])
      BY <3>3, <3>4, <3>5, AppendedReply DEF InReply
    <3>7. QED BY <2>1, <3>1, <3>2, <3>6 DEF On, Answered, n
  <2>5. QED BY <1>1, <2>2, <2>3, <2>4
<1>5. QED BY <1>3, <1>4 DEF On, t

(* What is left after the first responses are removed is still sorted.     *)
LEMMA SendOnFirstSorted ==
  ASSUME NEW s \in SessionRecord, NEW bodies \in Seq(Body), Len(bodies) <= Len(s.res), Sorted(s)
  PROVE  Sorted(SendOnFirst(s, bodies))
<1> DEFINE n == Len(bodies)
           t == SendOnFirst(s, bodies)
<1>1. /\ n \in Nat /\ Len(s.res) \in Nat /\ n <= Len(s.res) /\ DOMAIN s.res = 1..Len(s.res)
  BY ResponseFields, LenProperties
<1>2. /\ DOMAIN t.res = 1..(Len(s.res) - n)
      /\ \A j \in 1..(Len(s.res) - n) : t.res[j] = s.res[n + j]
  BY SendOnFirstHeld
<1> HIDE DEF t, n
<1>3. ASSUME NEW i \in DOMAIN t.res, NEW j \in DOMAIN t.res, i < j
      PROVE  t.res[i].rid <= t.res[j].rid
  <2>1. n + i \in DOMAIN s.res /\ n + j \in DOMAIN s.res /\ n + i < n + j
    BY <1>1, <1>2, <1>3
  <2>2. s.res[n + i].rid <= s.res[n + j].rid BY <2>1 DEF Sorted
  <2>3. QED BY <1>2, <2>2
<1>4. QED BY <1>3 DEF Sorted, t

(* Sending bodies without stanzas sends nothing new.                       *)
LEMMA SendQuietFades ==
  ASSUME NEW s \in SessionRecord, NEW bodies \in Seq(Body), Len(bodies) <= Len(s.res),
         \A i \in 1..Len(bodies) : StanzasOf(bodies[i]) = {}, OrderGood(s)
  PROVE  Fades(s, SendOnFirst(s, bodies))
<1> DEFINE t == SendOnFirst(s, bodies)
           n == Len(bodies)
<1>1. NothingNew(s, t) BY SendOnFirstOn DEF OrderGood, NothingNew
<1>2. FewerHeld(s, t) BY SendOnFirstHeld
<1>3. Sorted(s) => Sorted(t) BY SendOnFirstSorted
<1>4. /\ t.max_rid_sent = IF n = 0 THEN s.max_rid_sent
                          ELSE Larger(s.max_rid_sent, s.res[n].rid)
      /\ t.arrived = s.arrived /\ t.stanza_no = s.stanza_no
  BY SendOnFirstFields
<1>5. s.max_rid_sent <= t.max_rid_sent
  <2>1. n \in Nat /\ n <= Len(s.res) BY LenProperties
  <2>2. n # 0 => s.res[n].rid \in Rid BY <2>1, ResponseFields
  <2>3. s.max_rid_sent \in Nat /\ (n # 0 => s.res[n].rid \in Nat) BY <2>2, NumberFields
  <2> HIDE DEF t, n
  <2>4. QED BY <1>4, <2>3 DEF Larger
<1>6. t.pending_stanzas = s.pending_stanzas BY SendOnFirstKeeps
<1>7. \A x \in Stanza : InPending(t, x) => InPending(s, x) BY <1>6 DEF InPending
<1>8. QED BY <1>1, <1>2, <1>3, <1>4, <1>5, <1>7, Zenon DEF Fades

(* respond_to_extra_held keeps the order.                                  *)
LEMMA RespondToExtraOrder ==
  ASSUME NEW s \in SessionRecord, OrderGood(s)
  PROVE  OrderGood(respond_to_extra_held(s))
<1>1. Len(s.res) \in Nat /\ s.hold \in Nat BY ResponseFields, NumberFields
<1>2. CASE Len(s.res) <= s.hold
  <2>1. respond_to_extra_held(s) = s BY <1>2 DEF respond_to_extra_held
  <2>2. QED BY <2>1, Zenon
<1>3. CASE ~(Len(s.res) <= s.hold)
  <2> DEFINE k == Len(s.res) - s.hold
             t == SendOnFirst(s, Empties(k))
  <2>1. k \in Nat /\ k <= Len(s.res) BY <1>1, <1>3
  <2>2. Empties(k) \in Seq(Body) /\ Len(Empties(k)) = k BY <2>1, EmptiesType
  <2>3. \A i \in 1..k : StanzasOf(Empties(k)[i]) = {} BY <2>1, BareStanzas
  <2>4. respond_to_extra_held(s) = t BY <1>3, Zenon DEF respond_to_extra_held
  <2> HIDE DEF k
  <2>5. t \in SessionRecord /\ Fades(s, t) BY <2>1, <2>2, <2>3, SendOnFirstType, SendQuietFades
  <2> HIDE DEF t
  <2>6. OrderGood(t) BY <2>5, FadesGood
  <2>7. QED BY <2>4, <2>6, Zenon
<1>4. QED BY <1>2, <1>3

(* end_session keeps the order: what is pending is dropped.                *)
LEMMA EndSessionOrder ==
  ASSUME NEW s \in SessionRecord, NEW why \in Status, OrderGood(s)
  PROVE  OrderGood(end_session(s, why))
<1> DEFINE gone == delete_stream(s)
           bodies == [i \in 1..Len(s.res) |->
                        IF i = 1 THEN Bare("terminate") ELSE Bare("empty")]
           t == SendOnFirst(gone, bodies)
           u == [t EXCEPT !.status = why, !.timeout = FALSE]
<1>1. Len(s.res) \in Nat BY ResponseFields
<1>2. bodies \in Seq(Body) /\ Len(bodies) = Len(s.res) BY <1>1, BareType DEF BodyKind
<1>3. \A i \in 1..Len(bodies) : StanzasOf(bodies[i]) = {} BY <1>1, <1>2, BareStanzas
<1>4. /\ gone \in SessionRecord /\ SameOrder(s, gone) /\ gone.pending_stanzas = << >>
  BY DeleteStreamType DEF delete_stream, SessionRecord, SameOrder
<1> HIDE DEF gone, bodies
<1>5. \A x \in Stanza : ~InPending(gone, x) BY <1>4 DEF InPending
<1>6. OrderGood(gone) BY <1>4, <1>5, SameOrderFades, FadesGood
<1>7. Len(bodies) <= Len(gone.res) BY <1>1, <1>2, <1>4 DEF SameOrder
<1>8. t \in SessionRecord /\ Fades(gone, t)
  BY <1>2, <1>3, <1>4, <1>6, <1>7, SendOnFirstType, SendQuietFades
<1>9. end_session(s, why) = u BY Zenon DEF end_session, gone, bodies
<1>10. u \in SessionRecord BY <1>9, EndSessionType
<1> HIDE DEF t
<1>11. OrderGood(t) BY <1>4, <1>6, <1>8, FadesGood
<1>12. SameOrder(t, u) /\ u.pending_stanzas = t.pending_stanzas
  BY <1>8 DEF SessionRecord, SameOrder
<1> HIDE DEF u
<1>13. \A x \in Stanza : InPending(u, x) => InPending(t, x) BY <1>12 DEF InPending
<1>14. OrderGood(u) BY <1>8, <1>10, <1>11, <1>12, <1>13, SameOrderFades, FadesGood
<1>15. QED BY <1>9, <1>14, Zenon

(* The stitched bodies: the first carries what is pending, the others      *)
(* nothing.                                                                *)
LEMMA StitchedStanzas ==
  ASSUME NEW s \in SessionRecord, NEW i \in 1..Len(Stitched(s)), NEW x
  PROVE  /\ x \in StanzasOf(Stitched(s)[i]) => i = 1 /\ InPending(s, x)
         /\ i = 1 /\ InPending(s, x) => x \in StanzasOf(Stitched(s)[i])
<1> DEFINE bosh == s.pending_bosh_responses
           n == IF bosh # << >> THEN Len(bosh) ELSE IF s.pending_stanzas # << >> THEN 1 ELSE 0
           f == [k \in 1..n |-> [kind |-> IF bosh # << >> THEN bosh[k] ELSE "data",
                                 stanzas |-> IF k = 1 THEN s.pending_stanzas ELSE << >>]]
<1>1. n \in Nat BY PendingFields
<1>2. Stitched(s) = f BY Zenon DEF Stitched
<1>3. Len(f) = n /\ \A k \in 1..n : f[k].stanzas = IF k = 1 THEN s.pending_stanzas ELSE << >>
  <2> HIDE DEF n
  <2>1. QED BY <1>1
<1> HIDE DEF f, n
<1>4. Stitched(s)[i].stanzas = IF i = 1 THEN s.pending_stanzas ELSE << >> BY <1>2, <1>3
<1>5. CASE i = 1 BY <1>4, <1>5 DEF StanzasOf, InPending
<1>6. CASE i # 1
  <2>1. DOMAIN << >> = {} OBVIOUS
  <2>2. StanzasOf(Stitched(s)[i]) = {} BY <1>4, <1>6, <2>1 DEF StanzasOf
  <2>3. QED BY <1>6, <2>2
<1>7. QED BY <1>5, <1>6

(* What is pending goes out on the lowest rid that is held, above every    *)
(* rid a stanza went out on.                                               *)
LEMMA SendPendingOrder ==
  ASSUME NEW s \in SessionRecord, OrderGood(s)
  PROVE  OrderGood(send_pending_responses(s))
<1> DEFINE n == Smaller(Len(s.res), Len(Stitched(s)))
           bodies == SubSeq(Stitched(s), 1, n)
           t == SendOnFirst(s, bodies)
           bosh == SubSeq(t.pending_bosh_responses, n + 1, Len(t.pending_bosh_responses))
           u == [t EXCEPT !.pending_stanzas = << >>, !.pending_bosh_responses = bosh]
<1>1. /\ n \in Nat /\ n <= Len(s.res) /\ n <= Len(Stitched(s))
      /\ Len(Stitched(s)) \in Nat /\ Stitched(s) \in Seq(Body) /\ Len(s.res) \in Nat
  BY ResponseFields, StitchedType DEF Smaller
<1>2. \A i \in 1..n : Stitched(s)[i] \in Body BY <1>1, ElementOfSeq
<1>3. /\ bodies \in Seq(Body) /\ Len(bodies) = n
      /\ \A i \in 1..n : bodies[i] = Stitched(s)[i]
  BY <1>1, <1>2, SubSeqProperties
<1>4. send_pending_responses(s) = IF n = 0 THEN s ELSE u
  BY Zenon DEF send_pending_responses
<1>5. CASE n = 0
  <2>1. send_pending_responses(s) = s BY <1>4, <1>5
  <2>2. QED BY <2>1, Zenon
<1>6. CASE n # 0
  <2> HIDE DEF bodies, n
  <2>1. /\ t \in SessionRecord
        /\ t.max_rid_sent = Larger(s.max_rid_sent, s.res[n].rid)
        /\ t.arrived = s.arrived /\ t.stanza_no = s.stanza_no
    BY <1>1, <1>3, <1>6, SendOnFirstFields
  <2>2. /\ DOMAIN t.res = 1..(Len(s.res) - n)
        /\ \A j \in 1..(Len(s.res) - n) : t.res[j] = s.res[n + j]
        /\ FewerHeld(s, t) /\ Sorted(t)
    BY <1>1, <1>3, SendOnFirstHeld, SendOnFirstSorted DEF OrderGood
  <2>3. ASSUME NEW r \in Rid, NEW x \in Stanza, On(t, r, x)
        PROVE  On(s, r, x) \/ (r = s.res[1].rid /\ InPending(s, x))
    <3>1. On(s, r, x) \/ \E i \in 1..n : s.res[i].rid = r /\ x \in StanzasOf(bodies[i])
      BY <1>1, <1>3, <2>3, SendOnFirstOn DEF OrderGood
    <3>2. ASSUME NEW i \in 1..n, x \in StanzasOf(bodies[i]) PROVE i = 1 /\ InPending(s, x)
      <4>1. i \in 1..Len(Stitched(s)) BY <1>1
      <4>2. QED BY <1>3, <3>2, <4>1, StitchedStanzas
    <3>3. QED BY <3>1, <3>2
  <2>4. u \in SessionRecord BY <1>4, <1>6, SendPendingType
  <2> HIDE DEF t, bosh
  <2>5. /\ u.unacked_responses = t.unacked_responses /\ u.replies = t.replies
        /\ u.arrived = t.arrived /\ u.res = t.res /\ u.max_rid_sent = t.max_rid_sent
        /\ u.stanza_no = t.stanza_no /\ u.pending_stanzas = << >>
    BY <2>1 DEF SessionRecord
  <2> HIDE DEF u
  <2>6. \A r, x : On(u, r, x) => On(t, r, x)
    BY <2>5 DEF On, Cached, Answered, InReply
  <2>7. \A x : ~InPending(u, x) BY <2>5 DEF InPending
  <2>8. /\ 1 \in DOMAIN s.res /\ n \in DOMAIN s.res /\ DOMAIN s.res = 1..Len(s.res)
        /\ \A j \in 1..(Len(s.res) - n) : n + j \in DOMAIN s.res /\ n + j > 1
    BY <1>1, <1>6, ResponseFields, LenProperties
  <2>9. /\ Rid \subseteq Nat /\ s.max_rid_sent \in Nat /\ s.stanza_no \in Nat
        /\ Stanza \subseteq Nat
        /\ \A i \in DOMAIN s.res : s.res[i].rid \in Rid
    BY <2>8, NumberFields, ResponseFields DEF Stanza
  <2>10. \A i \in DOMAIN s.res : s.res[1].rid <= s.res[i].rid
    <3>1. ASSUME NEW i \in DOMAIN s.res PROVE s.res[1].rid <= s.res[i].rid
      <4>1. CASE i = 1
        <5>1. s.res[1].rid \in Nat BY <2>8, <2>9
        <5>2. QED BY <4>1, <5>1
      <4>2. CASE i # 1
        <5>1. 1 < i BY <2>8, <4>2
        <5>2. QED BY <2>8, <5>1 DEF OrderGood, Sorted
      <4>3. QED BY <4>1, <4>2
    <3>2. QED BY <3>1
  <2>11. Ordered(u)
    <3>1. SUFFICES ASSUME NEW r \in Rid, NEW q \in Rid, NEW x \in Stanza, NEW y \in Stanza,
                          r < q, On(u, r, x), On(u, q, y)
                   PROVE  x < y
      BY DEF Ordered
    <3>2. On(s, r, x) \/ (r = s.res[1].rid /\ InPending(s, x)) BY <2>3, <2>6, <3>1
    <3>3. On(s, q, y) \/ (q = s.res[1].rid /\ InPending(s, y)) BY <2>3, <2>6, <3>1
    <3>4. CASE On(s, r, x) /\ On(s, q, y) BY <3>1, <3>4 DEF OrderGood, Ordered
    <3>5. CASE On(s, r, x) /\ InPending(s, y) BY <3>5 DEF OrderGood, PendingLast
    <3>6. CASE r = s.res[1].rid /\ On(s, q, y)
      <4>1. q <= s.res[1].rid BY <2>8, <3>6 DEF OrderGood, HeldAbove
      <4>2. r \in Nat /\ q \in Nat BY <2>9
      <4>3. QED BY <3>1, <3>6, <4>1, <4>2
    <3>7. CASE r = s.res[1].rid /\ q = s.res[1].rid
      <4>1. r \in Nat /\ q \in Nat BY <2>9
      <4>2. QED BY <3>1, <3>7, <4>1
    <3>8. QED BY <3>2, <3>3, <3>4, <3>5, <3>6, <3>7
  <2>12. Bounded(u)
    <3>1. SUFFICES ASSUME NEW r \in Rid, NEW x \in Stanza, On(u, r, x)
                   PROVE  x <= u.stanza_no /\ r <= u.max_rid_sent
      BY DEF Bounded
    <3>2. On(s, r, x) \/ (r = s.res[1].rid /\ InPending(s, x)) BY <2>3, <2>6, <3>1
    <3>3. PICK m : m = s.res[n].rid OBVIOUS
    <3>4. m \in Nat /\ r \in Nat BY <2>8, <2>9, <3>3
    <3>5. u.max_rid_sent = Larger(s.max_rid_sent, m) BY <2>1, <2>5, <3>3
    <3>6. s.max_rid_sent <= u.max_rid_sent /\ m <= u.max_rid_sent /\ u.max_rid_sent \in Nat
      BY <2>9, <3>4, <3>5 DEF Larger
    <3>7. CASE On(s, r, x)
      <4>1. x <= s.stanza_no /\ r <= s.max_rid_sent BY <3>7 DEF OrderGood, Bounded
      <4>2. QED BY <2>1, <2>5, <2>9, <3>4, <3>6, <4>1
    <3>8. CASE r = s.res[1].rid /\ InPending(s, x)
      <4>1. x <= s.stanza_no BY <3>8 DEF OrderGood, PendingLast
      <4>2. r <= m BY <2>8, <2>10, <3>3, <3>8
      <4>3. QED BY <2>1, <2>5, <3>4, <3>6, <4>1, <4>2
    <3>9. QED BY <3>2, <3>7, <3>8
  <2>13. HeldAbove(u)
    <3>1. SUFFICES ASSUME NEW j \in DOMAIN u.res, NEW r \in Rid, NEW x \in Stanza, On(u, r, x)
                   PROVE  r <= u.res[j].rid
      BY DEF HeldAbove
    <3>2. On(s, r, x) \/ (r = s.res[1].rid /\ InPending(s, x)) BY <2>3, <2>6, <3>1
    <3>3. PICK i \in DOMAIN s.res : u.res[j] = s.res[i] BY <2>2, <2>5, <3>1 DEF FewerHeld
    <3>4. CASE On(s, r, x) BY <3>3, <3>4 DEF OrderGood, HeldAbove
    <3>5. CASE r = s.res[1].rid BY <2>10, <3>3, <3>5
    <3>6. QED BY <3>2, <3>4, <3>5
  <2>14. Sorted(u) BY <2>2, <2>5 DEF Sorted
  <2>15. ConnsAgree(u)
    <3>1. FewerHeld(s, u) BY <2>2, <2>5 DEF FewerHeld
    <3>2. u.arrived = s.arrived BY <2>1, <2>5
    <3>3. QED BY <3>1, <3>2, Zenon DEF OrderGood, ConnsAgree, FewerHeld
  <2>16. PendingLast(u) BY <2>7 DEF PendingLast
  <2>17. OrderGood(u)
    BY <2>1, <2>5, <2>11, <2>12, <2>13, <2>14, <2>15, <2>16 DEF OrderGood
  <2>18. QED BY <1>4, <1>6, <2>17
<1>7. QED BY <1>5, <1>6

(* The place of a new response: after the smaller rids, before the others. *)
LEMMA InsertByRidPlace ==
  ASSUME NEW res \in Seq(Response), NEW ro \in Response
  PROVE  \E pos \in 1..(Len(res) + 1) :
           /\ \A i \in 1..(Len(res) + 1) :
                /\ i < pos => InsertByRid(res, ro)[i] = res[i]
                /\ i = pos => InsertByRid(res, ro)[i] = ro
                /\ i > pos => InsertByRid(res, ro)[i] = res[i - 1]
           /\ \A i \in 1..Len(res) : i < pos => res[i].rid < ro.rid
           /\ pos \in 1..Len(res) => res[pos].rid >= ro.rid
<1> DEFINE notSmaller == {i \in DOMAIN res : res[i].rid >= ro.rid}
<1>1. Len(res) \in Nat /\ DOMAIN res = 1..Len(res) BY LenProperties
<1>2. /\ ro.rid \in Nat
      /\ \A i \in 1..Len(res) : res[i].rid \in Nat
  <2>1. \A i \in 1..Len(res) : res[i] \in Response BY <1>1, ElementOfSeq
  <2>2. QED BY <2>1, BoundsAssumption DEF Response, Rid
<1>3. \E pos \in 1..(Len(res) + 1) :
        /\ InsertByRid(res, ro) = InsertAt(res, pos, ro)
        /\ \A i \in 1..Len(res) : i < pos => res[i].rid < ro.rid
        /\ pos \in 1..Len(res) => res[pos].rid >= ro.rid
  <2>1. CASE notSmaller = {}
    <3>1. InsertByRid(res, ro) = InsertAt(res, Len(res) + 1, ro)
      BY <2>1, Zenon DEF InsertByRid
    <3>2. \A i \in 1..Len(res) : res[i].rid < ro.rid
      <4>1. \A i \in 1..Len(res) : ~(res[i].rid >= ro.rid) BY <1>1, <2>1
      <4>2. QED BY <1>2, <4>1
    <3>3. Len(res) + 1 \in 1..(Len(res) + 1) /\ Len(res) + 1 \notin 1..Len(res) BY <1>1
    <3>4. QED BY <3>1, <3>2, <3>3
  <2>2. CASE notSmaller # {}
    <3>1. notSmaller \subseteq Nat BY <1>1
    <3>2. \E i \in notSmaller : \A j \in notSmaller : i <= j BY <2>2, <3>1, LeastNumber
    <3> HIDE DEF notSmaller
    <3>3. PICK pos : pos = Min(notSmaller) OBVIOUS
    <3>4. pos \in notSmaller /\ \A j \in notSmaller : pos <= j BY <3>2, <3>3 DEF Min
    <3>5. InsertByRid(res, ro) = InsertAt(res, pos, ro)
      BY <2>2, <3>3, Zenon DEF InsertByRid, notSmaller
    <3>6. pos \in 1..Len(res) /\ res[pos].rid >= ro.rid BY <1>1, <3>4 DEF notSmaller
    <3>7. ASSUME NEW i \in 1..Len(res), i < pos PROVE res[i].rid < ro.rid
      <4>1. i \notin notSmaller BY <1>1, <3>4, <3>6, <3>7
      <4>2. ~(res[i].rid >= ro.rid) BY <1>1, <4>1 DEF notSmaller
      <4>3. QED BY <1>2, <4>2
    <3>8. pos \in 1..(Len(res) + 1) BY <1>1, <3>6
    <3>9. QED BY <3>5, <3>6, <3>7, <3>8
  <2>3. QED BY <2>1, <2>2
<1>4. PICK pos \in 1..(Len(res) + 1) :
        /\ InsertByRid(res, ro) = InsertAt(res, pos, ro)
        /\ \A i \in 1..Len(res) : i < pos => res[i].rid < ro.rid
        /\ pos \in 1..Len(res) => res[pos].rid >= ro.rid
  BY <1>3
<1>5. \A i \in 1..(Len(res) + 1) :
        /\ i < pos => InsertAt(res, pos, ro)[i] = res[i]
        /\ i = pos => InsertAt(res, pos, ro)[i] = ro
        /\ i > pos => InsertAt(res, pos, ro)[i] = res[i - 1]
  BY InsertAtElements
<1>6. QED BY <1>4, <1>5

(* InsertByRid keeps what is sorted sorted.                                *)
LEMMA InsertSorted ==
  ASSUME NEW s \in SessionRecord, NEW t \in SessionRecord, NEW ro \in Response, Sorted(s),
         t.res = InsertByRid(s.res, ro)
  PROVE  Sorted(t)
<1> DEFINE put == InsertByRid(s.res, ro)
<1>1. /\ s.res \in Seq(Response) /\ Len(s.res) \in Nat /\ DOMAIN s.res = 1..Len(s.res)
      /\ \A i \in 1..Len(s.res) : s.res[i].rid \in Nat
      /\ ro.rid \in Nat
  BY ResponseFields, NumberFields, LenProperties DEF Response
<1>2. DOMAIN put = 1..(Len(s.res) + 1)
  BY <1>1, InsertByRidElements, LenProperties
<1>3. PICK pos \in 1..(Len(s.res) + 1) :
        /\ \A i \in 1..(Len(s.res) + 1) :
             /\ i < pos => put[i] = s.res[i]
             /\ i = pos => put[i] = ro
             /\ i > pos => put[i] = s.res[i - 1]
        /\ \A i \in 1..Len(s.res) : i < pos => s.res[i].rid < ro.rid
        /\ pos \in 1..Len(s.res) => s.res[pos].rid >= ro.rid
  BY <1>1, InsertByRidPlace
<1> HIDE DEF put
<1>4. \A i, j \in 1..Len(s.res) : i < j => s.res[i].rid <= s.res[j].rid BY <1>1 DEF Sorted
<1>5. ASSUME NEW i \in 1..(Len(s.res) + 1), NEW j \in 1..(Len(s.res) + 1), i < j
      PROVE  put[i].rid <= put[j].rid
  <2>1. CASE j < pos
    <3>1. i \in 1..Len(s.res) /\ j \in 1..Len(s.res) /\ i < pos BY <1>1, <1>5, <2>1
    <3>2. QED BY <1>3, <1>4, <1>5, <2>1, <3>1
  <2>2. CASE j = pos
    <3>1. i \in 1..Len(s.res) /\ i < pos BY <1>1, <1>5, <2>2
    <3>2. put[i] = s.res[i] /\ put[j] = ro BY <1>3, <2>2, <3>1
    <3>3. s.res[i].rid < ro.rid BY <1>3, <3>1
    <3>4. QED BY <1>1, <3>1, <3>2, <3>3
  <2>3. CASE j > pos /\ i < pos
    <3>1. i \in 1..Len(s.res) /\ j - 1 \in 1..Len(s.res) /\ i < j - 1 BY <1>1, <1>5, <2>3
    <3>2. put[i] = s.res[i] /\ put[j] = s.res[j - 1] BY <1>3, <2>3
    <3>3. QED BY <1>4, <3>1, <3>2
  <2>4. CASE j > pos /\ i = pos
    <3>1. pos \in 1..Len(s.res) /\ j - 1 \in 1..Len(s.res) /\ pos <= j - 1 BY <1>1, <1>5, <2>4
    <3>2. put[i] = ro /\ put[j] = s.res[j - 1] BY <1>3, <2>4
    <3>3. s.res[pos].rid >= ro.rid BY <1>3, <3>1
    <3>4. CASE pos = j - 1 BY <1>1, <3>1, <3>2, <3>3, <3>4
    <3>5. CASE pos < j - 1
      <4>1. s.res[pos].rid <= s.res[j - 1].rid BY <1>4, <3>1, <3>5
      <4>2. s.res[pos].rid \in Nat /\ s.res[j - 1].rid \in Nat BY <1>1, <3>1
      <4>3. QED BY <1>1, <3>2, <3>3, <4>1, <4>2
    <3>6. QED BY <3>1, <3>4, <3>5
  <2>5. CASE j > pos /\ i > pos
    <3>1. i - 1 \in 1..Len(s.res) /\ j - 1 \in 1..Len(s.res) /\ i - 1 < j - 1 BY <1>1, <1>5, <2>5
    <3>2. put[i] = s.res[i - 1] /\ put[j] = s.res[j - 1] BY <1>3, <2>5
    <3>3. QED BY <1>4, <3>1, <3>2
  <2>6. QED BY <1>1, <1>5, <2>1, <2>2, <2>3, <2>4, <2>5
<1>6. t.res = put BY DEF put
<1>7. QED BY <1>2, <1>5, <1>6 DEF Sorted

(* An empty reply to a request, whose response is held no more, is no news.*)
LEMMA SendNoRequeueFades ==
  ASSUME NEW s \in SessionRecord, NEW ro \in Response, Len(s.arrived) <= MaxConn
  PROVE  Fades(s, _send_no_requeue(s, ro, Bare("empty")))
<1> DEFINE t == _send_no_requeue(s, ro, Bare("empty"))
<1>1. /\ ro.rid \in Rid /\ ro.conn \in Conn /\ Bare("empty") \in Body
      /\ ro.rid \in Nat /\ s.max_rid_sent \in Nat
  BY BareType, NumberFields DEF Response, BodyKind
<1>2. /\ t.unacked_responses = [s.unacked_responses EXCEPT ![ro.rid] = Bare("empty")]
      /\ t.replies = [s.replies EXCEPT ![ro.conn] = Append(s.replies[ro.conn], Bare("empty"))]
      /\ t.max_rid_sent = Larger(s.max_rid_sent, ro.rid)
      /\ t.arrived = s.arrived /\ t.res = s.res /\ t.stanza_no = s.stanza_no
      /\ t.pending_stanzas = s.pending_stanzas
  BY DEF _send_no_requeue, SessionRecord
<1> HIDE DEF t
<1>3. DOMAIN s.arrived \subseteq Conn
  <2>1. s.arrived \in Seq(Rid) BY DEF SessionRecord
  <2>2. DOMAIN s.arrived = 1..Len(s.arrived) /\ Len(s.arrived) \in Nat BY <2>1, LenProperties
  <2>3. QED BY <2>2, BoundsAssumption DEF Conn
<1>4. ASSUME NEW r \in Rid, NEW x, Cached(t, r, x) PROVE Cached(s, r, x)
  <2>1. t.unacked_responses[r] = IF r = ro.rid THEN Bare("empty") ELSE s.unacked_responses[r]
    BY <1>1, <1>2 DEF SessionRecord
  <2>2. QED BY <1>4, <2>1, BareStanzas DEF Cached
<1>5. ASSUME NEW c \in DOMAIN s.arrived, NEW x, InReply(t, c, x) PROVE InReply(s, c, x)
  <2>1. c \in Conn /\ s.replies[c] \in Seq(Body) BY <1>3 DEF SessionRecord
  <2>2. t.replies[c] = IF c = ro.conn THEN Append(s.replies[c], Bare("empty")) ELSE s.replies[c]
    BY <1>1, <1>2, <2>1 DEF SessionRecord
  <2>3. CASE c = ro.conn
    <3>1. t.replies[c] = Append(s.replies[c], Bare("empty")) BY <2>2, <2>3
    <3>2. \E i \in DOMAIN Append(s.replies[c], Bare("empty")) :
             x \in StanzasOf(Append(s.replies[c], Bare("empty"))[i])
      BY <1>5, <3>1, Zenon DEF InReply
    <3>3. InReply(s, c, x) \/ x \in StanzasOf(Bare("empty"))
      BY <1>1, <2>1, <3>2, AppendedReply DEF InReply
    <3>4. QED BY <3>3, BareStanzas
  <2>4. CASE c # ro.conn BY <1>5, <2>2, <2>4 DEF InReply
  <2>5. QED BY <2>3, <2>4
<1>6. NothingNew(s, t) BY <1>2, <1>4, <1>5 DEF NothingNew, On, Answered
<1>7. FewerHeld(s, t) /\ (Sorted(s) => Sorted(t)) BY <1>2 DEF FewerHeld, Sorted
<1>8. s.max_rid_sent <= t.max_rid_sent BY <1>1, <1>2 DEF Larger
<1>9. \A x \in Stanza : InPending(t, x) => InPending(s, x) BY <1>2 DEF InPending
<1>10. Fades(s, t) BY <1>2, <1>6, <1>7, <1>8, <1>9, Zenon DEF Fades
<1>11. QED BY <1>10 DEF t

(* A response is only held for a rid on which stanzas may still go out.    *)
LEMMA AddHeldOrder ==
  ASSUME NEW s \in SessionRecord, OrderGood(s), NEW rid \in Rid, NEW c \in Conn,
         c \in DOMAIN s.arrived, s.arrived[c] = rid
  PROVE  OrderGood(add_held_http_connection(s, rid, c))
<1> DEFINE ro == [rid |-> rid, conn |-> c]
           u == _send_no_requeue(s, ro, Bare("empty"))
           t == [s EXCEPT !.res = InsertByRid(s.res, ro)]
<1>1. ro \in Response /\ ro.rid = rid /\ ro.conn = c BY DEF Response
<1>2. add_held_http_connection(s, rid, c) = IF rid < s.max_rid_sent THEN u ELSE t
  BY Zenon DEF add_held_http_connection
<1>3. add_held_http_connection(s, rid, c) \in SessionRecord BY AddHeldType
<1> HIDE DEF ro
<1>4. CASE rid < s.max_rid_sent
  <2>1. u \in SessionRecord BY <1>2, <1>3, <1>4
  <2>2. Fades(s, u) BY <1>1, SendNoRequeueFades DEF OrderGood
  <2>3. OrderGood(u) BY <2>1, <2>2, FadesGood
  <2>4. QED BY <1>2, <1>4, <2>3, Zenon
<1>5. CASE ~(rid < s.max_rid_sent)
  <2>1. t \in SessionRecord BY <1>2, <1>3, <1>5
  <2>2. /\ t.unacked_responses = s.unacked_responses /\ t.replies = s.replies
        /\ t.arrived = s.arrived /\ t.max_rid_sent = s.max_rid_sent
        /\ t.stanza_no = s.stanza_no /\ t.pending_stanzas = s.pending_stanzas
        /\ t.res = InsertByRid(s.res, ro)
    BY DEF SessionRecord
  <2> HIDE DEF t
  <2>3. \A r, x : On(t, r, x) <=> On(s, r, x) BY <2>2, Zenon DEF On, Cached, Answered, InReply
  <2>4. \A x : InPending(t, x) <=> InPending(s, x) BY <2>2 DEF InPending
  <2>5. Sorted(t) BY <1>1, <2>1, <2>2, InsertSorted DEF OrderGood
  <2>6. \A j \in DOMAIN t.res : t.res[j] = ro \/ \E i \in DOMAIN s.res : t.res[j] = s.res[i]
    <3> DEFINE put == InsertByRid(s.res, ro)
    <3>1. /\ s.res \in Seq(Response) /\ Len(s.res) \in Nat /\ DOMAIN s.res = 1..Len(s.res)
      BY ResponseFields, LenProperties
    <3>2. DOMAIN put = 1..(Len(s.res) + 1)
      BY <1>1, <3>1, InsertByRidElements, LenProperties
    <3>3. PICK pos \in 1..(Len(s.res) + 1) :
            \A i \in 1..(Len(s.res) + 1) :
              /\ i < pos => put[i] = s.res[i]
              /\ i = pos => put[i] = ro
              /\ i > pos => put[i] = s.res[i - 1]
      BY <1>1, <3>1, InsertByRidElements
    <3> HIDE DEF put
    <3>4. ASSUME NEW j \in 1..(Len(s.res) + 1)
          PROVE  put[j] = ro \/ \E i \in DOMAIN s.res : put[j] = s.res[i]
      <4>1. CASE j < pos
        <5>1. j \in DOMAIN s.res BY <3>1, <4>1
        <5>2. QED BY <3>3, <4>1, <5>1
      <4>2. CASE j = pos BY <3>3, <4>2
      <4>3. CASE j > pos
        <5>1. j - 1 \in DOMAIN s.res BY <3>1, <4>3
        <5>2. QED BY <3>3, <4>3, <5>1
      <4>4. QED BY <3>1, <4>1, <4>2, <4>3
    <3>5. t.res = put BY <2>2 DEF put
    <3>6. QED BY <3>2, <3>4, <3>5
  <2>7. HeldAbove(t)
    <3>1. SUFFICES ASSUME NEW j \in DOMAIN t.res, NEW r \in Rid, NEW x \in Stanza, On(s, r, x)
                   PROVE  r <= t.res[j].rid
      BY <2>3 DEF HeldAbove
    <3>2. CASE t.res[j] = ro
      <4>1. r <= s.max_rid_sent BY <3>1 DEF OrderGood, Bounded
      <4>2. r \in Nat /\ rid \in Nat /\ s.max_rid_sent \in Nat BY NumberFields
      <4>3. QED BY <1>1, <1>5, <3>2, <4>1, <4>2
    <3>3. CASE \E i \in DOMAIN s.res : t.res[j] = s.res[i]
      BY <3>1, <3>3 DEF OrderGood, HeldAbove
    <3>4. QED BY <2>6, <3>2, <3>3
  <2>8. ConnsAgree(t) BY <1>1, <2>2, <2>6 DEF OrderGood, ConnsAgree
  <2>9. Ordered(t) BY <2>3, Zenon DEF OrderGood, Ordered
  <2>10. Bounded(t) BY <2>2, <2>3, Zenon DEF OrderGood, Bounded
  <2>11. PendingLast(t) BY <2>2, <2>3, <2>4, Zenon DEF OrderGood, PendingLast
  <2>12. OrderGood(t) BY <2>2, <2>5, <2>7, <2>8, <2>9, <2>10, <2>11, Zenon DEF OrderGood
  <2>13. QED BY <1>2, <1>5, <2>12, Zenon
<1>6. QED BY <1>4, <1>5

-----------------------------------------------------------------------------
(* The other operators keep the order.                                     *)

(* handle_acks: what it takes out of the cache is acknowledged or trimmed. *)
LEMMA HandleAcksFields ==
  ASSUME NEW s \in SessionRecord, NEW rid \in Rid, NEW attr \in Nat
  PROVE  LET t == handle_acks(s, rid, attr) IN
         /\ t \in SessionRecord
         /\ \A r \in Rid : t.unacked_responses[r] \in {s.unacked_responses[r], NoBody}
         /\ \A x : x \in t.acknowledged =>
              \/ x \in s.acknowledged
              \/ \E r \in Rid : Cached(s, r, x) /\ t.unacked_responses[r] = NoBody
         /\ \A r \in Rid : \A x : Cached(s, r, x) =>
              Cached(t, r, x) \/ x \in t.acknowledged \/ x \in t.trimmed
         /\ s.acknowledged \subseteq t.acknowledged /\ s.trimmed \subseteq t.trimmed
<1> DEFINE given == IF s.ack THEN attr ELSE rid - WindowSize
           ack == IF given = 0 THEN rid - 1 ELSE given
           keys == UnackedRids(s)
           overflow == Cardinality(keys) > 4 * WindowSize
           kept == {r \in keys : overflow => Cardinality({q \in keys : q > r}) < WindowSize}
           stanzas(rids) == UNION {StanzasOf(s.unacked_responses[r]) : r \in rids}
           u == [r \in Rid |-> IF r \in kept /\ r > ack THEN s.unacked_responses[r] ELSE NoBody]
           done == {r \in kept : r <= ack}
           lost == keys \ kept
           t == [s EXCEPT !.ack = s.ack /\ ~overflow, !.unacked_responses = u,
                          !.acknowledged = s.acknowledged \union stanzas(done),
                          !.trimmed = s.trimmed \union stanzas(lost)]
<1>1. handle_acks(s, rid, attr) = t BY Zenon DEF handle_acks
<1>2. handle_acks(s, rid, attr) \in SessionRecord BY HandleAcksType
<1>3. ack \in Int /\ Rid \subseteq Nat BY NumberFields, OptionsAssumption
<1>4. keys \subseteq Rid /\ kept \subseteq keys BY DEF UnackedRids
<1>5. \A r \in Rid : r \in keys <=> s.unacked_responses[r] # NoBody BY DEF UnackedRids
<1> HIDE DEF ack, keys, kept
<1>6. \A r \in Rid : u[r] = IF r \in kept /\ r > ack THEN s.unacked_responses[r] ELSE NoBody
  OBVIOUS
<1> HIDE DEF u
<1>7. \A x : x \in stanzas(done) =>
         \E r \in Rid : Cached(s, r, x) /\ u[r] = NoBody
  <2>1. ASSUME NEW x, x \in stanzas(done)
        PROVE  \E r \in Rid : Cached(s, r, x) /\ u[r] = NoBody
    <3>1. PICK r \in done : x \in StanzasOf(s.unacked_responses[r]) BY <2>1
    <3>2. r \in Rid /\ r <= ack BY <1>4, <3>1
    <3>3. ~(r > ack) BY <1>3, <3>2
    <3>4. u[r] = NoBody BY <1>6, <3>2, <3>3
    <3>5. QED BY <3>1, <3>2, <3>4 DEF Cached
  <2>2. QED BY <2>1
<1>8. ASSUME NEW r \in Rid, NEW x, Cached(s, r, x)
      PROVE  u[r] = s.unacked_responses[r] \/ x \in stanzas(done) \/ x \in stanzas(lost)
  <2>1. s.unacked_responses[r] # NoBody BY <1>8, BareStanzas DEF Cached
  <2>2. r \in keys BY <1>5, <2>1
  <2>3. CASE r \in kept /\ r > ack BY <1>6, <2>3
  <2>4. CASE r \in kept /\ ~(r > ack)
    <3>1. r \in done BY <1>3, <2>4
    <3>2. QED BY <1>8, <3>1 DEF Cached
  <2>5. CASE r \notin kept
    <3>1. r \in lost BY <2>2, <2>5
    <3>2. QED BY <1>8, <3>1 DEF Cached
  <2>6. QED BY <2>3, <2>4, <2>5
<1> HIDE DEF stanzas, done, lost, overflow
<1>9. /\ t.unacked_responses = u /\ t.acknowledged = s.acknowledged \union stanzas(done)
      /\ t.trimmed = s.trimmed \union stanzas(lost)
  BY DEF SessionRecord
<1> HIDE DEF t
<1>10. \A r \in Rid : t.unacked_responses[r] \in {s.unacked_responses[r], NoBody}
  BY <1>6, <1>9
<1>11. \A x : x \in t.acknowledged =>
          \/ x \in s.acknowledged
          \/ \E r \in Rid : Cached(s, r, x) /\ t.unacked_responses[r] = NoBody
  BY <1>7, <1>9
<1>12. \A r \in Rid : \A x : Cached(s, r, x) =>
          Cached(t, r, x) \/ x \in t.acknowledged \/ x \in t.trimmed
  BY <1>8, <1>9 DEF Cached
<1>13. s.acknowledged \subseteq t.acknowledged /\ s.trimmed \subseteq t.trimmed BY <1>9
<1>14. QED BY <1>1, <1>2, <1>10, <1>11, <1>12, <1>13

(* The rest of handle_acks.                                                *)
LEMMA HandleAcksKeeps ==
  ASSUME NEW s \in SessionRecord, NEW rid \in Rid, NEW attr \in Nat
  PROVE  LET t == handle_acks(s, rid, attr) IN
         /\ t.replies = s.replies /\ t.arrived = s.arrived /\ t.res = s.res
         /\ t.max_rid_sent = s.max_rid_sent /\ t.stanza_no = s.stanza_no
         /\ t.pending_stanzas = s.pending_stanzas /\ t.status = s.status
         /\ t.no_client = s.no_client /\ t.rid = s.rid
         /\ t.queued_requests = s.queued_requests
BY DEF handle_acks, SessionRecord

(* So handle_acks keeps the order: it only clears cached replies.          *)
LEMMA HandleAcksOrder ==
  ASSUME NEW s \in SessionRecord, NEW rid \in Rid, NEW attr \in Nat, OrderGood(s)
  PROVE  OrderGood(handle_acks(s, rid, attr))
<1> DEFINE t == handle_acks(s, rid, attr)
<1>1. /\ t \in SessionRecord
      /\ \A r \in Rid : t.unacked_responses[r] \in {s.unacked_responses[r], NoBody}
  BY HandleAcksFields
<1>2. /\ t.replies = s.replies /\ t.arrived = s.arrived /\ t.res = s.res
      /\ t.max_rid_sent = s.max_rid_sent /\ t.stanza_no = s.stanza_no
      /\ t.pending_stanzas = s.pending_stanzas
  BY HandleAcksKeeps
<1> HIDE DEF t
<1>3. ASSUME NEW r \in Rid, NEW x \in Stanza, On(t, r, x) PROVE On(s, r, x)
  <2>1. Cached(t, r, x) => Cached(s, r, x) BY <1>1, BareStanzas DEF Cached
  <2>2. Answered(t, r, x) => Answered(s, r, x) BY <1>2 DEF Answered, InReply
  <2>3. QED BY <1>3, <2>1, <2>2 DEF On
<1>4. NothingNew(s, t) BY <1>3 DEF NothingNew
<1>5. FewerHeld(s, t) /\ (Sorted(s) => Sorted(t)) BY <1>2 DEF FewerHeld, Sorted
<1>6. \A x \in Stanza : InPending(t, x) => InPending(s, x) BY <1>2 DEF InPending
<1>7. s.max_rid_sent <= t.max_rid_sent BY <1>2, NumberFields
<1>8. Fades(s, t) BY <1>2, <1>4, <1>5, <1>6, <1>7, Zenon DEF Fades
<1>9. OrderGood(t) BY <1>1, <1>8, FadesGood
<1>10. QED BY <1>9 DEF t

(* A request that arrives on a new connection.                             *)
LEMMA ArriveOrder ==
  ASSUME NEW s \in SessionRecord, NEW rid \in Rid, OrderGood(s),
         Len(s.arrived) + 1 <= MaxConn, s.replies[Len(s.arrived) + 1] = << >>
  PROVE  OrderGood(Arrive(s, rid))
<1> DEFINE t == Arrive(s, rid)
           c == Len(s.arrived) + 1
<1>1. /\ t.unacked_responses = s.unacked_responses /\ t.replies = s.replies
      /\ t.arrived = Append(s.arrived, rid) /\ t.res = s.res
      /\ t.max_rid_sent = s.max_rid_sent /\ t.stanza_no = s.stanza_no
      /\ t.pending_stanzas = s.pending_stanzas
  BY DEF Arrive, SessionRecord
<1> HIDE DEF t
<1>2. /\ s.arrived \in Seq(Rid) /\ Len(s.arrived) \in Nat
      /\ DOMAIN s.arrived = 1..Len(s.arrived)
  BY LenProperties DEF SessionRecord
<1>3. /\ DOMAIN t.arrived = 1..(Len(s.arrived) + 1) /\ Len(t.arrived) = Len(s.arrived) + 1
      /\ \A d \in 1..Len(s.arrived) : t.arrived[d] = s.arrived[d]
  BY <1>1, <1>2, AppendProperties, LenProperties
<1>4. ASSUME NEW r \in Rid, NEW x, On(t, r, x) PROVE On(s, r, x)
  <2>1. CASE Cached(t, r, x) BY <1>1, <2>1 DEF On, Cached
  <2>2. CASE Answered(t, r, x)
    <3>1. PICK d \in 1..(Len(s.arrived) + 1) : t.arrived[d] = r /\ InReply(t, d, x)
      BY <1>3, <2>2 DEF Answered
    <3>2. PICK i \in DOMAIN s.replies[d] : x \in StanzasOf(s.replies[d][i])
      BY <1>1, <3>1 DEF InReply
    <3>3. d # c
      <4>1. DOMAIN << >> = {} OBVIOUS
      <4>2. QED BY <3>2, <4>1
    <3>4. d \in 1..Len(s.arrived) BY <1>2, <3>1, <3>3
    <3>5. QED BY <1>2, <1>3, <3>1, <3>2, <3>4 DEF On, Answered, InReply
  <2>3. QED BY <1>4, <2>1, <2>2 DEF On
<1>5. ASSUME NEW x, InPending(t, x) PROVE InPending(s, x) BY <1>1, <1>5 DEF InPending
<1>6. Ordered(t) BY <1>4, Zenon DEF OrderGood, Ordered
<1>7. Bounded(t) BY <1>1, <1>4, Zenon DEF OrderGood, Bounded
<1>8. PendingLast(t) BY <1>1, <1>4, <1>5, Zenon DEF OrderGood, PendingLast
<1>9. HeldAbove(t) BY <1>1, <1>4, Zenon DEF OrderGood, HeldAbove
<1>10. Sorted(t) BY <1>1, Zenon DEF OrderGood, Sorted
<1>11. ConnsAgree(t)
  <2>1. ASSUME NEW i \in DOMAIN t.res
        PROVE  t.res[i].conn \in DOMAIN t.arrived /\ t.arrived[t.res[i].conn] = t.res[i].rid
    <3>1. /\ s.res[i].conn \in 1..Len(s.arrived) /\ s.arrived[s.res[i].conn] = s.res[i].rid
          /\ t.res[i] = s.res[i]
      BY <1>1, <1>2 DEF OrderGood, ConnsAgree
    <3>2. s.res[i].conn \in 1..(Len(s.arrived) + 1) BY <1>2, <3>1
    <3>3. QED BY <1>3, <3>1, <3>2
  <2>2. QED BY <2>1 DEF ConnsAgree
<1>12. OrderGood(t) BY <1>3, <1>6, <1>7, <1>8, <1>9, <1>10, <1>11 DEF OrderGood
<1>13. QED BY <1>12 DEF t

(* A reply on c that carries nothing but what the cache has for its rid.   *)
LEMMA SendImmediateOrder ==
  ASSUME NEW s \in SessionRecord, OrderGood(s), NEW c \in DOMAIN s.arrived, NEW body \in Body,
         \A x : x \in StanzasOf(body) => Cached(s, s.arrived[c], x)
  PROVE  OrderGood(_send_immediate(s, c, body))
<1> DEFINE t == _send_immediate(s, c, body)
<1>1. /\ DOMAIN s.arrived \subseteq Conn /\ c \in Conn
  <2>1. s.arrived \in Seq(Rid) BY DEF SessionRecord
  <2>2. DOMAIN s.arrived = 1..Len(s.arrived) /\ Len(s.arrived) \in Nat BY <2>1, LenProperties
  <2>3. DOMAIN s.arrived \subseteq Conn BY <2>2, BoundsAssumption DEF Conn, OrderGood
  <2>4. QED BY <2>3
<1>2. /\ t \in SessionRecord
      /\ t.unacked_responses = s.unacked_responses
      /\ t.replies = [s.replies EXCEPT ![c] = Append(s.replies[c], body)]
      /\ t.max_rid_sent = s.max_rid_sent
      /\ t.arrived = s.arrived /\ t.res = s.res /\ t.stanza_no = s.stanza_no
      /\ t.pending_stanzas = s.pending_stanzas
  BY <1>1, SendImmediateType DEF _send_immediate, SessionRecord
<1> HIDE DEF t
<1>3. ASSUME NEW r \in Rid, NEW x \in Stanza, On(t, r, x) PROVE On(s, r, x)
  <2>1. CASE Cached(t, r, x) BY <1>2, <2>1 DEF On, Cached
  <2>2. CASE Answered(t, r, x)
    <3>1. PICK d \in DOMAIN s.arrived : s.arrived[d] = r /\ InReply(t, d, x)
      BY <1>2, <2>2 DEF Answered
    <3>2. d \in Conn /\ s.replies[d] \in Seq(Body) BY <1>1, <3>1 DEF SessionRecord
    <3>3. t.replies[d] = IF d = c THEN Append(s.replies[c], body) ELSE s.replies[d]
      BY <1>1, <1>2, <3>2 DEF SessionRecord
    <3>4. CASE d = c
      <4>1. t.replies[d] = Append(s.replies[d], body) BY <3>3, <3>4
      <4>2. \E i \in DOMAIN Append(s.replies[d], body) :
               x \in StanzasOf(Append(s.replies[d], body)[i])
        BY <3>1, <4>1, Zenon DEF InReply
      <4>3. InReply(s, d, x) \/ x \in StanzasOf(body)
        BY <3>2, <4>2, AppendedReply DEF InReply
      <4>4. QED BY <3>1, <3>4, <4>3 DEF On, Answered
    <3>5. CASE d # c
      <4>1. InReply(s, d, x) BY <3>1, <3>3, <3>5 DEF InReply
      <4>2. QED BY <3>1, <4>1 DEF On, Answered
    <3>6. QED BY <3>4, <3>5
  <2>3. QED BY <1>3, <2>1, <2>2 DEF On
<1>4. NothingNew(s, t) BY <1>3 DEF NothingNew
<1>5. FewerHeld(s, t) /\ (Sorted(s) => Sorted(t)) BY <1>2 DEF FewerHeld, Sorted
<1>6. \A x \in Stanza : InPending(t, x) => InPending(s, x) BY <1>2 DEF InPending
<1>7. s.max_rid_sent <= t.max_rid_sent BY <1>2, NumberFields
<1>8. Fades(s, t) BY <1>2, <1>4, <1>5, <1>6, <1>7, Zenon DEF Fades
<1>9. OrderGood(t) BY <1>2, <1>8, FadesGood
<1>10. QED BY <1>9 DEF t

(* A repeated request gets the reply that is cached for its rid.           *)
LEMMA HandleBrokenOrder ==
  ASSUME NEW s \in SessionRecord, OrderGood(s), NEW rid \in Rid,
         NEW c \in DOMAIN s.arrived, s.arrived[c] = rid
  PROVE  OrderGood(handle_broken_connections(s, rid, c))
<1> DEFINE known == s.unacked_responses[rid]
           body == IF known # NoBody THEN known ELSE Bare("empty")
           t == [s EXCEPT !.queued_requests[rid] = "none"]
           u == _send_immediate(t, c, body)
<1>1. body \in Body BY BareType DEF SessionRecord, BodyKind
<1>2. t \in SessionRecord
  <2>1. [s.queued_requests EXCEPT ![rid] = "none"] \in [Rid -> Queued]
    BY DEF SessionRecord, Queued
  <2>2. QED BY <2>1 DEF SessionRecord
<1>3. SameOrder(s, t) /\ t.pending_stanzas = s.pending_stanzas BY DEF SessionRecord, SameOrder
<1>4. handle_broken_connections(s, rid, c) = u BY Zenon DEF handle_broken_connections
<1>5. \A x : x \in StanzasOf(body) => Cached(s, rid, x) BY BareStanzas DEF Cached
<1> HIDE DEF t, body
<1>6. \A x \in Stanza : InPending(t, x) => InPending(s, x) BY <1>3 DEF InPending
<1>7. OrderGood(t) BY <1>2, <1>3, <1>6, SameOrderFades, FadesGood
<1>8. /\ c \in DOMAIN t.arrived
      /\ \A x : x \in StanzasOf(body) => Cached(t, t.arrived[c], x)
  BY <1>3, <1>5 DEF SameOrder, Cached
<1>9. OrderGood(u) BY <1>1, <1>2, <1>7, <1>8, SendImmediateOrder
<1>10. QED BY <1>4, <1>9, Zenon

(* What leaves the replies, the held and the pending alone keeps the order.*)
LEMMA SameOrderGood ==
  ASSUME NEW s \in SessionRecord, NEW t \in SessionRecord, SameOrder(s, t),
         t.pending_stanzas = s.pending_stanzas, OrderGood(s)
  PROVE  OrderGood(t)
<1>1. \A x \in Stanza : InPending(t, x) => InPending(s, x) BY DEF InPending
<1>2. Fades(s, t) BY <1>1, SameOrderFades
<1>3. QED BY <1>2, FadesGood

(* Processing a run keeps the order: only its last step sends.             *)
LEMMA ProcessRunOrder ==
  ASSUME NEW s \in SessionRecord, NEW run \in SUBSET Rid, OrderGood(s)
  PROVE  OrderGood(ProcessRun(s, run))
<1> DEFINE top == Max(run)
           queue == [r \in Rid |-> IF r \in run THEN "none" ELSE s.queued_requests[r]]
           nodes == [r \in Rid |-> IF r \in run /\ s.queued_requests[r] = "data"
                                   THEN s.nodes[r] + 1 ELSE s.nodes[r]]
           t == [s EXCEPT !.rid = top, !.queued_requests = queue, !.nodes = nodes]
<1>1. ProcessRun(s, run) = IF run = {} THEN s ELSE send_pending_responses(t)
  BY Zenon DEF ProcessRun
<1>2. CASE run = {} BY <1>1, <1>2, Zenon
<1>3. CASE run # {}
  <2>1. queue \in [Rid -> Queued] BY DEF SessionRecord, Queued
  <2>2. nodes \in [Rid -> Nat] BY DEF SessionRecord
  <2>3. top \in Rid BY <1>3, GreatestRid
  <2> HIDE DEF top, queue, nodes
  <2>4. top \in 0..MaxRid BY <2>3, BoundsAssumption DEF Rid
  <2>5. t \in SessionRecord BY <2>1, <2>2, <2>4 DEF SessionRecord
  <2>6. SameOrder(s, t) /\ t.pending_stanzas = s.pending_stanzas
    BY DEF SessionRecord, SameOrder
  <2> HIDE DEF t
  <2>7. OrderGood(t) BY <2>5, <2>6, SameOrderGood
  <2>8. OrderGood(send_pending_responses(t)) BY <2>5, <2>7, SendPendingOrder
  <2>9. QED BY <1>1, <1>3, <2>8
<1>4. QED BY <1>2, <1>3

(* process_requests keeps the order.                                       *)
LEMMA ProcessRequestsOrder ==
  ASSUME NEW s \in SessionRecord, OrderGood(s)
  PROVE  OrderGood(process_requests(s))
<1> DEFINE run == Runnable(s)
           ends == {r \in run : s.queued_requests[r] = "terminate"}
           t == Min(ends)
           low == {r \in run : r < t}
           high == {r \in run : r > t}
           before == ProcessRun(s, low)
           taken == [before EXCEPT !.rid = t, !.queued_requests[t] = "none", !.nodes[t] = @ + 1]
           ended == end_session(taken, "terminated")
           after == ProcessRun(ended, high)
<1>1. run \in SUBSET Rid BY DEF Runnable
<1>2. process_requests(s) = IF ends = {} THEN ProcessRun(s, run) ELSE after
  BY Zenon DEF process_requests
<1>3. CASE ends = {} BY <1>1, <1>2, <1>3, ProcessRunOrder
<1>4. CASE ends # {}
  <2>1. t \in run BY <1>1, <1>4, LeastRid
  <2>2. low \in SUBSET Rid /\ high \in SUBSET Rid /\ t \in Rid BY <1>1, <2>1
  <2> HIDE DEF run, ends, t, low, high
  <2>3. before \in SessionRecord /\ OrderGood(before)
    BY <2>2, ProcessRunType, ProcessRunOrder
  <2> HIDE DEF before
  <2>4. taken \in SessionRecord BY <2>2, <2>3, TakenType
  <2>5. SameOrder(before, taken) /\ taken.pending_stanzas = before.pending_stanzas
    BY <2>3 DEF SessionRecord, SameOrder
  <2> HIDE DEF taken
  <2>6. OrderGood(taken) BY <2>3, <2>4, <2>5, SameOrderGood
  <2>7. ended \in SessionRecord /\ OrderGood(ended)
    BY <2>4, <2>6, EndSessionType, EndSessionOrder DEF Status
  <2> HIDE DEF ended
  <2>8. OrderGood(after) BY <2>2, <2>7, ProcessRunOrder
  <2>9. QED BY <1>2, <1>4, <2>8
<1>5. QED BY <1>3, <1>4

(* enqueue_bosh_response and EmitNodes move no stanza.                     *)
LEMMA EnqueueBoshOrder ==
  ASSUME NEW s \in SessionRecord, NEW kind \in {"create", "stream-terminate"}, OrderGood(s)
  PROVE  OrderGood(enqueue_bosh_response(s, kind))
<1> DEFINE t == enqueue_bosh_response(s, kind)
<1>1. t \in SessionRecord BY EnqueueBoshType
<1>2. SameOrder(s, t) /\ t.pending_stanzas = s.pending_stanzas
  BY DEF enqueue_bosh_response, try_sending, SameOrder, SessionRecord
<1> HIDE DEF t
<1>3. OrderGood(t) BY <1>1, <1>2, SameOrderGood
<1>4. QED BY <1>3 DEF t

(* Passing on the nodes of a request keeps the order.                      *)
LEMMA EmitNodesOrder ==
  ASSUME NEW s \in SessionRecord, NEW rid \in Rid, NEW kind, OrderGood(s)
  PROVE  OrderGood(EmitNodes(s, rid, kind))
<1> DEFINE t == EmitNodes(s, rid, kind)
<1>1. t \in SessionRecord BY EmitNodesType
<1>2. SameOrder(s, t) /\ t.pending_stanzas = s.pending_stanzas
  BY DEF EmitNodes, SameOrder, SessionRecord
<1> HIDE DEF t
<1>3. OrderGood(t) BY <1>1, <1>2, SameOrderGood
<1>4. QED BY <1>3 DEF t

(* A request that may arrive finds its connection unused.                  *)
LEMMA NextConnUnused ==
  ASSUME TypeOK, AnsweredOnce, MayArrive
  PROVE  /\ Len(session.arrived) + 1 <= MaxConn /\ NextConn = Len(session.arrived) + 1
         /\ session.replies[Len(session.arrived) + 1] = << >>
<1>1. /\ session.arrived \in Seq(Rid) /\ Len(session.arrived) \in Nat
      /\ DOMAIN session.arrived = 1..Len(session.arrived)
  BY LenProperties DEF TypeOK, SessionRecord
<1>2. NextConn = Len(session.arrived) + 1 /\ NextConn \in Conn
  BY NextConnType DEF NextConn
<1>3. NextConn \notin DOMAIN session.arrived BY <1>1, <1>2
<1>4. Len(session.replies[NextConn]) = 0 BY <1>2, <1>3 DEF AnsweredOnce, OneReplyEach
<1>5. session.replies[NextConn] \in Seq(Body) BY <1>2 DEF TypeOK, SessionRecord
<1>6. session.replies[NextConn] = << >> BY <1>4, <1>5, EmptySeq
<1>7. QED BY <1>2, <1>6 DEF MayArrive

(* The connection of a request that arrived is known.                      *)
LEMMA ArrivedConn ==
  ASSUME TypeOK, NEW rid \in Rid, NEW arrived, arrived = Append(session.arrived, rid)
  PROVE  NextConn \in DOMAIN arrived /\ arrived[NextConn] = rid
<1>1. session.arrived \in Seq(Rid) /\ Len(session.arrived) \in Nat
  BY LenProperties DEF TypeOK, SessionRecord
<1>2. /\ DOMAIN arrived = 1..(Len(session.arrived) + 1)
      /\ arrived[Len(session.arrived) + 1] = rid
  BY <1>1, AppendProperties, LenProperties
<1>3. QED BY <1>1, <1>2 DEF NextConn

(* Accept keeps the order.                                                 *)
LEMMA AcceptOrder ==
  ASSUME TypeOK, AnsweredOnce, MayArrive, OrderGood(session),
         NEW rid \in Rid, NEW attr \in Nat, NEW kind \in Queued
  PROVE  LET t == Accept(rid, attr, kind) IN
         /\ t \in SessionRecord /\ OrderGood(t)
         /\ NextConn \in Conn /\ NextConn \in DOMAIN t.arrived /\ t.arrived[NextConn] = rid
<1> DEFINE s == Arrive(session, rid)
           t == [s EXCEPT !.timeout = TRUE, !.queued_requests[rid] = kind]
<1>1. s \in SessionRecord /\ OrderGood(s)
  BY ArriveType, ArriveOrder, NextConnUnused DEF TypeOK
<1> HIDE DEF s
<1>2. [s.queued_requests EXCEPT ![rid] = kind] \in [Rid -> Queued]
  BY <1>1 DEF SessionRecord
<1>3. t \in SessionRecord BY <1>1, <1>2 DEF SessionRecord
<1>4. SameOrder(s, t) /\ t.pending_stanzas = s.pending_stanzas
  BY <1>1 DEF SessionRecord, SameOrder
<1>5. Accept(rid, attr, kind) = handle_acks(t, rid, attr) BY Zenon DEF Accept, s
<1> HIDE DEF t
<1>6. OrderGood(t) BY <1>1, <1>3, <1>4, SameOrderGood
<1>7. OrderGood(Accept(rid, attr, kind)) BY <1>3, <1>5, <1>6, HandleAcksOrder
<1>8. Accept(rid, attr, kind).arrived = Append(session.arrived, rid) BY AcceptKeeps
<1>9. QED BY <1>7, <1>8, ArrivedConn, AcceptType, NextConnType

(* The requests of an open session keep the order.                         *)
LEMMA RequestOrder ==
  ASSUME TypeOK, AnsweredOnce, OrderGood(session),
         NEW rid \in Rid, NEW attr \in Nat, NEW kind \in Kinds,
         Request(rid, attr, kind) \/ RepeatedRequest(rid, attr, kind)
  PROVE  OrderGood(session')
<1> DEFINE t == Accept(rid, attr, kind)
<1>1. kind \in Queued /\ MayArrive BY ClientAssumption DEF Queued, Request, RepeatedRequest
<1>2. /\ t \in SessionRecord /\ OrderGood(t)
      /\ NextConn \in Conn /\ NextConn \in DOMAIN t.arrived /\ t.arrived[NextConn] = rid
  BY <1>1, AcceptOrder
<1>3. CASE Request(rid, attr, kind)
  <2> DEFINE s == add_held_http_connection(t, rid, NextConn)
             p == process_requests(s)
  <2>1. session' = respond_to_extra_held(p) BY <1>3, Zenon DEF Request
  <2> HIDE DEF t
  <2>2. s \in SessionRecord /\ OrderGood(s) BY <1>2, AddHeldType, AddHeldOrder
  <2> HIDE DEF s
  <2>3. p \in SessionRecord /\ OrderGood(p) BY <2>2, ProcessRequestsType, ProcessRequestsOrder
  <2> HIDE DEF p
  <2>4. QED BY <2>1, <2>3, RespondToExtraOrder
<1>4. CASE RepeatedRequest(rid, attr, kind)
  <2> DEFINE told == handle_broken_connections(t, rid, NextConn)
             sent == send_pending_responses(told)
  <2>1. session' = respond_to_extra_held(sent) BY <1>4, Zenon DEF RepeatedRequest
  <2> HIDE DEF t
  <2>2. told \in SessionRecord /\ OrderGood(told) BY <1>2, HandleBrokenType, HandleBrokenOrder
  <2> HIDE DEF told
  <2>3. sent \in SessionRecord /\ OrderGood(sent) BY <2>2, SendPendingType, SendPendingOrder
  <2> HIDE DEF sent
  <2>4. QED BY <2>1, <2>3, RespondToExtraOrder
<1>5. QED BY <1>3, <1>4

(* So does a request for a stream that is gone.                            *)
LEMMA RequestForDeletedStreamOrder ==
  ASSUME TypeOK, AnsweredOnce, OrderGood(session), NEW rid \in Rid, NEW attr \in Nat,
         RequestForDeletedStream(rid, attr)
  PROVE  OrderGood(session')
<1> DEFINE t == Accept(rid, attr, "body")
           s == _send_immediate(t, NextConn, Bare("terminate"))
           p == process_requests(s)
<1>1. "body" \in Queued /\ MayArrive BY DEF Queued, RequestForDeletedStream
<1>2. /\ t \in SessionRecord /\ OrderGood(t)
      /\ NextConn \in Conn /\ NextConn \in DOMAIN t.arrived
  BY <1>1, AcceptOrder
<1>3. session' = respond_to_extra_held(p) BY Zenon DEF RequestForDeletedStream
<1> HIDE DEF t
<1>4. s \in SessionRecord /\ OrderGood(s)
  <2>1. Bare("terminate") \in Body /\ StanzasOf(Bare("terminate")) = {}
    BY BareType, BareStanzas DEF BodyKind
  <2> DEFINE body == Bare("terminate")
  <2> HIDE DEF body
  <2>2. OrderGood(_send_immediate(t, NextConn, body))
    BY <1>2, <2>1, SendImmediateOrder DEF body
  <2>3. s \in SessionRecord BY <1>2, <2>1, SendImmediateType
  <2>4. QED BY <2>2, <2>3 DEF body
<1> HIDE DEF s
<1>5. p \in SessionRecord /\ OrderGood(p) BY <1>4, ProcessRequestsType, ProcessRequestsOrder
<1> HIDE DEF p
<1>6. QED BY <1>3, <1>5, RespondToExtraOrder

(* A terminate body sent on a request that arrived, the session ended or   *)
(* not, keeps the order.                                                   *)
LEMMA TerminateOrder ==
  ASSUME NEW s \in SessionRecord, OrderGood(s), NEW c \in DOMAIN s.arrived
  PROVE  OrderGood(_send_immediate(s, c, Bare("terminate")))
<1> DEFINE body == Bare("terminate")
<1>1. body \in Body /\ StanzasOf(body) = {} BY BareType, BareStanzas DEF BodyKind
<1> HIDE DEF body
<1>2. OrderGood(_send_immediate(s, c, body)) BY <1>1, SendImmediateOrder
<1>3. QED BY <1>2 DEF body

(* Refused requests, and what ends a session.                              *)
LEMMA EndingOrder ==
  ASSUME TypeOK, AnsweredOnce, OrderGood(session),
         \/ (\E rid \in Rid, over \in BOOLEAN : InvalidRequest(rid, over)) \/ UnknownSession
         \/ OnTerminate \/ InactivityTimeout
  PROVE  OrderGood(session')
<1>1. session \in SessionRecord BY DEF TypeOK
<1>2. ASSUME NEW rid \in Rid, MayArrive
      PROVE  LET s == Arrive(session, rid) IN
             s \in SessionRecord /\ OrderGood(s) /\ NextConn \in DOMAIN s.arrived
  <2> DEFINE s == Arrive(session, rid)
  <2>1. s \in SessionRecord /\ OrderGood(s) BY <1>1, <1>2, ArriveType, ArriveOrder, NextConnUnused
  <2>2. s.arrived = Append(session.arrived, rid) BY <1>1 DEF Arrive, SessionRecord
  <2> HIDE DEF s
  <2>3. NextConn \in DOMAIN s.arrived BY <2>2, ArrivedConn
  <2>4. QED BY <2>1, <2>3 DEF s
<1>3. ASSUME NEW rid \in Rid, NEW over \in BOOLEAN, InvalidRequest(rid, over) PROVE OrderGood(session')
  <2> DEFINE s == Arrive(session, rid)
             e == end_session(s, "terminated")
  <2>1. session' = _send_immediate(e, NextConn, Bare("terminate")) /\ MayArrive
    BY <1>3, Zenon DEF InvalidRequest
  <2>2. s \in SessionRecord /\ OrderGood(s) /\ NextConn \in DOMAIN s.arrived BY <1>2, <2>1
  <2> HIDE DEF s
  <2>3. e \in SessionRecord /\ OrderGood(e) /\ e.arrived = s.arrived
    BY <2>2, EndSessionType, EndSessionOrder, EndSessionAnswers DEF Status, OnlySends
  <2> HIDE DEF e
  <2>4. QED BY <2>1, <2>2, <2>3, TerminateOrder
<1>4. CASE UnknownSession
  <2> DEFINE s == Arrive(session, InitRid)
  <2>1. session' = _send_immediate(s, NextConn, Bare("terminate")) /\ MayArrive
    BY <1>4, Zenon DEF UnknownSession
  <2>2. s \in SessionRecord /\ OrderGood(s) /\ NextConn \in DOMAIN s.arrived
    BY <1>2, <2>1, BoundsAssumption
  <2> HIDE DEF s
  <2>3. QED BY <2>1, <2>2, TerminateOrder
<1>5. CASE OnTerminate
  <2> DEFINE s == enqueue_bosh_response(session, "stream-terminate")
  <2>1. session' = end_session(s, "terminated") BY <1>5, Zenon DEF OnTerminate
  <2>2. s \in SessionRecord /\ OrderGood(s) BY <1>1, EnqueueBoshType, EnqueueBoshOrder
  <2> HIDE DEF s
  <2>3. QED BY <2>1, <2>2, EndSessionOrder DEF Status
<1>6. CASE InactivityTimeout
  <2> DEFINE s == Told(session)
  <2>1. session' = end_session(s, "expired") BY <1>6, Zenon DEF InactivityTimeout
  <2>2. s \in SessionRecord BY <1>1, ToldType DEF Told
  <2>3. SameOrder(session, s) /\ s.pending_stanzas = << >>
    BY <1>1 DEF Told, SameOrder, SessionRecord
  <2> HIDE DEF s
  <2>4. \A x \in Stanza : InPending(s, x) => InPending(session, x)
    <3>1. DOMAIN << >> = {} OBVIOUS
    <3>2. QED BY <2>3, <3>1 DEF InPending
  <2>5. OrderGood(s) BY <1>1, <2>2, <2>3, <2>4, SameOrderFades, FadesGood
  <2>6. QED BY <2>1, <2>2, <2>5, EndSessionOrder DEF Status
<1>7. QED BY <1>3, <1>4, <1>5, <1>6

(* A stanza of the XMPP server comes after all that were sent before.      *)
LEMMA EnqueueStanzaOrder ==
  ASSUME NEW s \in SessionRecord, OrderGood(s), s.stanza_no < MaxStanza
  PROVE  LET st == s.stanza_no + 1 IN
         OrderGood(enqueue_stanza([s EXCEPT !.stanza_no = st], st))
<1> DEFINE st == s.stanza_no + 1
           t == enqueue_stanza([s EXCEPT !.stanza_no = st], st)
<1>1. st \in Stanza /\ st \in Nat /\ s.stanza_no \in Nat
  BY BoundsAssumption DEF SessionRecord, Stanza
<1>2. /\ t.unacked_responses = s.unacked_responses /\ t.replies = s.replies
      /\ t.arrived = s.arrived /\ t.res = s.res /\ t.max_rid_sent = s.max_rid_sent
      /\ t.stanza_no = st /\ t.pending_stanzas = Append(s.pending_stanzas, st)
  BY DEF enqueue_stanza, try_sending, SessionRecord
<1> HIDE DEF st, t
<1>3. ASSUME NEW r \in Rid, NEW x PROVE On(t, r, x) <=> On(s, r, x)
  BY <1>2, Zenon DEF On, Cached, Answered, InReply
<1>4. ASSUME NEW x, InPending(t, x) PROVE InPending(s, x) \/ x = st
  <2>1. s.pending_stanzas \in Seq(Stanza) BY DEF SessionRecord
  <2>2. PICK i \in DOMAIN t.pending_stanzas : t.pending_stanzas[i] = x
    BY <1>4 DEF InPending
  <2>3. /\ Len(s.pending_stanzas) \in Nat
        /\ DOMAIN s.pending_stanzas = 1..Len(s.pending_stanzas)
        /\ DOMAIN t.pending_stanzas = 1..(Len(s.pending_stanzas) + 1)
    BY <1>1, <1>2, <2>1, LenProperties, AppendProperties
  <2>4. CASE i = Len(s.pending_stanzas) + 1
    BY <1>1, <1>2, <2>1, <2>2, <2>4, AppendProperties
  <2>5. CASE i # Len(s.pending_stanzas) + 1
    <3>1. i \in 1..Len(s.pending_stanzas) BY <2>2, <2>3, <2>5
    <3>2. t.pending_stanzas[i] = s.pending_stanzas[i]
      BY <1>1, <1>2, <2>1, <3>1, AppendProperties
    <3>3. QED BY <2>2, <2>3, <3>1, <3>2 DEF InPending
  <2>6. QED BY <2>4, <2>5
<1>5. Stanza \subseteq Nat BY DEF Stanza
<1>6. st = s.stanza_no + 1 BY DEF st
<1>7. Ordered(t) BY <1>3, Zenon DEF OrderGood, Ordered
<1>8. Bounded(t)
  <2>1. ASSUME NEW r \in Rid, NEW x \in Stanza, On(t, r, x)
        PROVE  x <= t.stanza_no /\ r <= t.max_rid_sent
    <3>1. x <= s.stanza_no /\ r <= s.max_rid_sent
      BY <1>3, <2>1 DEF OrderGood, Bounded
    <3>2. x \in Nat BY <1>5
    <3>3. x <= st BY <1>1, <1>6, <3>1, <3>2
    <3>4. QED BY <1>2, <3>1, <3>3
  <2>2. QED BY <2>1 DEF Bounded
<1>9. PendingLast(t)
  <2>1. ASSUME NEW y \in Stanza, InPending(t, y)
        PROVE  y <= t.stanza_no /\ \A r \in Rid : \A x \in Stanza : On(t, r, x) => x < y
    <3>1. y \in Nat BY <1>5
    <3>2. CASE InPending(s, y)
      <4>1. y <= s.stanza_no /\ \A r \in Rid : \A x \in Stanza : On(s, r, x) => x < y
        BY <3>2 DEF OrderGood, PendingLast
      <4>2. y <= st BY <1>1, <1>6, <3>1, <4>1
      <4>3. QED BY <1>2, <1>3, <4>1, <4>2
    <3>3. CASE y = st
      <4>1. ASSUME NEW r \in Rid, NEW x \in Stanza, On(t, r, x) PROVE x < y
        <5>1. x <= s.stanza_no BY <1>3, <4>1 DEF OrderGood, Bounded
        <5>2. x \in Nat BY <1>5
        <5>3. QED BY <1>1, <1>6, <3>3, <5>1, <5>2
      <4>2. QED BY <1>1, <1>2, <3>3, <4>1
    <3>4. QED BY <1>4, <2>1, <3>2, <3>3
  <2>2. QED BY <2>1 DEF PendingLast
<1>10. HeldAbove(t) BY <1>2, <1>3, Zenon DEF OrderGood, HeldAbove
<1>11. Sorted(t) BY <1>2, Zenon DEF OrderGood, Sorted
<1>12. ConnsAgree(t) BY <1>2, Zenon DEF OrderGood, ConnsAgree
<1>13. OrderGood(t) BY <1>2, <1>7, <1>8, <1>9, <1>10, <1>11, <1>12 DEF OrderGood
<1>14. QED BY <1>13 DEF t, st

(* Where the held responses are when one has been taken out.               *)
LEMMA RemoveHeldPlaces ==
  ASSUME NEW s \in SessionRecord, NEW i \in DOMAIN s.res
  PROVE  /\ i \in Nat /\ DOMAIN s.res \subseteq Nat
         /\ RemoveAt(s.res, i) \in Seq(Response)
         /\ DOMAIN RemoveAt(s.res, i) \subseteq Nat
         /\ \A j \in DOMAIN RemoveAt(s.res, i) :
              \E k \in DOMAIN s.res : /\ RemoveAt(s.res, i)[j] = s.res[k]
                                     /\ k \in {j, j + 1} /\ (k = j <=> j < i)
<1> DEFINE rest == RemoveAt(s.res, i)
           n == Len(s.res)
<1>1. s.res \in Seq(Response) /\ n \in Nat /\ DOMAIN s.res = 1..n
  BY ResponseFields, LenProperties
<1>2. i \in 1..n /\ i \in Nat BY <1>1
<1>3. /\ rest \in Seq(Response) /\ Len(rest) = n - 1
      /\ \A k \in 1..(n - 1) : /\ k < i => rest[k] = s.res[k]
                               /\ k >= i => rest[k] = s.res[k + 1]
  BY <1>1, RemoveAtElements
<1>4. DOMAIN rest = 1..(n - 1) BY <1>3, LenProperties
<1> HIDE DEF rest, n
<1>5. ASSUME NEW j \in DOMAIN rest
      PROVE  \E k \in DOMAIN s.res : rest[j] = s.res[k] /\ k \in {j, j + 1}
                                       /\ (k = j <=> j < i)
  <2>1. j \in 1..(n - 1) /\ j \in Nat BY <1>1, <1>4
  <2>2. CASE j < i
    <3>1. j \in DOMAIN s.res /\ rest[j] = s.res[j] BY <1>1, <1>3, <2>1, <2>2
    <3>2. QED BY <2>2, <3>1
  <2>3. CASE j >= i
    <3>1. j + 1 \in DOMAIN s.res /\ rest[j] = s.res[j + 1] BY <1>1, <1>3, <2>1, <2>3
    <3>2. ~(j < i) /\ j + 1 # j BY <1>2, <2>1, <2>3
    <3>3. QED BY <3>1, <3>2
  <2>4. QED BY <1>2, <2>1, <2>2, <2>3
<1>6. DOMAIN s.res \subseteq Nat /\ DOMAIN rest \subseteq Nat BY <1>1, <1>4
<1>7. QED BY <1>2, <1>3, <1>5, <1>6 DEF rest

(* A held response that is taken out of its place leaves the order.        *)
LEMMA RemoveHeldOrder ==
  ASSUME NEW s \in SessionRecord, NEW i \in DOMAIN s.res, OrderGood(s)
  PROVE  LET t == [s EXCEPT !.res = RemoveAt(s.res, i)] IN t \in SessionRecord /\ OrderGood(t)
<1> DEFINE rest == RemoveAt(s.res, i)
           t == [s EXCEPT !.res = rest]
<1>1. \A k \in DOMAIN s.res : s.res[k].rid \in Nat
  <2>1. s.res \in Seq(Response) /\ DOMAIN s.res = 1..Len(s.res)
    BY ResponseFields, LenProperties
  <2>2. \A k \in DOMAIN s.res : s.res[k] \in Response BY <2>1, ElementOfSeq
  <2>3. QED BY <2>2, NumberFields DEF Response
<1>2. /\ i \in Nat /\ DOMAIN s.res \subseteq Nat /\ DOMAIN rest \subseteq Nat
      /\ rest \in Seq(Response)
      /\ \A j \in DOMAIN rest :
           \E k \in DOMAIN s.res : rest[j] = s.res[k] /\ k \in {j, j + 1} /\ (k = j <=> j < i)
  BY RemoveHeldPlaces
<1> HIDE DEF rest
<1>3. t \in SessionRecord /\ t.res = rest BY <1>2 DEF SessionRecord
<1>4. /\ t.unacked_responses = s.unacked_responses /\ t.replies = s.replies
      /\ t.arrived = s.arrived /\ t.max_rid_sent = s.max_rid_sent
      /\ t.stanza_no = s.stanza_no /\ t.pending_stanzas = s.pending_stanzas
  BY DEF SessionRecord
<1> HIDE DEF t
<1>5. NothingNew(s, t) BY <1>4, Zenon DEF NothingNew, On, Cached, Answered, InReply
<1>6. FewerHeld(s, t) BY <1>2, <1>3 DEF FewerHeld
<1>7. Sorted(s) => Sorted(t)
  <2>1. ASSUME Sorted(s), NEW j \in DOMAIN rest, NEW k \in DOMAIN rest, j < k
        PROVE  rest[j].rid <= rest[k].rid
    <3>1. PICK p \in DOMAIN s.res : rest[j] = s.res[p] /\ p \in {j, j + 1} /\ (p = j <=> j < i)
      BY <1>2
    <3>2. PICK q \in DOMAIN s.res : rest[k] = s.res[q] /\ q \in {k, k + 1} /\ (q = k <=> k < i)
      BY <1>2
    <3>3. j \in Nat /\ k \in Nat /\ p \in Nat /\ q \in Nat BY <1>2
    <3>4. p < q BY <1>2, <2>1, <3>1, <3>2, <3>3
    <3>5. QED BY <2>1, <3>1, <3>2, <3>4 DEF Sorted
  <2>2. QED BY <1>3, <2>1 DEF Sorted
<1>8. \A x \in Stanza : InPending(t, x) => InPending(s, x) BY <1>4 DEF InPending
<1>9. s.max_rid_sent <= t.max_rid_sent BY <1>4, NumberFields
<1>10. Fades(s, t) BY <1>4, <1>5, <1>6, <1>7, <1>8, <1>9, Zenon DEF Fades
<1>11. OrderGood(t) BY <1>3, <1>10, FadesGood
<1>12. QED BY <1>3, <1>11 DEF t, rest

(* The events that end nothing keep the order.                             *)
LEMMA EventOrder ==
  ASSUME TypeOK, OrderGood(session),
         NextTick \/ (\E error \in BOOLEAN : OnResponse(error)) \/ RequestTimeout
  PROVE  OrderGood(session')
<1>1. session \in SessionRecord BY DEF TypeOK
<1>2. CASE NextTick
  <2> DEFINE s == [session EXCEPT !.has_next_tick = FALSE]
  <2>1. session' = send_pending_responses(s) BY <1>2, Zenon DEF NextTick
  <2>2. /\ s \in SessionRecord /\ SameOrder(session, s)
        /\ s.pending_stanzas = session.pending_stanzas
    BY <1>1 DEF SessionRecord, SameOrder
  <2> HIDE DEF s
  <2>3. OrderGood(s) BY <1>1, <2>2, SameOrderGood
  <2>4. QED BY <2>1, <2>2, <2>3, SendPendingOrder
<1>3. ASSUME NEW error \in BOOLEAN, OnResponse(error) PROVE OrderGood(session')
  <2> DEFINE st == session.stanza_no + 1
             fed == [session EXCEPT !.stanza_no = st]
             q == enqueue_stanza(fed, st)
  <2>1. /\ session' = IF error THEN enqueue_bosh_response(q, "stream-terminate") ELSE q
        /\ session.stanza_no < MaxStanza
    BY <1>3, Zenon DEF OnResponse
  <2>2. OrderGood(q) BY <1>1, <2>1, EnqueueStanzaOrder
  <2>3. st \in 0..MaxStanza /\ st \in Stanza
    BY <1>1, <2>1, BoundsAssumption DEF SessionRecord, Stanza
  <2> HIDE DEF st
  <2>4. fed \in SessionRecord BY <1>1, <2>3 DEF SessionRecord
  <2> HIDE DEF fed
  <2>5. q \in SessionRecord BY <2>3, <2>4, EnqueueStanzaType
  <2> HIDE DEF q
  <2>6. QED BY <2>1, <2>2, <2>5, EnqueueBoshOrder
<1>4. CASE RequestTimeout
  <2> DEFINE res == session.res
             s(i) == [session EXCEPT !.res = RemoveAt(res, i)]
  <2>1. PICK i \in DOMAIN res : session' = _send_no_requeue(s(i), res[i], Bare("empty"))
    BY <1>4, Zenon DEF RequestTimeout
  <2>2. res[i] \in Response
    <3>1. res \in Seq(Response) /\ DOMAIN res = 1..Len(res)
      BY <1>1, ResponseFields, LenProperties
    <3>2. QED BY <2>1, <3>1, ElementOfSeq
  <2>3. s(i) \in SessionRecord /\ OrderGood(s(i)) BY <1>1, <2>1, RemoveHeldOrder
  <2> HIDE DEF s
  <2>4. Fades(s(i), session') BY <2>1, <2>2, <2>3, SendNoRequeueFades DEF OrderGood
  <2>5. session' \in SessionRecord BY <2>1, <2>2, <2>3, SendNoRequeueType, BareType DEF BodyKind
  <2>6. QED BY <2>3, <2>4, <2>5, FadesGood
<1>5. QED BY <1>2, <1>3, <1>4

(* A new session has sent nothing yet.                                     *)
LEMMA NewSessionOrder ==
  ASSUME NEW h \in HoldAttrs, NEW a \in AckModes
  PROVE  NewSession(h, a) \in SessionRecord /\ OrderGood(NewSession(h, a))
<1> DEFINE fresh == [EmptySession EXCEPT !.status = "open", !.rid = InitRid,
                                !.max_rid_sent = InitRid - 1,
                                !.hold = clamp_hold(h), !.ack = a, !.timeout = TRUE]
           s == Arrive(fresh, InitRid)
<1>1. clamp_hold(h) \in 1..MaxBoshConnections
  BY ClientAssumption, OptionsAssumption DEF clamp_hold, Smaller
<1>2. InitRid \in Rid /\ InitRid \in 0..MaxRid /\ InitRid - 1 \in 0..MaxRid
  BY BoundsAssumption DEF Rid
<1>3. a \in BOOLEAN BY ClientAssumption
<1>4. fresh \in SessionRecord
  BY EmptyType, <1>1, <1>2, <1>3 DEF SessionRecord, Status
<1>5. /\ fresh.unacked_responses = [r \in Rid |-> NoBody] /\ fresh.arrived = << >>
      /\ fresh.replies = [c \in Conn |-> << >>] /\ fresh.res = << >>
      /\ fresh.pending_stanzas = << >>
  BY DEF EmptySession
<1>6. NewSession(h, a) = add_held_http_connection(s, InitRid, 1)
  BY Zenon DEF NewSession
<1> HIDE DEF fresh
<1>7. 1 \in Conn /\ 1 <= MaxConn BY BoundsAssumption DEF Conn
<1>8. DOMAIN << >> = {} /\ Len(<< >>) = 0 OBVIOUS
<1>9. \A r \in Rid : \A x : ~On(fresh, r, x)
  <2>1. \A r \in Rid : \A x : ~Cached(fresh, r, x) BY <1>5, BareStanzas DEF Cached
  <2>2. \A r \in Rid : \A x : ~Answered(fresh, r, x) BY <1>5, <1>8 DEF Answered
  <2>3. QED BY <2>1, <2>2 DEF On
<1>10. \A x : ~InPending(fresh, x) BY <1>5, <1>8 DEF InPending
<1>11. OrderGood(fresh)
  <2>1. DOMAIN fresh.res = {} /\ Len(fresh.arrived) = 0 BY <1>5, <1>8
  <2>2. Len(fresh.arrived) <= MaxConn BY <2>1, BoundsAssumption
  <2>3. QED BY <1>9, <1>10, <2>1, <2>2
          DEF OrderGood, Ordered, Bounded, PendingLast, HeldAbove, Sorted, ConnsAgree
<1>12. OrderGood(s)
  <2>1. Len(fresh.arrived) = 0 BY <1>5, <1>8
  <2>2. Len(fresh.arrived) + 1 = 1 BY <2>1
  <2>3. fresh.replies[1] = << >> BY <1>5, <1>7
  <2>4. QED BY <1>2, <1>4, <1>7, <1>11, <2>2, <2>3, ArriveOrder
<1>13. s \in SessionRecord /\ s.arrived = << InitRid >>
  <2>1. s.arrived = Append(<< >>, InitRid) BY <1>4, <1>5 DEF Arrive, SessionRecord
  <2>2. QED BY <1>2, <1>4, <2>1, ArriveType
<1> HIDE DEF s
<1>14. 1 \in DOMAIN s.arrived /\ s.arrived[1] = InitRid BY <1>13
<1>15. QED BY <1>2, <1>6, <1>7, <1>12, <1>13, <1>14, AddHeldOrder, AddHeldType

(* Creation keeps the order.                                               *)
LEMMA CreateOrder ==
  ASSUME NEW h \in HoldAttrs, NEW a \in AckModes, NEW kind,
         CreateSession(h, a, kind) \/ CreateRefused(h, a, kind)
  PROVE  OrderGood(session')
<1> DEFINE s == NewSession(h, a)
<1>1. s \in SessionRecord /\ OrderGood(s) BY NewSessionOrder
<1>2. InitRid \in Rid BY BoundsAssumption
<1>3. CASE CreateSession(h, a, kind)
  <2> DEFINE q == enqueue_bosh_response(s, "create")
             e == EmitNodes(q, InitRid, kind)
  <2>1. session' = respond_to_extra_held(e) BY <1>3, Zenon DEF CreateSession
  <2> HIDE DEF s
  <2>2. q \in SessionRecord /\ OrderGood(q) BY <1>1, EnqueueBoshType, EnqueueBoshOrder
  <2> HIDE DEF q
  <2>3. e \in SessionRecord /\ OrderGood(e) BY <1>2, <2>2, EmitNodesType, EmitNodesOrder
  <2> HIDE DEF e
  <2>4. QED BY <2>1, <2>3, RespondToExtraOrder
<1>4. CASE CreateRefused(h, a, kind)
  <2> DEFINE q == enqueue_bosh_response(s, "stream-terminate")
             e == end_session(q, "terminated")
  <2>1. session' = EmitNodes(e, InitRid, kind) BY <1>4, Zenon DEF CreateRefused
  <2> HIDE DEF s
  <2>2. q \in SessionRecord /\ OrderGood(q) BY <1>1, EnqueueBoshType, EnqueueBoshOrder
  <2> HIDE DEF q
  <2>3. e \in SessionRecord /\ OrderGood(e)
    BY <2>2, EndSessionType, EndSessionOrder DEF Status
  <2> HIDE DEF e
  <2>4. QED BY <1>2, <2>1, <2>3, EmitNodesOrder
<1>5. QED BY <1>3, <1>4

(* Every action keeps the order.                                           *)
LEMMA NextOrder ==
  ASSUME TypeOK, AnsweredOnce, OrderGood(session), Next
  PROVE  OrderGood(session')
<1>1. ASSUME NEW h \in HoldAttrs, NEW a \in AckModes, NEW kind,
             CreateSession(h, a, kind) \/ CreateRefused(h, a, kind)
      PROVE  OrderGood(session')
  BY <1>1, CreateOrder
<1>2. ASSUME NEW rid \in Rid, NEW attr \in (IF session.ack THEN Acks ELSE {0}),
             NEW kind \in Kinds,
             Request(rid, attr, kind) \/ RepeatedRequest(rid, attr, kind)
      PROVE  OrderGood(session')
  <2>1. attr \in Nat BY ClientAssumption
  <2>2. QED BY <1>2, <2>1, RequestOrder
<1>3. ASSUME NEW rid \in Rid, NEW attr \in (IF session.ack THEN Acks ELSE {0}),
             RequestForDeletedStream(rid, attr)
      PROVE  OrderGood(session')
  <2>1. attr \in Nat BY ClientAssumption
  <2>2. QED BY <1>3, <2>1, RequestForDeletedStreamOrder
<1>4. CASE \/ (\E rid \in Rid, over \in BOOLEAN : InvalidRequest(rid, over)) \/ UnknownSession
           \/ OnTerminate \/ InactivityTimeout
  BY <1>4, EndingOrder
<1>5. CASE NextTick \/ (\E error \in BOOLEAN : OnResponse(error)) \/ RequestTimeout
  BY <1>5, EventOrder
<1>6. QED BY <1>1, <1>2, <1>3, <1>4, <1>5, Zenon DEF Next

(* The inductive invariant of the order of stanzas.                        *)
OrderInv == OrderGood(session)

(* It is one: AnsweredOnce says that a new connection has had no reply.    *)
LEMMA OrderInvariant == Spec => []OrderInv
<1>1. Init => OrderInv
  <2> SUFFICES ASSUME Init PROVE OrderInv OBVIOUS
  <2>1. /\ session.unacked_responses = [r \in Rid |-> NoBody] /\ session.arrived = << >>
        /\ session.res = << >> /\ session.pending_stanzas = << >>
    BY DEF Init, EmptySession
  <2>2. DOMAIN << >> = {} /\ Len(<< >>) = 0 OBVIOUS
  <2>3. \A r \in Rid : \A x : ~On(session, r, x)
    BY <2>1, <2>2, BareStanzas DEF On, Cached, Answered
  <2>4. \A x : ~InPending(session, x) BY <2>1, <2>2 DEF InPending
  <2>5. DOMAIN session.res = {} /\ Len(session.arrived) <= MaxConn
    BY <2>1, <2>2, BoundsAssumption
  <2>6. QED BY <2>3, <2>4, <2>5
          DEF OrderInv, OrderGood, Ordered, Bounded, PendingLast, HeldAbove, Sorted, ConnsAgree
<1>2. TypeOK /\ AnsweredOnce /\ OrderInv /\ [Next]_session => OrderInv'
  <2>1. CASE Next BY <2>1, NextOrder DEF OrderInv
  <2>2. CASE UNCHANGED session BY <2>2 DEF OrderInv
  <2>3. QED BY <2>1, <2>2
<1>3. QED BY <1>1, <1>2, TypeCorrect, AnswersOnce, PTL DEF Spec

(* A client that orders what it gets by rid sees the stanzas in the order  *)
(* of the XMPP server: whatever is held, overtaken, repeated, timed out or *)
(* resent from the cache, a reply to a lower rid only has lower stanzas.   *)
THEOREM StanzasAreInOrder == Spec => []StanzaOrder
<1>1. TypeOK /\ OrderInv => StanzaOrder
  <2> SUFFICES ASSUME TypeOK, OrderInv,
                      NEW c \in DOMAIN session.arrived, NEW d \in DOMAIN session.arrived,
                      session.arrived[c] < session.arrived[d],
                      NEW i \in DOMAIN session.replies[c], NEW j \in DOMAIN session.replies[d],
                      NEW x \in StanzasOf(session.replies[c][i]),
                      NEW y \in StanzasOf(session.replies[d][j])
               PROVE  x < y
    BY Zenon DEF StanzaOrder
  <2>1. /\ session.arrived \in Seq(Rid) /\ Len(session.arrived) \in Nat
        /\ DOMAIN session.arrived = 1..Len(session.arrived)
        /\ Len(session.arrived) <= MaxConn
    BY LenProperties DEF TypeOK, SessionRecord, OrderInv, OrderGood
  <2>2. c \in Conn /\ d \in Conn BY <2>1, BoundsAssumption DEF Conn
  <2>3. session.arrived[c] \in Rid /\ session.arrived[d] \in Rid BY <2>1, ElementOfSeq
  <2>4. x \in Stanza /\ y \in Stanza
    <3>1. /\ session.replies[c] \in Seq(Body) /\ session.replies[d] \in Seq(Body)
      BY <2>2 DEF TypeOK, SessionRecord
    <3>2. session.replies[c][i] \in Body /\ session.replies[d][j] \in Body
      BY <3>1, ElementOfSeq, LenProperties
    <3>3. QED BY <3>2, StanzasOfType
  <2>5. On(session, session.arrived[c], x) /\ On(session, session.arrived[d], y)
    BY DEF On, Answered, InReply
  <2>6. QED BY <2>3, <2>4, <2>5 DEF OrderInv, OrderGood, Ordered
<1>2. QED BY <1>1, OrderInvariant, TypeCorrect, PTL

-----------------------------------------------------------------------------
(* No stanza is lost: what was sent and is not acknowledged stays in the   *)
(* cache.  A reply is overwritten in the cache when another goes out for   *)
(* its rid, so no rid is held twice, and none that has a cached stanza.    *)

Held(s, r) == \E i \in DOMAIN s.res : s.res[i].rid = r
AnyCached(s, x) == \E r \in Rid : Cached(s, r, x)
Carried(s, x) == AnyCached(s, x) \/ InPending(s, x)

Distinct(s) == \A i, j \in DOMAIN s.res : s.res[i].rid = s.res[j].rid => i = j
Clear(s) == \A r \in Rid : Held(s, r) => \A x : ~Cached(s, r, x)
Account(s) ==
  \A x \in 1..s.stanza_no : Carried(s, x) \/ x \in s.acknowledged \/ x \in s.trimmed
Fresh(s) ==
  \A r \in Rid : r > s.rid /\ s.queued_requests[r] = "none" =>
    ~Held(s, r) /\ \A x : ~Cached(s, r, x)
Reported(s) ==
  \A x \in 1..s.stanza_no : x \in s.acknowledged \/ x \in s.trimmed \/ x \in s.no_client

(* The cache is safe where no client repeats a request that waits for a    *)
(* lower rid.                                                              *)
Kept(s) ==
  /\ Distinct(s) /\ Clear(s)
  /\ s.status = "open" => Account(s) /\ Fresh(s)
  /\ s.status = "expired" => Reported(s)

(* What is acknowledged is carried no more, and what is over is over.      *)
Settled(s) ==
  /\ s.status # "open" => s.res = << >> /\ s.timeout = FALSE
  /\ s.status # "expired" => s.no_client = {}
  /\ \A x \in s.acknowledged : x <= s.stanza_no /\ ~Carried(s, x)
  /\ \A x \in s.acknowledged : x \notin s.no_client
  /\ ~RepeatsAhead => Kept(s)

(* A step that sends what is pending at most, and loses nothing of it      *)
(* where the cache is safe.                                                *)
Spares(s, t) ==
  /\ Distinct(t) /\ Clear(t)
  /\ \A x : Carried(s, x) => Carried(t, x)
  /\ \A r \in Rid : \A x : Cached(t, r, x) => Cached(s, r, x) \/ Held(s, r)

Settles(s, t) ==
  /\ t.status = s.status /\ t.timeout = s.timeout /\ t.rid = s.rid
  /\ t.queued_requests = s.queued_requests /\ t.stanza_no = s.stanza_no
  /\ t.acknowledged = s.acknowledged /\ t.trimmed = s.trimmed /\ t.no_client = s.no_client
  /\ FewerHeld(s, t)
  /\ \A x : Carried(t, x) => Carried(s, x)
  /\ ~RepeatsAhead /\ Distinct(s) /\ Clear(s) => Spares(s, t)

(* What holds no response holds nothing after a step that adds none.       *)
LEMMA NoneHeld ==
  ASSUME NEW s \in SessionRecord, NEW t \in SessionRecord, FewerHeld(s, t), s.res = << >>
  PROVE  t.res = << >>
<1>1. DOMAIN s.res = {} OBVIOUS
<1>2. DOMAIN t.res = {} BY <1>1 DEF FewerHeld
<1>3. t.res \in Seq(Response) /\ Len(t.res) \in Nat /\ DOMAIN t.res = 1..Len(t.res)
  BY ResponseFields, LenProperties
<1>4. ASSUME Len(t.res) # 0 PROVE FALSE
  <2>1. 1 \in 1..Len(t.res) BY <1>3, <1>4
  <2>2. QED BY <1>2, <1>3, <2>1
<1>5. QED BY <1>3, <1>4, EmptySeq

(* Such a step keeps what is settled.                                      *)
LEMMA SettlesSettled ==
  ASSUME NEW s \in SessionRecord, NEW t \in SessionRecord, Settles(s, t), Settled(s)
  PROVE  Settled(t)
<1>1. t.status # "open" => t.res = << >> /\ t.timeout = FALSE
  BY NoneHeld DEF Settles, Settled
<1>2. t.status # "expired" => t.no_client = {} BY DEF Settles, Settled
<1>3. \A x \in t.acknowledged : x <= t.stanza_no /\ ~Carried(t, x)
  BY Zenon DEF Settles, Settled
<1>4. \A x \in t.acknowledged : x \notin t.no_client BY Zenon DEF Settles, Settled
<1>5. ASSUME ~RepeatsAhead PROVE Kept(t)
  <2>1. Kept(s) BY <1>5 DEF Settled
  <2>2. Spares(s, t) BY <1>5, <2>1 DEF Settles, Kept
  <2>3. Account(s) => Account(t) BY <2>2, Zenon DEF Settles, Spares, Account
  <2>4. ASSUME NEW r \in Rid, Held(t, r) PROVE Held(s, r)
    BY <2>4, Zenon DEF Settles, FewerHeld, Held
  <2>5. ASSUME Fresh(s) PROVE Fresh(t)
    <3>1. t.rid = s.rid /\ t.queued_requests = s.queued_requests BY DEF Settles
    <3>2. ASSUME NEW r \in Rid, r > t.rid, t.queued_requests[r] = "none"
          PROVE  ~Held(t, r) /\ \A x : ~Cached(t, r, x)
      <4>1. ~Held(s, r) /\ \A x : ~Cached(s, r, x) BY <2>5, <3>1, <3>2 DEF Fresh
      <4>2. QED BY <2>2, <2>4, <4>1 DEF Spares
    <3>3. QED BY <3>2 DEF Fresh
  <2>6. Reported(s) => Reported(t) BY Zenon DEF Settles, Reported
  <2>7. t.status = s.status BY DEF Settles
  <2>8. QED BY <2>1, <2>2, <2>3, <2>5, <2>6, <2>7 DEF Kept, Spares
<1>6. QED BY <1>1, <1>2, <1>3, <1>4, <1>5 DEF Settled

(* A record that differs in other fields says the same.                    *)
SameCarried(s, t) ==
  /\ t.unacked_responses = s.unacked_responses /\ t.pending_stanzas = s.pending_stanzas
  /\ t.res = s.res

SameSettled(s, t) ==
  /\ t.status = s.status /\ t.timeout = s.timeout /\ t.rid = s.rid
  /\ t.queued_requests = s.queued_requests /\ t.stanza_no = s.stanza_no
  /\ t.acknowledged = s.acknowledged /\ t.trimmed = s.trimmed /\ t.no_client = s.no_client

(* It carries the same, on the same rids.                                  *)
LEMMA CarriedAlike ==
  ASSUME NEW s, NEW t, SameCarried(s, t)
  PROVE  /\ \A r, x : Cached(t, r, x) <=> Cached(s, r, x)
         /\ \A x : Carried(t, x) <=> Carried(s, x)
         /\ \A r : Held(t, r) <=> Held(s, r)
         /\ Distinct(t) <=> Distinct(s)
         /\ Clear(t) <=> Clear(s)
         /\ FewerHeld(s, t)
<1>1. \A r, x : Cached(t, r, x) <=> Cached(s, r, x) BY Zenon DEF SameCarried, Cached
<1>2. \A x : Carried(t, x) <=> Carried(s, x)
  BY Zenon DEF SameCarried, Carried, AnyCached, InPending, Cached
<1>3. \A r : Held(t, r) <=> Held(s, r) BY Zenon DEF SameCarried, Held
<1>4. Distinct(t) <=> Distinct(s) BY Zenon DEF SameCarried, Distinct
<1>5. Clear(t) <=> Clear(s) BY <1>1, <1>3, Zenon DEF Clear
<1>6. FewerHeld(s, t) BY Zenon DEF SameCarried, FewerHeld
<1>7. QED BY <1>1, <1>2, <1>3, <1>4, <1>5, <1>6

(* So it is settled if the other is.                                       *)
LEMMA SameIsSettled ==
  ASSUME NEW s \in SessionRecord, NEW t \in SessionRecord,
         SameCarried(s, t), SameSettled(s, t), Settled(s)
  PROVE  Settled(t)
<1>1. Settles(s, t) BY CarriedAlike, Zenon DEF SameSettled, Settles, Spares
<1>2. QED BY <1>1, SettlesSettled

(* SendOnFirst puts each body in the cache of its rid, if none is held     *)
(* twice.                                                                  *)
LEMMA SendOnFirstCaches ==
  ASSUME NEW s \in SessionRecord, NEW bodies \in Seq(Body), Len(bodies) <= Len(s.res),
         Distinct(s), NEW k \in 1..Len(bodies)
  PROVE  SendOnFirst(s, bodies).unacked_responses[s.res[k].rid] = bodies[k]
<1> DEFINE n == Len(bodies)
           last(r) == {i \in 1..n : s.res[i].rid = r
                                     /\ \A j \in (i + 1)..n : s.res[j].rid # r}
           u == [r \in Rid |-> IF last(r) = {} THEN s.unacked_responses[r]
                               ELSE bodies[CHOOSE i \in last(r) : TRUE]]
           t == SendOnFirst(s, bodies)
           rid == s.res[k].rid
<1>1. /\ n \in Nat /\ n <= Len(s.res) /\ Len(s.res) \in Nat
      /\ s.res \in Seq(Response) /\ DOMAIN s.res = 1..Len(s.res)
  BY ResponseFields, LenProperties
<1>2. n # 0 /\ k \in 1..n /\ k \in DOMAIN s.res BY <1>1
<1>3. rid \in Rid
  <2>1. s.res[k] \in Response BY <1>1, <1>2, ElementOfSeq
  <2>2. QED BY <2>1 DEF Response
<1>4. t.unacked_responses = u BY <1>2 DEF SendOnFirst, SessionRecord
<1> HIDE DEF n
<1>5. ASSUME NEW j \in 1..n, s.res[j].rid = rid PROVE j = k
  <2>1. j \in DOMAIN s.res BY <1>1
  <2>2. QED BY <1>2, <1>5, <2>1 DEF Distinct
<1>6. k \in last(rid)
  <2>1. ASSUME NEW j \in (k + 1)..n PROVE s.res[j].rid # rid
    <3>1. j \in 1..n /\ j # k BY <1>1, <1>2
    <3>2. QED BY <1>5, <3>1
  <2>2. QED BY <1>2, <2>1
<1>7. last(rid) = {k} BY <1>5, <1>6
<1> HIDE DEF rid, last, t
<1>8. u[rid] = bodies[k]
  <2>1. (CHOOSE i \in last(rid) : TRUE) = k BY <1>7
  <2>2. QED BY <1>3, <1>6, <2>1
<1> HIDE DEF u
<1>9. QED BY <1>4, <1>8 DEF t, rid

(* Sending on the first responses spares what is cached where a rid that   *)
(* is held has nothing in the cache.                                       *)
LEMMA SendOnFirstSpares ==
  ASSUME NEW s \in SessionRecord, NEW bodies \in Seq(Body), Len(bodies) <= Len(s.res),
         Distinct(s), Clear(s)
  PROVE  LET t == SendOnFirst(s, bodies) IN
         /\ Distinct(t) /\ Clear(t)
         /\ \A r \in Rid : \A x : Cached(s, r, x) => Cached(t, r, x)
         /\ \A r \in Rid : \A x : Cached(t, r, x) => Cached(s, r, x) \/ Held(s, r)
<1> DEFINE n == Len(bodies)
           t == SendOnFirst(s, bodies)
<1>1. /\ n \in Nat /\ n <= Len(s.res) /\ Len(s.res) \in Nat /\ DOMAIN s.res = 1..Len(s.res)
  BY ResponseFields, LenProperties
<1>2. /\ DOMAIN t.res = 1..(Len(s.res) - n)
      /\ \A j \in 1..(Len(s.res) - n) : t.res[j] = s.res[n + j]
  BY SendOnFirstHeld
<1>3. \A r \in Rid :
        \/ t.unacked_responses[r] = s.unacked_responses[r]
        \/ \E i \in 1..n : s.res[i].rid = r /\ t.unacked_responses[r] = bodies[i]
  BY SendOnFirstFields
<1> HIDE DEF t, n
<1>4. Distinct(t)
  <2>1. ASSUME NEW i \in DOMAIN t.res, NEW j \in DOMAIN t.res, t.res[i].rid = t.res[j].rid
        PROVE  i = j
    <3>1. n + i \in DOMAIN s.res /\ n + j \in DOMAIN s.res /\ i \in Nat /\ j \in Nat
      BY <1>1, <1>2
    <3>2. s.res[n + i].rid = s.res[n + j].rid BY <1>2, <2>1
    <3>3. n + i = n + j BY <3>1, <3>2 DEF Distinct
    <3>4. QED BY <1>1, <3>1, <3>3
  <2>2. QED BY <2>1 DEF Distinct
<1>5. ASSUME NEW r \in Rid, NEW j \in DOMAIN t.res, t.res[j].rid = r, NEW x
      PROVE  ~Cached(t, r, x)
  <2>1. n + j \in DOMAIN s.res /\ s.res[n + j].rid = r /\ j \in Nat /\ j > 0
    BY <1>1, <1>2, <1>5
  <2>2. ~Cached(s, r, x) BY <2>1 DEF Clear, Held
  <2>3. ASSUME NEW i \in 1..n PROVE s.res[i].rid # r
    <3>1. i \in DOMAIN s.res /\ i # n + j BY <1>1, <2>1
    <3>2. QED BY <2>1, <3>1 DEF Distinct
  <2>4. t.unacked_responses[r] = s.unacked_responses[r] BY <1>3, <2>3
  <2>5. QED BY <2>2, <2>4 DEF Cached
<1>6. Clear(t) BY <1>5 DEF Clear, Held
<1>7. ASSUME NEW r \in Rid, NEW x, Cached(s, r, x) PROVE Cached(t, r, x)
  <2>1. ~Held(s, r) BY <1>7 DEF Clear
  <2>2. \A i \in 1..n : s.res[i].rid # r BY <1>1, <2>1 DEF Held
  <2>3. QED BY <1>3, <1>7, <2>2 DEF Cached
<1>8. ASSUME NEW r \in Rid, NEW x, Cached(t, r, x) PROVE Cached(s, r, x) \/ Held(s, r)
  <2>1. CASE t.unacked_responses[r] = s.unacked_responses[r] BY <1>8, <2>1 DEF Cached
  <2>2. CASE \E i \in 1..n : s.res[i].rid = r BY <1>1, <2>2 DEF Held
  <2>3. QED BY <1>3, <2>1, <2>2
<1>9. QED BY <1>4, <1>6, <1>7, <1>8 DEF t

(* Sending bodies without stanzas settles.                                 *)
LEMMA SendQuietSettles ==
  ASSUME NEW s \in SessionRecord, NEW bodies \in Seq(Body), Len(bodies) <= Len(s.res),
         \A i \in 1..Len(bodies) : StanzasOf(bodies[i]) = {}
  PROVE  Settles(s, SendOnFirst(s, bodies))
<1> DEFINE t == SendOnFirst(s, bodies)
<1>1. /\ KeepsQueue(s, t) /\ t.status = s.status /\ t.pending_stanzas = s.pending_stanzas
      /\ FewerHeld(s, t)
  BY SendOnFirstKeeps, SendOnFirstHeld
<1>2. /\ t.stanza_no = s.stanza_no /\ t.acknowledged = s.acknowledged
      /\ t.trimmed = s.trimmed /\ t.no_client = s.no_client /\ t.timeout = s.timeout
      /\ \A r \in Rid :
           \/ t.unacked_responses[r] = s.unacked_responses[r]
           \/ \E i \in 1..Len(bodies) : s.res[i].rid = r /\ t.unacked_responses[r] = bodies[i]
  BY SendOnFirstFields
<1>3. t.queued_requests = s.queued_requests
  <2>1. CASE Len(bodies) = 0
    <3>1. t = s BY <2>1, Zenon DEF SendOnFirst
    <3>2. QED BY <3>1
  <2>2. CASE Len(bodies) # 0 BY <2>2 DEF SendOnFirst, SessionRecord
  <2>3. QED BY <2>1, <2>2
<1>4. Distinct(s) /\ Clear(s) =>
        /\ Distinct(t) /\ Clear(t)
        /\ \A r \in Rid : \A x : Cached(s, r, x) => Cached(t, r, x)
        /\ \A r \in Rid : \A x : Cached(t, r, x) => Cached(s, r, x) \/ Held(s, r)
  BY SendOnFirstSpares
<1> HIDE DEF t
<1>5. ASSUME NEW r \in Rid, NEW x, Cached(t, r, x) PROVE Cached(s, r, x)
  BY <1>2, <1>5 DEF Cached
<1>6. \A x : InPending(t, x) <=> InPending(s, x) BY <1>1 DEF InPending
<1>7. \A x : Carried(t, x) => Carried(s, x) BY <1>5, <1>6 DEF Carried, AnyCached
<1>8. Distinct(s) /\ Clear(s) => Spares(s, t)
  BY <1>4, <1>6 DEF Spares, Carried, AnyCached
<1>9. Settles(s, t) BY <1>1, <1>2, <1>3, <1>7, <1>8 DEF Settles, KeepsQueue
<1>10. QED BY <1>9 DEF t

(* respond_to_extra_held settles.                                          *)
LEMMA RespondToExtraSettles ==
  ASSUME NEW s \in SessionRecord, Settled(s)
  PROVE  Settled(respond_to_extra_held(s))
<1>1. Len(s.res) \in Nat /\ s.hold \in Nat BY ResponseFields, NumberFields
<1>2. CASE Len(s.res) <= s.hold
  <2>1. respond_to_extra_held(s) = s BY <1>2 DEF respond_to_extra_held
  <2>2. QED BY <2>1, Zenon
<1>3. CASE ~(Len(s.res) <= s.hold)
  <2> DEFINE k == Len(s.res) - s.hold
  <2>1. k \in Nat /\ k <= Len(s.res) BY <1>1, <1>3
  <2>2. Empties(k) \in Seq(Body) /\ Len(Empties(k)) = k BY <2>1, EmptiesType
  <2>3. \A i \in 1..k : StanzasOf(Empties(k)[i]) = {} BY <2>1, BareStanzas
  <2>4. respond_to_extra_held(s) = SendOnFirst(s, Empties(k))
    BY <1>3, Zenon DEF respond_to_extra_held
  <2> HIDE DEF k
  <2>5. SendOnFirst(s, Empties(k)) \in SessionRecord BY <2>1, <2>2, SendOnFirstType
  <2>6. Settles(s, SendOnFirst(s, Empties(k))) BY <2>1, <2>2, <2>3, SendQuietSettles
  <2>7. QED BY <2>4, <2>5, <2>6, SettlesSettled
<1>4. QED BY <1>2, <1>3

(* What is pending is carried after it was sent, in the cache.             *)
LEMMA SendPendingSettles ==
  ASSUME NEW s \in SessionRecord, Settled(s)
  PROVE  Settled(send_pending_responses(s))
<1> DEFINE n == Smaller(Len(s.res), Len(Stitched(s)))
           bodies == SubSeq(Stitched(s), 1, n)
           t == SendOnFirst(s, bodies)
           bosh == SubSeq(t.pending_bosh_responses, n + 1, Len(t.pending_bosh_responses))
           u == [t EXCEPT !.pending_stanzas = << >>, !.pending_bosh_responses = bosh]
<1>1. /\ n \in Nat /\ n <= Len(s.res) /\ n <= Len(Stitched(s))
      /\ Len(Stitched(s)) \in Nat /\ Stitched(s) \in Seq(Body) /\ Len(s.res) \in Nat
      /\ DOMAIN s.res = 1..Len(s.res) /\ s.res \in Seq(Response)
  BY ResponseFields, StitchedType, LenProperties DEF Smaller
<1>2. \A i \in 1..n : Stitched(s)[i] \in Body BY <1>1, ElementOfSeq
<1>3. /\ bodies \in Seq(Body) /\ Len(bodies) = n
      /\ \A i \in 1..n : bodies[i] = Stitched(s)[i]
  BY <1>1, <1>2, SubSeqProperties
<1>4. send_pending_responses(s) = IF n = 0 THEN s ELSE u
  BY Zenon DEF send_pending_responses
<1>5. CASE n = 0
  <2>1. send_pending_responses(s) = s BY <1>4, <1>5
  <2>2. QED BY <2>1, Zenon
<1>6. CASE n # 0
  <2> HIDE DEF bodies, n
  <2>1. /\ t \in SessionRecord
        /\ t.stanza_no = s.stanza_no /\ t.acknowledged = s.acknowledged
        /\ t.trimmed = s.trimmed /\ t.no_client = s.no_client /\ t.timeout = s.timeout
        /\ \A r \in Rid :
             \/ t.unacked_responses[r] = s.unacked_responses[r]
             \/ \E i \in 1..n : s.res[i].rid = r /\ t.unacked_responses[r] = bodies[i]
    BY <1>1, <1>3, SendOnFirstFields
  <2>2. t.rid = s.rid /\ t.status = s.status /\ FewerHeld(s, t)
    BY <1>1, <1>3, SendOnFirstKeeps, SendOnFirstHeld DEF KeepsQueue
  <2>3. t.queued_requests = s.queued_requests
    BY <1>3, <1>6 DEF SendOnFirst, SessionRecord
  <2>4. Distinct(s) /\ Clear(s) =>
          /\ Distinct(t) /\ Clear(t)
          /\ \A r \in Rid : \A x : Cached(s, r, x) => Cached(t, r, x)
          /\ \A r \in Rid : \A x : Cached(t, r, x) => Cached(s, r, x) \/ Held(s, r)
          /\ t.unacked_responses[s.res[1].rid] = bodies[1]
    BY <1>1, <1>3, <1>6, SendOnFirstSpares, SendOnFirstCaches
  <2>5. \A i \in 1..n : \A x :
          /\ x \in StanzasOf(bodies[i]) => i = 1 /\ InPending(s, x)
          /\ i = 1 /\ InPending(s, x) => x \in StanzasOf(bodies[i])
    <3>1. ASSUME NEW i \in 1..n PROVE i \in 1..Len(Stitched(s)) /\ bodies[i] = Stitched(s)[i]
      BY <1>1, <1>3
    <3>2. QED BY <3>1, StitchedStanzas
  <2>6. s.res[1].rid \in Rid
    <3>1. s.res[1] \in Response BY <1>1, <1>6, ElementOfSeq
    <3>2. QED BY <3>1 DEF Response
  <2>7. u \in SessionRecord BY <1>4, <1>6, SendPendingType
  <2> HIDE DEF t, bosh
  <2>8. /\ u.status = t.status /\ u.timeout = t.timeout /\ u.rid = t.rid
        /\ u.queued_requests = t.queued_requests /\ u.stanza_no = t.stanza_no
        /\ u.acknowledged = t.acknowledged /\ u.trimmed = t.trimmed
        /\ u.no_client = t.no_client /\ u.res = t.res
        /\ u.unacked_responses = t.unacked_responses /\ u.pending_stanzas = << >>
    BY <2>1 DEF SessionRecord
  <2> HIDE DEF u
  <2>9. \A r, x : Cached(u, r, x) <=> Cached(t, r, x) BY <2>8 DEF Cached
  <2>10. (Distinct(t) => Distinct(u)) /\ (Clear(t) => Clear(u))
    <3>1. \A r : Held(u, r) <=> Held(t, r) BY <2>8, Zenon DEF Held
    <3>2. Distinct(t) => Distinct(u) BY <2>8, Zenon DEF Distinct
    <3>3. QED BY <2>9, <3>1, <3>2 DEF Clear
  <2>11. \A x : Carried(u, x) => Carried(s, x)
    <3>1. ASSUME NEW r \in Rid, NEW x, Cached(t, r, x) PROVE Carried(s, x)
      <4>1. CASE t.unacked_responses[r] = s.unacked_responses[r]
        BY <3>1, <4>1 DEF Cached, Carried, AnyCached
      <4>2. CASE \E i \in 1..n : t.unacked_responses[r] = bodies[i]
        BY <2>5, <3>1, <4>2 DEF Cached, Carried
      <4>3. QED BY <2>1, <4>1, <4>2
    <3>2. \A x : ~InPending(u, x)
      <4>1. DOMAIN << >> = {} OBVIOUS
      <4>2. QED BY <2>8, <4>1 DEF InPending
    <3>3. QED BY <2>9, <3>1, <3>2 DEF Carried, AnyCached
  <2>12. ASSUME Distinct(s), Clear(s) PROVE Spares(s, u)
    <3>1. ASSUME NEW x, Carried(s, x) PROVE AnyCached(u, x)
      <4>1. CASE AnyCached(s, x) BY <2>4, <2>9, <2>12, <4>1 DEF AnyCached
      <4>2. CASE InPending(s, x)
        <5>1. 1 \in 1..n BY <1>1, <1>6
        <5>2. x \in StanzasOf(bodies[1]) BY <2>5, <4>2, <5>1
        <5>3. Cached(t, s.res[1].rid, x) BY <2>4, <2>12, <5>2 DEF Cached
        <5>4. QED BY <2>6, <2>9, <5>3 DEF AnyCached
      <4>3. QED BY <3>1, <4>1, <4>2 DEF Carried
    <3>2. QED BY <2>4, <2>9, <2>10, <2>12, <3>1 DEF Spares, Carried
  <2>13. FewerHeld(s, u) BY <2>2, <2>8 DEF FewerHeld
  <2>14. Settles(s, u) BY <2>1, <2>2, <2>3, <2>8, <2>11, <2>12, <2>13 DEF Settles
  <2>15. Settled(u) BY <2>7, <2>14, SettlesSettled
  <2>16. QED BY <1>4, <1>6, <2>15
<1>7. QED BY <1>5, <1>6

(* The end of a session: nothing is held, and what was carried is carried  *)
(* no more unless it is in the cache.                                      *)
LEMMA EndSessionSettles ==
  ASSUME NEW s \in SessionRecord, NEW why \in Status
  PROVE  LET t == end_session(s, why) IN
         /\ t \in SessionRecord
         /\ t.status = why /\ t.timeout = FALSE /\ t.res = << >>
         /\ t.stanza_no = s.stanza_no /\ t.acknowledged = s.acknowledged
         /\ t.trimmed = s.trimmed /\ t.no_client = s.no_client
         /\ \A x : Carried(t, x) => Carried(s, x)
<1> DEFINE gone == delete_stream(s)
           bodies == [i \in 1..Len(s.res) |->
                        IF i = 1 THEN Bare("terminate") ELSE Bare("empty")]
           t == SendOnFirst(gone, bodies)
           u == [t EXCEPT !.status = why, !.timeout = FALSE]
<1>1. Len(s.res) \in Nat BY ResponseFields
<1>2. bodies \in Seq(Body) /\ Len(bodies) = Len(s.res) BY <1>1, BareType DEF BodyKind
<1>3. \A i \in 1..Len(bodies) : StanzasOf(bodies[i]) = {} BY <1>1, <1>2, BareStanzas
<1>4. /\ gone \in SessionRecord /\ gone.pending_stanzas = << >> /\ gone.res = s.res
      /\ gone.unacked_responses = s.unacked_responses
      /\ gone.stanza_no = s.stanza_no /\ gone.acknowledged = s.acknowledged
      /\ gone.trimmed = s.trimmed /\ gone.no_client = s.no_client
  BY DeleteStreamType DEF delete_stream, SessionRecord
<1> HIDE DEF gone, bodies
<1>5. /\ t \in SessionRecord /\ Settles(gone, t)
      /\ DOMAIN t.res = 1..(Len(s.res) - Len(s.res))
  <2>1. Len(bodies) <= Len(gone.res) BY <1>1, <1>2, <1>4
  <2>2. t \in SessionRecord BY <1>2, <1>4, <2>1, SendOnFirstType
  <2>3. Settles(gone, t) BY <1>2, <1>3, <1>4, <2>1, SendQuietSettles
  <2>4. DOMAIN t.res = 1..(Len(gone.res) - Len(bodies))
    BY <1>2, <1>4, <2>1, SendOnFirstHeld
  <2>5. QED BY <1>2, <1>4, <2>2, <2>3, <2>4
<1>6. t.res = << >>
  <2>1. t.res \in Seq(Response) /\ Len(t.res) \in Nat /\ DOMAIN t.res = 1..Len(t.res)
    BY <1>5, ResponseFields, LenProperties
  <2>2. DOMAIN t.res = {} BY <1>1, <1>5
  <2>3. ASSUME Len(t.res) # 0 PROVE FALSE
    <3>1. 1 \in 1..Len(t.res) BY <2>1, <2>3
    <3>2. QED BY <2>1, <2>2, <3>1
  <2>4. QED BY <2>1, <2>3, EmptySeq
<1>7. end_session(s, why) = u BY Zenon DEF end_session, gone, bodies
<1> HIDE DEF t
<1>8. /\ u.status = why /\ u.timeout = FALSE /\ u.res = t.res
      /\ u.stanza_no = t.stanza_no /\ u.acknowledged = t.acknowledged
      /\ u.trimmed = t.trimmed /\ u.no_client = t.no_client
      /\ u.unacked_responses = t.unacked_responses
      /\ u.pending_stanzas = t.pending_stanzas
  BY <1>5 DEF SessionRecord
<1>9. u \in SessionRecord BY <1>7, EndSessionType
<1> HIDE DEF u
<1>10. ASSUME NEW x, Carried(u, x) PROVE Carried(s, x)
  <2>1. Carried(t, x) BY <1>8, <1>10 DEF Carried, AnyCached, Cached, InPending
  <2>2. Carried(gone, x) BY <1>5, <2>1 DEF Settles
  <2>3. ~InPending(gone, x)
    <3>1. DOMAIN << >> = {} OBVIOUS
    <3>2. QED BY <1>4, <3>1 DEF InPending
  <2>4. QED BY <1>4, <2>2, <2>3 DEF Carried, AnyCached, Cached
<1>11. QED BY <1>4, <1>5, <1>6, <1>7, <1>8, <1>9, <1>10 DEF Settles

(* handle_acks: what it takes out of the cache was on one rid only, and is *)
(* carried no more.                                                        *)
LEMMA HandleAcksSettles ==
  ASSUME NEW s \in SessionRecord, OrderGood(s), Settled(s), s.status = "open",
         NEW rid \in Rid, NEW attr \in Nat
  PROVE  /\ Settled(handle_acks(s, rid, attr))
         /\ \A r \in Rid : \A x : Cached(handle_acks(s, rid, attr), r, x) => Cached(s, r, x)
<1> DEFINE t == handle_acks(s, rid, attr)
<1>1. /\ t \in SessionRecord
      /\ \A r \in Rid : t.unacked_responses[r] \in {s.unacked_responses[r], NoBody}
      /\ \A x : x \in t.acknowledged =>
           \/ x \in s.acknowledged
           \/ \E r \in Rid : Cached(s, r, x) /\ t.unacked_responses[r] = NoBody
      /\ \A r \in Rid : \A x : Cached(s, r, x) =>
           Cached(t, r, x) \/ x \in t.acknowledged \/ x \in t.trimmed
      /\ s.acknowledged \subseteq t.acknowledged /\ s.trimmed \subseteq t.trimmed
  BY HandleAcksFields
<1>2. /\ t.res = s.res /\ t.stanza_no = s.stanza_no
      /\ t.pending_stanzas = s.pending_stanzas /\ t.status = "open"
      /\ t.no_client = s.no_client /\ t.rid = s.rid
      /\ t.queued_requests = s.queued_requests
  BY HandleAcksKeeps
<1> HIDE DEF t
<1>3. ASSUME NEW r \in Rid, NEW x, Cached(t, r, x)
      PROVE  Cached(s, r, x) /\ t.unacked_responses[r] # NoBody
  BY <1>1, <1>3, BareStanzas DEF Cached
<1>4. \A x : InPending(t, x) <=> InPending(s, x) BY <1>2 DEF InPending
<1>5. \A r : Held(t, r) <=> Held(s, r) BY <1>2, Zenon DEF Held
<1>6. ASSUME NEW x \in t.acknowledged PROVE x <= t.stanza_no /\ ~Carried(t, x)
  <2>1. CASE x \in s.acknowledged
    <3>1. x <= s.stanza_no /\ ~Carried(s, x) BY <2>1 DEF Settled
    <3>2. QED BY <1>2, <1>3, <1>4, <3>1 DEF Carried, AnyCached
  <2>2. CASE x \notin s.acknowledged
    <3>1. PICK r \in Rid : Cached(s, r, x) /\ t.unacked_responses[r] = NoBody
      BY <1>1, <2>2
    <3>2. x \in Stanza
      <4>1. s.unacked_responses[r] \in Body BY DEF SessionRecord
      <4>2. QED BY <3>1, <4>1, StanzasOfType DEF Cached
    <3>3. x \in Nat /\ r \in Nat BY <3>2, NumberFields DEF Stanza
    <3>4. x <= s.stanza_no BY <3>1, <3>2 DEF OrderGood, Bounded, On
    <3>5. ASSUME InPending(t, x) PROVE FALSE
      <4>1. x < x BY <1>4, <3>1, <3>2, <3>5 DEF OrderGood, PendingLast, On
      <4>2. QED BY <3>3, <4>1
    <3>6. ASSUME NEW q \in Rid, Cached(t, q, x) PROVE FALSE
      <4>1. Cached(s, q, x) /\ q # r BY <1>3, <3>1, <3>6
      <4>2. q < r \/ r < q BY <3>3, <4>1, NumberFields
      <4>3. x < x BY <3>1, <3>2, <4>1, <4>2 DEF OrderGood, Ordered, On
      <4>4. QED BY <3>3, <4>3
    <3>7. QED BY <1>2, <3>4, <3>5, <3>6 DEF Carried, AnyCached
  <2>3. QED BY <2>1, <2>2
<1>7. t.no_client = {} BY <1>2 DEF Settled
<1>8. ASSUME ~RepeatsAhead PROVE Kept(t)
  <2>1. Distinct(s) /\ Clear(s) /\ Account(s) /\ Fresh(s) BY <1>8 DEF Settled, Kept
  <2>2. Distinct(t) BY <1>2, <2>1, Zenon DEF Distinct
  <2>3. Clear(t) BY <1>3, <1>5, <2>1 DEF Clear
  <2>4. Fresh(t) BY <1>2, <1>3, <1>5, <2>1 DEF Fresh
  <2>5. Account(t)
    <3>1. ASSUME NEW x \in 1..t.stanza_no
          PROVE  Carried(t, x) \/ x \in t.acknowledged \/ x \in t.trimmed
      <4>1. Carried(s, x) \/ x \in s.acknowledged \/ x \in s.trimmed
        BY <1>2, <2>1, <3>1 DEF Account
      <4>2. CASE Carried(s, x) BY <1>1, <1>4, <4>2 DEF Carried, AnyCached
      <4>3. QED BY <1>1, <4>1, <4>2
    <3>2. QED BY <3>1 DEF Account
  <2>6. QED BY <1>2, <2>2, <2>3, <2>4, <2>5 DEF Kept
<1>9. Settled(t) BY <1>2, <1>6, <1>7, <1>8 DEF Settled
<1>10. QED BY <1>3, <1>9 DEF t

(* Accept settles; the rid is queued, and its cache has nothing new.       *)
LEMMA AcceptSettles ==
  ASSUME TypeOK, AnsweredOnce, MayArrive, OrderInv, Settled(session),
         session.status = "open", NEW rid \in Rid, NEW attr \in Nat,
         NEW kind \in Queued \ {"none"}
  PROVE  LET t == Accept(rid, attr, kind) IN
         /\ t \in SessionRecord /\ Settled(t)
         /\ t.status = "open" /\ t.rid = session.rid /\ t.res = session.res
         /\ t.queued_requests[rid] = kind
         /\ \A r \in Rid : \A x : Cached(t, r, x) => Cached(session, r, x)
<1> DEFINE s == Arrive(session, rid)
           t == [s EXCEPT !.timeout = TRUE, !.queued_requests[rid] = kind]
<1>1. s \in SessionRecord /\ OrderGood(s)
  BY ArriveType, ArriveOrder, NextConnUnused DEF TypeOK, OrderInv
<1>2. SameCarried(session, s) /\ SameSettled(session, s)
  BY DEF Arrive, SameCarried, SameSettled, TypeOK, SessionRecord
<1> HIDE DEF s
<1>3. [s.queued_requests EXCEPT ![rid] = kind] \in [Rid -> Queued]
  BY <1>1 DEF SessionRecord
<1>4. t \in SessionRecord BY <1>1, <1>3 DEF SessionRecord
<1>5. /\ SameOrder(s, t) /\ SameCarried(s, t)
      /\ t.status = s.status /\ t.rid = s.rid /\ t.stanza_no = s.stanza_no
      /\ t.acknowledged = s.acknowledged /\ t.trimmed = s.trimmed
      /\ t.no_client = s.no_client
      /\ t.queued_requests = [s.queued_requests EXCEPT ![rid] = kind]
  BY <1>1 DEF SessionRecord, SameOrder, SameCarried
<1>6. Accept(rid, attr, kind) = handle_acks(t, rid, attr) BY Zenon DEF Accept, s
<1> HIDE DEF t
<1>7. OrderGood(t) BY <1>1, <1>4, <1>5, SameOrderGood DEF SameCarried
<1>8. Settled(s) BY <1>1, <1>2, SameIsSettled DEF TypeOK
<1>9. t.status = "open" BY <1>2, <1>5 DEF SameSettled
<1>10. /\ \A r, x : Cached(t, r, x) <=> Cached(s, r, x)
       /\ \A x : Carried(t, x) <=> Carried(s, x)
       /\ \A r : Held(t, r) <=> Held(s, r)
       /\ Distinct(s) => Distinct(t)
       /\ Clear(s) => Clear(t)
  BY <1>5, CarriedAlike
<1>11. ASSUME ~RepeatsAhead PROVE Kept(t)
  <2>1. Distinct(s) /\ Clear(s) /\ Account(s) /\ Fresh(s)
    BY <1>5, <1>8, <1>9, <1>11 DEF Settled, Kept
  <2>2. Account(t) BY <1>5, <1>10, <2>1 DEF Account
  <2>3. Fresh(t)
    <3>1. ASSUME NEW r \in Rid, r > t.rid, t.queued_requests[r] = "none"
          PROVE  ~Held(t, r) /\ \A x : ~Cached(t, r, x)
      <4>1. s.queued_requests[r] = "none"
        <5>1. s.queued_requests \in [Rid -> Queued] BY <1>1 DEF SessionRecord
        <5>2. QED BY <1>5, <3>1, <5>1
      <4>2. QED BY <1>5, <1>10, <2>1, <3>1, <4>1 DEF Fresh
    <3>2. QED BY <3>1 DEF Fresh
  <2>4. QED BY <1>9, <1>10, <2>1, <2>2, <2>3 DEF Kept
<1>12. Settled(t) BY <1>5, <1>8, <1>9, <1>10, <1>11 DEF Settled
<1>13. t.queued_requests[rid] = kind
  <2>1. s.queued_requests \in [Rid -> Queued] BY <1>1 DEF SessionRecord
  <2>2. QED BY <1>5, <2>1
<1>14. /\ handle_acks(t, rid, attr) \in SessionRecord
       /\ Settled(handle_acks(t, rid, attr))
       /\ \A r \in Rid : \A x : Cached(handle_acks(t, rid, attr), r, x) => Cached(t, r, x)
  BY <1>4, <1>7, <1>9, <1>12, HandleAcksSettles, HandleAcksFields
<1>15. /\ handle_acks(t, rid, attr).status = t.status
       /\ handle_acks(t, rid, attr).rid = t.rid
       /\ handle_acks(t, rid, attr).res = t.res
       /\ handle_acks(t, rid, attr).queued_requests = t.queued_requests
  BY <1>4, HandleAcksKeeps
<1>16. \A r, x : Cached(s, r, x) <=> Cached(session, r, x) BY <1>2, CarriedAlike
<1>17. t.rid = session.rid /\ t.res = session.res
  BY <1>2, <1>5 DEF SameSettled, SameCarried
<1>18. QED BY <1>6, <1>9, <1>10, <1>13, <1>14, <1>15, <1>16, <1>17

(* An empty reply settles if the cache has no stanza for its rid.          *)
LEMMA SendNoRequeueSettles ==
  ASSUME NEW s \in SessionRecord, NEW ro \in Response,
         ~RepeatsAhead => \A x : ~Cached(s, ro.rid, x)
  PROVE  Settles(s, _send_no_requeue(s, ro, Bare("empty")))
<1> DEFINE t == _send_no_requeue(s, ro, Bare("empty"))
<1>1. /\ t.unacked_responses = [s.unacked_responses EXCEPT ![ro.rid] = Bare("empty")]
      /\ t.status = s.status /\ t.timeout = s.timeout /\ t.rid = s.rid
      /\ t.queued_requests = s.queued_requests /\ t.stanza_no = s.stanza_no
      /\ t.acknowledged = s.acknowledged /\ t.trimmed = s.trimmed
      /\ t.no_client = s.no_client /\ t.res = s.res
      /\ t.pending_stanzas = s.pending_stanzas
  BY DEF _send_no_requeue, SessionRecord
<1> HIDE DEF t
<1>2. \A r \in Rid : t.unacked_responses[r] = IF r = ro.rid THEN Bare("empty")
                                              ELSE s.unacked_responses[r]
  BY <1>1 DEF SessionRecord
<1>3. ASSUME NEW r \in Rid, NEW x, Cached(t, r, x) PROVE Cached(s, r, x)
  BY <1>2, <1>3, BareStanzas DEF Cached
<1>4. \A x : InPending(t, x) <=> InPending(s, x) BY <1>1 DEF InPending
<1>5. \A x : Carried(t, x) => Carried(s, x) BY <1>3, <1>4 DEF Carried, AnyCached
<1>6. FewerHeld(s, t) BY <1>1, Zenon DEF FewerHeld
<1>7. ASSUME ~RepeatsAhead, Distinct(s), Clear(s) PROVE Spares(s, t)
  <2>1. ASSUME NEW r \in Rid, NEW x, Cached(s, r, x) PROVE Cached(t, r, x)
    <3>1. r # ro.rid BY <1>7, <2>1
    <3>2. QED BY <1>2, <2>1, <3>1 DEF Cached
  <2>2. \A x : Carried(s, x) => Carried(t, x) BY <1>4, <2>1 DEF Carried, AnyCached
  <2>3. Distinct(t) BY <1>1, <1>7, Zenon DEF Distinct
  <2>4. \A r : Held(t, r) <=> Held(s, r) BY <1>1, Zenon DEF Held
  <2>5. Clear(t) BY <1>3, <1>7, <2>4 DEF Clear
  <2>6. QED BY <1>3, <2>2, <2>3, <2>5 DEF Spares
<1>8. Settles(s, t) BY <1>1, <1>5, <1>6, <1>7 DEF Settles
<1>9. QED BY <1>8 DEF t

(* A response that is held for a rid that had none, and nothing cached.    *)
LEMMA InsertDistinct ==
  ASSUME NEW s \in SessionRecord, NEW t \in SessionRecord, NEW ro \in Response, Distinct(s),
         ~Held(s, ro.rid), t.res = InsertByRid(s.res, ro)
  PROVE  Distinct(t) /\ \A r : Held(t, r) => Held(s, r) \/ r = ro.rid
<1> DEFINE put == InsertByRid(s.res, ro)
           n == Len(s.res)
<1>1. /\ s.res \in Seq(Response) /\ n \in Nat /\ DOMAIN s.res = 1..n
  BY ResponseFields, LenProperties
<1>2. DOMAIN put = 1..(n + 1) BY <1>1, InsertByRidElements, LenProperties
<1>3. PICK pos \in 1..(n + 1) :
        \A i \in 1..(n + 1) :
          /\ i < pos => put[i] = s.res[i]
          /\ i = pos => put[i] = ro
          /\ i > pos => put[i] = s.res[i - 1]
  BY <1>1, InsertByRidElements
<1> HIDE DEF put, n
<1>4. pos \in Nat BY <1>1
<1>5. ASSUME NEW i \in 1..(n + 1), i # pos
      PROVE  \E k \in 1..n : put[i] = s.res[k] /\ k \in {i, i - 1} /\ (k = i <=> i < pos)
  <2>1. i \in Nat BY <1>1
  <2>2. CASE i < pos
    <3>1. i \in 1..n /\ put[i] = s.res[i] BY <1>1, <1>3, <2>1, <2>2
    <3>2. QED BY <2>2, <3>1
  <2>3. CASE i > pos
    <3>1. i - 1 \in 1..n /\ put[i] = s.res[i - 1] /\ ~(i < pos) /\ i - 1 # i
      BY <1>1, <1>3, <1>4, <2>1, <2>3
    <3>2. QED BY <3>1
  <2>4. QED BY <1>4, <1>5, <2>1, <2>2, <2>3
<1>6. put[pos] = ro BY <1>3
<1>7. ASSUME NEW i \in 1..(n + 1), NEW j \in 1..(n + 1), put[i].rid = put[j].rid PROVE i = j
  <2>1. ASSUME NEW k \in 1..(n + 1), k # pos PROVE put[k].rid # ro.rid
    <3>1. PICK p \in 1..n : put[k] = s.res[p] BY <1>5, <2>1
    <3>2. QED BY <1>1, <3>1 DEF Held
  <2>2. CASE i = pos \/ j = pos BY <1>6, <1>7, <2>1, <2>2
  <2>3. CASE i # pos /\ j # pos
    <3>1. PICK p \in 1..n : put[i] = s.res[p] /\ p \in {i, i - 1} /\ (p = i <=> i < pos)
      BY <1>5, <2>3
    <3>2. PICK q \in 1..n : put[j] = s.res[q] /\ q \in {j, j - 1} /\ (q = j <=> j < pos)
      BY <1>5, <2>3
    <3>3. p = q BY <1>1, <1>7, <3>1, <3>2 DEF Distinct
    <3>4. i \in Nat /\ j \in Nat BY <1>1
    <3>5. QED BY <1>4, <2>3, <3>1, <3>2, <3>3, <3>4
  <2>4. QED BY <2>2, <2>3
<1>8. t.res = put BY DEF put
<1>9. Distinct(t) BY <1>2, <1>7, <1>8 DEF Distinct
<1>10. ASSUME NEW r, Held(t, r) PROVE Held(s, r) \/ r = ro.rid
  <2>1. PICK i \in 1..(n + 1) : put[i].rid = r BY <1>2, <1>8, <1>10 DEF Held
  <2>2. CASE i = pos BY <1>6, <2>1, <2>2
  <2>3. CASE i # pos
    <3>1. PICK k \in 1..n : put[i] = s.res[k] BY <1>5, <2>3
    <3>2. QED BY <1>1, <2>1, <3>1 DEF Held
  <2>4. QED BY <2>2, <2>3
<1>11. QED BY <1>9, <1>10

(* Holding the response of a request that is queued, or was processed,     *)
(* settles if neither a response nor a stanza is there for its rid.        *)
LEMMA AddHeldSettles ==
  ASSUME NEW s \in SessionRecord, Settled(s), s.status = "open", NEW rid \in Rid, NEW c \in Conn,
         s.queued_requests[rid] # "none" \/ ~(rid > s.rid),
         ~RepeatsAhead => ~Held(s, rid) /\ \A x : ~Cached(s, rid, x)
  PROVE  Settled(add_held_http_connection(s, rid, c))
<1> DEFINE ro == [rid |-> rid, conn |-> c]
           u == _send_no_requeue(s, ro, Bare("empty"))
           t == [s EXCEPT !.res = InsertByRid(s.res, ro)]
<1>1. ro \in Response /\ ro.rid = rid BY DEF Response
<1>2. add_held_http_connection(s, rid, c) = IF rid < s.max_rid_sent THEN u ELSE t
  BY Zenon DEF add_held_http_connection
<1>3. add_held_http_connection(s, rid, c) \in SessionRecord BY AddHeldType
<1> HIDE DEF ro
<1>4. CASE rid < s.max_rid_sent
  <2>1. u \in SessionRecord BY <1>2, <1>3, <1>4
  <2>2. Settles(s, u) BY <1>1, SendNoRequeueSettles
  <2>3. Settled(u) BY <2>1, <2>2, SettlesSettled
  <2>4. QED BY <1>2, <1>4, <2>3
<1>5. CASE ~(rid < s.max_rid_sent)
  <2>1. t \in SessionRecord BY <1>2, <1>3, <1>5
  <2>2. /\ t.res = InsertByRid(s.res, ro) /\ t.status = s.status /\ t.rid = s.rid
        /\ t.queued_requests = s.queued_requests /\ t.stanza_no = s.stanza_no
        /\ t.acknowledged = s.acknowledged /\ t.trimmed = s.trimmed
        /\ t.no_client = s.no_client /\ t.unacked_responses = s.unacked_responses
        /\ t.pending_stanzas = s.pending_stanzas
    BY DEF SessionRecord
  <2> HIDE DEF t
  <2>3. \A r, x : Cached(t, r, x) <=> Cached(s, r, x) BY <2>2, Zenon DEF Cached
  <2>4. \A x : Carried(t, x) <=> Carried(s, x)
    BY <2>2, <2>3, Zenon DEF Carried, AnyCached, InPending
  <2>5. ASSUME ~RepeatsAhead PROVE Kept(t)
    <3>1. Distinct(s) /\ Clear(s) /\ Account(s) /\ Fresh(s) BY <2>5 DEF Settled, Kept
    <3>2. Distinct(t) /\ \A r : Held(t, r) => Held(s, r) \/ r = rid
      BY <1>1, <2>1, <2>2, <2>5, <3>1, InsertDistinct
    <3>3. Clear(t) BY <2>3, <2>5, <3>1, <3>2 DEF Clear
    <3>4. Account(t) BY <2>2, <2>4, <3>1 DEF Account
    <3>5. Fresh(t) BY <2>2, <2>3, <3>1, <3>2 DEF Fresh
    <3>6. QED BY <2>2, <3>2, <3>3, <3>4, <3>5 DEF Kept
  <2>6. Settled(t) BY <2>2, <2>4, <2>5 DEF Settled
  <2>7. QED BY <1>2, <1>5, <2>6
<1>6. QED BY <1>4, <1>5

(* What changes neither the cache nor what is held settles.                *)
LEMMA QuietSettles ==
  ASSUME NEW s \in SessionRecord, Settled(s)
  PROVE  /\ \A c \in Conn : \A body \in Body : Settled(_send_immediate(s, c, body))
         /\ \A kind \in {"create", "stream-terminate"} : Settled(enqueue_bosh_response(s, kind))
         /\ \A rid \in Rid : \A kind : Settled(EmitNodes(s, rid, kind))
         /\ \A rid \in Rid : Settled(Arrive(s, rid))
         /\ Settled([s EXCEPT !.has_next_tick = FALSE])
<1>1. ASSUME NEW c \in Conn, NEW body \in Body PROVE Settled(_send_immediate(s, c, body))
  <2> DEFINE t == _send_immediate(s, c, body)
  <2>1. t \in SessionRecord BY SendImmediateType
  <2>2. SameCarried(s, t) /\ SameSettled(s, t)
    BY DEF _send_immediate, SameCarried, SameSettled, SessionRecord
  <2> HIDE DEF t
  <2>3. Settled(t) BY <2>1, <2>2, SameIsSettled
  <2>4. QED BY <2>3 DEF t
<1>2. ASSUME NEW kind \in {"create", "stream-terminate"}
      PROVE  Settled(enqueue_bosh_response(s, kind))
  <2> DEFINE t == enqueue_bosh_response(s, kind)
  <2>1. t \in SessionRecord BY EnqueueBoshType
  <2>2. SameCarried(s, t) /\ SameSettled(s, t)
    BY DEF enqueue_bosh_response, try_sending, SameCarried, SameSettled, SessionRecord
  <2> HIDE DEF t
  <2>3. Settled(t) BY <2>1, <2>2, SameIsSettled
  <2>4. QED BY <2>3 DEF t
<1>3. ASSUME NEW rid \in Rid, NEW kind PROVE Settled(EmitNodes(s, rid, kind))
  <2> DEFINE t == EmitNodes(s, rid, kind)
  <2>1. t \in SessionRecord BY EmitNodesType
  <2>2. SameCarried(s, t) /\ SameSettled(s, t)
    BY DEF EmitNodes, SameCarried, SameSettled, SessionRecord
  <2> HIDE DEF t
  <2>3. Settled(t) BY <2>1, <2>2, SameIsSettled
  <2>4. QED BY <2>3 DEF t
<1>4. ASSUME NEW rid \in Rid PROVE Settled(Arrive(s, rid))
  <2> DEFINE t == Arrive(s, rid)
  <2>1. t \in SessionRecord BY ArriveType
  <2>2. SameCarried(s, t) /\ SameSettled(s, t)
    BY DEF Arrive, SameCarried, SameSettled, SessionRecord
  <2> HIDE DEF t
  <2>3. Settled(t) BY <2>1, <2>2, SameIsSettled
  <2>4. QED BY <2>3 DEF t
<1>5. Settled([s EXCEPT !.has_next_tick = FALSE])
  <2> DEFINE t == [s EXCEPT !.has_next_tick = FALSE]
  <2>1. t \in SessionRecord /\ SameCarried(s, t) /\ SameSettled(s, t)
    BY DEF SameCarried, SameSettled, SessionRecord
  <2> HIDE DEF t
  <2>2. Settled(t) BY <2>1, SameIsSettled
  <2>3. QED BY <2>2 DEF t
<1>6. QED BY <1>1, <1>2, <1>3, <1>4, <1>5

(* A record that only differs in what was processed, its run taken.        *)
LEMMA TakenSettled ==
  ASSUME NEW s \in SessionRecord, NEW t \in SessionRecord, Settled(s), SameCarried(s, t),
         t.status = s.status, t.timeout = s.timeout, t.stanza_no = s.stanza_no,
         t.acknowledged = s.acknowledged, t.trimmed = s.trimmed, t.no_client = s.no_client,
         s.rid <= t.rid,
         \A r \in Rid : r > t.rid => t.queued_requests[r] = s.queued_requests[r]
  PROVE  Settled(t)
<1>1. /\ \A r, x : Cached(t, r, x) <=> Cached(s, r, x)
      /\ \A x : Carried(t, x) <=> Carried(s, x)
      /\ \A r : Held(t, r) <=> Held(s, r)
      /\ Distinct(s) => Distinct(t)
      /\ Clear(s) => Clear(t)
  BY CarriedAlike
<1>2. ASSUME ~RepeatsAhead PROVE Kept(t)
  <2>1. Kept(s) BY <1>2 DEF Settled
  <2>2. Account(s) => Account(t) BY <1>1, Zenon DEF Account
  <2>3. Reported(s) => Reported(t) BY Zenon DEF Reported
  <2>4. ASSUME Fresh(s) PROVE Fresh(t)
    <3>1. ASSUME NEW r \in Rid, r > t.rid, t.queued_requests[r] = "none"
          PROVE  ~Held(t, r) /\ \A x : ~Cached(t, r, x)
      <4>1. s.queued_requests[r] = "none" BY <3>1
      <4>2. r > s.rid BY <3>1, NumberFields
      <4>3. QED BY <1>1, <2>4, <4>1, <4>2 DEF Fresh
    <3>2. QED BY <3>1 DEF Fresh
  <2>5. QED BY <1>1, <2>1, <2>2, <2>3, <2>4 DEF Kept
<1>3. t.status # "open" => t.res = << >> /\ t.timeout = FALSE
  BY DEF Settled, SameCarried
<1>4. QED BY <1>1, <1>2, <1>3 DEF Settled

(* A repeated request settles.                                             *)
LEMMA HandleBrokenSettles ==
  ASSUME NEW s \in SessionRecord, Settled(s), NEW rid \in Rid, rid <= s.rid, NEW c \in Conn
  PROVE  Settled(handle_broken_connections(s, rid, c))
<1> DEFINE known == s.unacked_responses[rid]
           body == IF known # NoBody THEN known ELSE Bare("empty")
           t == [s EXCEPT !.queued_requests[rid] = "none"]
<1>1. body \in Body BY BareType DEF SessionRecord, BodyKind
<1>2. t \in SessionRecord
  <2>1. [s.queued_requests EXCEPT ![rid] = "none"] \in [Rid -> Queued]
    BY DEF SessionRecord, Queued
  <2>2. QED BY <2>1 DEF SessionRecord
<1>3. /\ SameCarried(s, t) /\ t.rid = s.rid
      /\ t.status = s.status /\ t.timeout = s.timeout /\ t.stanza_no = s.stanza_no
      /\ t.acknowledged = s.acknowledged /\ t.trimmed = s.trimmed /\ t.no_client = s.no_client
      /\ \A r \in Rid : r # rid => t.queued_requests[r] = s.queued_requests[r]
  BY DEF SessionRecord, SameCarried
<1>4. handle_broken_connections(s, rid, c) = _send_immediate(t, c, body)
  BY Zenon DEF handle_broken_connections
<1> HIDE DEF t, body
<1>5. \A r \in Rid : r > t.rid => r # rid BY <1>3, NumberFields
<1>6. s.rid <= t.rid BY <1>3, NumberFields
<1>7. Settled(t) BY <1>2, <1>3, <1>5, <1>6, TakenSettled
<1>8. QED BY <1>1, <1>2, <1>4, <1>7, QuietSettles

(* So does processing a run above the rid.                                 *)
LEMMA ProcessRunSettles ==
  ASSUME NEW s \in SessionRecord, NEW run \in SUBSET Rid, \A r \in run : r > s.rid, Settled(s)
  PROVE  Settled(ProcessRun(s, run))
<1> DEFINE top == Max(run)
           queue == [r \in Rid |-> IF r \in run THEN "none" ELSE s.queued_requests[r]]
           nodes == [r \in Rid |-> IF r \in run /\ s.queued_requests[r] = "data"
                                   THEN s.nodes[r] + 1 ELSE s.nodes[r]]
           t == [s EXCEPT !.rid = top, !.queued_requests = queue, !.nodes = nodes]
<1>1. ProcessRun(s, run) = IF run = {} THEN s ELSE send_pending_responses(t)
  BY Zenon DEF ProcessRun
<1>2. CASE run = {} BY <1>1, <1>2, Zenon
<1>3. CASE run # {}
  <2>1. queue \in [Rid -> Queued] BY DEF SessionRecord, Queued
  <2>2. nodes \in [Rid -> Nat] BY DEF SessionRecord
  <2>3. top \in run /\ top \in Rid /\ \A q \in run : q <= top BY <1>3, GreatestRid
  <2>4. \A r \in Rid : r \notin run => queue[r] = s.queued_requests[r] OBVIOUS
  <2> HIDE DEF top, queue, nodes
  <2>5. top \in 0..MaxRid BY <2>3, BoundsAssumption DEF Rid
  <2>6. t \in SessionRecord BY <2>1, <2>2, <2>5 DEF SessionRecord
  <2>7. /\ SameCarried(s, t) /\ t.rid = top /\ t.queued_requests = queue
        /\ t.status = s.status /\ t.timeout = s.timeout /\ t.stanza_no = s.stanza_no
        /\ t.acknowledged = s.acknowledged /\ t.trimmed = s.trimmed
        /\ t.no_client = s.no_client
    BY DEF SessionRecord, SameCarried
  <2> HIDE DEF t
  <2>8. ASSUME NEW r \in Rid, r > t.rid PROVE t.queued_requests[r] = s.queued_requests[r]
    <3>1. r \in Nat /\ top \in Nat BY <2>3, NumberFields
    <3>2. r \notin run BY <2>3, <2>7, <2>8, <3>1
    <3>3. QED BY <2>4, <2>7, <3>2
  <2>9. s.rid <= t.rid BY <2>3, <2>7, NumberFields
  <2>10. Settled(t) BY <2>6, <2>7, <2>8, <2>9, TakenSettled
  <2>11. Settled(send_pending_responses(t)) BY <2>6, <2>10, SendPendingSettles
  <2>12. QED BY <1>1, <1>3, <2>11
<1>4. QED BY <1>2, <1>3

(* A session that is terminated is settled if what was acknowledged was    *)
(* carried no more.                                                        *)
LEMMA TerminatedSettles ==
  ASSUME NEW s \in SessionRecord, s.no_client = {},
         \A x \in s.acknowledged : x <= s.stanza_no /\ ~Carried(s, x)
  PROVE  Settled(end_session(s, "terminated"))
<1> DEFINE t == end_session(s, "terminated")
<1>1. /\ t \in SessionRecord
      /\ t.status = "terminated" /\ t.timeout = FALSE /\ t.res = << >>
      /\ t.stanza_no = s.stanza_no /\ t.acknowledged = s.acknowledged
      /\ t.no_client = s.no_client
      /\ \A x : Carried(t, x) => Carried(s, x)
  BY EndSessionSettles DEF Status
<1> HIDE DEF t
<1>2. Kept(t)
  <2>1. DOMAIN t.res = {} BY <1>1
  <2>2. QED BY <1>1, <2>1 DEF Kept, Distinct, Clear, Held
<1>3. Settled(t) BY <1>1, <1>2 DEF Settled
<1>4. QED BY <1>3 DEF t

(* process_requests settles, whether it ends the session or not.           *)
LEMMA ProcessRequestsSettles ==
  ASSUME NEW s \in SessionRecord, Settled(s), s.status = "open"
  PROVE  Settled(process_requests(s))
<1> DEFINE run == Runnable(s)
           ends == {r \in run : s.queued_requests[r] = "terminate"}
           t == Min(ends)
           low == {r \in run : r < t}
           high == {r \in run : r > t}
           before == ProcessRun(s, low)
           taken == [before EXCEPT !.rid = t, !.queued_requests[t] = "none", !.nodes[t] = @ + 1]
           ended == end_session(taken, "terminated")
           after == ProcessRun(ended, high)
<1>1. run \in SUBSET Rid /\ \A r \in run : r > s.rid BY DEF Runnable
<1>2. process_requests(s) = IF ends = {} THEN ProcessRun(s, run) ELSE after
  BY Zenon DEF process_requests
<1>3. CASE ends = {} BY <1>1, <1>2, <1>3, ProcessRunSettles
<1>4. CASE ends # {}
  <2>1. t \in run BY <1>1, <1>4, LeastRid
  <2>2. /\ low \in SUBSET Rid /\ high \in SUBSET Rid /\ t \in Rid
        /\ \A r \in low : r > s.rid
        /\ \A r \in high : r > t
    BY <1>1, <2>1
  <2> HIDE DEF run, ends, t, low, high
  <2>3. before \in SessionRecord /\ Settled(before) /\ before.status = "open"
    BY <2>2, ProcessRunType, ProcessRunSettles, ProcessRunTakes
  <2> HIDE DEF before
  <2>4. taken \in SessionRecord BY <2>2, <2>3, TakenType
  <2>5. /\ SameCarried(before, taken) /\ taken.rid = t
        /\ taken.stanza_no = before.stanza_no /\ taken.acknowledged = before.acknowledged
        /\ taken.no_client = before.no_client
    BY <2>3 DEF SessionRecord, SameCarried
  <2> HIDE DEF taken
  <2>6. \A x : Carried(taken, x) <=> Carried(before, x) BY <2>5, CarriedAlike
  <2>7. /\ taken.no_client = {}
        /\ \A x \in taken.acknowledged : x <= taken.stanza_no /\ ~Carried(taken, x)
    BY <2>3, <2>5, <2>6 DEF Settled
  <2>8. /\ ended \in SessionRecord /\ Settled(ended) /\ KeepsQueue(taken, ended)
    BY <2>4, <2>7, EndSessionType, EndSessionKeeps, TerminatedSettles DEF Status
  <2> HIDE DEF ended
  <2>9. \A r \in high : r > ended.rid BY <2>2, <2>5, <2>8 DEF KeepsQueue
  <2>10. Settled(after) BY <2>2, <2>8, <2>9, ProcessRunSettles
  <2>11. QED BY <1>2, <1>4, <2>10
<1>5. QED BY <1>3, <1>4

(* The requests of an open session settle.                                 *)
LEMMA RequestSettles ==
  ASSUME TypeOK, AnsweredOnce, OrderInv, Settled(session),
         NEW rid \in Rid, NEW attr \in Nat, NEW kind \in Kinds,
         Request(rid, attr, kind) \/ RepeatedRequest(rid, attr, kind)
  PROVE  Settled(session')
<1> DEFINE t == Accept(rid, attr, kind)
<1>1. kind \in Queued \ {"none"} /\ MayArrive /\ session.status = "open"
  BY ClientAssumption DEF Queued, Request, RepeatedRequest
<1>2. /\ t \in SessionRecord /\ Settled(t)
      /\ t.status = "open" /\ t.rid = session.rid /\ t.res = session.res
      /\ t.queued_requests[rid] = kind
      /\ \A r \in Rid : \A x : Cached(t, r, x) => Cached(session, r, x)
  BY <1>1, AcceptSettles
<1>3. NextConn \in Conn BY <1>1, NextConnType
<1>4. CASE Request(rid, attr, kind)
  <2> DEFINE s == add_held_http_connection(t, rid, NextConn)
             p == process_requests(s)
  <2>1. /\ session' = respond_to_extra_held(p) /\ rid > session.rid
        /\ RepeatsAhead \/ session.queued_requests[rid] = "none"
    BY <1>4, Zenon DEF Request
  <2> HIDE DEF t
  <2>2. ASSUME ~RepeatsAhead PROVE ~Held(t, rid) /\ \A x : ~Cached(t, rid, x)
    <3>1. Fresh(session) BY <1>1, <2>2 DEF Settled, Kept
    <3>2. ~Held(session, rid) /\ \A x : ~Cached(session, rid, x)
      BY <2>1, <2>2, <3>1 DEF Fresh
    <3>3. QED BY <1>2, <3>2 DEF Held
  <2>3. t.queued_requests[rid] # "none" BY <1>1, <1>2
  <2>4. s \in SessionRecord /\ Settled(s) /\ s.status = "open"
    BY <1>2, <1>3, <2>2, <2>3, AddHeldType, AddHeldSettles, AddHeldKeeps
  <2> HIDE DEF s
  <2>5. p \in SessionRecord /\ Settled(p)
    BY <2>4, ProcessRequestsType, ProcessRequestsSettles
  <2> HIDE DEF p
  <2>6. QED BY <2>1, <2>5, RespondToExtraSettles
<1>5. CASE RepeatedRequest(rid, attr, kind)
  <2> DEFINE told == handle_broken_connections(t, rid, NextConn)
             sent == send_pending_responses(told)
  <2>1. session' = respond_to_extra_held(sent) /\ rid <= session.rid
    BY <1>5, Zenon DEF RepeatedRequest
  <2> HIDE DEF t
  <2>2. told \in SessionRecord /\ Settled(told)
    BY <1>2, <1>3, <2>1, HandleBrokenType, HandleBrokenSettles
  <2> HIDE DEF told
  <2>3. sent \in SessionRecord /\ Settled(sent) BY <2>2, SendPendingType, SendPendingSettles
  <2> HIDE DEF sent
  <2>4. QED BY <2>1, <2>3, RespondToExtraSettles
<1>6. QED BY <1>4, <1>5

(* So does a request for a stream that is gone.                            *)
LEMMA RequestForDeletedStreamSettles ==
  ASSUME TypeOK, AnsweredOnce, OrderInv, Settled(session),
         NEW rid \in Rid, NEW attr \in Nat, RequestForDeletedStream(rid, attr)
  PROVE  Settled(session')
<1> DEFINE t == Accept(rid, attr, "body")
           s == _send_immediate(t, NextConn, Bare("terminate"))
           p == process_requests(s)
<1>1. "body" \in Queued \ {"none"} /\ MayArrive /\ session.status = "open"
  BY DEF Queued, RequestForDeletedStream
<1>2. t \in SessionRecord /\ Settled(t) /\ t.status = "open" BY <1>1, AcceptSettles
<1>3. NextConn \in Conn BY <1>1, NextConnType
<1>4. session' = respond_to_extra_held(p) BY Zenon DEF RequestForDeletedStream
<1> HIDE DEF t
<1>5. s \in SessionRecord /\ Settled(s) /\ s.status = "open"
  <2>1. Bare("terminate") \in Body BY BareType DEF BodyKind
  <2>2. s.status = t.status BY <1>2 DEF _send_immediate, SessionRecord
  <2>3. s \in SessionRecord BY <1>2, <1>3, <2>1, SendImmediateType
  <2>4. Settled(s) BY <1>2, <1>3, <2>1, QuietSettles
  <2>5. QED BY <1>2, <2>2, <2>3, <2>4
<1> HIDE DEF s
<1>6. p \in SessionRecord /\ Settled(p) BY <1>5, ProcessRequestsType, ProcessRequestsSettles
<1> HIDE DEF p
<1>7. QED BY <1>4, <1>6, RespondToExtraSettles

(* What is told the server about is what is cached or pending.             *)
LEMMA ToldReports ==
  ASSUME NEW s \in SessionRecord
  PROVE  LET t == Told(s) IN
         /\ t \in SessionRecord
         /\ t.stanza_no = s.stanza_no /\ t.acknowledged = s.acknowledged
         /\ t.trimmed = s.trimmed
         /\ \A x : Carried(t, x) => Carried(s, x)
         /\ \A x : x \in t.no_client <=> x \in s.no_client \/ Carried(s, x)
<1> DEFINE told == UNION {StanzasOf(b) : b \in Unreported(s)}
           t == Told(s)
<1>1. t \in SessionRecord BY ToldType DEF Told
<1>2. /\ t.no_client = s.no_client \union told
      /\ t.stanza_no = s.stanza_no /\ t.acknowledged = s.acknowledged
      /\ t.trimmed = s.trimmed /\ t.unacked_responses = s.unacked_responses
      /\ t.pending_stanzas = << >>
  BY DEF Told, SessionRecord
<1> HIDE DEF t
<1>3. ASSUME NEW x, Carried(t, x) PROVE Carried(s, x)
  <2>1. ~InPending(t, x)
    <3>1. DOMAIN << >> = {} OBVIOUS
    <3>2. QED BY <1>2, <3>1 DEF InPending
  <2>2. QED BY <1>2, <1>3, <2>1 DEF Carried, AnyCached, Cached
<1>4. Stitched(s) \in Seq(Body) /\ Len(Stitched(s)) \in Nat BY StitchedType
<1>5. Stitched(s) # << >> => 1 \in 1..Len(Stitched(s))
  <2>1. Stitched(s) # << >> => Len(Stitched(s)) # 0 BY <1>4, EmptySeq
  <2>2. QED BY <1>4, <2>1
<1>6. ASSUME NEW x PROVE x \in told <=> Carried(s, x)
  <2>1. ASSUME x \in told PROVE Carried(s, x)
    <3>1. PICK b \in Unreported(s) : x \in StanzasOf(b) BY <2>1
    <3>2. CASE \E r \in UnackedRids(s) : b = s.unacked_responses[r]
      BY <3>1, <3>2 DEF UnackedRids, Carried, AnyCached, Cached
    <3>3. CASE Stitched(s) # << >> /\ b = Stitched(s)[1]
      <4>1. InPending(s, x) BY <1>5, <3>1, <3>3, StitchedStanzas
      <4>2. QED BY <4>1 DEF Carried
    <3>4. QED BY <3>1, <3>2, <3>3 DEF Unreported
  <2>2. ASSUME AnyCached(s, x) PROVE x \in told
    <3>1. PICK r \in Rid : x \in StanzasOf(s.unacked_responses[r])
      BY <2>2 DEF AnyCached, Cached
    <3>2. r \in UnackedRids(s) BY <3>1, BareStanzas DEF UnackedRids
    <3>3. s.unacked_responses[r] \in Unreported(s) BY <3>2 DEF Unreported
    <3>4. QED BY <3>1, <3>3
  <2>3. ASSUME InPending(s, x) PROVE x \in told
    <3>1. s.pending_stanzas # << >>
      <4>1. DOMAIN << >> = {} OBVIOUS
      <4>2. QED BY <2>3, <4>1 DEF InPending
    <3>2. Stitched(s) # << >>
      <4> DEFINE bosh == s.pending_bosh_responses
                 n == IF bosh # << >> THEN Len(bosh)
                      ELSE IF s.pending_stanzas # << >> THEN 1 ELSE 0
      <4>1. n \in Nat /\ n # 0
        <5>1. bosh \in Seq({"create", "stream-terminate"}) BY DEF SessionRecord
        <5>2. Len(bosh) \in Nat /\ (bosh # << >> => Len(bosh) # 0) BY <5>1, EmptySeq, LenProperties
        <5>3. QED BY <3>1, <5>2
      <4>2. Stitched(s) = [k \in 1..n |-> [kind |-> IF bosh # << >> THEN bosh[k] ELSE "data",
                                           stanzas |-> IF k = 1 THEN s.pending_stanzas ELSE << >>]]
        BY Zenon DEF Stitched
      <4> HIDE DEF n
      <4>3. DOMAIN Stitched(s) = 1..n BY <4>2
      <4>4. 1 \in DOMAIN Stitched(s) BY <4>1, <4>3
      <4>5. DOMAIN << >> = {} OBVIOUS
      <4>6. QED BY <4>4, <4>5
    <3>3. x \in StanzasOf(Stitched(s)[1]) BY <1>5, <2>3, <3>2, StitchedStanzas
    <3>4. Stitched(s)[1] \in Unreported(s) BY <3>2 DEF Unreported
    <3>5. QED BY <3>3, <3>4
  <2>4. QED BY <2>1, <2>2, <2>3 DEF Carried
<1> HIDE DEF told
<1>7. QED BY <1>1, <1>2, <1>3, <1>6 DEF t

(* Refused requests, and what ends a session, settle.                      *)
LEMMA EndingSettles ==
  ASSUME TypeOK, Settled(session),
         \/ (\E rid \in Rid, over \in BOOLEAN : InvalidRequest(rid, over)) \/ UnknownSession
         \/ OnTerminate \/ InactivityTimeout
  PROVE  Settled(session')
<1>1. session \in SessionRecord BY DEF TypeOK
<1>2. ASSUME NEW s \in SessionRecord, Settled(s), s.status = "open"
      PROVE  /\ end_session(s, "terminated") \in SessionRecord
             /\ Settled(end_session(s, "terminated"))
  BY <1>2, EndSessionType, TerminatedSettles DEF Settled, Status
<1>3. Bare("terminate") \in Body BY BareType DEF BodyKind
<1>4. ASSUME NEW rid \in Rid, NEW over \in BOOLEAN, InvalidRequest(rid, over) PROVE Settled(session')
  <2> DEFINE s == Arrive(session, rid)
             e == end_session(s, "terminated")
  <2>1. /\ session' = _send_immediate(e, NextConn, Bare("terminate")) /\ MayArrive
        /\ session.status = "open"
    BY <1>4, Zenon DEF InvalidRequest
  <2>2. s \in SessionRecord /\ Settled(s) BY <1>1, ArriveType, QuietSettles
  <2>3. s.status = "open" BY <1>1, <2>1 DEF Arrive, SessionRecord
  <2> HIDE DEF s
  <2>4. e \in SessionRecord /\ Settled(e) BY <1>2, <2>2, <2>3
  <2> HIDE DEF e
  <2>5. QED BY <1>3, <2>1, <2>4, NextConnType, QuietSettles
<1>5. CASE UnknownSession
  <2> DEFINE s == Arrive(session, InitRid)
  <2>1. session' = _send_immediate(s, NextConn, Bare("terminate")) /\ MayArrive
    BY <1>5, Zenon DEF UnknownSession
  <2>2. s \in SessionRecord /\ Settled(s) BY <1>1, BoundsAssumption, ArriveType, QuietSettles
  <2> HIDE DEF s
  <2>3. QED BY <1>3, <2>1, <2>2, NextConnType, QuietSettles
<1>6. CASE OnTerminate
  <2> DEFINE s == enqueue_bosh_response(session, "stream-terminate")
  <2>1. session' = end_session(s, "terminated") /\ session.status = "open"
    BY <1>6, Zenon DEF OnTerminate
  <2>2. s \in SessionRecord /\ Settled(s) BY <1>1, EnqueueBoshType, QuietSettles
  <2>3. s.status = "open"
    BY <1>1, <2>1 DEF enqueue_bosh_response, try_sending, SessionRecord
  <2> HIDE DEF s
  <2>4. QED BY <1>2, <2>1, <2>2, <2>3
<1>7. CASE InactivityTimeout
  <2> DEFINE s == Told(session)
             e == end_session(s, "expired")
  <2>1. session' = e /\ session.timeout BY <1>7, Zenon DEF InactivityTimeout
  <2>2. session.status = "open" /\ session.no_client = {} BY <2>1 DEF Settled
  <2>3. /\ s \in SessionRecord
        /\ s.stanza_no = session.stanza_no /\ s.acknowledged = session.acknowledged
        /\ s.trimmed = session.trimmed
        /\ \A x : Carried(s, x) => Carried(session, x)
        /\ \A x : x \in s.no_client <=> x \in session.no_client \/ Carried(session, x)
    BY <1>1, ToldReports
  <2> HIDE DEF s
  <2>4. /\ e.status = "expired" /\ e.timeout = FALSE /\ e.res = << >>
        /\ e.stanza_no = s.stanza_no /\ e.acknowledged = s.acknowledged
        /\ e.trimmed = s.trimmed /\ e.no_client = s.no_client
        /\ \A x : Carried(e, x) => Carried(s, x)
    BY <2>3, EndSessionSettles DEF Status
  <2> HIDE DEF e
  <2>5. \A x \in e.acknowledged : x <= e.stanza_no /\ ~Carried(e, x)
    BY <2>3, <2>4 DEF Settled
  <2>6. \A x \in e.acknowledged : x \notin e.no_client
    BY <2>2, <2>3, <2>4 DEF Settled
  <2>7. ASSUME ~RepeatsAhead PROVE Kept(e)
    <3>1. Account(session) BY <2>2, <2>7 DEF Settled, Kept
    <3>2. Reported(e) BY <2>3, <2>4, <3>1 DEF Account, Reported
    <3>3. DOMAIN e.res = {} BY <2>4
    <3>4. QED BY <2>4, <3>2, <3>3 DEF Kept, Distinct, Clear, Held
  <2>8. Settled(e) BY <2>4, <2>5, <2>6, <2>7 DEF Settled
  <2>9. QED BY <2>1, <2>8
<1>8. QED BY <1>4, <1>5, <1>6, <1>7

(* A response whose turn is over is taken out, and its rid has nothing in  *)
(* the cache.                                                              *)
LEMMA RemoveHeldSettles ==
  ASSUME NEW s \in SessionRecord, NEW i \in DOMAIN s.res, Settled(s)
  PROVE  LET t == [s EXCEPT !.res = RemoveAt(s.res, i)] IN
         /\ t \in SessionRecord /\ Settled(t)
         /\ s.res[i] \in Response
         /\ ~RepeatsAhead => \A x : ~Cached(t, s.res[i].rid, x)
<1> DEFINE rest == RemoveAt(s.res, i)
           t == [s EXCEPT !.res = rest]
<1>1. /\ i \in Nat /\ DOMAIN s.res \subseteq Nat /\ DOMAIN rest \subseteq Nat
      /\ rest \in Seq(Response)
      /\ \A j \in DOMAIN rest :
           \E k \in DOMAIN s.res : rest[j] = s.res[k] /\ k \in {j, j + 1} /\ (k = j <=> j < i)
  BY RemoveHeldPlaces
<1>2. s.res[i] \in Response
  <2>1. s.res \in Seq(Response) /\ DOMAIN s.res = 1..Len(s.res)
    BY ResponseFields, LenProperties
  <2>2. QED BY <2>1, ElementOfSeq
<1> HIDE DEF rest
<1>3. t \in SessionRecord /\ t.res = rest BY <1>1 DEF SessionRecord
<1>4. /\ t.status = s.status /\ t.timeout = s.timeout /\ t.rid = s.rid
      /\ t.queued_requests = s.queued_requests /\ t.stanza_no = s.stanza_no
      /\ t.acknowledged = s.acknowledged /\ t.trimmed = s.trimmed
      /\ t.no_client = s.no_client /\ t.unacked_responses = s.unacked_responses
      /\ t.pending_stanzas = s.pending_stanzas
  BY DEF SessionRecord
<1> HIDE DEF t
<1>5. FewerHeld(s, t) BY <1>1, <1>3 DEF FewerHeld
<1>6. \A r, x : Cached(t, r, x) <=> Cached(s, r, x) BY <1>4, Zenon DEF Cached
<1>7. \A x : Carried(t, x) <=> Carried(s, x)
  BY <1>4, <1>6, Zenon DEF Carried, AnyCached, InPending
<1>8. ASSUME Distinct(s) PROVE Distinct(t)
  <2>1. ASSUME NEW j \in DOMAIN rest, NEW k \in DOMAIN rest, rest[j].rid = rest[k].rid
        PROVE  j = k
    <3>1. PICK p \in DOMAIN s.res : rest[j] = s.res[p] /\ p \in {j, j + 1} /\ (p = j <=> j < i)
      BY <1>1
    <3>2. PICK q \in DOMAIN s.res : rest[k] = s.res[q] /\ q \in {k, k + 1} /\ (q = k <=> k < i)
      BY <1>1
    <3>3. j \in Nat /\ k \in Nat BY <1>1
    <3>4. p = q BY <1>8, <2>1, <3>1, <3>2 DEF Distinct
    <3>5. QED BY <1>1, <3>1, <3>2, <3>3, <3>4
  <2>2. QED BY <1>3, <2>1 DEF Distinct
<1>9. \A r : Held(t, r) => Held(s, r) BY <1>5, Zenon DEF FewerHeld, Held
<1>10. Clear(s) => Clear(t) BY <1>6, <1>9, Zenon DEF Clear
<1>11. Settles(s, t) BY <1>4, <1>5, <1>6, <1>7, <1>8, <1>10 DEF Settles, Spares
<1>12. Settled(t) BY <1>3, <1>11, SettlesSettled
<1>13. ASSUME ~RepeatsAhead, NEW x PROVE ~Cached(t, s.res[i].rid, x)
  <2>1. s.res[i].rid \in Rid /\ Held(s, s.res[i].rid) BY <1>2 DEF Held, Response
  <2>2. QED BY <1>6, <1>13, <2>1 DEF Settled, Kept, Clear
<1>14. QED BY <1>2, <1>3, <1>12, <1>13 DEF t, rest

(* A new stanza is pending.                                                *)
LEMMA EnqueueStanzaSettles ==
  ASSUME NEW s \in SessionRecord, Settled(s), s.status = "open", s.stanza_no < MaxStanza
  PROVE  LET st == s.stanza_no + 1
             t == enqueue_stanza([s EXCEPT !.stanza_no = st], st) IN
         t \in SessionRecord /\ Settled(t)
<1> DEFINE st == s.stanza_no + 1
           fed == [s EXCEPT !.stanza_no = st]
           t == enqueue_stanza(fed, st)
<1>1. /\ st \in Stanza /\ st \in 0..MaxStanza /\ st \in Nat /\ s.stanza_no \in Nat
      /\ s.pending_stanzas \in Seq(Stanza)
  BY BoundsAssumption DEF SessionRecord, Stanza
<1>2. /\ t.unacked_responses = s.unacked_responses /\ t.res = s.res
      /\ t.status = s.status /\ t.timeout = s.timeout /\ t.rid = s.rid
      /\ t.queued_requests = s.queued_requests
      /\ t.acknowledged = s.acknowledged /\ t.trimmed = s.trimmed
      /\ t.no_client = s.no_client
      /\ t.stanza_no = st /\ t.pending_stanzas = Append(s.pending_stanzas, st)
  BY DEF enqueue_stanza, try_sending, SessionRecord
<1>3. st = s.stanza_no + 1 OBVIOUS
<1> HIDE DEF st
<1>4. t \in SessionRecord
  <2>1. fed \in SessionRecord BY <1>1 DEF SessionRecord
  <2> HIDE DEF fed
  <2>2. QED BY <1>1, <2>1, EnqueueStanzaType
<1> HIDE DEF t
<1>5. \A x : InPending(t, x) <=> InPending(s, x) \/ x = st
  <2> DEFINE p == s.pending_stanzas
             n == Len(p)
  <2>1. /\ n \in Nat /\ DOMAIN p = 1..n
        /\ DOMAIN t.pending_stanzas = 1..(n + 1)
        /\ t.pending_stanzas[n + 1] = st
        /\ \A i \in 1..n : t.pending_stanzas[i] = p[i]
    BY <1>1, <1>2, LenProperties, AppendProperties
  <2> HIDE DEF n, p
  <2>2. \A i \in 1..(n + 1) : i \in 1..n \/ i = n + 1 BY <2>1
  <2>3. n + 1 \in 1..(n + 1) /\ \A i \in 1..n : i \in 1..(n + 1) BY <2>1
  <2>4. QED BY <2>1, <2>2, <2>3 DEF InPending, p
<1>6. \A r, x : Cached(t, r, x) <=> Cached(s, r, x) BY <1>2, Zenon DEF Cached
<1>7. \A x : Carried(t, x) <=> Carried(s, x) \/ x = st
  BY <1>5, <1>6 DEF Carried, AnyCached
<1>8. \A x \in t.acknowledged : x <= t.stanza_no /\ ~Carried(t, x)
  <2>1. ASSUME NEW x \in s.acknowledged PROVE x <= st /\ ~Carried(t, x)
    <3>1. x <= s.stanza_no /\ ~Carried(s, x) BY DEF Settled
    <3>2. x \in Stanza BY DEF SessionRecord
    <3>3. x \in Nat BY <3>2 DEF Stanza
    <3>4. x <= st /\ x # st BY <1>1, <1>3, <3>1, <3>3
    <3>5. QED BY <1>7, <3>1, <3>4
  <2>2. QED BY <1>2, <2>1
<1>9. ASSUME ~RepeatsAhead PROVE Kept(t)
  <2>1. Distinct(s) /\ Clear(s) /\ Account(s) /\ Fresh(s) BY <1>9 DEF Settled, Kept
  <2>2. \A r : Held(t, r) <=> Held(s, r) BY <1>2, Zenon DEF Held
  <2>3. Distinct(t) BY <1>2, <2>1, Zenon DEF Distinct
  <2>4. Clear(t) BY <1>6, <2>1, <2>2, Zenon DEF Clear
  <2>5. Fresh(t) BY <1>2, <1>6, <2>1, <2>2 DEF Fresh
  <2>6. Account(t)
    <3>1. ASSUME NEW x \in 1..st
          PROVE  Carried(t, x) \/ x \in t.acknowledged \/ x \in t.trimmed
      <4>1. x = st \/ x \in 1..s.stanza_no BY <1>1, <1>3
      <4>2. QED BY <1>2, <1>7, <2>1, <4>1 DEF Account
    <3>2. QED BY <1>2, <3>1 DEF Account
  <2>7. QED BY <1>2, <2>3, <2>4, <2>5, <2>6 DEF Kept
<1>10. Settled(t) BY <1>2, <1>8, <1>9 DEF Settled
<1>11. QED BY <1>4, <1>10 DEF t, st

(* The events that end nothing settle.                                     *)
LEMMA EventSettles ==
  ASSUME TypeOK, Settled(session),
         NextTick \/ (\E error \in BOOLEAN : OnResponse(error)) \/ RequestTimeout
  PROVE  Settled(session')
<1>1. session \in SessionRecord BY DEF TypeOK
<1>2. CASE NextTick
  <2> DEFINE s == [session EXCEPT !.has_next_tick = FALSE]
  <2>1. session' = send_pending_responses(s) BY <1>2, Zenon DEF NextTick
  <2>2. s \in SessionRecord BY <1>1 DEF SessionRecord
  <2>3. Settled(s) BY <1>1, QuietSettles
  <2> HIDE DEF s
  <2>4. QED BY <2>1, <2>2, <2>3, SendPendingSettles
<1>3. ASSUME NEW error \in BOOLEAN, OnResponse(error) PROVE Settled(session')
  <2> DEFINE st == session.stanza_no + 1
             q == enqueue_stanza([session EXCEPT !.stanza_no = st], st)
  <2>1. /\ session' = IF error THEN enqueue_bosh_response(q, "stream-terminate") ELSE q
        /\ session.status = "open" /\ session.stanza_no < MaxStanza
    BY <1>3, Zenon DEF OnResponse
  <2>2. q \in SessionRecord /\ Settled(q) BY <1>1, <2>1, EnqueueStanzaSettles
  <2> HIDE DEF q
  <2>3. QED BY <2>1, <2>2, QuietSettles
<1>4. CASE RequestTimeout
  <2> DEFINE res == session.res
             s(i) == [session EXCEPT !.res = RemoveAt(res, i)]
  <2>1. PICK i \in DOMAIN res : session' = _send_no_requeue(s(i), res[i], Bare("empty"))
    BY <1>4, Zenon DEF RequestTimeout
  <2>2. /\ s(i) \in SessionRecord /\ Settled(s(i)) /\ res[i] \in Response
        /\ ~RepeatsAhead => \A x : ~Cached(s(i), res[i].rid, x)
    BY <1>1, <2>1, RemoveHeldSettles
  <2> HIDE DEF s
  <2>3. Settles(s(i), session') BY <2>1, <2>2, SendNoRequeueSettles
  <2>4. session' \in SessionRecord BY <2>1, <2>2, SendNoRequeueType, BareType DEF BodyKind
  <2>5. QED BY <2>2, <2>3, <2>4, SettlesSettled
<1>5. QED BY <1>2, <1>3, <1>4

(* A new session carries nothing.                                          *)
LEMMA NewSessionSettles ==
  ASSUME NEW h \in HoldAttrs, NEW a \in AckModes
  PROVE  LET s == NewSession(h, a) IN
         s \in SessionRecord /\ Settled(s) /\ s.status = "open"
<1> DEFINE fresh == [EmptySession EXCEPT !.status = "open", !.rid = InitRid,
                                !.max_rid_sent = InitRid - 1,
                                !.hold = clamp_hold(h), !.ack = a, !.timeout = TRUE]
           s == Arrive(fresh, InitRid)
           t == NewSession(h, a)
<1>1. clamp_hold(h) \in 1..MaxBoshConnections
  BY ClientAssumption, OptionsAssumption DEF clamp_hold, Smaller
<1>2. InitRid \in Rid /\ InitRid \in 0..MaxRid /\ InitRid - 1 \in 0..MaxRid
      /\ 1 \in Conn /\ InitRid \in Nat
  BY BoundsAssumption DEF Rid, Conn
<1>3. a \in BOOLEAN BY ClientAssumption
<1>4. fresh \in SessionRecord
  BY EmptyType, <1>1, <1>2, <1>3 DEF SessionRecord, Status
<1>5. /\ fresh.unacked_responses = [r \in Rid |-> NoBody] /\ fresh.res = << >>
      /\ fresh.pending_stanzas = << >> /\ fresh.status = "open" /\ fresh.rid = InitRid
      /\ fresh.stanza_no = 0 /\ fresh.acknowledged = {} /\ fresh.no_client = {}
  BY DEF EmptySession
<1>6. t = add_held_http_connection(s, InitRid, 1) BY Zenon DEF NewSession
<1> HIDE DEF fresh
<1>7. DOMAIN << >> = {} OBVIOUS
<1>8. \A r \in Rid : \A x : ~Cached(fresh, r, x) BY <1>5, BareStanzas DEF Cached
<1>9. \A r : ~Held(fresh, r) BY <1>5, <1>7 DEF Held
<1>10. Settled(fresh)
  <2>1. Distinct(fresh) BY <1>5, <1>7 DEF Distinct
  <2>2. Clear(fresh) /\ Fresh(fresh) BY <1>8, <1>9 DEF Clear, Fresh
  <2>3. Account(fresh)
    <3>1. 1..fresh.stanza_no = {} BY <1>5
    <3>2. QED BY <3>1 DEF Account
  <2>4. QED BY <1>5, <2>1, <2>2, <2>3 DEF Settled, Kept
<1>11. /\ s \in SessionRecord /\ Settled(s)
       /\ s.status = "open" /\ s.rid = InitRid /\ s.res = fresh.res
       /\ s.unacked_responses = fresh.unacked_responses
  <2>1. /\ s.status = fresh.status /\ s.rid = fresh.rid /\ s.res = fresh.res
        /\ s.unacked_responses = fresh.unacked_responses
    BY <1>4 DEF Arrive, SessionRecord
  <2>2. QED BY <1>2, <1>4, <1>5, <1>10, <2>1, ArriveType, QuietSettles
<1> HIDE DEF s
<1>12. ~(InitRid > s.rid) BY <1>2, <1>11
<1>13. ~Held(s, InitRid) BY <1>9, <1>11 DEF Held
<1>14. \A x : ~Cached(s, InitRid, x) BY <1>2, <1>8, <1>11 DEF Cached
<1>15. t \in SessionRecord /\ t.status = s.status
  BY <1>2, <1>6, <1>11, AddHeldType, AddHeldKeeps
<1>16. Settled(t) BY <1>2, <1>6, <1>11, <1>12, <1>13, <1>14, AddHeldSettles
<1> HIDE DEF t
<1>17. QED BY <1>11, <1>15, <1>16 DEF t

(* Creation settles.                                                       *)
LEMMA CreateSettles ==
  ASSUME NEW h \in HoldAttrs, NEW a \in AckModes, NEW kind,
         CreateSession(h, a, kind) \/ CreateRefused(h, a, kind)
  PROVE  Settled(session')
<1> DEFINE s == NewSession(h, a)
<1>1. s \in SessionRecord /\ Settled(s) /\ s.status = "open" BY NewSessionSettles
<1>2. InitRid \in Rid BY BoundsAssumption
<1>3. CASE CreateSession(h, a, kind)
  <2> DEFINE q == enqueue_bosh_response(s, "create")
             e == EmitNodes(q, InitRid, kind)
  <2>1. session' = respond_to_extra_held(e) BY <1>3, Zenon DEF CreateSession
  <2> HIDE DEF s
  <2>2. q \in SessionRecord /\ Settled(q) BY <1>1, EnqueueBoshType, QuietSettles
  <2> HIDE DEF q
  <2>3. e \in SessionRecord /\ Settled(e) BY <1>2, <2>2, EmitNodesType, QuietSettles
  <2> HIDE DEF e
  <2>4. QED BY <2>1, <2>3, RespondToExtraSettles
<1>4. CASE CreateRefused(h, a, kind)
  <2> DEFINE q == enqueue_bosh_response(s, "stream-terminate")
             e == end_session(q, "terminated")
  <2>1. session' = EmitNodes(e, InitRid, kind) BY <1>4, Zenon DEF CreateRefused
  <2> HIDE DEF s
  <2>2. q \in SessionRecord /\ Settled(q) BY <1>1, EnqueueBoshType, QuietSettles
  <2>3. q.status = "open"
    BY <1>1 DEF enqueue_bosh_response, try_sending, SessionRecord
  <2> HIDE DEF q
  <2>4. q.no_client = {} /\ \A x \in q.acknowledged : x <= q.stanza_no /\ ~Carried(q, x)
    BY <2>2, <2>3 DEF Settled
  <2>5. e \in SessionRecord /\ Settled(e)
    BY <2>2, <2>4, EndSessionType, TerminatedSettles DEF Status
  <2> HIDE DEF e
  <2>6. QED BY <1>2, <2>1, <2>5, QuietSettles
<1>5. QED BY <1>3, <1>4

(* Every action settles.                                                   *)
LEMMA NextSettles ==
  ASSUME TypeOK, AnsweredOnce, OrderInv, Settled(session), Next
  PROVE  Settled(session')
<1>1. ASSUME NEW h \in HoldAttrs, NEW a \in AckModes, NEW kind,
             CreateSession(h, a, kind) \/ CreateRefused(h, a, kind)
      PROVE  Settled(session')
  BY <1>1, CreateSettles
<1>2. ASSUME NEW rid \in Rid, NEW attr \in (IF session.ack THEN Acks ELSE {0}),
             NEW kind \in Kinds,
             Request(rid, attr, kind) \/ RepeatedRequest(rid, attr, kind)
      PROVE  Settled(session')
  <2>1. attr \in Nat BY ClientAssumption
  <2>2. QED BY <1>2, <2>1, RequestSettles
<1>3. ASSUME NEW rid \in Rid, NEW attr \in (IF session.ack THEN Acks ELSE {0}),
             RequestForDeletedStream(rid, attr)
      PROVE  Settled(session')
  <2>1. attr \in Nat BY ClientAssumption
  <2>2. QED BY <1>3, <2>1, RequestForDeletedStreamSettles
<1>4. CASE \/ (\E rid \in Rid, over \in BOOLEAN : InvalidRequest(rid, over)) \/ UnknownSession
           \/ OnTerminate \/ InactivityTimeout
  BY <1>4, EndingSettles
<1>5. CASE NextTick \/ (\E error \in BOOLEAN : OnResponse(error)) \/ RequestTimeout
  BY <1>5, EventSettles
<1>6. QED BY <1>1, <1>2, <1>3, <1>4, <1>5, Zenon DEF Next

(* The inductive invariant of the account of stanzas.                      *)
SettledInv == Settled(session)

(* It is one: the order of stanzas says that what is cached for a held rid *)
(* is not above what is pending, and AnsweredOnce that no connection is    *)
(* held twice.                                                             *)
LEMMA SettledInvariant == Spec => []SettledInv
<1>1. Init => SettledInv
  <2> SUFFICES ASSUME Init PROVE SettledInv OBVIOUS
  <2>1. /\ session.res = << >> /\ session.timeout = FALSE /\ session.status = "none"
        /\ session.acknowledged = {} /\ session.no_client = {}
    BY DEF Init, EmptySession
  <2>2. DOMAIN << >> = {} OBVIOUS
  <2>3. Distinct(session) /\ Clear(session) BY <2>1, <2>2 DEF Distinct, Clear, Held
  <2>4. QED BY <2>1, <2>3 DEF SettledInv, Settled, Kept
<1>2. TypeOK /\ AnsweredOnce /\ OrderInv /\ SettledInv /\ [Next]_session => SettledInv'
  <2>1. CASE Next BY <2>1, NextSettles DEF SettledInv
  <2>2. CASE UNCHANGED session BY <2>2 DEF SettledInv
  <2>3. QED BY <2>1, <2>2
<1>3. QED BY <1>1, <1>2, TypeCorrect, AnswersOnce, OrderInvariant, PTL DEF Spec

(* However a session ends (a terminate or an invalid request, the server,  *)
(* the inactivity timer, a refused host), no request is left held in it    *)
(* and its timer is not running.                                           *)
THEOREM NothingIsLeftBehind == Spec => []NothingLeftBehind
<1>1. SettledInv => NothingLeftBehind BY DEF SettledInv, Settled, NothingLeftBehind
<1>2. QED BY <1>1, SettledInvariant, PTL

(* No stanza is lost while the session is open: where no client repeats a  *)
(* request that waits for a lower rid, whatever was neither acknowledged   *)
(* nor trimmed is pending or in the cache of its rid.                      *)
THEOREM StanzasAreKept == ~RepeatsAhead => (Spec => []StanzaKept)
<1> SUFFICES ASSUME ~RepeatsAhead PROVE Spec => []StanzaKept OBVIOUS
<1>1. SettledInv => StanzaKept
  BY DEF SettledInv, Settled, Kept, Account, StanzaKept, Carried, AnyCached, InPending, Cached
<1>2. QED BY <1>1, SettledInvariant, PTL

(* No stanza that was acknowledged is reported in a 'no-client' event,     *)
(* whatever the client repeats.                                            *)
THEOREM AcknowledgedIsNotReported ==
  Spec => [](session.no_client \intersect session.acknowledged = {})
<1>1. SettledInv => session.no_client \intersect session.acknowledged = {}
  BY DEF SettledInv, Settled
<1>2. QED BY <1>1, SettledInvariant, PTL

(* When the client falls silent, every stanza that it did not acknowledge  *)
(* is reported, and none that it did, under the same hypothesis.           *)
THEOREM SilenceIsReported == ~RepeatsAhead => (Spec => []SilenceReported)
<1> SUFFICES ASSUME ~RepeatsAhead PROVE Spec => []SilenceReported OBVIOUS
<1>1. TypeOK /\ SettledInv => SilenceReported
  <2> SUFFICES ASSUME SettledInv, session.status = "expired"
               PROVE  /\ 1..session.stanza_no \subseteq session.acknowledged
                            \union session.trimmed \union session.no_client
                      /\ session.no_client \intersect session.acknowledged = {}
    BY DEF SilenceReported
  <2>1. Reported(session) BY DEF SettledInv, Settled, Kept
  <2>2. QED BY <2>1 DEF Reported, SettledInv, Settled
<1>2. QED BY <1>1, SettledInvariant, TypeCorrect, PTL

=============================================================================
