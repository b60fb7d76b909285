--------------------------- MODULE ChannelProofs ---------------------------
(***************************************************************************)
(* Proofs about BoshChannel, for every value of its constants: a session,  *)
(* a client that keeps to the protocol and the network between them.       *)
(*                                                                         *)
(* Never refused (ChannelInv): every rid is at one place, and those under  *)
(* way lie in the window of the session.  The invariant joins the numbers  *)
(* of the client to those of the session, on top of the invariants that    *)
(* SessionProofs has for the session alone.                                *)
(*                                                                         *)
(* Nothing missed (MemoryInv): what the client has read for a rid is what  *)
(* the session sent on it.  The session remembers its replies as long as   *)
(* the client may ask for them again (Memory), and a request that is       *)
(* repeated is told the same.                                              *)
(***************************************************************************)
EXTENDS BoshChannel, SessionProofs, FiniteSetTheorems

-----------------------------------------------------------------------------
(* What the session remembers of its replies.  Real: a body that was sent, *)
(* and not the absent one.                                                 *)

Real(body) == body.kind # "none"
Known(s, r) == s.unacked_responses[r] # NoBody
Replied(s, c) == s.replies[c] # << >>

Genuine(s) ==
  /\ \A c \in Conn : \A i \in DOMAIN s.replies[c] : Real(s.replies[c][i])
  /\ \A r \in Rid : Known(s, r) => Real(s.unacked_responses[r])

(* What is held is for the only request that came with its rid.            *)
Alone(s) ==
  \A i \in DOMAIN s.res : \A c \in DOMAIN s.arrived :
    s.arrived[c] = s.res[i].rid => c = s.res[i].conn

(* What was replied to a rid is what the cache has for it.                 *)
Remembered(s) ==
  \A c \in DOMAIN s.arrived : Known(s, s.arrived[c]) =>
    \A i \in DOMAIN s.replies[c] :
      StanzasOf(s.replies[c][i]) = StanzasOf(s.unacked_responses[s.arrived[c]])

Memory(s) ==
  /\ Alone(s) /\ ConnsAgree(s) /\ Remembered(s)
  /\ OneReplyEach(s, DOMAIN s.arrived) /\ Len(s.arrived) <= MaxConn

(* A reply that was sent stays as it is; one that is sent now is cached.   *)
Lasts(s, t, c) ==
  /\ Replied(s, c) => t.replies[c] = s.replies[c]
  /\ Replied(t, c) => Replied(s, c) \/ Known(t, s.arrived[c])

(* A step that sends what it has, and forgets nothing.                     *)
KeepsMemory(s, t) ==
  /\ t.arrived = s.arrived
  /\ FewerHeld(s, t)
  /\ \A r \in Rid : Known(s, r) => Known(t, r)
  /\ \A r \in Rid : Known(t, r) => Known(s, r) \/ Held(s, r)
  /\ Genuine(s) => Genuine(t)
  /\ Memory(s) =>
       /\ Memory(t)
       /\ \A c \in DOMAIN s.arrived : Lasts(s, t, c)

(* A body that is real is not the absent one.                              *)
LEMMA RealIsKnown ==
  /\ \A body : Real(body) => body # NoBody
  /\ \A kind : kind # "none" => Real(Bare(kind))
BY DEF Real, NoBody, Bare

(* What arrived: the rid of each connection.                               *)
LEMMA ArrivedFields ==
  ASSUME NEW s \in SessionRecord
  PROVE  /\ s.arrived \in Seq(Rid) /\ Len(s.arrived) \in Nat
         /\ DOMAIN s.arrived = 1..Len(s.arrived)
         /\ \A c \in DOMAIN s.arrived : s.arrived[c] \in Rid
         /\ Len(s.arrived) <= MaxConn => DOMAIN s.arrived \subseteq Conn
<1>1. s.arrived \in Seq(Rid) BY DEF SessionRecord
<1>2. DOMAIN s.arrived = 1..Len(s.arrived) /\ Len(s.arrived) \in Nat BY <1>1, LenProperties
<1>3. \A c \in DOMAIN s.arrived : s.arrived[c] \in Rid BY <1>1, <1>2, ElementOfSeq
<1>4. Len(s.arrived) <= MaxConn => DOMAIN s.arrived \subseteq Conn
  BY <1>2, BoundsAssumption DEF Conn
<1>5. QED BY <1>1, <1>2, <1>3, <1>4

(* KeepsMemory is transitive.                                              *)
LEMMA KeepsMemoryTransitive ==
  ASSUME NEW s \in SessionRecord, NEW t, NEW u, KeepsMemory(s, t), KeepsMemory(t, u)
  PROVE  KeepsMemory(s, u)
<1>1. u.arrived = s.arrived BY DEF KeepsMemory
<1>2. FewerHeld(s, u)
  <2>1. FewerHeld(s, t) /\ FewerHeld(t, u) BY DEF KeepsMemory
  <2>2. QED BY <2>1 DEF FewerHeld
<1>3. \A r : Held(t, r) => Held(s, r)
  <2>1. FewerHeld(s, t) BY DEF KeepsMemory
  <2>2. QED BY <2>1 DEF FewerHeld, Held
<1>4. \A r \in Rid : Known(s, r) => Known(u, r) BY Zenon DEF KeepsMemory
<1>5. \A r \in Rid : Known(u, r) => Known(s, r) \/ Held(s, r) BY <1>3, Zenon DEF KeepsMemory
<1>6. Genuine(s) => Genuine(u) BY Zenon DEF KeepsMemory
<1>7. ASSUME Memory(s)
      PROVE  /\ Memory(u)
             /\ \A c \in DOMAIN s.arrived : Lasts(s, u, c)
  <2>1. Memory(t) /\ t.arrived = s.arrived BY <1>7, Zenon DEF KeepsMemory
  <2>2. Memory(u) BY <2>1, Zenon DEF KeepsMemory
  <2>3. ASSUME NEW c \in DOMAIN s.arrived
        PROVE  Lasts(s, u, c)
    <3>1. Lasts(t, u, c) /\ Lasts(s, t, c) BY <1>7, <2>1 DEF KeepsMemory
    <3>2. Known(t, s.arrived[c]) => Known(u, s.arrived[c])
      BY ArrivedFields DEF KeepsMemory
    <3>3. QED BY <2>1, <3>1, <3>2 DEF Lasts, Replied
  <2>4. QED BY <2>2, <2>3
<1>8. QED BY <1>1, <1>2, <1>4, <1>5, <1>6, <1>7 DEF KeepsMemory

(* A record with the same replies remembers the same.                      *)
LEMMA SameMemory ==
  ASSUME NEW s \in SessionRecord, NEW t \in SessionRecord,
         t.unacked_responses = s.unacked_responses, t.replies = s.replies,
         t.arrived = s.arrived, t.res = s.res
  PROVE  KeepsMemory(s, t)
<1>1. FewerHeld(s, t) BY DEF FewerHeld
<1>2. \A r : Known(s, r) <=> Known(t, r) BY DEF Known
<1>3. Genuine(s) => Genuine(t) BY Zenon DEF Genuine, Known
<1>4. Alone(s) => Alone(t) BY Zenon DEF Alone
<1>5. ConnsAgree(s) => ConnsAgree(t) BY Zenon DEF ConnsAgree
<1>6. Remembered(s) => Remembered(t) BY Zenon DEF Remembered, Known
<1>7. OneReplyEach(s, DOMAIN s.arrived) => OneReplyEach(t, DOMAIN t.arrived)
  BY SameAccount
<1>8. \A c : Lasts(s, t, c) BY DEF Lasts, Replied
<1>9. QED BY <1>1, <1>2, <1>3, <1>4, <1>5, <1>6, <1>7, <1>8 DEF KeepsMemory, Memory

(* An element of a sequence that grew is old or the one that was added.    *)
LEMMA AppendedElement ==
  ASSUME NEW replies \in Seq(Body), NEW body \in Body, NEW i \in DOMAIN Append(replies, body)
  PROVE  \/ i \in DOMAIN replies /\ Append(replies, body)[i] = replies[i]
         \/ Append(replies, body)[i] = body
<1>1. /\ Len(replies) \in Nat /\ DOMAIN replies = 1..Len(replies)
      /\ DOMAIN Append(replies, body) = 1..(Len(replies) + 1)
  BY LenProperties, AppendProperties
<1>2. CASE i = Len(replies) + 1 BY <1>2, AppendProperties
<1>3. CASE i # Len(replies) + 1
  <2>1. i \in 1..Len(replies) BY <1>1, <1>3
  <2>2. QED BY <1>1, <2>1, AppendProperties
<1>4. QED BY <1>2, <1>3

(* Where requests are held alone, no rid is held twice, and what is held   *)
(* has no reply.                                                           *)
LEMMA AloneIsDistinct ==
  ASSUME NEW s \in SessionRecord, Memory(s)
  PROVE  /\ Distinct(s)
         /\ \A i \in DOMAIN s.res : s.res[i].conn \in Conn /\ s.replies[s.res[i].conn] = << >>
<1>1. ASSUME NEW i \in DOMAIN s.res, NEW j \in DOMAIN s.res, s.res[i].rid = s.res[j].rid
      PROVE  i = j
  <2>1. s.res[j].conn \in DOMAIN s.arrived /\ s.arrived[s.res[j].conn] = s.res[i].rid
    BY <1>1 DEF Memory, ConnsAgree
  <2>2. s.res[j].conn = s.res[i].conn BY <2>1 DEF Memory, Alone
  <2>3. QED BY <2>2 DEF Memory, OneReplyEach
<1>2. ASSUME NEW i \in DOMAIN s.res
      PROVE  s.res[i].conn \in Conn /\ s.replies[s.res[i].conn] = << >>
  <2>1. s.res[i].conn \in Conn
    <3>1. s.res[i].conn \in DOMAIN s.arrived BY DEF Memory, ConnsAgree
    <3>2. QED BY <3>1, ArrivedFields DEF Memory
  <2>2. s.res[i].conn \in HeldConns(s) BY DEF HeldConns
  <2>3. Len(s.replies[s.res[i].conn]) = 0 BY <2>1, <2>2 DEF Memory, OneReplyEach
  <2>4. s.replies[s.res[i].conn] \in Seq(Body) BY <2>1 DEF SessionRecord
  <2>5. QED BY <2>1, <2>3, <2>4, EmptySeq
<1>3. QED BY <1>1, <1>2 DEF Distinct

(* What is remembered after a reply on c, held for rid r until now: b.     *)
LEMMA SendOnFirstMemory ==
  ASSUME NEW s \in SessionRecord, NEW bodies \in Seq(Body), Len(bodies) <= Len(s.res),
         \A i \in 1..Len(bodies) : Real(bodies[i])
  PROVE  KeepsMemory(s, SendOnFirst(s, bodies))
<1> DEFINE n == Len(bodies)
           t == SendOnFirst(s, bodies)
<1>1. /\ n \in Nat /\ n <= Len(s.res) /\ Len(s.res) \in Nat /\ DOMAIN s.res = 1..Len(s.res)
      /\ \A i \in 1..n : i \in DOMAIN s.res /\ bodies[i] \in Body
  <2>1. Len(s.res) \in Nat /\ DOMAIN s.res = 1..Len(s.res) BY ResponseFields, LenProperties
  <2>2. n \in Nat /\ \A i \in 1..n : bodies[i] \in Body BY ElementOfSeq, LenProperties
  <2>3. QED BY <2>1, <2>2
<1>2. /\ t \in SessionRecord
      /\ \A r \in Rid :
           \/ t.unacked_responses[r] = s.unacked_responses[r]
           \/ \E i \in 1..n : s.res[i].rid = r /\ t.unacked_responses[r] = bodies[i]
      /\ \A c \in Conn :
           \/ t.replies[c] = s.replies[c]
           \/ \E i \in 1..n : s.res[i].conn = c /\ t.replies[c] = Append(s.replies[c], bodies[i])
      /\ t.arrived = s.arrived
  BY SendOnFirstFields
<1>3. FewerHeld(s, t) /\ OnlySends(s, t) BY SendOnFirstAnswers, SendOnFirstHeld
<1>4. Distinct(s) => \A k \in 1..n : t.unacked_responses[s.res[k].rid] = bodies[k]
  BY SendOnFirstCaches
<1>5. \A i \in 1..n : Real(bodies[i]) OBVIOUS
<1> HIDE DEF t, n
<1>6. ASSUME NEW r \in Rid, Known(s, r) PROVE Known(t, r)
  BY <1>2, <1>5, <1>6, RealIsKnown DEF Known
<1>7. ASSUME NEW r \in Rid, Known(t, r) PROVE Known(s, r) \/ Held(s, r)
  BY <1>1, <1>2, <1>7 DEF Known, Held
<1>8. ASSUME Genuine(s) PROVE Genuine(t)
  <2>1. ASSUME NEW c \in Conn, NEW i \in DOMAIN t.replies[c] PROVE Real(t.replies[c][i])
    <3>1. CASE t.replies[c] = s.replies[c] BY <1>8, <2>1, <3>1 DEF Genuine
    <3>2. ASSUME NEW k \in 1..n, t.replies[c] = Append(s.replies[c], bodies[k])
          PROVE  Real(t.replies[c][i])
      <4>1. s.replies[c] \in Seq(Body) /\ bodies[k] \in Body BY <1>1 DEF SessionRecord
      <4>2. \/ i \in DOMAIN s.replies[c] /\ t.replies[c][i] = s.replies[c][i]
            \/ t.replies[c][i] = bodies[k]
        BY <2>1, <3>2, <4>1, AppendedElement
      <4>3. QED BY <1>5, <1>8, <4>2 DEF Genuine
    <3>3. QED BY <1>2, <3>1, <3>2
  <2>2. ASSUME NEW r \in Rid, Known(t, r) PROVE Real(t.unacked_responses[r])
    BY <1>2, <1>5, <1>8, <2>2 DEF Genuine, Known
  <2>3. QED BY <2>1, <2>2 DEF Genuine
<1>9. ASSUME Memory(s)
      PROVE  /\ Memory(t)
             /\ \A c \in DOMAIN s.arrived : Lasts(s, t, c)
  <2>1. /\ \A k \in 1..n : t.unacked_responses[s.res[k].rid] = bodies[k]
        /\ \A i \in DOMAIN s.res : s.replies[s.res[i].conn] = << >>
        /\ DOMAIN s.arrived \subseteq Conn
    BY <1>4, <1>9, AloneIsDistinct, ArrivedFields DEF Memory
  <2>2. Alone(s) /\ ConnsAgree(s) BY <1>9 DEF Memory
  <2>3. Alone(t) /\ ConnsAgree(t) BY <1>2, <1>3, <2>2 DEF Alone, ConnsAgree, FewerHeld
  <2>4. OneReplyEach(t, DOMAIN t.arrived) BY <1>2, <1>3, <1>9 DEF Memory, OnlySends
  <2>5. ASSUME NEW c \in DOMAIN s.arrived
        PROVE  \/ t.replies[c] = s.replies[c]
               \/ \E k \in 1..n : /\ t.replies[c] = << bodies[k] >> /\ ~Replied(s, c)
                                   /\ s.arrived[c] = s.res[k].rid
                                   /\ t.unacked_responses[s.arrived[c]] = bodies[k]
    <3>1. c \in Conn BY <2>1
    <3>2. CASE t.replies[c] = s.replies[c] BY <3>2
    <3>3. ASSUME NEW k \in 1..n, s.res[k].conn = c, t.replies[c] = Append(s.replies[c], bodies[k])
          PROVE  /\ t.replies[c] = << bodies[k] >> /\ s.arrived[c] = s.res[k].rid
                 /\ ~Replied(s, c)
                 /\ t.unacked_responses[s.arrived[c]] = bodies[k]
      <4>1. k \in DOMAIN s.res BY <1>1
      <4>2. s.arrived[c] = s.res[k].rid BY <1>9, <3>3, <4>1 DEF Memory, ConnsAgree
      <4>3. s.replies[c] = << >> BY <2>1, <3>3, <4>1
      <4>4. t.replies[c] = << bodies[k] >> BY <3>3, <4>3
      <4>5. QED BY <2>1, <4>2, <4>3, <4>4 DEF Replied
    <3>4. QED BY <1>2, <3>1, <3>2, <3>3
  <2>6. Remembered(t)
    <3>1. SUFFICES ASSUME NEW c \in DOMAIN s.arrived, Known(t, s.arrived[c]),
                          NEW i \in DOMAIN t.replies[c]
                   PROVE  StanzasOf(t.replies[c][i]) = StanzasOf(t.unacked_responses[s.arrived[c]])
      BY <1>2 DEF Remembered
    <3>2. s.arrived[c] \in Rid BY ArrivedFields
    <3>3. CASE t.replies[c] = s.replies[c]
      <4>1. ASSUME NEW k \in 1..n, s.res[k].rid = s.arrived[c] PROVE FALSE
        <5>1. k \in DOMAIN s.res BY <1>1
        <5>2. c = s.res[k].conn BY <1>9, <4>1, <5>1 DEF Memory, Alone
        <5>3. s.replies[c] = << >> BY <2>1, <5>1, <5>2
        <5>4. DOMAIN << >> = {} OBVIOUS
        <5>5. QED BY <3>1, <3>3, <5>3, <5>4
      <4>2. t.unacked_responses[s.arrived[c]] = s.unacked_responses[s.arrived[c]]
        BY <1>2, <3>2, <4>1
      <4>3. Known(s, s.arrived[c]) BY <3>1, <4>2 DEF Known
      <4>4. QED BY <1>9, <3>1, <3>3, <4>2, <4>3 DEF Memory, Remembered
    <3>4. ASSUME NEW k \in 1..n, t.replies[c] = << bodies[k] >>,
                 t.unacked_responses[s.arrived[c]] = bodies[k]
          PROVE  StanzasOf(t.replies[c][i]) = StanzasOf(t.unacked_responses[s.arrived[c]])
      <4>1. i = 1 BY <3>1, <3>4
      <4>2. t.replies[c][i] = bodies[k] BY <3>4, <4>1
      <4>3. QED BY <3>4, <4>2
    <3>5. QED BY <2>5, <3>3, <3>4
  <2>7. ASSUME NEW c \in DOMAIN s.arrived
        PROVE  Lasts(s, t, c)
    <3>1. Replied(t, c) => Replied(s, c) \/ Known(t, s.arrived[c])
      BY <1>5, <2>5, RealIsKnown DEF Replied, Known
    <3>2. Replied(s, c) => t.replies[c] = s.replies[c] BY <2>5
    <3>3. QED BY <3>1, <3>2 DEF Lasts
  <2>8. Memory(t) BY <1>2, <1>9, <2>3, <2>4, <2>6 DEF Memory
  <2>9. QED BY <2>7, <2>8
<1>10. KeepsMemory(s, t) BY <1>2, <1>3, <1>6, <1>7, <1>8, <1>9 DEF KeepsMemory
<1>11. QED BY <1>10 DEF t

(* What is stitched for the client is real.                                *)
LEMMA StitchedReal ==
  ASSUME NEW s \in SessionRecord, NEW i \in 1..Len(Stitched(s))
  PROVE  Real(Stitched(s)[i])
<1> DEFINE bosh == s.pending_bosh_responses
           n == IF bosh # << >> THEN Len(bosh) ELSE IF s.pending_stanzas # << >> THEN 1 ELSE 0
           f == [k \in 1..n |-> [kind |-> IF bosh # << >> THEN bosh[k] ELSE "data",
                                 stanzas |-> IF k = 1 THEN s.pending_stanzas ELSE << >>]]
<1>1. n \in Nat /\ \A k \in 1..Len(bosh) : bosh[k] \in {"create", "stream-terminate"}
  BY PendingFields
<1>2. Stitched(s) = f BY Zenon DEF Stitched
<1>3. Len(f) = n /\ \A k \in 1..n : f[k].kind = IF bosh # << >> THEN bosh[k] ELSE "data"
  <2> HIDE DEF n
  <2>1. QED BY <1>1
<1>4. bosh # << >> => n = Len(bosh) OBVIOUS
<1> HIDE DEF f, n
<1>5. i \in 1..n BY <1>2, <1>3
<1>6. f[i].kind # "none" BY <1>1, <1>3, <1>4, <1>5
<1>7. QED BY <1>2, <1>6 DEF Real

(* So send_pending_responses keeps the memory.                             *)
LEMMA SendPendingMemory ==
  ASSUME NEW s \in SessionRecord
  PROVE  KeepsMemory(s, send_pending_responses(s))
<1> DEFINE n == Smaller(Len(s.res), Len(Stitched(s)))
           bodies == SubSeq(Stitched(s), 1, n)
           t == SendOnFirst(s, bodies)
           bosh == SubSeq(t.pending_bosh_responses, n + 1, Len(t.pending_bosh_responses))
           u == [t EXCEPT !.pending_stanzas = << >>, !.pending_bosh_responses = bosh]
<1>1. /\ n \in Nat /\ n <= Len(s.res) /\ n <= Len(Stitched(s))
      /\ Len(Stitched(s)) \in Nat /\ Stitched(s) \in Seq(Body)
  BY ResponseFields, StitchedType DEF Smaller
<1>2. \A i \in 1..n : Stitched(s)[i] \in Body /\ Real(Stitched(s)[i])
  BY <1>1, ElementOfSeq, StitchedReal
<1>3. /\ bodies \in Seq(Body) /\ Len(bodies) = n
      /\ \A i \in 1..n : bodies[i] = Stitched(s)[i]
  BY <1>1, <1>2, SubSeqProperties
<1>4. t \in SessionRecord BY <1>1, <1>3, SendOnFirstType
<1> HIDE DEF bodies
<1>5. KeepsMemory(s, t) BY <1>1, <1>2, <1>3, SendOnFirstMemory
<1>6. send_pending_responses(s) = IF n = 0 THEN s ELSE u
  BY Zenon DEF send_pending_responses, bodies
<1>7. /\ u.arrived = t.arrived /\ u.res = t.res /\ u.replies = t.replies
      /\ u.unacked_responses = t.unacked_responses
  <2> HIDE DEF t, bosh
  <2>1. QED BY <1>4 DEF SessionRecord
<1>8. send_pending_responses(s) \in SessionRecord BY SendPendingType
<1> HIDE DEF n, t, u
<1>9. CASE n = 0 BY <1>6, <1>9, SameMemory
<1>10. CASE n # 0
  <2>1. u \in SessionRecord BY <1>6, <1>8, <1>10
  <2>2. KeepsMemory(t, u) BY <1>4, <1>7, <2>1, SameMemory
  <2>3. KeepsMemory(s, u) BY <1>5, <2>2, KeepsMemoryTransitive
  <2>4. QED BY <1>6, <1>10, <2>3
<1>11. QED BY <1>9, <1>10

(* So does respond_to_extra_held.                                          *)
LEMMA RespondToExtraMemory ==
  ASSUME NEW s \in SessionRecord
  PROVE  KeepsMemory(s, respond_to_extra_held(s))
<1>1. Len(s.res) \in Nat /\ s.hold \in Nat /\ s.hold >= 1
  BY ResponseFields, OptionsAssumption DEF SessionRecord
<1>2. CASE Len(s.res) <= s.hold
  <2>1. respond_to_extra_held(s) = s BY <1>2 DEF respond_to_extra_held
  <2>2. QED BY <2>1, SameMemory
<1>3. CASE ~(Len(s.res) <= s.hold)
  <2> DEFINE k == Len(s.res) - s.hold
  <2>1. k \in Nat /\ k <= Len(s.res) BY <1>1, <1>3
  <2>2. Empties(k) \in Seq(Body) /\ Len(Empties(k)) = k BY <2>1, EmptiesType
  <2>3. respond_to_extra_held(s) = SendOnFirst(s, Empties(k))
    BY <1>3, Zenon DEF respond_to_extra_held
  <2>4. \A i \in 1..k : Real(Empties(k)[i])
    <3>1. ASSUME NEW i \in 1..k PROVE Empties(k)[i] = Bare("empty") BY DEF Empties
    <3>2. QED BY <3>1, RealIsKnown
  <2> HIDE DEF k
  <2>5. KeepsMemory(s, SendOnFirst(s, Empties(k))) BY <2>1, <2>2, <2>4, SendOnFirstMemory
  <2>6. QED BY <2>3, <2>5
<1>4. QED BY <1>2, <1>3

(* So does what is put in the queues.                                      *)
LEMMA EnqueueMemory ==
  ASSUME NEW s \in SessionRecord
  PROVE  /\ \A kind \in {"create", "stream-terminate"} :
               KeepsMemory(s, enqueue_bosh_response(s, kind))
         /\ \A st \in Stanza : KeepsMemory(s, enqueue_stanza(s, st))
<1>1. ASSUME NEW kind \in {"create", "stream-terminate"}
      PROVE  KeepsMemory(s, enqueue_bosh_response(s, kind))
  <2> DEFINE t == enqueue_bosh_response(s, kind)
  <2>1. t \in SessionRecord BY EnqueueBoshType
  <2>2. /\ t.arrived = s.arrived /\ t.res = s.res /\ t.replies = s.replies
        /\ t.unacked_responses = s.unacked_responses
    BY DEF enqueue_bosh_response, try_sending, SessionRecord
  <2> HIDE DEF t
  <2>3. KeepsMemory(s, t) BY <2>1, <2>2, SameMemory
  <2>4. QED BY <2>3 DEF t
<1>2. ASSUME NEW st \in Stanza PROVE KeepsMemory(s, enqueue_stanza(s, st))
  <2> DEFINE t == enqueue_stanza(s, st)
  <2>1. t \in SessionRecord BY EnqueueStanzaType
  <2>2. /\ t.arrived = s.arrived /\ t.res = s.res /\ t.replies = s.replies
        /\ t.unacked_responses = s.unacked_responses
    BY DEF enqueue_stanza, try_sending, SessionRecord
  <2> HIDE DEF t
  <2>3. KeepsMemory(s, t) BY <2>1, <2>2, SameMemory
  <2>4. QED BY <2>3 DEF t
<1>3. QED BY <1>1, <1>2

(* What sends leaves the queue as it is.                                   *)
LEMMA SendingQueue ==
  ASSUME NEW s \in SessionRecord
  PROVE  /\ \A bodies : SendOnFirst(s, bodies).queued_requests = s.queued_requests
         /\ send_pending_responses(s).queued_requests = s.queued_requests
         /\ respond_to_extra_held(s).queued_requests = s.queued_requests
<1>1. ASSUME NEW bodies PROVE SendOnFirst(s, bodies).queued_requests = s.queued_requests
  <2>1. CASE Len(bodies) = 0
    <3>1. SendOnFirst(s, bodies) = s BY <2>1, Zenon DEF SendOnFirst
    <3>2. QED BY <3>1
  <2>2. CASE Len(bodies) # 0 BY <2>2 DEF SendOnFirst, SessionRecord
  <2>3. QED BY <2>1, <2>2
<1>2. send_pending_responses(s).queued_requests = s.queued_requests
  <2> DEFINE n == Smaller(Len(s.res), Len(Stitched(s)))
             t == SendOnFirst(s, SubSeq(Stitched(s), 1, n))
             bosh == SubSeq(t.pending_bosh_responses, n + 1, Len(t.pending_bosh_responses))
             u == [t EXCEPT !.pending_stanzas = << >>, !.pending_bosh_responses = bosh]
  <2>1. send_pending_responses(s) = IF n = 0 THEN s ELSE u
    BY Zenon DEF send_pending_responses
  <2>2. t.queued_requests = s.queued_requests BY <1>1
  <2> HIDE DEF n, t, bosh
  <2>3. u.queued_requests = t.queued_requests OBVIOUS
  <2>4. QED BY <2>1, <2>2, <2>3
<1>3. respond_to_extra_held(s).queued_requests = s.queued_requests
  BY <1>1, Zenon DEF respond_to_extra_held
<1>4. QED BY <1>1, <1>2, <1>3

(* Where no request ends the session: process_requests passes over what    *)
(* is queued without a gap, remembers, and no more.  Recorded: a request   *)
(* was passed over or is queued.                                           *)
Recorded(s, r) == r <= s.rid \/ s.queued_requests[r] # "none"
NoEnd(s) == \A r \in Rid : s.queued_requests[r] # "terminate"

Passes(s, t) ==
  /\ KeepsMemory(s, t)
  /\ t.status = s.status
  /\ s.rid <= t.rid
  /\ NoMoreQueued(s, t)
  /\ \A r \in Rid : t.queued_requests[r] \in {"none", s.queued_requests[r]}
  /\ \A r \in Rid : Recorded(t, r) <=> Recorded(s, r)

(* ProcessRun keeps the memory.                                            *)
LEMMA ProcessRunMemory ==
  ASSUME NEW s \in SessionRecord, NEW run \in SUBSET Rid
  PROVE  /\ KeepsMemory(s, ProcessRun(s, run))
         /\ \A r \in Rid : r \notin run =>
              ProcessRun(s, run).queued_requests[r] = s.queued_requests[r]
<1> DEFINE top == Max(run)
           queue == [r \in Rid |-> IF r \in run THEN "none" ELSE s.queued_requests[r]]
           nodes == [r \in Rid |-> IF r \in run /\ s.queued_requests[r] = "data"
                                   THEN s.nodes[r] + 1 ELSE s.nodes[r]]
           t == [s EXCEPT !.rid = top, !.queued_requests = queue, !.nodes = nodes]
<1>1. ProcessRun(s, run) = IF run = {} THEN s ELSE send_pending_responses(t)
  BY Zenon DEF ProcessRun
<1>2. CASE run = {} BY <1>1, <1>2, SameMemory
<1>3. CASE run # {}
  <2>1. queue \in [Rid -> Queued] BY DEF SessionRecord, Queued
  <2>2. nodes \in [Rid -> Nat] BY DEF SessionRecord
  <2>3. top \in Rid BY <1>3, GreatestRid
  <2>4. \A r \in Rid : r \notin run => queue[r] = s.queued_requests[r] OBVIOUS
  <2> HIDE DEF top, queue, nodes
  <2>5. top \in 0..MaxRid BY <2>3, BoundsAssumption DEF Rid
  <2>6. t \in SessionRecord BY <2>1, <2>2, <2>5 DEF SessionRecord
  <2>7. /\ t.arrived = s.arrived /\ t.res = s.res /\ t.replies = s.replies
        /\ t.unacked_responses = s.unacked_responses /\ t.queued_requests = queue
    BY DEF SessionRecord
  <2> HIDE DEF t
  <2>8. KeepsMemory(s, t) BY <2>6, <2>7, SameMemory
  <2>9. KeepsMemory(t, send_pending_responses(t)) BY <2>6, SendPendingMemory
  <2>10. KeepsMemory(s, send_pending_responses(t)) BY <2>8, <2>9, KeepsMemoryTransitive
  <2>11. send_pending_responses(t).queued_requests = t.queued_requests
    BY <2>6, SendingQueue
  <2>12. QED BY <1>1, <1>3, <2>4, <2>7, <2>10, <2>11
<1>4. QED BY <1>2, <1>3

(* So process_requests passes over what it can, where none of it ends the  *)
(* session.                                                                *)
LEMMA ProcessRequestsPasses ==
  ASSUME NEW s \in SessionRecord, NoEnd(s)
  PROVE  Passes(s, process_requests(s))
<1> DEFINE run == Runnable(s)
           t == ProcessRun(s, run)
<1>1. /\ run \in SUBSET Rid /\ s.rid \in Nat /\ Rid \subseteq Nat
      /\ \A r \in run : r > s.rid /\ s.queued_requests[r] # "none"
  BY NumberFields DEF Runnable
<1>2. process_requests(s) = t
  <2>1. {r \in run : s.queued_requests[r] = "terminate"} = {} BY <1>1 DEF NoEnd
  <2>2. QED BY <2>1, Zenon DEF process_requests
<1>3. /\ TakesRun(s, run, t) /\ t.status = s.status /\ t \in SessionRecord
      /\ KeepsMemory(s, t)
      /\ \A r \in Rid : r \notin run => t.queued_requests[r] = s.queued_requests[r]
  BY <1>1, ProcessRunTakes, ProcessRunType, ProcessRunMemory
<1> HIDE DEF t
<1>4. NoMoreQueued(s, t) /\ \A r \in run : t.queued_requests[r] = "none"
  BY <1>1, <1>3 DEF TakesRun, NoMoreQueued
<1>5. t.rid \in Nat /\ s.rid <= t.rid /\ (t.rid = s.rid \/ t.rid \in run) /\ \A q \in run : q <= t.rid
  <2>1. CASE run = {}
    <3>1. t.rid = s.rid BY <1>3, <2>1 DEF TakesRun
    <3>2. QED BY <1>1, <2>1, <3>1
  <2>2. CASE run # {}
    <3>1. t.rid = Max(run) BY <1>3, <2>2 DEF TakesRun
    <3>2. Max(run) \in run /\ \A q \in run : q <= Max(run) BY <1>1, <2>2, GreatestRid
    <3>3. t.rid \in run /\ \A q \in run : q <= t.rid BY <3>1, <3>2
    <3>4. t.rid \in Nat /\ t.rid > s.rid BY <1>1, <3>3
    <3>5. QED BY <1>1, <3>3, <3>4
  <2>3. QED BY <2>1, <2>2
<1>6. ASSUME NEW r \in Rid PROVE Recorded(t, r) <=> Recorded(s, r)
  <2>1. r \in Nat BY <1>1
  <2>2. ASSUME Recorded(s, r) PROVE Recorded(t, r)
    <3>1. CASE r \in run BY <1>5, <3>1 DEF Recorded
    <3>2. CASE r \notin run
      <4>1. t.queued_requests[r] = s.queued_requests[r] BY <1>3, <3>2
      <4>2. QED BY <1>1, <1>5, <2>1, <2>2, <4>1 DEF Recorded
    <3>3. QED BY <3>1, <3>2
  <2>3. ASSUME r <= t.rid, r > s.rid PROVE s.queued_requests[r] # "none"
    <3>1. t.rid \in Runnable(s) BY <1>1, <1>5, <2>1, <2>3
    <3>2. r \in (s.rid + 1)..t.rid BY <1>1, <1>5, <2>1, <2>3
    <3>3. QED BY <3>1, <3>2 DEF Runnable
  <2>4. ASSUME t.queued_requests[r] # "none" PROVE Recorded(s, r)
    BY <1>4, <2>4 DEF NoMoreQueued, Recorded
  <2>5. QED BY <1>1, <1>5, <2>1, <2>2, <2>3, <2>4 DEF Recorded
<1>7. \A r \in Rid : t.queued_requests[r] \in {"none", s.queued_requests[r]}
  BY <1>3, <1>4
<1>8. Passes(s, t) BY <1>3, <1>4, <1>5, <1>6, <1>7 DEF Passes
<1>9. QED BY <1>2, <1>8

(* Passes is transitive, and holds where the queue stays as it is.         *)
LEMMA PassesTransitive ==
  ASSUME NEW s \in SessionRecord, NEW t \in SessionRecord, NEW u \in SessionRecord,
         Passes(s, t), Passes(t, u)
  PROVE  Passes(s, u)
<1>1. KeepsMemory(s, u) BY KeepsMemoryTransitive DEF Passes
<1>2. s.rid \in Nat /\ t.rid \in Nat /\ u.rid \in Nat BY NumberFields
<1>3. u.status = s.status /\ s.rid <= u.rid BY <1>2 DEF Passes
<1>4. NoMoreQueued(s, u) BY Zenon DEF Passes, NoMoreQueued
<1>5. \A r \in Rid : u.queued_requests[r] \in {"none", s.queued_requests[r]} BY DEF Passes
<1>6. \A r \in Rid : Recorded(u, r) <=> Recorded(s, r) BY Zenon DEF Passes
<1>7. QED BY <1>1, <1>3, <1>4, <1>5, <1>6 DEF Passes

LEMMA SameQueuePasses ==
  ASSUME NEW s \in SessionRecord, NEW t \in SessionRecord, KeepsMemory(s, t),
         t.status = s.status, t.rid = s.rid, t.queued_requests = s.queued_requests
  PROVE  Passes(s, t)
<1>1. s.rid <= t.rid BY NumberFields
<1>2. \A r \in Rid : Recorded(t, r) <=> Recorded(s, r) BY DEF Recorded
<1>3. QED BY <1>1, <1>2 DEF Passes, NoMoreQueued

(* Where no request ends the session, so it goes on.                       *)
LEMMA NoEndPasses ==
  ASSUME NEW s \in SessionRecord, NEW t \in SessionRecord, Passes(s, t), NoEnd(s)
  PROVE  NoEnd(t)
BY DEF Passes, NoEnd

(* What sends passes nothing over.                                         *)
LEMMA SendingPasses ==
  ASSUME NEW s \in SessionRecord
  PROVE  /\ Passes(s, send_pending_responses(s))
         /\ Passes(s, respond_to_extra_held(s))
<1>1. /\ send_pending_responses(s) \in SessionRecord
      /\ KeepsMemory(s, send_pending_responses(s))
      /\ KeepsQueue(s, send_pending_responses(s))
      /\ send_pending_responses(s).status = s.status
      /\ send_pending_responses(s).queued_requests = s.queued_requests
  BY SendPendingType, SendPendingMemory, SendPendingKeeps, SendingQueue
<1>2. /\ respond_to_extra_held(s) \in SessionRecord
      /\ KeepsMemory(s, respond_to_extra_held(s))
      /\ KeepsQueue(s, respond_to_extra_held(s))
      /\ respond_to_extra_held(s).status = s.status
      /\ respond_to_extra_held(s).queued_requests = s.queued_requests
  BY RespondToExtraType, RespondToExtraMemory, RespondToExtraKeeps, SendingQueue
<1>3. QED BY <1>1, <1>2, SameQueuePasses DEF KeepsQueue

(* A held response that is answered, for instance because its time is out. *)
LEMMA AnswerHeldMemory ==
  ASSUME NEW s \in SessionRecord, NEW i \in DOMAIN s.res, NEW body \in Body, Real(body)
  PROVE  LET t == _send_no_requeue([s EXCEPT !.res = RemoveAt(s.res, i)], s.res[i], body) IN
         /\ t \in SessionRecord
         /\ KeepsMemory(s, t)
         /\ t.status = s.status /\ t.rid = s.rid /\ t.queued_requests = s.queued_requests
<1> DEFINE ro == s.res[i]
           rest == RemoveAt(s.res, i)
           u == [s EXCEPT !.res = rest]
           t == _send_no_requeue(u, ro, body)
<1>1. s.res \in Seq(Response) /\ DOMAIN s.res = 1..Len(s.res) BY ResponseFields, LenProperties
<1>2. i \in 1..Len(s.res) /\ ro \in Response /\ ro.rid \in Rid /\ ro.conn \in Conn
  <2>1. ro \in Response BY <1>1, ElementOfSeq
  <2>2. QED BY <1>1, <2>1 DEF Response
<1>3. /\ rest \in Seq(Response)
      /\ \A j \in DOMAIN rest :
           \E k \in DOMAIN s.res : rest[j] = s.res[k] /\ k \in {j, j + 1} /\ (k = j <=> j < i)
  BY RemoveHeldPlaces
<1>4. \A conns : OneReplyEach(s, conns) => OneReplyEach(u, conns \ {ro.conn}) BY <1>2, RemoveHeld
<1> HIDE DEF rest, ro
<1>5. /\ u \in SessionRecord /\ u.res = rest /\ u.arrived = s.arrived
      /\ u.unacked_responses = s.unacked_responses /\ u.replies = s.replies
      /\ u.status = s.status /\ u.rid = s.rid /\ u.queued_requests = s.queued_requests
  BY <1>3 DEF SessionRecord
<1> HIDE DEF u
<1>6. t \in SessionRecord /\ TakesIn(u, ro.conn, t)
  BY <1>2, <1>5, SendNoRequeueType, SendNoRequeueTakesIn
<1>7. /\ t.res = u.res /\ t.arrived = u.arrived /\ t.status = u.status /\ t.rid = u.rid
      /\ t.queued_requests = u.queued_requests
      /\ t.unacked_responses = [u.unacked_responses EXCEPT ![ro.rid] = body]
      /\ t.replies = [u.replies EXCEPT ![ro.conn] = Append(u.replies[ro.conn], body)]
  BY <1>5 DEF _send_no_requeue, SessionRecord
<1> HIDE DEF t
<1>8. /\ \A r \in Rid : t.unacked_responses[r] = IF r = ro.rid THEN body ELSE s.unacked_responses[r]
      /\ \A c \in Conn : t.replies[c] = IF c = ro.conn THEN Append(s.replies[c], body) ELSE s.replies[c]
  <2>1. s.unacked_responses \in [Rid -> Body] /\ s.replies \in [Conn -> Seq(Body)]
    BY DEF SessionRecord
  <2>2. \A r \in Rid : t.unacked_responses[r] = IF r = ro.rid THEN body ELSE s.unacked_responses[r]
    BY <1>5, <1>7, <2>1
  <2>3. \A c \in Conn : t.replies[c] = IF c = ro.conn THEN Append(s.replies[c], body) ELSE s.replies[c]
    BY <1>2, <1>5, <1>7, <2>1
  <2>4. QED BY <2>2, <2>3
<1>9. t.arrived = s.arrived /\ t.res = rest BY <1>5, <1>7
<1>10. FewerHeld(s, t) BY <1>3, <1>9 DEF FewerHeld
<1>11. \A r \in Rid : Known(s, r) => Known(t, r) BY <1>8, RealIsKnown DEF Known
<1>12. \A r \in Rid : Known(t, r) => Known(s, r) \/ Held(s, r) BY <1>8 DEF Known, Held, ro
<1>13. ASSUME Genuine(s) PROVE Genuine(t)
  <2>1. ASSUME NEW c \in Conn, NEW k \in DOMAIN t.replies[c] PROVE Real(t.replies[c][k])
    <3>1. CASE c = ro.conn
      <4>1. t.replies[c] = Append(s.replies[c], body) /\ s.replies[c] \in Seq(Body)
        BY <1>8, <3>1 DEF SessionRecord
      <4>2. \/ k \in DOMAIN s.replies[c] /\ t.replies[c][k] = s.replies[c][k]
            \/ t.replies[c][k] = body
        BY <2>1, <4>1, AppendedElement
      <4>3. QED BY <1>13, <4>2 DEF Genuine
    <3>2. CASE c # ro.conn
      <4>1. t.replies[c] = s.replies[c] BY <1>8, <3>2
      <4>2. QED BY <1>13, <2>1, <4>1 DEF Genuine
    <3>3. QED BY <3>1, <3>2
  <2>2. ASSUME NEW r \in Rid, Known(t, r) PROVE Real(t.unacked_responses[r])
    BY <1>8, <1>13, <2>2 DEF Genuine, Known
  <2>3. QED BY <2>1, <2>2 DEF Genuine
<1>14. ASSUME Memory(s)
       PROVE  /\ Memory(t)
              /\ \A c \in DOMAIN s.arrived : Lasts(s, t, c)
  <2>1. Alone(s) /\ ConnsAgree(s) /\ Remembered(s) /\ OneReplyEach(s, DOMAIN s.arrived)
        /\ DOMAIN s.arrived \subseteq Conn
    BY <1>14, ArrivedFields DEF Memory
  <2>2. ro.conn \in DOMAIN s.arrived /\ s.arrived[ro.conn] = ro.rid
    BY <2>1 DEF ConnsAgree, ro
  <2>3. \A c \in DOMAIN s.arrived : s.arrived[c] = ro.rid => c = ro.conn
    BY <2>1 DEF Alone, ro
  <2>4. s.replies[ro.conn] = << >> BY <1>14, AloneIsDistinct DEF ro
  <2>5. t.replies[ro.conn] = << body >>
    <3>1. t.replies[ro.conn] = Append(<< >>, body) BY <1>2, <1>8, <2>4
    <3>2. Append(<< >>, body) = << body >> OBVIOUS
    <3>3. QED BY <3>1, <3>2
  <2>6. Alone(t) /\ ConnsAgree(t) BY <1>9, <1>10, <2>1 DEF Alone, ConnsAgree, FewerHeld
  <2>7. OneReplyEach(t, DOMAIN t.arrived)
    <3> DEFINE conns == DOMAIN s.arrived \ {ro.conn}
    <3>1. OneReplyEach(u, conns) BY <1>4, <2>1
    <3>2. ro.conn \notin conns /\ conns \union {ro.conn} = DOMAIN s.arrived BY <2>2
    <3>3. OneReplyEach(t, conns \union {ro.conn}) BY <1>6, <3>1, <3>2 DEF TakesIn
    <3>4. QED BY <1>9, <3>2, <3>3
  <2>8. ASSUME NEW c \in DOMAIN s.arrived
        PROVE  /\ Known(t, s.arrived[c]) => \A k \in DOMAIN t.replies[c] :
                    StanzasOf(t.replies[c][k]) = StanzasOf(t.unacked_responses[s.arrived[c]])
               /\ Lasts(s, t, c)
    <3>1. c \in Conn /\ s.arrived[c] \in Rid BY <2>1, ArrivedFields
    <3>2. CASE c = ro.conn
      <4>1. t.unacked_responses[s.arrived[c]] = body BY <1>8, <2>2, <3>1, <3>2
      <4>2. \A k \in DOMAIN t.replies[c] : t.replies[c][k] = body BY <2>5, <3>2
      <4>3. ~Replied(s, c) /\ Known(t, s.arrived[c]) BY <2>4, <3>2, <4>1, RealIsKnown DEF Replied, Known
      <4>4. QED BY <4>1, <4>2, <4>3 DEF Lasts
    <3>3. CASE c # ro.conn
      <4>1. t.replies[c] = s.replies[c] BY <1>8, <3>1, <3>3
      <4>2. t.unacked_responses[s.arrived[c]] = s.unacked_responses[s.arrived[c]]
        BY <1>8, <2>3, <3>1, <3>3
      <4>3. QED BY <2>1, <4>1, <4>2 DEF Remembered, Known, Replied, Lasts
    <3>4. QED BY <3>2, <3>3
  <2>9. Remembered(t) BY <1>9, <2>8 DEF Remembered
  <2>10. Memory(t) BY <1>9, <1>14, <2>6, <2>7, <2>9 DEF Memory
  <2>11. QED BY <2>8, <2>10
<1>15. KeepsMemory(s, t) BY <1>9, <1>10, <1>11, <1>12, <1>13, <1>14 DEF KeepsMemory
<1>16. t.status = s.status /\ t.rid = s.rid /\ t.queued_requests = s.queued_requests
  BY <1>5, <1>7
<1>17. QED BY <1>6, <1>15, <1>16 DEF t, u, ro, rest

(* The events that end nothing pass nothing over, and forget nothing.      *)
LEMMA EventPasses ==
  ASSUME TypeOK, TypeOK', NextTick \/ OnResponse(FALSE) \/ RequestTimeout
  PROVE  Passes(session, session')
<1>1. session \in SessionRecord /\ session' \in SessionRecord BY DEF TypeOK
<1>2. CASE NextTick
  <2> DEFINE s == [session EXCEPT !.has_next_tick = FALSE]
  <2>1. session' = send_pending_responses(s) BY <1>2, Zenon DEF NextTick
  <2>2. s \in SessionRecord BY <1>1 DEF SessionRecord
  <2>3. /\ s.unacked_responses = session.unacked_responses /\ s.replies = session.replies
        /\ s.arrived = session.arrived /\ s.res = session.res /\ s.status = session.status
        /\ s.rid = session.rid /\ s.queued_requests = session.queued_requests
    BY <1>1 DEF SessionRecord
  <2> HIDE DEF s
  <2>4. Passes(session, s) BY <1>1, <2>2, <2>3, SameMemory, SameQueuePasses
  <2>5. Passes(s, session') BY <2>1, <2>2, SendingPasses
  <2>6. QED BY <1>1, <2>2, <2>4, <2>5, PassesTransitive
<1>3. CASE OnResponse(FALSE)
  <2> DEFINE st == session.stanza_no + 1
             fed == [session EXCEPT !.stanza_no = st]
  <2>1. session' = enqueue_stanza(fed, st) BY <1>3, Zenon DEF OnResponse
  <2>2. /\ session'.unacked_responses = session.unacked_responses
        /\ session'.replies = session.replies /\ session'.arrived = session.arrived
        /\ session'.res = session.res /\ session'.status = session.status
        /\ session'.rid = session.rid /\ session'.queued_requests = session.queued_requests
    BY <1>1, <2>1 DEF enqueue_stanza, try_sending, SessionRecord
  <2>3. QED BY <1>1, <2>2, SameMemory, SameQueuePasses
<1>4. CASE RequestTimeout
  <2>1. PICK i \in DOMAIN session.res :
          session' = _send_no_requeue([session EXCEPT !.res = RemoveAt(session.res, i)],
                                      session.res[i], Bare("empty"))
    BY <1>4, Zenon DEF RequestTimeout
  <2>2. Bare("empty") \in Body /\ Real(Bare("empty")) BY BareType, RealIsKnown DEF BodyKind
  <2>3. QED BY <1>1, <2>1, <2>2, AnswerHeldMemory, SameQueuePasses
<1>5. QED BY <1>2, <1>3, <1>4

-----------------------------------------------------------------------------
(* A request that arrives.  What it acknowledges:                          *)

AckOf(s, rid, attr) ==
  LET given == IF s.ack THEN attr ELSE rid - WindowSize
  IN IF given = 0 THEN rid - 1 ELSE given

Overflows(s) == Cardinality(UnackedRids(s)) > 4 * WindowSize

(* The cache forgets what is acknowledged, and that only as long as it is  *)
(* not too large.                                                          *)
LEMMA HandleAcksForgets ==
  ASSUME NEW s \in SessionRecord, NEW rid \in Rid, NEW attr \in Nat
  PROVE  LET t == handle_acks(s, rid, attr) IN
         /\ \A r \in Rid : Known(t, r) =>
              /\ Known(s, r) /\ r > AckOf(s, rid, attr)
              /\ t.unacked_responses[r] = s.unacked_responses[r]
         /\ ~Overflows(s) => \A r \in Rid :
              Known(s, r) /\ r > AckOf(s, rid, attr) => Known(t, r)
<1> DEFINE given == IF s.ack THEN attr ELSE rid - WindowSize
           ack == IF given = 0 THEN rid - 1 ELSE given
           keys == UnackedRids(s)
           overflow == Cardinality(keys) > 4 * WindowSize
           kept == {r \in keys : overflow => Cardinality({q \in keys : q > r}) < WindowSize}
           stanzas(rids) == UNION {StanzasOf(s.unacked_responses[r]) : r \in rids}
           u == [r \in Rid |-> IF r \in kept /\ r > ack THEN s.unacked_responses[r] ELSE NoBody]
           t == [s EXCEPT !.ack = s.ack /\ ~overflow, !.unacked_responses = u,
                          !.acknowledged = s.acknowledged \union stanzas({r \in kept : r <= ack}),
                          !.trimmed = s.trimmed \union stanzas(keys \ kept)]
<1>1. handle_acks(s, rid, attr) = t BY Zenon DEF handle_acks
<1>2. AckOf(s, rid, attr) = ack BY Zenon DEF AckOf
<1>3. \A r \in Rid : r \in keys <=> Known(s, r) BY DEF UnackedRids, Known
<1>4. kept \subseteq keys /\ (~overflow => kept = keys) OBVIOUS
<1>5. Overflows(s) <=> overflow BY Zenon DEF Overflows
<1> HIDE DEF ack, keys, kept, overflow
<1>6. \A r \in Rid : u[r] = IF r \in kept /\ r > ack THEN s.unacked_responses[r] ELSE NoBody
  OBVIOUS
<1> HIDE DEF u, stanzas
<1>7. t.unacked_responses = u BY DEF SessionRecord
<1> HIDE DEF t
<1>8. ASSUME NEW r \in Rid, Known(t, r)
      PROVE  /\ Known(s, r) /\ r > ack
             /\ t.unacked_responses[r] = s.unacked_responses[r]
  BY <1>3, <1>4, <1>6, <1>7, <1>8 DEF Known
<1>9. ASSUME ~overflow, NEW r \in Rid, Known(s, r), r > ack PROVE Known(t, r)
  BY <1>3, <1>4, <1>6, <1>7, <1>9 DEF Known
<1>10. QED BY <1>1, <1>2, <1>5, <1>8, <1>9

(* Accept with it.                                                         *)
LEMMA AcceptForgets ==
  ASSUME TypeOK, NEW rid \in Rid, NEW attr \in Nat, NEW kind \in Queued
  PROVE  LET t == Accept(rid, attr, kind) IN
         /\ \A r \in Rid : Known(t, r) =>
              /\ Known(session, r) /\ r > AckOf(session, rid, attr)
              /\ t.unacked_responses[r] = session.unacked_responses[r]
         /\ ~Overflows(session) => \A r \in Rid :
              Known(session, r) /\ r > AckOf(session, rid, attr) => Known(t, r)
<1> DEFINE a == Arrive(session, rid)
           q == [session.queued_requests EXCEPT ![rid] = kind]
           w == [a EXCEPT !.timeout = TRUE, !.queued_requests = q]
           t == Accept(rid, attr, kind)
<1>1. session \in SessionRecord /\ a \in SessionRecord BY ArriveType DEF TypeOK
<1>2. q \in [Rid -> Queued] BY <1>1 DEF SessionRecord
<1>3. a.queued_requests = session.queued_requests /\ a.ack = session.ack
      /\ a.unacked_responses = session.unacked_responses
  BY <1>1 DEF Arrive, SessionRecord
<1>4. t = handle_acks([a EXCEPT !.timeout = TRUE, !.queued_requests[rid] = kind], rid, attr)
  BY Zenon DEF Accept
<1>5. [a EXCEPT !.timeout = TRUE, !.queued_requests[rid] = kind] = w
  BY <1>1, <1>3 DEF SessionRecord
<1> HIDE DEF a, q
<1>6. w \in SessionRecord BY <1>1, <1>2 DEF SessionRecord
<1>7. w.ack = session.ack /\ w.unacked_responses = session.unacked_responses
  BY <1>1, <1>3 DEF SessionRecord
<1>8. t = handle_acks(w, rid, attr) BY <1>4, <1>5
<1> HIDE DEF w, t
<1>9. /\ AckOf(w, rid, attr) = AckOf(session, rid, attr)
      /\ Overflows(w) <=> Overflows(session)
      /\ \A r : Known(w, r) <=> Known(session, r)
  BY <1>7, Zenon DEF AckOf, Overflows, UnackedRids, Known
<1>10. /\ \A r \in Rid : Known(t, r) =>
            /\ Known(session, r) /\ r > AckOf(session, rid, attr)
            /\ t.unacked_responses[r] = session.unacked_responses[r]
       /\ ~Overflows(session) => \A r \in Rid :
            Known(session, r) /\ r > AckOf(session, rid, attr) => Known(t, r)
  BY <1>6, <1>7, <1>8, <1>9, HandleAcksForgets
<1>11. QED BY <1>10 DEF t

(* One more request has arrived, and been acknowledged with; c is its      *)
(* connection.                                                             *)
OneMore(s, rid, c, t) ==
  /\ c = Len(s.arrived) + 1 /\ c \in Conn
  /\ t.arrived = Append(s.arrived, rid)
  /\ t.res = s.res /\ t.replies = s.replies
  /\ \A r \in Rid : t.unacked_responses[r] \in {s.unacked_responses[r], NoBody}

LEMMA OneMoreArrived ==
  ASSUME NEW s \in SessionRecord, NEW rid \in Rid, NEW c, NEW t, OneMore(s, rid, c, t)
  PROVE  /\ DOMAIN t.arrived = DOMAIN s.arrived \union {c} /\ c \notin DOMAIN s.arrived
         /\ \A d \in DOMAIN s.arrived : t.arrived[d] = s.arrived[d]
         /\ t.arrived[c] = rid
         /\ Len(t.arrived) = c /\ c <= MaxConn /\ DOMAIN s.arrived \subseteq Conn
<1>1. /\ s.arrived \in Seq(Rid) /\ Len(s.arrived) \in Nat
      /\ DOMAIN s.arrived = 1..Len(s.arrived)
  BY ArrivedFields
<1>2. /\ DOMAIN t.arrived = 1..(Len(s.arrived) + 1) /\ Len(t.arrived) = Len(s.arrived) + 1
      /\ \A i \in 1..Len(s.arrived) : t.arrived[i] = s.arrived[i]
      /\ t.arrived[Len(s.arrived) + 1] = rid
  BY <1>1, AppendProperties DEF OneMore
<1>3. c = Len(s.arrived) + 1 /\ c \in 1..MaxConn BY DEF OneMore, Conn
<1>4. MaxConn \in Nat BY BoundsAssumption
<1>5. QED BY <1>1, <1>2, <1>3, <1>4 DEF Conn

(* What is answered at once.                                               *)
AnswersAtOnce(s, rid, c, t, u, body) ==
  /\ u.arrived = t.arrived /\ u.res = s.res
  /\ \A d \in Conn : u.replies[d] = IF d = c THEN Append(s.replies[d], body) ELSE s.replies[d]
  /\ \A r \in Rid : \/ u.unacked_responses[r] = t.unacked_responses[r]
                    \/ r = rid /\ u.unacked_responses[r] = body

LEMMA AtOnceGenuine ==
  ASSUME NEW s \in SessionRecord, NEW rid \in Rid, NEW c, NEW t, OneMore(s, rid, c, t),
         NEW u, NEW body \in Body, Real(body), AnswersAtOnce(s, rid, c, t, u, body),
         Genuine(s)
  PROVE  Genuine(u)
<1>1. ASSUME NEW d \in Conn, NEW k \in DOMAIN u.replies[d] PROVE Real(u.replies[d][k])
  <2>1. CASE d = c
    <3>1. u.replies[d] = Append(s.replies[d], body) /\ s.replies[d] \in Seq(Body)
      BY <2>1 DEF AnswersAtOnce, SessionRecord
    <3>2. \/ k \in DOMAIN s.replies[d] /\ u.replies[d][k] = s.replies[d][k]
          \/ u.replies[d][k] = body
      BY <1>1, <3>1, AppendedElement
    <3>3. QED BY <3>2 DEF Genuine
  <2>2. CASE d # c
    <3>1. u.replies[d] = s.replies[d] BY <2>2 DEF AnswersAtOnce
    <3>2. QED BY <1>1, <3>1 DEF Genuine
  <2>3. QED BY <2>1, <2>2
<1>2. ASSUME NEW r \in Rid, Known(u, r) PROVE Real(u.unacked_responses[r])
  BY <1>2 DEF Genuine, Known, AnswersAtOnce, OneMore
<1>3. QED BY <1>1, <1>2 DEF Genuine

(* What is answered at once is remembered, or a repetition of what is.     *)
LEMMA AtOnceMemory ==
  ASSUME NEW s \in SessionRecord, NEW rid \in Rid, NEW c, NEW t, OneMore(s, rid, c, t),
         NEW u \in SessionRecord, NEW body \in Body, AnswersAtOnce(s, rid, c, t, u, body),
         OneReplyEach(u, DOMAIN u.arrived),
         Memory(s), s.replies[c] = << >>, ~Held(s, rid),
         Known(u, rid) => StanzasOf(u.unacked_responses[rid]) = StanzasOf(body),
         \/ \A d \in DOMAIN s.arrived : s.arrived[d] # rid
         \/ \A r \in Rid : u.unacked_responses[r] = t.unacked_responses[r]
  PROVE  /\ Memory(u)
         /\ \A d \in DOMAIN s.arrived : u.replies[d] = s.replies[d]
<1>1. /\ DOMAIN u.arrived = DOMAIN s.arrived \union {c} /\ c \notin DOMAIN s.arrived
      /\ \A d \in DOMAIN s.arrived : u.arrived[d] = s.arrived[d]
      /\ u.arrived[c] = rid /\ Len(u.arrived) = c /\ c <= MaxConn
      /\ DOMAIN s.arrived \subseteq Conn /\ c \in Conn
      /\ \A d \in DOMAIN s.arrived : s.arrived[d] \in Rid
  <2>1. u.arrived = t.arrived BY DEF AnswersAtOnce
  <2>2. c \in Conn BY DEF OneMore
  <2>3. QED BY <2>1, <2>2, OneMoreArrived, ArrivedFields
<1>2. u.res = s.res BY DEF AnswersAtOnce
<1>3. Alone(s) /\ ConnsAgree(s) /\ Remembered(s) BY DEF Memory
<1>4. ConnsAgree(u) BY <1>1, <1>2, <1>3 DEF ConnsAgree
<1>5. Alone(u) BY <1>1, <1>2, <1>3 DEF Alone, Held
<1>6. ASSUME NEW d \in DOMAIN s.arrived PROVE u.replies[d] = s.replies[d]
  BY <1>1, <1>6 DEF AnswersAtOnce
<1>7. \A k \in DOMAIN u.replies[c] : u.replies[c][k] = body
  <2>1. u.replies[c] = Append(<< >>, body) BY <1>1 DEF AnswersAtOnce
  <2>2. Append(<< >>, body) = << body >> OBVIOUS
  <2>3. QED BY <2>1, <2>2
<1>8. ASSUME NEW d \in DOMAIN s.arrived, Known(u, s.arrived[d]), NEW k \in DOMAIN s.replies[d]
      PROVE  StanzasOf(s.replies[d][k]) = StanzasOf(u.unacked_responses[s.arrived[d]])
  <2>1. u.unacked_responses[s.arrived[d]] = t.unacked_responses[s.arrived[d]]
    BY <1>1, <1>8 DEF AnswersAtOnce
  <2>2. u.unacked_responses[s.arrived[d]] = s.unacked_responses[s.arrived[d]]
    BY <1>1, <1>8, <2>1 DEF OneMore, Known
  <2>3. QED BY <1>3, <1>8, <2>2 DEF Remembered, Known
<1>9. Remembered(u) BY <1>1, <1>6, <1>7, <1>8 DEF Remembered
<1>10. QED BY <1>1, <1>4, <1>5, <1>6, <1>9 DEF Memory

(* What add_held_http_connection makes of it.                              *)
LEMMA AddHeldMemory ==
  ASSUME NEW s \in SessionRecord, NEW rid \in Rid, NEW c, NEW t \in SessionRecord,
         OneMore(s, rid, c, t)
  PROVE  LET u == add_held_http_connection(t, rid, c) IN
         /\ u \in SessionRecord /\ u.arrived = t.arrived
         /\ \A j \in DOMAIN u.res : \/ u.res[j].rid = rid /\ u.res[j].conn = c
                                    \/ \E i \in DOMAIN s.res : u.res[j] = s.res[i]
         /\ \A r \in Rid : Known(t, r) => Known(u, r)
         /\ \A r \in Rid : Known(u, r) => Known(t, r) \/ r = rid
         /\ Genuine(s) => Genuine(u)
         /\ Memory(s) /\ s.replies[c] = << >> /\ (\A d \in DOMAIN s.arrived : s.arrived[d] # rid) =>
              /\ Memory(u)
              /\ \A d \in DOMAIN s.arrived : u.replies[d] = s.replies[d]
              /\ Replied(u, c) => Known(u, rid)
<1> DEFINE ro == [rid |-> rid, conn |-> c]
           body == Bare("empty")
           u == add_held_http_connection(t, rid, c)
           res == InsertByRid(t.res, ro)
<1>1. ro \in Response /\ ro.rid = rid /\ ro.conn = c /\ c \in Conn BY DEF Response, OneMore
<1>2. u = IF rid < t.max_rid_sent THEN _send_no_requeue(t, ro, body) ELSE [t EXCEPT !.res = res]
  BY Zenon DEF add_held_http_connection
<1>3. u \in SessionRecord /\ TakesIn(t, c, u) BY <1>1, AddHeldType, AddHeldTakesIn
<1>4. body \in Body /\ Real(body) BY BareType, RealIsKnown DEF BodyKind
<1>5. u.arrived = t.arrived BY <1>3 DEF TakesIn
<1>6. ASSUME Memory(s), s.replies[c] = << >>, \A d \in DOMAIN s.arrived : s.arrived[d] # rid
      PROVE  OneReplyEach(u, DOMAIN u.arrived) /\ ~Held(s, rid)
  <2>1. OneReplyEach(t, DOMAIN s.arrived)
    BY <1>6, SameAccount DEF Memory, OneMore
  <2>2. c \notin DOMAIN s.arrived /\ DOMAIN u.arrived = DOMAIN s.arrived \union {c}
    BY <1>5, OneMoreArrived
  <2>3. OneReplyEach(u, DOMAIN u.arrived) BY <1>3, <2>1, <2>2 DEF TakesIn
  <2>4. ~Held(s, rid) BY <1>6 DEF Memory, ConnsAgree, Held
  <2>5. QED BY <2>3, <2>4
<1>7. CASE rid < t.max_rid_sent
  <2>1. /\ u.res = t.res
        /\ u.unacked_responses = [t.unacked_responses EXCEPT ![rid] = body]
        /\ u.replies = [t.replies EXCEPT ![c] = Append(t.replies[c], body)]
    BY <1>1, <1>2, <1>7 DEF _send_no_requeue, SessionRecord
  <2> HIDE DEF u, body
  <2>2. t.unacked_responses \in [Rid -> Body] /\ t.replies \in [Conn -> Seq(Body)]
    BY DEF SessionRecord
  <2>3. /\ \A r \in Rid : u.unacked_responses[r] = IF r = rid THEN body ELSE t.unacked_responses[r]
        /\ \A d \in Conn : u.replies[d] = IF d = c THEN Append(s.replies[d], body) ELSE s.replies[d]
    <3>1. \A r \in Rid : u.unacked_responses[r] = IF r = rid THEN body ELSE t.unacked_responses[r]
      BY <2>1, <2>2
    <3>2. t.replies = s.replies BY DEF OneMore
    <3>3. \A d \in Conn : u.replies[d] = IF d = c THEN Append(s.replies[d], body) ELSE s.replies[d]
      BY <1>1, <2>1, <2>2, <3>2
    <3>4. QED BY <3>1, <3>3
  <2>4. t.res = s.res BY DEF OneMore
  <2>5. AnswersAtOnce(s, rid, c, t, u, body) BY <1>5, <2>1, <2>3, <2>4 DEF AnswersAtOnce
  <2>6. /\ \A r \in Rid : Known(t, r) => Known(u, r)
        /\ \A r \in Rid : Known(u, r) => Known(t, r) \/ r = rid
        /\ Known(u, rid) /\ u.unacked_responses[rid] = body
    BY <1>4, <2>3, RealIsKnown DEF Known
  <2>7. Genuine(s) => Genuine(u) BY <1>4, <2>5, AtOnceGenuine
  <2>8. ASSUME Memory(s), s.replies[c] = << >>, \A d \in DOMAIN s.arrived : s.arrived[d] # rid
        PROVE  Memory(u) /\ \A d \in DOMAIN s.arrived : u.replies[d] = s.replies[d]
    BY <1>3, <1>4, <1>6, <2>5, <2>6, <2>8, AtOnceMemory
  <2>9. \A j \in DOMAIN u.res : \E i \in DOMAIN s.res : u.res[j] = s.res[i] BY <2>1, <2>4
  <2>10. QED BY <1>3, <1>5, <2>6, <2>7, <2>8, <2>9 DEF u
<1>8. CASE ~(rid < t.max_rid_sent)
  <2>1. /\ u.res = res /\ u.unacked_responses = t.unacked_responses /\ u.replies = t.replies
    BY <1>2, <1>8 DEF SessionRecord
  <2>2. t.res = s.res /\ t.replies = s.replies BY DEF OneMore
  <2>3. \A j \in DOMAIN u.res : \/ u.res[j].rid = rid /\ u.res[j].conn = c
                                \/ \E i \in DOMAIN s.res : u.res[j] = s.res[i]
    <3>1. t.res \in Seq(Response) /\ Len(t.res) \in Nat /\ DOMAIN t.res = 1..Len(t.res)
      BY ResponseFields, LenProperties
    <3>2. res \in Seq(Response) /\ Len(res) = Len(t.res) + 1 BY <1>1, <3>1, InsertByRidElements
    <3>3. PICK pos \in 1..(Len(t.res) + 1) :
            \A i \in 1..(Len(t.res) + 1) :
              /\ i < pos => res[i] = t.res[i]
              /\ i = pos => res[i] = ro
              /\ i > pos => res[i] = t.res[i - 1]
      BY <1>1, <3>1, InsertByRidElements
    <3> HIDE DEF res, u, ro
    <3>4. ASSUME NEW j \in DOMAIN res
          PROVE  res[j] = ro \/ \E i \in DOMAIN t.res : res[j] = t.res[i]
      <4>1. j \in 1..(Len(t.res) + 1) BY <3>2, LenProperties
      <4>2. CASE j = pos BY <3>3, <4>1, <4>2
      <4>3. CASE j < pos
        <5>1. j \in 1..Len(t.res) /\ res[j] = t.res[j] BY <3>1, <3>3, <4>1, <4>3
        <5>2. QED BY <3>1, <5>1
      <4>4. CASE j > pos
        <5>1. j - 1 \in 1..Len(t.res) /\ res[j] = t.res[j - 1] BY <3>1, <3>3, <4>1, <4>4
        <5>2. QED BY <3>1, <5>1
      <4>5. QED BY <4>1, <4>2, <4>3, <4>4
    <3>5. QED BY <1>1, <2>1, <2>2, <3>4
  <2> HIDE DEF u, res, ro
  <2>4. \A r : Known(t, r) <=> Known(u, r) BY <2>1 DEF Known
  <2>5. ASSUME Genuine(s) PROVE Genuine(u)
    <3>1. \A d \in Conn : \A i \in DOMAIN u.replies[d] : Real(u.replies[d][i])
      BY <2>1, <2>2, <2>5 DEF Genuine
    <3>2. \A r \in Rid : Known(u, r) => Real(u.unacked_responses[r])
      BY <2>1, <2>5 DEF Genuine, Known, OneMore
    <3>3. QED BY <3>1, <3>2 DEF Genuine
  <2>6. ASSUME Memory(s), s.replies[c] = << >>, \A d \in DOMAIN s.arrived : s.arrived[d] # rid
        PROVE  Memory(u)
    <3>1. /\ DOMAIN u.arrived = DOMAIN s.arrived \union {c} /\ c \notin DOMAIN s.arrived
          /\ \A d \in DOMAIN s.arrived : u.arrived[d] = s.arrived[d]
          /\ u.arrived[c] = rid /\ Len(u.arrived) <= MaxConn
          /\ \A d \in DOMAIN s.arrived : s.arrived[d] \in Rid
      BY <1>5, OneMoreArrived, ArrivedFields
    <3>2. Alone(s) /\ ConnsAgree(s) /\ Remembered(s) BY <2>6 DEF Memory
    <3>3. ConnsAgree(u)
      <4>1. ASSUME NEW j \in DOMAIN u.res
            PROVE  u.res[j].conn \in DOMAIN u.arrived /\ u.arrived[u.res[j].conn] = u.res[j].rid
        <5>1. CASE u.res[j].rid = rid /\ u.res[j].conn = c BY <3>1, <5>1
        <5>2. ASSUME NEW i \in DOMAIN s.res, u.res[j] = s.res[i]
              PROVE  u.res[j].conn \in DOMAIN u.arrived /\ u.arrived[u.res[j].conn] = u.res[j].rid
          BY <3>1, <3>2, <5>2 DEF ConnsAgree
        <5>3. QED BY <2>3, <5>1, <5>2
      <4>2. QED BY <4>1 DEF ConnsAgree
    <3>4. Alone(u)
      <4>1. ASSUME NEW j \in DOMAIN u.res, NEW d \in DOMAIN u.arrived, u.arrived[d] = u.res[j].rid
            PROVE  d = u.res[j].conn
        <5>1. CASE u.res[j].rid = rid /\ u.res[j].conn = c BY <2>6, <3>1, <4>1, <5>1
        <5>2. ASSUME NEW i \in DOMAIN s.res, u.res[j] = s.res[i] PROVE d = u.res[j].conn
          <6>1. s.res[i].conn \in DOMAIN s.arrived /\ s.arrived[s.res[i].conn] = s.res[i].rid
            BY <3>2 DEF ConnsAgree
          <6>2. s.res[i].rid # rid BY <2>6, <6>1
          <6>3. d \in DOMAIN s.arrived /\ s.arrived[d] = s.res[i].rid
            BY <3>1, <4>1, <5>2, <6>2
          <6>4. QED BY <3>2, <5>2, <6>3 DEF Alone
        <5>3. QED BY <2>3, <5>1, <5>2
      <4>2. QED BY <4>1 DEF Alone
    <3>5. Remembered(u)
      <4>1. ASSUME NEW d \in DOMAIN s.arrived, Known(u, s.arrived[d]), NEW k \in DOMAIN s.replies[d]
            PROVE  StanzasOf(s.replies[d][k]) = StanzasOf(u.unacked_responses[s.arrived[d]])
        <5>1. u.unacked_responses[s.arrived[d]] = s.unacked_responses[s.arrived[d]]
          BY <2>1, <3>1, <4>1 DEF OneMore, Known
        <5>2. QED BY <3>2, <4>1, <5>1 DEF Remembered, Known
      <4>2. DOMAIN u.replies[c] = {}
        <5>1. DOMAIN << >> = {} OBVIOUS
        <5>2. QED BY <2>1, <2>2, <2>6, <5>1
      <4>3. QED BY <2>1, <2>2, <3>1, <4>1, <4>2 DEF Remembered
    <3>6. QED BY <1>6, <2>6, <3>1, <3>3, <3>4, <3>5 DEF Memory
  <2>7. s.replies[c] = << >> => ~Replied(u, c) BY <2>1, <2>2 DEF Replied
  <2>8. QED BY <1>3, <1>5, <2>1, <2>2, <2>3, <2>4, <2>5, <2>6, <2>7 DEF u
<1>9. QED BY <1>7, <1>8

(* What handle_broken_connections makes of it.                             *)
LEMMA HandleBrokenMemory ==
  ASSUME NEW s \in SessionRecord, NEW rid \in Rid, NEW c, NEW t \in SessionRecord,
         OneMore(s, rid, c, t)
  PROVE  LET u == handle_broken_connections(t, rid, c) IN
         /\ u \in SessionRecord /\ u.arrived = t.arrived /\ u.res = s.res
         /\ u.status = t.status /\ u.rid = t.rid
         /\ \A r \in Rid : u.queued_requests[r] =
                             IF r = rid THEN "none" ELSE t.queued_requests[r]
         /\ \A r \in Rid : Known(u, r) <=> Known(t, r)
         /\ Genuine(s) => Genuine(u)
         /\ Memory(s) /\ s.replies[c] = << >> /\ ~Held(s, rid) =>
              /\ Memory(u)
              /\ \A d \in DOMAIN s.arrived : u.replies[d] = s.replies[d]
<1> DEFINE known == t.unacked_responses[rid]
           body == IF known # NoBody THEN known ELSE Bare("empty")
           q == [t.queued_requests EXCEPT ![rid] = "none"]
           v == [t EXCEPT !.queued_requests = q]
           u == handle_broken_connections(t, rid, c)
<1>1. c \in Conn /\ t.res = s.res /\ t.replies = s.replies BY DEF OneMore
<1>2. u = _send_immediate(v, c, body)
  <2>1. [t EXCEPT !.queued_requests[rid] = "none"] = v OBVIOUS
  <2>2. u = _send_immediate([t EXCEPT !.queued_requests[rid] = "none"], c, body)
    BY Zenon DEF handle_broken_connections
  <2>3. QED BY <2>1, <2>2
<1>3. u \in SessionRecord /\ TakesIn(t, c, u) BY <1>1, HandleBrokenType, HandleBrokenTakesIn
<1>4. known \in Body BY DEF SessionRecord
<1>5. Bare("empty") \in Body /\ Real(Bare("empty")) BY BareType, RealIsKnown DEF BodyKind
<1>6. body \in Body BY <1>4, <1>5
<1>7. ASSUME Genuine(s) PROVE Real(body)
  <2>1. known # NoBody => Real(known) BY <1>7 DEF Genuine, Known, OneMore
  <2>2. QED BY <1>5, <2>1
<1>8. Known(t, rid) => body = t.unacked_responses[rid] BY DEF Known
<1> HIDE DEF body, q
<1>9. /\ u.arrived = t.arrived /\ u.res = t.res /\ u.status = t.status /\ u.rid = t.rid
      /\ u.unacked_responses = t.unacked_responses /\ u.queued_requests = q
      /\ u.replies = [t.replies EXCEPT ![c] = Append(t.replies[c], body)]
  BY <1>2 DEF _send_immediate, SessionRecord
<1> HIDE DEF u, v
<1>10. /\ \A r \in Rid : u.queued_requests[r] = IF r = rid THEN "none" ELSE t.queued_requests[r]
       /\ \A d \in Conn : u.replies[d] = IF d = c THEN Append(s.replies[d], body) ELSE s.replies[d]
  <2>1. t.queued_requests \in [Rid -> Queued] /\ t.replies \in [Conn -> Seq(Body)]
    BY DEF SessionRecord
  <2>2. \A r \in Rid : u.queued_requests[r] = IF r = rid THEN "none" ELSE t.queued_requests[r]
    BY <1>9, <2>1 DEF q
  <2>3. \A d \in Conn : u.replies[d] = IF d = c THEN Append(s.replies[d], body) ELSE s.replies[d]
    BY <1>1, <1>9, <2>1
  <2>4. QED BY <2>2, <2>3
<1>11. AnswersAtOnce(s, rid, c, t, u, body) BY <1>1, <1>9, <1>10 DEF AnswersAtOnce
<1>12. Genuine(s) => Genuine(u) BY <1>6, <1>7, <1>11, AtOnceGenuine
<1>13. ASSUME Memory(s), s.replies[c] = << >>, ~Held(s, rid)
       PROVE  Memory(u) /\ \A d \in DOMAIN s.arrived : u.replies[d] = s.replies[d]
  <2>1. OneReplyEach(t, DOMAIN s.arrived) BY <1>13, SameAccount DEF Memory, OneMore
  <2>2. c \notin DOMAIN s.arrived /\ DOMAIN u.arrived = DOMAIN s.arrived \union {c}
    BY <1>9, OneMoreArrived
  <2>3. OneReplyEach(u, DOMAIN u.arrived) BY <1>3, <2>1, <2>2 DEF TakesIn
  <2>4. Known(u, rid) => StanzasOf(u.unacked_responses[rid]) = StanzasOf(body)
    BY <1>8, <1>9 DEF Known
  <2>5. \A r \in Rid : u.unacked_responses[r] = t.unacked_responses[r] BY <1>9
  <2>6. QED BY <1>3, <1>6, <1>11, <1>13, <2>3, <2>4, <2>5, AtOnceMemory
<1>14. \A r \in Rid : Known(u, r) <=> Known(t, r) BY <1>9 DEF Known
<1>15. QED BY <1>1, <1>3, <1>9, <1>10, <1>12, <1>13, <1>14 DEF u

(* A request taken in by a session s that goes on: t.                      *)
TakesRequest(s, rid, c, attr, t) ==
  /\ t.arrived = Append(s.arrived, rid)
  /\ t.status = s.status /\ s.rid <= t.rid
  /\ NoEnd(t)
  /\ Genuine(s) => Genuine(t)
  /\ \A r \in Rid : Recorded(t, r) <=> Recorded(s, r) \/ r = rid
  /\ \A r \in Rid : t.queued_requests[r] # "none" => s.queued_requests[r] # "none" \/ r = rid
  /\ \A j \in DOMAIN t.res : \/ t.res[j].rid = rid /\ t.res[j].conn = c
                             \/ \E i \in DOMAIN s.res : t.res[j] = s.res[i]
  /\ \A r \in Rid : Known(t, r) =>
       (Known(s, r) /\ r > AckOf(s, rid, attr)) \/ Held(s, r) \/ r = rid
  /\ ~Overflows(s) =>
       \A r \in Rid : Known(s, r) /\ r > AckOf(s, rid, attr) => Known(t, r)
  /\ /\ Memory(s)
     /\ (\A d \in DOMAIN s.arrived : s.arrived[d] # rid) \/ (rid <= s.rid /\ ~Held(s, rid))
     => /\ Memory(t)
        /\ \A d \in DOMAIN s.arrived : Lasts(s, t, d)
        /\ Replied(t, c) /\ rid > s.rid => Known(t, rid)

(* What passes over requests after it changes nothing of that.             *)
LEMMA TakesAndPasses ==
  ASSUME NEW s \in SessionRecord, NEW rid \in Rid, NEW c, NEW attr,
         NEW u \in SessionRecord, TakesRequest(s, rid, c, attr, u),
         NEW t \in SessionRecord, Passes(u, t), c = Len(s.arrived) + 1
  PROVE  TakesRequest(s, rid, c, attr, t)
<1>1. KeepsMemory(u, t) BY DEF Passes
<1>2. t.arrived = u.arrived /\ FewerHeld(u, t) BY <1>1 DEF KeepsMemory
<1>3. t.arrived = Append(s.arrived, rid) /\ t.status = s.status /\ s.rid <= t.rid
  <2>1. s.rid \in Nat /\ u.rid \in Nat /\ t.rid \in Nat BY NumberFields
  <2>2. QED BY <1>2, <2>1 DEF TakesRequest, Passes
<1>4. NoEnd(t) BY NoEndPasses DEF TakesRequest
<1>5. Genuine(s) => Genuine(t) BY <1>1 DEF TakesRequest, KeepsMemory
<1>6. \A r \in Rid : Recorded(t, r) <=> Recorded(s, r) \/ r = rid
  BY DEF TakesRequest, Passes
<1>7. \A r \in Rid : t.queued_requests[r] # "none" => s.queued_requests[r] # "none" \/ r = rid
  BY DEF TakesRequest, Passes, NoMoreQueued
<1>8. ASSUME NEW j \in DOMAIN t.res
      PROVE  \/ t.res[j].rid = rid /\ t.res[j].conn = c
             \/ \E i \in DOMAIN s.res : t.res[j] = s.res[i]
  <2>1. PICK k \in DOMAIN u.res : t.res[j] = u.res[k] BY <1>2, <1>8 DEF FewerHeld
  <2>2. QED BY <2>1 DEF TakesRequest
<1>9. ASSUME NEW r \in Rid, Known(t, r)
      PROVE  (Known(s, r) /\ r > AckOf(s, rid, attr)) \/ Held(s, r) \/ r = rid
  <2>1. Known(u, r) \/ Held(u, r) BY <1>1, <1>9 DEF KeepsMemory
  <2>2. CASE Known(u, r) BY <2>2 DEF TakesRequest
  <2>3. CASE Held(u, r) BY <2>3 DEF TakesRequest, Held
  <2>4. QED BY <2>1, <2>2, <2>3
<1>10. ASSUME ~Overflows(s), NEW r \in Rid, Known(s, r), r > AckOf(s, rid, attr)
       PROVE  Known(t, r)
  <2>1. Known(u, r) BY <1>10 DEF TakesRequest
  <2>2. QED BY <1>1, <2>1 DEF KeepsMemory
<1>11. ASSUME Memory(s),
              (\A d \in DOMAIN s.arrived : s.arrived[d] # rid) \/ (rid <= s.rid /\ ~Held(s, rid))
       PROVE  /\ Memory(t)
              /\ \A d \in DOMAIN s.arrived : Lasts(s, t, d)
              /\ Replied(t, c) /\ rid > s.rid => Known(t, rid)
  <2>1. /\ Memory(u)
        /\ \A d \in DOMAIN s.arrived : Lasts(s, u, d)
        /\ Replied(u, c) /\ rid > s.rid => Known(u, rid)
    BY <1>11, Zenon DEF TakesRequest
  <2>2. /\ Memory(t)
        /\ \A d \in DOMAIN u.arrived : Lasts(u, t, d)
    BY <1>1, <2>1, Zenon DEF KeepsMemory
  <2>3. \A r \in Rid : Known(u, r) => Known(t, r) BY <1>1, Zenon DEF KeepsMemory
  <2>4. /\ DOMAIN u.arrived = DOMAIN s.arrived \union {c}
        /\ \A d \in DOMAIN s.arrived : u.arrived[d] = s.arrived[d] /\ s.arrived[d] \in Rid
        /\ u.arrived[c] = rid
    <3>1. u.arrived = Append(s.arrived, rid) BY DEF TakesRequest
    <3>2. /\ s.arrived \in Seq(Rid) /\ Len(s.arrived) \in Nat
          /\ DOMAIN s.arrived = 1..Len(s.arrived)
          /\ \A d \in DOMAIN s.arrived : s.arrived[d] \in Rid
      BY ArrivedFields
    <3>3. /\ DOMAIN u.arrived = 1..(Len(s.arrived) + 1)
          /\ \A d \in 1..Len(s.arrived) : u.arrived[d] = s.arrived[d]
          /\ u.arrived[Len(s.arrived) + 1] = rid
      BY <3>1, <3>2, AppendProperties
    <3>4. QED BY <3>2, <3>3
  <2>5. ASSUME NEW d \in DOMAIN s.arrived
        PROVE  Lasts(s, t, d)
    <3>1. Lasts(s, u, d) /\ Lasts(u, t, d) BY <2>1, <2>2, <2>4
    <3>2. u.arrived[d] = s.arrived[d] /\ (Known(u, s.arrived[d]) => Known(t, s.arrived[d]))
      BY <2>3, <2>4
    <3>3. QED BY <3>1, <3>2 DEF Lasts, Replied
  <2>6. Replied(t, c) /\ rid > s.rid => Known(t, rid)
    <3>1. Lasts(u, t, c) /\ u.arrived[c] = rid BY <2>2, <2>4
    <3>2. QED BY <2>1, <2>3, <3>1 DEF Lasts
  <2>7. QED BY <2>2, <2>5, <2>6
<1>12. QED BY <1>3, <1>4, <1>5, <1>6, <1>7, <1>8, <1>9, <1>10, <1>11 DEF TakesRequest

(* Every request that does not end the session is taken in that way.       *)
LEMMA RequestTakes ==
  ASSUME TypeOK, TypeOK', AnsweredOnce, NoEnd(session), NEW rid \in Rid, NEW attr \in Nat,
         NEW kind \in Kinds \ {"terminate"},
         Request(rid, attr, kind) \/ RepeatedRequest(rid, attr, kind)
  PROVE  TakesRequest(session, rid, NextConn, attr, session')
<1> DEFINE t == Accept(rid, attr, kind)
           c == NextConn
<1>1. /\ session \in SessionRecord /\ session' \in SessionRecord
      /\ kind \in Queued \ {"none"} /\ MayArrive /\ session.status = "open"
  BY ClientAssumption DEF Queued, TypeOK, Request, RepeatedRequest
<1>2. t \in SessionRecord BY <1>1, AcceptType
<1>3. /\ t.arrived = Append(session.arrived, rid) /\ t.res = session.res
      /\ t.replies = session.replies
      /\ t.rid = session.rid /\ t.status = session.status
      /\ t.queued_requests = [session.queued_requests EXCEPT ![rid] = kind]
  BY <1>1, AcceptKeeps, AcceptQueues
<1>4. \A r \in Rid : t.queued_requests[r] = IF r = rid THEN kind ELSE session.queued_requests[r]
  BY <1>1, <1>3 DEF SessionRecord
<1>5. /\ c \in Conn /\ c = Len(session.arrived) + 1 /\ session.replies[c] = << >>
  BY <1>1, NextConnUnused, NextConnType
<1>6. /\ \A r \in Rid : Known(t, r) =>
           /\ Known(session, r) /\ r > AckOf(session, rid, attr)
           /\ t.unacked_responses[r] = session.unacked_responses[r]
      /\ ~Overflows(session) => \A r \in Rid :
           Known(session, r) /\ r > AckOf(session, rid, attr) => Known(t, r)
  BY <1>1, AcceptForgets
<1>7. OneMore(session, rid, c, t) BY <1>3, <1>5, <1>6 DEF OneMore, Known
<1>8. session.rid \in Nat /\ rid \in Nat /\ Rid \subseteq Nat BY <1>1, NumberFields
<1> HIDE DEF c
<1>9. CASE Request(rid, attr, kind)
  <2> DEFINE s == add_held_http_connection(t, rid, c)
             p == process_requests(s)
  <2>1. session' = respond_to_extra_held(p) /\ rid > session.rid
    BY <1>9, Zenon DEF Request, c
  <2> HIDE DEF t
  <2>2. /\ s \in SessionRecord /\ s.arrived = t.arrived
        /\ \A j \in DOMAIN s.res : \/ s.res[j].rid = rid /\ s.res[j].conn = c
                                   \/ \E i \in DOMAIN session.res : s.res[j] = session.res[i]
        /\ \A r \in Rid : Known(t, r) => Known(s, r)
        /\ \A r \in Rid : Known(s, r) => Known(t, r) \/ r = rid
        /\ Genuine(session) => Genuine(s)
        /\ Memory(session) /\ session.replies[c] = << >>
           /\ (\A d \in DOMAIN session.arrived : session.arrived[d] # rid) =>
             /\ Memory(s)
             /\ \A d \in DOMAIN session.arrived : s.replies[d] = session.replies[d]
             /\ Replied(s, c) => Known(s, rid)
    BY <1>1, <1>2, <1>7, AddHeldMemory
  <2>3. s.rid = t.rid /\ s.queued_requests = t.queued_requests /\ s.status = t.status
    BY <1>2, <1>5, AddHeldKeeps
  <2> HIDE DEF s
  <2>4. TakesRequest(session, rid, c, attr, s)
    <3>1. NoEnd(s) BY <1>4, <2>3 DEF NoEnd
    <3>2. \A r \in Rid : Recorded(s, r) <=> Recorded(session, r) \/ r = rid
      BY <1>1, <1>3, <1>4, <2>3 DEF Recorded
    <3>3. \A r \in Rid : s.queued_requests[r] # "none" =>
            session.queued_requests[r] # "none" \/ r = rid
      BY <1>4, <2>3
    <3>4. s.arrived = Append(session.arrived, rid) /\ s.status = session.status
          /\ session.rid <= s.rid
      BY <1>3, <1>8, <2>2, <2>3
    <3>5. \A r \in Rid : Known(s, r) =>
            (Known(session, r) /\ r > AckOf(session, rid, attr)) \/ Held(session, r) \/ r = rid
      BY <1>6, <2>2
    <3>6. ~Overflows(session) =>
            \A r \in Rid : Known(session, r) /\ r > AckOf(session, rid, attr) => Known(s, r)
      BY <1>6, <2>2
    <3>7. ~(rid <= session.rid) BY <1>8, <2>1
    <3>8. ASSUME Memory(session), \A d \in DOMAIN session.arrived : session.arrived[d] # rid
          PROVE  /\ Memory(s)
                 /\ \A d \in DOMAIN session.arrived : Lasts(session, s, d)
                 /\ Replied(s, c) /\ rid > session.rid => Known(s, rid)
      <4>1. /\ Memory(s)
            /\ \A d \in DOMAIN session.arrived : s.replies[d] = session.replies[d]
            /\ Replied(s, c) => Known(s, rid)
        BY <1>5, <2>2, <3>8, Zenon
      <4>2. QED BY <4>1 DEF Lasts, Replied
    <3>9. Genuine(session) => Genuine(s) BY <2>2
    <3>10. \A j \in DOMAIN s.res : \/ s.res[j].rid = rid /\ s.res[j].conn = c
                                   \/ \E i \in DOMAIN session.res : s.res[j] = session.res[i]
      BY <2>2
    <3>11. QED BY <3>1, <3>2, <3>3, <3>4, <3>5, <3>6, <3>7, <3>8, <3>9, <3>10, Zenon
               DEF TakesRequest
  <2>5. p \in SessionRecord /\ Passes(s, p)
    BY <2>2, <2>4, ProcessRequestsType, ProcessRequestsPasses DEF TakesRequest
  <2> HIDE DEF p
  <2>6. Passes(p, session') BY <2>1, <2>5, SendingPasses
  <2>7. Passes(s, session') BY <1>1, <2>2, <2>5, <2>6, PassesTransitive
  <2>8. TakesRequest(session, rid, c, attr, session')
    BY <1>1, <1>5, <2>2, <2>4, <2>7, TakesAndPasses
  <2>9. QED BY <2>8 DEF c
<1>10. CASE RepeatedRequest(rid, attr, kind)
  <2> DEFINE s == handle_broken_connections(t, rid, c)
             p == send_pending_responses(s)
  <2>1. session' = respond_to_extra_held(p) /\ rid <= session.rid
    BY <1>10, Zenon DEF RepeatedRequest, c
  <2> HIDE DEF t
  <2>2. /\ s \in SessionRecord /\ s.arrived = t.arrived /\ s.res = session.res
        /\ s.status = t.status /\ s.rid = t.rid
        /\ \A r \in Rid : s.queued_requests[r] =
                            IF r = rid THEN "none" ELSE t.queued_requests[r]
        /\ \A r \in Rid : Known(s, r) <=> Known(t, r)
        /\ Genuine(session) => Genuine(s)
        /\ Memory(session) /\ session.replies[c] = << >> /\ ~Held(session, rid) =>
             /\ Memory(s)
             /\ \A d \in DOMAIN session.arrived : s.replies[d] = session.replies[d]
    BY <1>1, <1>2, <1>7, HandleBrokenMemory
  <2> HIDE DEF s
  <2>3. \A r \in Rid : r # rid => s.queued_requests[r] = session.queued_requests[r]
    BY <1>4, <2>2
  <2>4. TakesRequest(session, rid, c, attr, s)
    <3>1. NoEnd(s) BY <2>2, <2>3 DEF NoEnd
    <3>2. \A r \in Rid : Recorded(s, r) <=> Recorded(session, r) \/ r = rid
      BY <1>3, <2>1, <2>2, <2>3 DEF Recorded
    <3>3. \A r \in Rid : s.queued_requests[r] # "none" =>
            session.queued_requests[r] # "none" \/ r = rid
      BY <2>3
    <3>4. s.arrived = Append(session.arrived, rid) /\ s.status = session.status
          /\ session.rid <= s.rid
      BY <1>3, <1>8, <2>2
    <3>5. \A r \in Rid : Known(s, r) =>
            (Known(session, r) /\ r > AckOf(session, rid, attr)) \/ Held(session, r) \/ r = rid
      BY <1>6, <2>2
    <3>6. ~Overflows(session) =>
            \A r \in Rid : Known(session, r) /\ r > AckOf(session, rid, attr) => Known(s, r)
      BY <1>6, <2>2
    <3>7. ~(rid > session.rid) BY <1>8, <2>1
    <3>8. ASSUME Memory(session),
                 (\A d \in DOMAIN session.arrived : session.arrived[d] # rid)
                   \/ (rid <= session.rid /\ ~Held(session, rid))
          PROVE  /\ Memory(s)
                 /\ \A d \in DOMAIN session.arrived : Lasts(session, s, d)
                 /\ Replied(s, c) /\ rid > session.rid => Known(s, rid)
      <4>1. ~Held(session, rid) BY <3>8 DEF Memory, ConnsAgree, Held
      <4>2. /\ Memory(s)
            /\ \A d \in DOMAIN session.arrived : s.replies[d] = session.replies[d]
        BY <1>5, <2>2, <3>8, <4>1, Zenon
      <4>3. QED BY <3>7, <4>2 DEF Lasts, Replied
    <3>9. Genuine(session) => Genuine(s) BY <2>2
    <3>10. \A j \in DOMAIN s.res : \/ s.res[j].rid = rid /\ s.res[j].conn = c
                                   \/ \E i \in DOMAIN session.res : s.res[j] = session.res[i]
      BY <2>2
    <3>11. QED BY <3>1, <3>2, <3>3, <3>4, <3>5, <3>6, <3>8, <3>9, <3>10, Zenon
               DEF TakesRequest
  <2>5. p \in SessionRecord /\ Passes(s, p) BY <2>2, SendPendingType, SendingPasses
  <2> HIDE DEF p
  <2>6. Passes(p, session') BY <2>1, <2>5, SendingPasses
  <2>7. Passes(s, session') BY <1>1, <2>2, <2>5, <2>6, PassesTransitive
  <2>8. TakesRequest(session, rid, c, attr, session')
    BY <1>1, <1>5, <2>2, <2>4, <2>7, TakesAndPasses
  <2>9. QED BY <2>8 DEF c
<1>11. QED BY <1>9, <1>10

(* What creation makes: a session that holds its first request.            *)
Created(t) ==
  /\ t.status = "open" /\ t.rid = InitRid /\ t.arrived = << InitRid >>
  /\ \A r \in Rid : t.queued_requests[r] = "none" /\ ~Known(t, r)
  /\ \A c \in Conn : t.replies[c] = << >>
  /\ DOMAIN t.res = {1} /\ t.res[1].rid = InitRid /\ t.res[1].conn = 1

LEMMA CreateMakes ==
  ASSUME NEW h \in HoldAttrs, NEW a \in AckModes, NEW kind, CreateSession(h, a, kind)
  PROVE  Created(session')
<1> DEFINE fresh == [EmptySession EXCEPT !.status = "open", !.rid = InitRid,
                                !.max_rid_sent = InitRid - 1,
                                !.hold = clamp_hold(h), !.ack = a, !.timeout = TRUE]
           s == Arrive(fresh, InitRid)
           n == NewSession(h, a)
           q == enqueue_bosh_response(n, "create")
           e == EmitNodes(q, InitRid, kind)
           ro == [rid |-> InitRid, conn |-> 1]
           res == InsertByRid(<< >>, ro)
<1>1. clamp_hold(h) \in 1..MaxBoshConnections
  BY ClientAssumption, OptionsAssumption DEF clamp_hold, Smaller
<1>2. InitRid \in Rid /\ InitRid \in 0..MaxRid /\ InitRid - 1 \in 0..MaxRid /\ InitRid \in Nat
  BY BoundsAssumption DEF Rid
<1>3. a \in BOOLEAN BY ClientAssumption
<1>4. fresh \in SessionRecord
  BY EmptyType, <1>1, <1>2, <1>3 DEF SessionRecord, Status
<1>5. /\ fresh.status = "open" /\ fresh.rid = InitRid /\ fresh.max_rid_sent = InitRid - 1
      /\ fresh.unacked_responses = [r \in Rid |-> NoBody] /\ fresh.arrived = << >>
      /\ fresh.replies = [c \in Conn |-> << >>] /\ fresh.res = << >>
      /\ fresh.queued_requests = [r \in Rid |-> "none"]
  BY DEF EmptySession
<1>6. n = add_held_http_connection(s, InitRid, 1) BY Zenon DEF NewSession
<1>7. session' = respond_to_extra_held(e) BY Zenon DEF CreateSession
<1> HIDE DEF fresh
<1>8. s \in SessionRecord BY <1>2, <1>4, ArriveType
<1>9. /\ s.status = fresh.status /\ s.rid = fresh.rid /\ s.max_rid_sent = fresh.max_rid_sent
      /\ s.unacked_responses = fresh.unacked_responses
      /\ s.arrived = Append(fresh.arrived, InitRid)
      /\ s.replies = fresh.replies /\ s.res = fresh.res
      /\ s.queued_requests = fresh.queued_requests
  BY <1>4 DEF Arrive, SessionRecord
<1>10. s.arrived = << InitRid >>
  <2>1. s.arrived = Append(<< >>, InitRid) BY <1>5, <1>9
  <2>2. QED BY <2>1
<1> HIDE DEF s
<1>11. 1 \in Conn /\ ro \in Response /\ ro.rid = InitRid /\ ro.conn = 1
  BY <1>2, BoundsAssumption DEF Conn, Response
<1>12. ~(InitRid < s.max_rid_sent) BY <1>2, <1>5, <1>9
<1>13. n = [s EXCEPT !.res = res]
  <2>1. n = IF InitRid < s.max_rid_sent THEN _send_no_requeue(s, ro, Bare("empty"))
            ELSE [s EXCEPT !.res = InsertByRid(s.res, ro)]
    BY <1>6, Zenon DEF add_held_http_connection
  <2>2. s.res = << >> BY <1>5, <1>9
  <2>3. QED BY <1>12, <2>1, <2>2
<1>14. DOMAIN res = {1} /\ res[1] = ro
  <2> DEFINE none == << >>
             held == InsertByRid(none, ro)
  <2>1. none \in Seq(Response) /\ Len(none) = 0 OBVIOUS
  <2>2. res = held OBVIOUS
  <2> HIDE DEF none, res, ro
  <2>3. /\ held \in Seq(Response) /\ Len(held) = Len(none) + 1
        /\ \E pos \in 1..(Len(none) + 1) : \A i \in 1..(Len(none) + 1) :
              /\ i < pos => held[i] = none[i]
              /\ i = pos => held[i] = ro
              /\ i > pos => held[i] = none[i - 1]
    <3>1. held = InsertByRid(none, ro) OBVIOUS
    <3> HIDE DEF held
    <3>2. none \in Seq(Response) /\ ro \in Response BY <1>11, <2>1
    <3>3. QED BY ONLY <3>1, <3>2, InsertByRidElements
  <2> HIDE DEF held
  <2>4. DOMAIN res = {1}
    <3>1. DOMAIN held = 1..Len(held) BY <2>3, LenProperties
    <3>2. QED BY <2>1, <2>2, <2>3, <3>1
  <2>5. res[1] = ro BY <2>1, <2>2, <2>3
  <2>6. QED BY <2>4, <2>5
<1> HIDE DEF ro, res
<1>15. /\ n.status = s.status /\ n.rid = s.rid /\ n.unacked_responses = s.unacked_responses
       /\ n.arrived = s.arrived /\ n.replies = s.replies /\ n.res = res
       /\ n.queued_requests = s.queued_requests
  BY <1>8, <1>13 DEF SessionRecord
<1>16. n \in SessionRecord BY NewSessionType
<1> HIDE DEF n
<1>17. /\ q.status = n.status /\ q.rid = n.rid /\ q.unacked_responses = n.unacked_responses
       /\ q.arrived = n.arrived /\ q.replies = n.replies /\ q.res = n.res
       /\ q.queued_requests = n.queued_requests
  BY <1>16 DEF enqueue_bosh_response, try_sending, SessionRecord
<1>18. q \in SessionRecord BY <1>16, EnqueueBoshType
<1> HIDE DEF q
<1>19. /\ e.status = q.status /\ e.rid = q.rid /\ e.unacked_responses = q.unacked_responses
       /\ e.arrived = q.arrived /\ e.replies = q.replies /\ e.res = q.res
       /\ e.queued_requests = q.queued_requests
  BY <1>18 DEF EmitNodes, SessionRecord
<1>20. e \in SessionRecord BY <1>2, <1>18, EmitNodesType
<1> HIDE DEF e
<1>21. e.res = res BY <1>15, <1>17, <1>19
<1>22. session' = e
  <2>1. e.hold \in Nat /\ e.hold >= 1 BY <1>20, OptionsAssumption DEF SessionRecord
  <2>2. Len(e.res) \in Nat /\ DOMAIN e.res = 1..Len(e.res)
    BY <1>20, ResponseFields, LenProperties
  <2>3. Len(e.res) <= 1
    <3>1. PICK m : m = Len(e.res) OBVIOUS
    <3>2. m \in Nat /\ 1..m = {1} BY <1>14, <1>21, <2>2, <3>1
    <3>3. m \in 1..m \/ m = 0 BY <3>2
    <3>4. m <= 1 BY <3>2, <3>3
    <3>5. QED BY <3>1, <3>4
  <2>4. Len(e.res) <= e.hold BY <2>1, <2>2, <2>3
  <2>5. QED BY <1>7, <2>4 DEF respond_to_extra_held
<1>23. \A r \in Rid : e.queued_requests[r] = "none" /\ ~Known(e, r)
  BY <1>5, <1>9, <1>15, <1>17, <1>19 DEF Known
<1>24. \A c \in Conn : e.replies[c] = << >> BY <1>5, <1>9, <1>15, <1>17, <1>19
<1>25. e.status = "open" /\ e.rid = InitRid /\ e.arrived = << InitRid >>
  <2>1. e.status = "open" BY <1>5, <1>9, <1>15, <1>17, <1>19
  <2>2. e.rid = InitRid BY <1>5, <1>9, <1>15, <1>17, <1>19
  <2>3. e.arrived = << InitRid >> BY <1>10, <1>15, <1>17, <1>19
  <2>4. QED BY <2>1, <2>2, <2>3
<1>26. DOMAIN e.res = {1} /\ e.res[1].rid = InitRid /\ e.res[1].conn = 1
  BY <1>11, <1>14, <1>21
<1>27. QED BY <1>22, <1>23, <1>24, <1>25, <1>26 DEF Created

-----------------------------------------------------------------------------
(* The client and the network, as they are on every kind of network.       *)

Message == [rid : (InitRid + 1)..MaxRid, ack : InitRid..MaxRid, kind : Kinds]

ClientRecord ==
  [next : (InitRid + 1)..(MaxRid + 1), got : [Rid -> Body], conn : [Rid -> 0..MaxConn],
   waiting : SUBSET Rid, kind : [Rid -> Kinds \union {"poll"}],
   data : Nat, polls : Nat, faults : Nat, path : Networks]

IsRead(k, r) == k.got[r] # NoBody
UnderWay(net, r) == \E m \in net : m.rid = r

(* A request that waits for its reply is under way or at the server, once; *)
(* what was made is within the window of what was read.                    *)
ClientGood(k, net) ==
  /\ k \in ClientRecord /\ net \subseteq Message
  /\ \A r \in Rid : r \in k.waiting =>
       /\ InitRid <= r /\ r < k.next /\ ~IsRead(k, r)
       /\ k.conn[r] # 0 \/ UnderWay(net, r)
  /\ \A r \in Rid : k.conn[r] # 0 => r < k.next /\ (IsRead(k, r) \/ r \in k.waiting)
  /\ \A r \in Rid : InitRid < r /\ r < k.next => k.kind[r] \in Kinds
  /\ InitRid \in k.waiting \/ IsRead(k, InitRid)
  /\ k.next > InitRid + 1 => IsRead(k, InitRid)
  /\ \A m \in net : m.rid \in k.waiting /\ k.conn[m.rid] = 0
  /\ \A m, o \in net : m.rid = o.rid => m = o
  /\ \A m \in net : \A r \in InitRid..m.ack : IsRead(k, r)
  /\ \E n \in (InitRid - 1)..MaxRid :
       k.next - 1 <= n + WindowSize /\ \A r \in InitRid..n : IsRead(k, r)

(* What a client has read without a gap.                                   *)
LEMMA ReadUpToRead ==
  ASSUME client \in ClientRecord
  PROVE  /\ ReadUpTo \in (InitRid - 1)..MaxRid
         /\ \A r \in InitRid..ReadUpTo : r \in Rid /\ IsRead(client, r)
         /\ ReadUpTo = MaxRid \/ ~IsRead(client, ReadUpTo + 1)
<1> DEFINE S == {n \in (InitRid - 1)..MaxRid : n = MaxRid \/ client.got[n + 1] = NoBody}
           P(n) == /\ \A r \in InitRid..n : client.got[r] # NoBody
                   /\ n = MaxRid \/ client.got[n + 1] = NoBody
<1>1. InitRid \in Nat /\ MaxRid \in Nat /\ 1 <= InitRid /\ InitRid <= MaxRid
  BY BoundsAssumption DEF Rid
<1>2. S \in SUBSET Nat /\ MaxRid \in S BY <1>1
<1>3. PICK n \in S : \A q \in S : n <= q BY <1>2, LeastNumber
<1>4. n \in (InitRid - 1)..MaxRid /\ (n = MaxRid \/ client.got[n + 1] = NoBody) BY <1>3
<1>5. ASSUME NEW r \in InitRid..n PROVE client.got[r] # NoBody
  <2>1. r - 1 \in (InitRid - 1)..MaxRid /\ ~(n <= r - 1) /\ r - 1 # MaxRid /\ (r - 1) + 1 = r
    BY <1>1, <1>4
  <2>2. r - 1 \notin S BY <1>3, <2>1
  <2>3. QED BY <2>1, <2>2
<1>6. \E m \in (InitRid - 1)..MaxRid : P(m) BY <1>4, <1>5
<1>7. ReadUpTo = CHOOSE m \in (InitRid - 1)..MaxRid : P(m) BY Zenon DEF ReadUpTo
<1> HIDE DEF P
<1>8. ReadUpTo \in (InitRid - 1)..MaxRid /\ P(ReadUpTo) BY <1>6, <1>7
<1>9. \A r \in InitRid..ReadUpTo : r \in Rid BY <1>1, <1>8 DEF Rid
<1>10. QED BY <1>8, <1>9 DEF P, IsRead

(* The client begins well.                                                 *)
LEMMA ClientBegins ==
  ASSUME ChannelInit
  PROVE  ClientGood(client, network)
<1>1. InitRid \in Nat /\ MaxRid \in Nat /\ 1 <= InitRid /\ InitRid <= MaxRid /\ MaxConn \in Nat \ {0}
      /\ Rid \subseteq Nat /\ InitRid \in Rid
  BY BoundsAssumption DEF Rid
<1>2. PICK path \in Networks :
        client = [next |-> InitRid + 1, got |-> [r \in Rid |-> NoBody],
                 conn |-> [r \in Rid |-> IF r = InitRid THEN 1 ELSE 0],
                 waiting |-> {InitRid}, kind |-> [r \in Rid |-> "poll"],
                 data |-> 0, polls |-> 0, faults |-> 0, path |-> path]
  BY Zenon DEF ChannelInit
<1>3. network = {} BY DEF ChannelInit
<1>4. /\ client.next = InitRid + 1 /\ client.waiting = {InitRid}
      /\ \A r \in Rid : ~IsRead(client, r) /\ client.kind[r] = "poll"
      /\ \A r \in Rid : client.conn[r] = IF r = InitRid THEN 1 ELSE 0
  BY <1>2 DEF IsRead
<1>5. client \in ClientRecord
  <2>1. [r \in Rid |-> NoBody] \in [Rid -> Body] BY NoBodyType
  <2>2. [r \in Rid |-> IF r = InitRid THEN 1 ELSE 0] \in [Rid -> 0..MaxConn] BY <1>1
  <2>3. QED BY <1>1, <1>2, <2>1, <2>2 DEF ClientRecord
<1>6. \A r \in Rid : ~(InitRid < r /\ r < client.next) BY <1>1, <1>4
<1>7. /\ \A r \in Rid : r \in client.waiting =>
            InitRid <= r /\ r < client.next /\ ~IsRead(client, r) /\ client.conn[r] # 0
      /\ \A r \in Rid : client.conn[r] # 0 => r < client.next /\ r \in client.waiting
  BY <1>1, <1>4
<1>8. /\ InitRid - 1 \in (InitRid - 1)..MaxRid /\ InitRid..(InitRid - 1) = {}
      /\ client.next - 1 <= InitRid - 1 + WindowSize /\ ~(client.next > InitRid + 1)
  BY <1>1, <1>4, OptionsAssumption
<1>9. QED BY <1>1, <1>3, <1>4, <1>5, <1>6, <1>7, <1>8 DEF ClientGood

(* A request that is sent: it is new, or its connection has broken.        *)
LEMMA SendGood ==
  ASSUME ClientGood(client, network), NEW rid \in Rid, NEW kind \in Kinds,
         NEW k \in ClientRecord, NEW net,
         net = network \union {[rid |-> rid, ack |-> ReadUpTo, kind |-> kind]},
         IsRead(client, InitRid), rid \notin client.waiting, client.conn[rid] = 0,
         ~IsRead(client, rid), InitRid < rid, rid < k.next, client.next <= k.next,
         k.next - 1 <= ReadUpTo + WindowSize \/ k.next = client.next,
         k.got = client.got, k.conn = client.conn, k.waiting = client.waiting \union {rid},
         \A r \in Rid : InitRid < r /\ r < k.next => k.kind[r] \in Kinds
  PROVE  ClientGood(k, net)
<1> DEFINE new == [rid |-> rid, ack |-> ReadUpTo, kind |-> kind]
<1>1. /\ InitRid \in Nat /\ MaxRid \in Nat /\ 1 <= InitRid /\ InitRid <= MaxRid
      /\ Rid \subseteq Nat /\ InitRid \in Rid /\ rid \in Nat /\ rid <= MaxRid
  BY BoundsAssumption DEF Rid
<1>2. /\ ReadUpTo \in (InitRid - 1)..MaxRid
      /\ \A r \in InitRid..ReadUpTo : r \in Rid /\ IsRead(client, r)
      /\ ReadUpTo = MaxRid \/ ~IsRead(client, ReadUpTo + 1)
  BY ReadUpToRead DEF ClientGood
<1>3. ReadUpTo \in InitRid..MaxRid
  <2>1. ReadUpTo # InitRid - 1
    <3>1. ASSUME ReadUpTo = InitRid - 1 PROVE FALSE
      <4>1. ReadUpTo + 1 = InitRid /\ ReadUpTo # MaxRid BY <1>1, <3>1
      <4>2. QED BY <1>2, <4>1
    <3>2. QED BY <3>1
  <2>2. QED BY <1>1, <1>2, <2>1
<1>4. new.rid = rid /\ new.ack = ReadUpTo /\ new.kind = kind OBVIOUS
<1>5. new \in Message BY <1>1, <1>3 DEF Message
<1> HIDE DEF new
<1>6. net = network \union {new} BY DEF new
<1>7. \A r : IsRead(k, r) <=> IsRead(client, r) BY DEF IsRead
<1>8. \A r : UnderWay(network, r) => UnderWay(net, r) BY <1>6 DEF UnderWay
<1>9. UnderWay(net, rid) BY <1>4, <1>6 DEF UnderWay
<1>10. client.next \in Nat /\ k.next \in Nat BY <1>1 DEF ClientGood, ClientRecord
<1>11. \A m \in network : m.rid # rid BY DEF ClientGood
<1>12. net \subseteq Message BY <1>5, <1>6 DEF ClientGood
<1>13. ASSUME NEW r \in Rid, r \in k.waiting
       PROVE  /\ InitRid <= r /\ r < k.next /\ ~IsRead(k, r)
              /\ k.conn[r] # 0 \/ UnderWay(net, r)
  <2>1. CASE r = rid BY <1>1, <1>7, <1>9, <2>1
  <2>2. CASE r # rid
    <3>1. r \in client.waiting BY <1>13, <2>2
    <3>2. /\ InitRid <= r /\ r < client.next /\ ~IsRead(client, r)
          /\ client.conn[r] # 0 \/ UnderWay(network, r)
      BY <3>1 DEF ClientGood
    <3>3. r \in Nat BY <1>1
    <3>4. r < k.next BY <1>10, <3>2, <3>3
    <3>5. QED BY <1>7, <1>8, <3>2, <3>4
  <2>3. QED BY <2>1, <2>2
<1>14. ASSUME NEW r \in Rid, k.conn[r] # 0
       PROVE  r < k.next /\ (IsRead(k, r) \/ r \in k.waiting)
  <2>1. r < client.next /\ (IsRead(client, r) \/ r \in client.waiting)
    BY <1>14 DEF ClientGood
  <2>2. r \in Nat BY <1>1
  <2>3. QED BY <1>7, <1>10, <2>1, <2>2
<1>15. InitRid \in k.waiting \/ IsRead(k, InitRid) BY <1>7
<1>16. \A m \in net : m.rid \in k.waiting /\ k.conn[m.rid] = 0
  BY <1>4, <1>6 DEF ClientGood
<1>17. \A m, o \in net : m.rid = o.rid => m = o
  BY <1>4, <1>6, <1>11 DEF ClientGood
<1>18. \A m \in net : \A r \in InitRid..m.ack : IsRead(k, r)
  BY <1>2, <1>4, <1>6, <1>7 DEF ClientGood
<1>19. \E n \in (InitRid - 1)..MaxRid :
         k.next - 1 <= n + WindowSize /\ \A r \in InitRid..n : IsRead(k, r)
  <2>1. CASE k.next - 1 <= ReadUpTo + WindowSize BY <1>2, <1>7, <2>1
  <2>2. CASE k.next = client.next BY <1>7, <2>2 DEF ClientGood
  <2>3. QED BY <2>1, <2>2
<1>20. QED BY <1>7, <1>12, <1>13, <1>14, <1>15, <1>16, <1>17, <1>18, <1>19 DEF ClientGood

(* The session and its client: what was taken in is what has arrived, and  *)
(* where a request is at the server.                                       *)
Came(s, r) == \E c \in DOMAIN s.arrived : s.arrived[c] = r

JointGood(s, k) ==
  /\ \/ s.status = "none" /\ s = EmptySession
     \/ s.status = "open" /\ InitRid <= s.rid
  /\ \A r \in Rid : k.conn[r] # 0 =>
       \/ s.status = "none" /\ r = InitRid /\ k.conn[r] = 1
       \/ k.conn[r] \in DOMAIN s.arrived /\ s.arrived[k.conn[r]] = r
  /\ Len(s.arrived) <= MaxConn
  /\ \A c \in DOMAIN s.arrived : InitRid <= s.arrived[c] /\ s.arrived[c] < k.next
  /\ \A r \in Rid : InitRid <= r => (Recorded(s, r) <=> Came(s, r))
  /\ \A r \in Rid : IsRead(k, r) => Came(s, r)

BothGood == ClientGood(client, network) /\ JointGood(session, client)

(* The numbers of the channel.                                             *)
LEMMA ChannelNumbers ==
  /\ InitRid \in Nat /\ MaxRid \in Nat /\ 1 <= InitRid /\ InitRid <= MaxRid
  /\ MaxConn \in Nat \ {0} /\ WindowSize \in Nat \ {0}
  /\ Rid \subseteq Nat /\ InitRid \in Rid /\ Rid = 1..MaxRid
BY BoundsAssumption, OptionsAssumption DEF Rid

(* What a client does that the session does not see.                       *)
LEMMA SameJoint ==
  ASSUME NEW s, NEW k \in ClientRecord, NEW j \in ClientRecord, JointGood(s, k),
         j.conn = k.conn, j.got = k.got, k.next <= j.next, s.arrived \in Seq(Rid)
  PROVE  JointGood(s, j)
<1>1. k.next \in Nat /\ j.next \in Nat BY ChannelNumbers DEF ClientRecord
<1>2. ASSUME NEW c \in DOMAIN s.arrived
      PROVE  InitRid <= s.arrived[c] /\ s.arrived[c] < j.next
  <2>1. DOMAIN s.arrived = 1..Len(s.arrived) BY LenProperties
  <2>2. s.arrived[c] \in Rid BY <2>1, ElementOfSeq
  <2>3. s.arrived[c] \in Nat BY <2>2, ChannelNumbers
  <2>4. InitRid <= s.arrived[c] /\ s.arrived[c] < k.next BY DEF JointGood
  <2>5. QED BY <1>1, <2>3, <2>4
<1>3. \A r : IsRead(j, r) <=> IsRead(k, r) BY DEF IsRead
<1>4. QED BY <1>2, <1>3 DEF JointGood

(* A new request.                                                          *)
LEMMA ClientRequestGood ==
  ASSUME TypeOK, BothGood, NEW kind \in Kinds, ClientRequest(kind)
  PROVE  BothGood'
<1> DEFINE k == client'
           rid == client.next
           waiting == client.waiting \union {rid}
           kinds == [client.kind EXCEPT ![rid] = kind]
           data == IF kind = "poll" THEN client.data ELSE client.data + 1
<1>1. client \in ClientRecord /\ ClientGood(client, network) /\ JointGood(session, client)
  BY DEF BothGood, ClientGood
<1>2. /\ IsRead(client, InitRid) /\ rid <= MaxRid /\ rid <= ReadUpTo + WindowSize
      /\ network' = network \union {[rid |-> rid, ack |-> ReadUpTo, kind |-> kind]}
      /\ session' = session
  BY DEF ClientRequest, Send, IsRead
<1>3. k = [client EXCEPT !.next = rid + 1, !.waiting = waiting, !.kind = kinds, !.data = data]
  <2>1. k = [client EXCEPT !.next = @ + 1, !.waiting = @ \union {client.next},
                           !.kind[client.next] = kind,
                           !.data = IF kind = "poll" THEN @ ELSE @ + 1]
    BY Zenon DEF ClientRequest
  <2>2. QED BY <1>1, <2>1 DEF ClientRecord
<1>4. rid \in Rid /\ InitRid < rid /\ rid \in Nat /\ client.next \in Nat
  BY <1>1, <1>2, ChannelNumbers DEF ClientRecord
<1>5. waiting \subseteq Rid BY <1>1, <1>4 DEF ClientRecord
<1>6. kinds \in [Rid -> Kinds \union {"poll"}]
      /\ \A r \in Rid : kinds[r] = IF r = rid THEN kind ELSE client.kind[r]
  <2>1. client.kind \in [Rid -> Kinds \union {"poll"}] BY <1>1 DEF ClientRecord
  <2> HIDE DEF rid
  <2>2. QED BY <1>4, <2>1
<1>7. data \in Nat BY <1>1 DEF ClientRecord
<1>8. rid + 1 \in (InitRid + 1)..(MaxRid + 1) BY <1>2, <1>4, ChannelNumbers
<1> HIDE DEF rid, waiting, kinds, data
<1>9. /\ k \in ClientRecord
      /\ k.next = rid + 1 /\ k.waiting = waiting /\ k.kind = kinds
      /\ k.got = client.got /\ k.conn = client.conn
  BY <1>1, <1>3, <1>5, <1>6, <1>7, <1>8 DEF ClientRecord
<1> HIDE DEF k
<1>10. rid \notin client.waiting /\ client.conn[rid] = 0
  <2>1. ~(rid < client.next) BY <1>4 DEF rid
  <2>2. QED BY <1>1, <1>4, <2>1 DEF ClientGood
<1>11. ~IsRead(client, rid)
  <2>1. ASSUME Came(session, rid) PROVE FALSE
    <3>1. rid < client.next BY <1>1, <2>1 DEF Came, JointGood
    <3>2. QED BY <1>4, <3>1 DEF rid
  <2>2. QED BY <1>1, <1>4, <2>1 DEF JointGood
<1>12. \A r \in Rid : InitRid < r /\ r < k.next => k.kind[r] \in Kinds
  <2>1. ASSUME NEW r \in Rid, InitRid < r, r < k.next PROVE k.kind[r] \in Kinds
    <3>1. CASE r = rid BY <1>6, <1>9, <3>1
    <3>2. CASE r # rid
      <4>1. r \in Nat BY ChannelNumbers
      <4>2. r < rid BY <1>4, <1>9, <2>1, <3>2, <4>1
      <4>3. r < client.next BY <4>2 DEF rid
      <4>4. client.kind[r] \in Kinds BY <1>1, <2>1, <4>3 DEF ClientGood
      <4>5. QED BY <1>6, <1>9, <3>2, <4>4
    <3>3. QED BY <3>1, <3>2
  <2>2. QED BY <2>1
<1>13. client.next <= k.next /\ rid < k.next BY <1>4, <1>9 DEF rid
<1>14. k.next - 1 <= ReadUpTo + WindowSize BY <1>2, <1>4, <1>9
<1>15. ClientGood(k, network')
  BY <1>1, <1>2, <1>4, <1>9, <1>10, <1>11, <1>12, <1>13, <1>14, SendGood DEF waiting
<1>16. JointGood(session, k)
  <2>1. session.arrived \in Seq(Rid) BY DEF TypeOK, SessionRecord
  <2>2. QED BY <1>1, <1>9, <1>13, <2>1, SameJoint
<1>17. QED BY <1>2, <1>15, <1>16 DEF BothGood, k

(* A request that is repeated.                                             *)
LEMMA ClientRepeatGood ==
  ASSUME TypeOK, BothGood, NEW rid \in Rid, ClientRepeat(rid)
  PROVE  BothGood'
<1> DEFINE k == client'
           waiting == client.waiting \union {rid}
<1>1. client \in ClientRecord /\ ClientGood(client, network) /\ JointGood(session, client)
  BY DEF BothGood, ClientGood
<1>2. /\ rid \notin client.waiting /\ InitRid <= rid /\ rid <= client.next - 1
      /\ ~IsRead(client, rid) /\ session' = session
      /\ network' = network \union {[rid |-> rid, ack |-> ReadUpTo, kind |-> client.kind[rid]]}
  BY DEF ClientRepeat, Send, Unanswered, IsRead
<1>3. k = [client EXCEPT !.waiting = waiting] BY DEF ClientRepeat
<1>4. rid \in Nat /\ client.next \in Nat /\ rid < client.next
  <2>1. rid \in Nat BY ChannelNumbers
  <2>2. client.next \in Nat BY <1>1, ChannelNumbers DEF ClientRecord
  <2>3. QED BY <1>2, <2>1, <2>2
<1>5. waiting \subseteq Rid BY <1>1 DEF ClientRecord
<1> HIDE DEF waiting
<1>6. /\ k \in ClientRecord
      /\ k.next = client.next /\ k.waiting = waiting /\ k.kind = client.kind
      /\ k.got = client.got /\ k.conn = client.conn
  BY <1>1, <1>3, <1>5 DEF ClientRecord
<1> HIDE DEF k
<1>7. InitRid < rid
  <2>1. rid # InitRid BY <1>1, <1>2 DEF ClientGood
  <2>2. QED BY <1>2, <1>4, <2>1, ChannelNumbers
<1>8. IsRead(client, InitRid)
  <2>1. client.next > InitRid + 1 BY <1>4, <1>7, ChannelNumbers
  <2>2. QED BY <1>1, <2>1 DEF ClientGood
<1>9. client.kind[rid] \in Kinds BY <1>1, <1>4, <1>7 DEF ClientGood
<1>10. client.conn[rid] = 0 BY <1>1, <1>2 DEF ClientGood
<1>11. \A r \in Rid : InitRid < r /\ r < k.next => k.kind[r] \in Kinds
  BY <1>1, <1>6 DEF ClientGood
<1>12. client.next <= k.next /\ rid < k.next BY <1>4, <1>6
<1>13. ClientGood(k, network')
  BY <1>1, <1>2, <1>6, <1>7, <1>8, <1>9, <1>10, <1>11, <1>12, SendGood DEF waiting
<1>14. JointGood(session, k)
  <2>1. session.arrived \in Seq(Rid) BY DEF TypeOK, SessionRecord
  <2>2. QED BY <1>1, <1>6, <1>12, <2>1, SameJoint
<1>15. QED BY <1>2, <1>13, <1>14 DEF BothGood, k

(* A reply that is read: it is not the absent body, and its request came.  *)
LEMMA ClientReadGood ==
  ASSUME TypeOK, BothGood, Genuine(session), NEW rid \in Rid, ClientRead(rid)
  PROVE  BothGood'
<1> DEFINE k == client'
           c == client.conn[rid]
           body == session.replies[c][1]
           got == [client.got EXCEPT ![rid] = body]
           waiting == client.waiting \ {rid}
<1>1. client \in ClientRecord /\ ClientGood(client, network) /\ JointGood(session, client)
  BY DEF BothGood, ClientGood
<1>2. /\ rid \in client.waiting /\ c # 0 /\ session.replies[c] # << >>
      /\ session' = session /\ network' = network
  BY DEF ClientRead
<1>3. c \in DOMAIN session.arrived /\ session.arrived[c] = rid
  <2>1. ASSUME session.status = "none", c = 1 PROVE FALSE
    <3>1. session = EmptySession BY <1>1, <2>1 DEF JointGood
    <3>2. 1 \in Conn BY BoundsAssumption DEF Conn
    <3>3. session.replies[1] = << >> BY <3>1, <3>2 DEF EmptySession
    <3>4. QED BY <1>2, <2>1, <3>3
  <2>2. QED BY <1>1, <1>2, <2>1 DEF JointGood
<1>4. body \in Body /\ body # NoBody
  <2>1. c \in Conn
    <3>1. c \in 0..MaxConn BY <1>1 DEF ClientRecord
    <3>2. QED BY <1>2, <3>1, ChannelNumbers DEF Conn
  <2>2. session.replies[c] \in Seq(Body) BY <2>1 DEF TypeOK, SessionRecord
  <2>3. 1 \in DOMAIN session.replies[c] /\ session.replies[c][1] \in Body
    <3>1. PICK q : q = session.replies[c] OBVIOUS
    <3>2. q \in Seq(Body) /\ q # << >> BY <1>2, <2>2, <3>1
    <3>3. Len(q) >= 1 /\ DOMAIN q = 1..Len(q) BY <3>2
    <3>4. 1 \in 1..Len(q) BY <3>2, <3>3
    <3>5. q[1] \in Body BY <3>2, <3>4, ElementOfSeq
    <3>6. QED BY <3>1, <3>3, <3>4, <3>5
  <2>4. Real(body) BY <2>1, <2>3 DEF Genuine
  <2>5. QED BY <2>3, <2>4, RealIsKnown
<1>5. k = [client EXCEPT !.got = got, !.waiting = waiting]
  <2>1. k = [client EXCEPT !.got[rid] = session.replies[client.conn[rid]][1],
                           !.waiting = @ \ {rid}]
    BY Zenon DEF ClientRead
  <2>2. QED BY <1>1, <2>1 DEF ClientRecord
<1> HIDE DEF body
<1>6. /\ got \in [Rid -> Body] /\ \A r \in Rid : got[r] = IF r = rid THEN body ELSE client.got[r]
      /\ waiting \subseteq Rid
  BY <1>1, <1>4 DEF ClientRecord
<1>7. \A r : r \in waiting <=> r \in client.waiting /\ r # rid OBVIOUS
<1> HIDE DEF got, waiting, c
<1>8. /\ k \in ClientRecord /\ k.next = client.next /\ k.conn = client.conn
      /\ k.kind = client.kind /\ k.got = got /\ k.waiting = waiting
  BY <1>1, <1>5, <1>6 DEF ClientRecord
<1> HIDE DEF k
<1>9. \A r \in Rid : IsRead(k, r) <=> IsRead(client, r) \/ r = rid
  BY <1>4, <1>6, <1>8 DEF IsRead
<1>10. \A m \in network : m.rid # rid BY <1>1, <1>2 DEF ClientGood, c
<1>11. ClientGood(k, network')
  <2>1. network' \subseteq Message BY <1>1, <1>2 DEF ClientGood
  <2>2. \A r \in Rid : r \in k.waiting =>
          /\ InitRid <= r /\ r < k.next /\ ~IsRead(k, r)
          /\ k.conn[r] # 0 \/ UnderWay(network', r)
    BY <1>1, <1>2, <1>7, <1>8, <1>9 DEF ClientGood
  <2>3. \A r \in Rid : k.conn[r] # 0 => r < k.next /\ (IsRead(k, r) \/ r \in k.waiting)
    BY <1>1, <1>7, <1>8, <1>9 DEF ClientGood
  <2>4. \A r \in Rid : InitRid < r /\ r < k.next => k.kind[r] \in Kinds
    BY <1>1, <1>8 DEF ClientGood
  <2>5. /\ InitRid \in k.waiting \/ IsRead(k, InitRid)
        /\ k.next > InitRid + 1 => IsRead(k, InitRid)
    BY <1>1, <1>7, <1>8, <1>9, ChannelNumbers DEF ClientGood
  <2>6. /\ \A m \in network' : m.rid \in k.waiting /\ k.conn[m.rid] = 0
        /\ \A m, o \in network' : m.rid = o.rid => m = o
    BY <1>1, <1>2, <1>7, <1>8, <1>10 DEF ClientGood
  <2>7. \A r : IsRead(client, r) /\ r \in Rid => IsRead(k, r) BY <1>9
  <2>8. \A m \in network' : \A r \in InitRid..m.ack : IsRead(k, r)
    <3>1. ASSUME NEW m \in network, NEW r \in InitRid..m.ack PROVE IsRead(k, r)
      <4>1. IsRead(client, r) BY <1>1 DEF ClientGood
      <4>2. m \in Message BY <1>1 DEF ClientGood
      <4>3. m.ack \in InitRid..MaxRid BY <4>2 DEF Message
      <4>4. r \in Rid BY <3>1, <4>3, ChannelNumbers
      <4>5. QED BY <2>7, <4>1, <4>4
    <3>2. QED BY <1>2, <3>1
  <2>9. \E n \in (InitRid - 1)..MaxRid :
          k.next - 1 <= n + WindowSize /\ \A r \in InitRid..n : IsRead(k, r)
    <3>1. PICK n \in (InitRid - 1)..MaxRid :
            client.next - 1 <= n + WindowSize /\ \A r \in InitRid..n : IsRead(client, r)
      BY <1>1 DEF ClientGood
    <3>2. \A r \in InitRid..n : r \in Rid BY ChannelNumbers
    <3>3. \A r \in InitRid..n : IsRead(k, r) BY <2>7, <3>1, <3>2
    <3>4. QED BY <1>8, <3>1, <3>3
  <2>10. QED BY <1>8, <2>1, <2>2, <2>3, <2>4, <2>5, <2>6, <2>8, <2>9 DEF ClientGood
<1>12. JointGood(session, k)
  <2>1. Came(session, rid) BY <1>3 DEF Came
  <2>2. \A r \in Rid : IsRead(k, r) => Came(session, r) BY <1>1, <1>9, <2>1 DEF JointGood
  <2>3. QED BY <1>1, <1>8, <2>2 DEF JointGood
<1>13. QED BY <1>2, <1>11, <1>12 DEF BothGood, k

(* A connection that breaks.                                               *)
LEMMA BreakGood ==
  ASSUME TypeOK, BothGood, NEW rid \in Rid, Break(rid)
  PROVE  BothGood'
<1> DEFINE k == client'
           conn == [client.conn EXCEPT ![rid] = 0]
           waiting == client.waiting \ {rid}
           faults == client.faults + 1
<1>1. client \in ClientRecord /\ ClientGood(client, network) /\ JointGood(session, client)
  BY DEF BothGood, ClientGood
<1>2. /\ rid # InitRid /\ session' = session
      /\ network' = network \ {m \in network : m.rid = rid}
  BY DEF Break
<1>3. k = [client EXCEPT !.waiting = waiting, !.conn = conn, !.faults = faults]
  <2>1. k = [client EXCEPT !.waiting = @ \ {rid}, !.conn[rid] = 0, !.faults = @ + 1]
    BY Zenon DEF Break
  <2>2. QED BY <1>1, <2>1 DEF ClientRecord
<1>4. /\ conn \in [Rid -> 0..MaxConn]
      /\ \A r \in Rid : conn[r] = IF r = rid THEN 0 ELSE client.conn[r]
      /\ waiting \subseteq Rid /\ faults \in Nat
  <2>1. 0 \in 0..MaxConn BY ChannelNumbers
  <2>2. client.conn \in [Rid -> 0..MaxConn] BY <1>1 DEF ClientRecord
  <2>3. /\ conn \in [Rid -> 0..MaxConn]
        /\ \A r \in Rid : conn[r] = IF r = rid THEN 0 ELSE client.conn[r]
    BY <2>1, <2>2
  <2>4. QED BY <1>1, <2>3 DEF ClientRecord
<1>5. \A r : r \in waiting <=> r \in client.waiting /\ r # rid OBVIOUS
<1> HIDE DEF conn, waiting, faults
<1>6. /\ k \in ClientRecord /\ k.next = client.next /\ k.conn = conn
      /\ k.kind = client.kind /\ k.got = client.got /\ k.waiting = waiting
  BY <1>1, <1>3, <1>4 DEF ClientRecord
<1> HIDE DEF k
<1>7. \A r : IsRead(k, r) <=> IsRead(client, r) BY <1>6 DEF IsRead
<1>8. \A m : m \in network' <=> m \in network /\ m.rid # rid BY <1>2
<1>9. \A r : UnderWay(network, r) /\ r # rid => UnderWay(network', r) BY <1>8 DEF UnderWay
<1>10. ClientGood(k, network')
  <2>1. network' \subseteq Message BY <1>1, <1>2 DEF ClientGood
  <2>2. \A r \in Rid : r \in k.waiting =>
          /\ InitRid <= r /\ r < k.next /\ ~IsRead(k, r)
          /\ k.conn[r] # 0 \/ UnderWay(network', r)
    BY <1>1, <1>4, <1>5, <1>6, <1>7, <1>9 DEF ClientGood
  <2>3. \A r \in Rid : k.conn[r] # 0 => r < k.next /\ (IsRead(k, r) \/ r \in k.waiting)
    BY <1>1, <1>4, <1>5, <1>6, <1>7 DEF ClientGood
  <2>4. \A r \in Rid : InitRid < r /\ r < k.next => k.kind[r] \in Kinds
    BY <1>1, <1>6 DEF ClientGood
  <2>5. /\ InitRid \in k.waiting \/ IsRead(k, InitRid)
        /\ k.next > InitRid + 1 => IsRead(k, InitRid)
    BY <1>1, <1>2, <1>5, <1>6, <1>7 DEF ClientGood
  <2>6. /\ \A m \in network' : m.rid \in k.waiting /\ k.conn[m.rid] = 0
        /\ \A m, o \in network' : m.rid = o.rid => m = o
    <3>1. ASSUME NEW m \in network' PROVE m.rid \in k.waiting /\ k.conn[m.rid] = 0
      <4>1. m \in network /\ m.rid # rid BY <1>8
      <4>2. m.rid \in client.waiting /\ client.conn[m.rid] = 0 BY <1>1, <4>1 DEF ClientGood
      <4>3. m.rid \in Rid BY <1>1, <4>2 DEF ClientRecord
      <4>4. QED BY <1>4, <1>5, <1>6, <4>1, <4>2, <4>3
    <3>2. QED BY <1>1, <1>8, <3>1 DEF ClientGood
  <2>7. \A m \in network' : \A r \in InitRid..m.ack : IsRead(k, r)
    BY <1>1, <1>7, <1>8 DEF ClientGood
  <2>8. \E n \in (InitRid - 1)..MaxRid :
          k.next - 1 <= n + WindowSize /\ \A r \in InitRid..n : IsRead(k, r)
    BY <1>1, <1>6, <1>7 DEF ClientGood
  <2>9. QED BY <1>6, <2>1, <2>2, <2>3, <2>4, <2>5, <2>6, <2>7, <2>8 DEF ClientGood
<1>11. JointGood(session, k)
  <2>1. \A r \in Rid : k.conn[r] # 0 => client.conn[r] # 0 /\ k.conn[r] = client.conn[r]
    BY <1>4, <1>6
  <2>2. \A r \in Rid : k.conn[r] # 0 =>
          \/ session.status = "none" /\ r = InitRid /\ k.conn[r] = 1
          \/ k.conn[r] \in DOMAIN session.arrived /\ session.arrived[k.conn[r]] = r
    BY <1>1, <2>1 DEF JointGood
  <2>3. QED BY <1>1, <1>6, <1>7, <2>2 DEF JointGood
<1>12. QED BY <1>2, <1>10, <1>11 DEF BothGood, k

(* A request that arrives is within the window.                            *)
LEMMA MessageInWindow ==
  ASSUME TypeOK, QueueInv, BothGood, NEW m \in network, session.status = "open"
  PROVE  InWindow(m.rid) /\ m.rid \in Rid /\ m.ack \in Nat /\ m.kind \in Kinds
<1> DEFINE rid == session.rid
<1>1. ClientGood(client, network) /\ JointGood(session, client) /\ client \in ClientRecord
  BY DEF BothGood, ClientGood
<1>2. m \in Message BY <1>1 DEF ClientGood
<1>3. /\ m.rid \in (InitRid + 1)..MaxRid /\ m.ack \in InitRid..MaxRid /\ m.kind \in Kinds
  BY <1>2 DEF Message
<1>4. m.rid \in Rid /\ m.rid \in Nat /\ m.ack \in Nat BY <1>3, ChannelNumbers
<1>5. rid \in Nat /\ rid <= MaxRid /\ InitRid <= rid /\ rid \in Rid
  <2>1. rid \in 0..MaxRid BY DEF TypeOK, SessionRecord
  <2>2. InitRid <= rid BY <1>1 DEF JointGood
  <2>3. QED BY <2>1, <2>2, ChannelNumbers
<1>6. m.rid < client.next /\ ~IsRead(client, m.rid)
  <2>1. m.rid \in client.waiting BY <1>1 DEF ClientGood
  <2>2. QED BY <1>1, <1>4, <2>1 DEF ClientGood
<1>7. PICK n \in (InitRid - 1)..MaxRid :
        client.next - 1 <= n + WindowSize /\ \A r \in InitRid..n : IsRead(client, r)
  BY <1>1 DEF ClientGood
<1>8. n \in Int /\ client.next \in Nat BY <1>1, ChannelNumbers DEF ClientRecord
<1>9. \A r \in InitRid..n : r \in Rid /\ Recorded(session, r)
  <2>1. \A r \in InitRid..n : r \in Rid /\ InitRid <= r BY ChannelNumbers
  <2>2. QED BY <1>1, <1>7, <2>1 DEF JointGood
<1>10. n <= rid
  <2>1. ASSUME n > rid PROVE FALSE
    <3>1. rid + 1 \in InitRid..n /\ ~(rid + 1 <= rid) BY <1>5, <1>8, <2>1, ChannelNumbers
    <3>2. session.queued_requests[rid + 1] # "none" /\ rid + 1 \in Rid
      BY <1>9, <3>1 DEF Recorded
    <3>3. rid + 1 > rid + 1 BY <3>2 DEF QueueInv, Ahead
    <3>4. QED BY <1>5, <3>3
  <2>2. QED BY <1>5, <1>8, <2>1
<1>11. rid < client.next
  <2>1. Recorded(session, rid) BY <1>5 DEF Recorded
  <2>2. Came(session, rid) BY <1>1, <1>5, <2>1 DEF JointGood
  <2>3. QED BY <1>1, <2>2 DEF Came, JointGood
<1>12. m.rid > n
  <2>1. m.rid \notin InitRid..n BY <1>6, <1>7
  <2>2. QED BY <1>3, <1>8, <2>1, ChannelNumbers
<1>13. m.rid >= rid - WindowSize /\ m.rid <= rid + WindowSize
  <2> HIDE DEF rid
  <2>1. PICK a, b, w : a = m.rid /\ b = client.next /\ w = WindowSize OBVIOUS
  <2>2. /\ a \in Nat /\ b \in Nat /\ w \in Nat /\ rid \in Nat /\ n \in Int
        /\ a < b /\ b - 1 <= n + w /\ n <= rid /\ rid < b /\ a > n
    BY <1>4, <1>5, <1>6, <1>7, <1>8, <1>10, <1>11, <1>12, <2>1, ChannelNumbers
  <2>3. a >= rid - w /\ a <= rid + w BY <2>2
  <2>4. QED BY <2>1, <2>3
<1>14. QED BY <1>3, <1>4, <1>13 DEF InWindow

(* A request that arrives is taken in.                                     *)
LEMMA ArrivalGood ==
  ASSUME TypeOK, TypeOK', AnsweredOnce, QueueInv, NoEnd(session), BothGood,
         "terminate" \notin Kinds, NEW m \in network, Arrival(m)
  PROVE  /\ Request(m.rid, m.ack, m.kind) \/ RepeatedRequest(m.rid, m.ack, m.kind)
         /\ TakesRequest(session, m.rid, NextConn, m.ack, session')
         /\ BothGood'
<1> DEFINE k == client'
           s == session
           t == session'
           rid == m.rid
           c == NextConn
           conn == [client.conn EXCEPT ![rid] = c]
<1>1. client \in ClientRecord /\ ClientGood(client, network) /\ JointGood(s, client)
  BY DEF BothGood, ClientGood
<1>2. s.status = "open" /\ MayArrive
  BY DEF Arrival, Request, RepeatedRequest, InvalidRequest
<1>3. InWindow(rid) /\ rid \in Rid /\ m.ack \in Nat /\ m.kind \in Kinds
  BY <1>2, MessageInWindow
<1>4. Request(rid, m.ack, m.kind) \/ RepeatedRequest(rid, m.ack, m.kind)
  BY <1>3 DEF Arrival, InvalidRequest
<1>5. TakesRequest(s, rid, c, m.ack, t)
  BY <1>3, <1>4, RequestTakes
<1>6. s \in SessionRecord /\ t \in SessionRecord BY DEF TypeOK
<1>7. /\ s.arrived \in Seq(Rid) /\ Len(s.arrived) \in Nat
      /\ DOMAIN s.arrived = 1..Len(s.arrived)
      /\ \A d \in DOMAIN s.arrived : s.arrived[d] \in Rid
  BY <1>6, ArrivedFields
<1>8. c = Len(s.arrived) + 1 /\ c <= MaxConn BY <1>2 DEF NextConn, MayArrive
<1>9. c \in 0..MaxConn /\ c # 0 BY <1>7, <1>8, ChannelNumbers
<1>10. t.arrived = Append(s.arrived, rid) BY <1>5 DEF TakesRequest
<1>11. /\ Len(t.arrived) = c /\ DOMAIN t.arrived = DOMAIN s.arrived \union {c}
       /\ \A d \in DOMAIN s.arrived : t.arrived[d] = s.arrived[d]
       /\ t.arrived[c] = rid
  <2>1. PICK q, u : q = s.arrived /\ u = Append(q, rid) OBVIOUS
  <2>2. q \in Seq(Rid) /\ Len(q) \in Nat /\ DOMAIN q = 1..Len(q) BY <1>7, <2>1
  <2>3. /\ Len(u) = Len(q) + 1 /\ DOMAIN u = 1..(Len(q) + 1)
        /\ \A d \in 1..Len(q) : u[d] = q[d]
        /\ u[Len(q) + 1] = rid
    BY <1>3, <2>1, <2>2
  <2>4. 1..(Len(q) + 1) = 1..Len(q) \union {Len(q) + 1} BY <2>2
  <2>5. QED BY <1>7, <1>8, <1>10, <2>1, <2>3, <2>4
<1>12. k = [client EXCEPT !.conn = conn] /\ network' = network \ {m}
  <2>1. k = [client EXCEPT !.conn[rid] = c] BY Zenon DEF Arrival
  <2>2. QED BY <1>1, <2>1 DEF ClientRecord, Arrival
<1>13. /\ conn \in [Rid -> 0..MaxConn]
       /\ \A r \in Rid : conn[r] = IF r = rid THEN c ELSE client.conn[r]
  <2>1. client.conn \in [Rid -> 0..MaxConn] BY <1>1 DEF ClientRecord
  <2> HIDE DEF c, rid
  <2>2. QED BY <1>3, <1>9, <2>1
<1> HIDE DEF conn
<1>14. /\ k \in ClientRecord /\ k.next = client.next /\ k.conn = conn
       /\ k.kind = client.kind /\ k.got = client.got /\ k.waiting = client.waiting
  BY <1>1, <1>12, <1>13 DEF ClientRecord
<1> HIDE DEF k
<1>15. \A r : IsRead(k, r) <=> IsRead(client, r) BY <1>14 DEF IsRead
<1>16. rid \in client.waiting /\ client.conn[rid] = 0 /\ InitRid <= rid /\ rid < client.next
  BY <1>1, <1>3 DEF ClientGood
<1>17. \A o : o \in network' <=> o \in network /\ o # m BY <1>12
<1>18. \A o \in network' : o \in network /\ o.rid # rid BY <1>1, <1>17 DEF ClientGood
<1>19. \A r : UnderWay(network, r) /\ r # rid => UnderWay(network', r)
  BY <1>17 DEF UnderWay
<1>20. ClientGood(k, network')
  <2>1. network' \subseteq Message BY <1>1, <1>12 DEF ClientGood
  <2>2. \A r \in Rid : r \in k.waiting =>
          /\ InitRid <= r /\ r < k.next /\ ~IsRead(k, r)
          /\ k.conn[r] # 0 \/ UnderWay(network', r)
    <3>1. ASSUME NEW r \in Rid, r \in k.waiting
          PROVE  /\ InitRid <= r /\ r < k.next /\ ~IsRead(k, r)
                 /\ k.conn[r] # 0 \/ UnderWay(network', r)
      <4>1. InitRid <= r /\ r < k.next /\ ~IsRead(k, r)
        BY <1>1, <1>14, <1>15, <3>1 DEF ClientGood
      <4>2. client.conn[r] # 0 \/ UnderWay(network, r) BY <1>1, <1>14, <3>1 DEF ClientGood
      <4>3. k.conn[r] # 0 \/ UnderWay(network', r)
        <5> HIDE DEF c, rid
        <5>1. CASE r = rid BY <1>9, <1>13, <1>14, <5>1
        <5>2. CASE r # rid BY <1>13, <1>14, <1>19, <4>2, <5>2
        <5>3. QED BY <5>1, <5>2
      <4>4. QED BY <4>1, <4>3
    <3>2. QED BY <3>1
  <2>3. \A r \in Rid : k.conn[r] # 0 => r < k.next /\ (IsRead(k, r) \/ r \in k.waiting)
    <3> HIDE DEF c, rid
    <3>1. QED BY <1>1, <1>13, <1>14, <1>15, <1>16 DEF ClientGood
  <2>4. \A r \in Rid : InitRid < r /\ r < k.next => k.kind[r] \in Kinds
    BY <1>1, <1>14 DEF ClientGood
  <2>5. /\ InitRid \in k.waiting \/ IsRead(k, InitRid)
        /\ k.next > InitRid + 1 => IsRead(k, InitRid)
    BY <1>1, <1>14, <1>15 DEF ClientGood
  <2>6. /\ \A o \in network' : o.rid \in k.waiting /\ k.conn[o.rid] = 0
        /\ \A o, p \in network' : o.rid = p.rid => o = p
    <3>1. ASSUME NEW o \in network' PROVE o.rid \in k.waiting /\ k.conn[o.rid] = 0
      <4>1. o \in network /\ o.rid # rid BY <1>18
      <4>2. o.rid \in client.waiting /\ client.conn[o.rid] = 0 BY <1>1, <4>1 DEF ClientGood
      <4>3. o.rid \in Rid BY <1>1, <4>2 DEF ClientRecord
      <4>4. QED BY <1>13, <1>14, <4>1, <4>2, <4>3
    <3>2. QED BY <1>1, <1>17, <3>1 DEF ClientGood
  <2>7. \A o \in network' : \A r \in InitRid..o.ack : IsRead(k, r)
    BY <1>1, <1>15, <1>17 DEF ClientGood
  <2>8. \E n \in (InitRid - 1)..MaxRid :
          k.next - 1 <= n + WindowSize /\ \A r \in InitRid..n : IsRead(k, r)
    BY <1>1, <1>14, <1>15 DEF ClientGood
  <2>9. QED BY <1>14, <2>1, <2>2, <2>3, <2>4, <2>5, <2>6, <2>7, <2>8 DEF ClientGood
<1>21. \A r : Came(t, r) <=> Came(s, r) \/ r = rid BY <1>11 DEF Came
<1>22. JointGood(t, k)
  <2>1. t.status = "open" /\ InitRid <= t.rid
    <3>1. s.rid \in Nat /\ t.rid \in Nat BY <1>6, NumberFields
    <3>2. InitRid <= s.rid BY <1>1, <1>2 DEF JointGood
    <3>3. t.status = s.status /\ s.rid <= t.rid BY <1>5 DEF TakesRequest
    <3>4. QED BY <1>2, <3>1, <3>2, <3>3, ChannelNumbers
  <2>2. \A r \in Rid : k.conn[r] # 0 => k.conn[r] \in DOMAIN t.arrived /\ t.arrived[k.conn[r]] = r
    <3>1. ASSUME NEW r \in Rid, k.conn[r] # 0
          PROVE  k.conn[r] \in DOMAIN t.arrived /\ t.arrived[k.conn[r]] = r
      <4>1. CASE r = rid
        <5>1. k.conn[r] = c BY <1>13, <1>14, <4>1
        <5>2. QED BY <1>11, <4>1, <5>1
      <4>2. CASE r # rid
        <5>1. k.conn[r] = client.conn[r] BY <1>13, <1>14, <4>2
        <5>2. client.conn[r] \in DOMAIN s.arrived /\ s.arrived[client.conn[r]] = r
          BY <1>1, <1>2, <3>1, <5>1 DEF JointGood
        <5>3. QED BY <1>11, <5>1, <5>2
      <4>3. QED BY <4>1, <4>2
    <3>2. QED BY <3>1
  <2>3. Len(t.arrived) <= MaxConn BY <1>8, <1>11
  <2>4. \A d \in DOMAIN t.arrived : InitRid <= t.arrived[d] /\ t.arrived[d] < k.next
    BY <1>1, <1>11, <1>14, <1>16 DEF JointGood
  <2>5. \A r \in Rid : InitRid <= r => (Recorded(t, r) <=> Came(t, r))
    BY <1>1, <1>5, <1>21 DEF JointGood, TakesRequest
  <2>6. \A r \in Rid : IsRead(k, r) => Came(t, r) BY <1>1, <1>15, <1>21 DEF JointGood
  <2>7. QED BY <2>1, <2>2, <2>3, <2>4, <2>5, <2>6 DEF JointGood
<1>23. QED BY <1>4, <1>5, <1>20, <1>22 DEF BothGood, k

(* A client that a step of the session leaves as it was, but for a count.  *)
LEMMA SameClient ==
  ASSUME ClientGood(client, network), network' = network, NEW k \in ClientRecord,
         k.next = client.next, k.got = client.got, k.conn = client.conn,
         k.waiting = client.waiting, k.kind = client.kind
  PROVE  ClientGood(k, network')
BY DEF ClientGood, IsRead

(* An event of the session.                                                *)
LEMMA EventGood ==
  ASSUME TypeOK, TypeOK', BothGood, Tick \/ Stanza_(FALSE) \/ Timeout
  PROVE  Passes(session, session') /\ BothGood'
<1> DEFINE s == session
           t == session'
           k == client'
<1>1. client \in ClientRecord /\ ClientGood(client, network) /\ JointGood(s, client)
  BY DEF BothGood, ClientGood
<1>2. NextTick \/ OnResponse(FALSE) \/ RequestTimeout BY DEF Tick, Stanza_, Timeout
<1>3. Passes(s, t) BY <1>2, EventPasses
<1>4. s.status = "open" /\ InitRid <= s.rid
  <2>1. ASSUME s = EmptySession PROVE FALSE
    <3>1. /\ ~s.has_next_tick /\ s.status = "none" /\ s.res = << >>
      BY <2>1 DEF EmptySession
    <3>2. DOMAIN s.res = {} BY <3>1
    <3>3. ~NextTick BY <3>1 DEF NextTick
    <3>4. ~OnResponse(FALSE) BY <3>1 DEF OnResponse
    <3>5. ~RequestTimeout BY <3>2 DEF RequestTimeout
    <3>6. QED BY <1>2, <3>3, <3>4, <3>5
  <2>2. QED BY <1>1, <2>1 DEF JointGood
<1>5. /\ k \in ClientRecord /\ k.next = client.next /\ k.got = client.got
      /\ k.conn = client.conn /\ k.waiting = client.waiting /\ k.kind = client.kind
      /\ network' = network
  <2>1. CASE client' = client /\ network' = network BY <1>1, <2>1
  <2>2. CASE Timeout
    <3> DEFINE polls == client.polls + 1
    <3>1. k = [client EXCEPT !.polls = polls] /\ network' = network
      BY <1>1, <2>2 DEF Timeout, ClientRecord
    <3>2. polls \in Nat BY <1>1 DEF ClientRecord
    <3> HIDE DEF polls
    <3>3. QED BY <1>1, <3>1, <3>2 DEF ClientRecord
  <2>3. QED BY <2>1, <2>2 DEF Tick, Stanza_
<1> HIDE DEF k
<1>6. ClientGood(k, network') BY <1>1, <1>5, SameClient
<1>7. JointGood(t, k)
  <2>1. t.arrived = s.arrived BY <1>3 DEF Passes, KeepsMemory
  <2>2. t.status = "open" /\ InitRid <= t.rid
    <3>1. s.rid \in Nat /\ t.rid \in Nat BY NumberFields DEF TypeOK
    <3>2. t.status = s.status /\ s.rid <= t.rid BY <1>3 DEF Passes
    <3>3. QED BY <1>4, <3>1, <3>2, ChannelNumbers
  <2>3. \A r : Came(t, r) <=> Came(s, r) BY <2>1 DEF Came
  <2>4. \A r : IsRead(k, r) <=> IsRead(client, r) BY <1>5 DEF IsRead
  <2>5. \A r \in Rid : k.conn[r] # 0 => k.conn[r] \in DOMAIN t.arrived /\ t.arrived[k.conn[r]] = r
    BY <1>1, <1>4, <1>5, <2>1 DEF JointGood
  <2>6. \A r \in Rid : InitRid <= r => (Recorded(t, r) <=> Came(t, r))
    BY <1>1, <1>3, <2>3 DEF JointGood, Passes
  <2>7. QED BY <1>1, <1>5, <2>1, <2>2, <2>3, <2>4, <2>5, <2>6 DEF JointGood
<1>8. QED BY <1>3, <1>6, <1>7 DEF BothGood, k

(* The creation of the session.                                            *)
LEMMA CreateGood ==
  ASSUME TypeOK, BothGood, Create
  PROVE  Created(session') /\ BothGood'
<1> DEFINE t == session'
           k == client
<1>1. PICK h \in HoldAttrs, a \in AckModes : CreateSession(h, a, "poll") BY DEF Create
<1>2. Created(t) BY <1>1, CreateMakes
<1>3. client' = client /\ network' = network BY DEF Create
<1>4. ClientGood(client, network) /\ JointGood(session, client) /\ client \in ClientRecord
  BY DEF BothGood, ClientGood
<1>5. session = EmptySession /\ session.status = "none"
  BY <1>1, <1>4 DEF JointGood, CreateSession
<1>6. /\ session.arrived = << >> /\ \A r : ~Came(session, r)
  <2>1. session.arrived = << >> BY <1>5 DEF EmptySession
  <2>2. DOMAIN session.arrived = {} BY <2>1
  <2>3. QED BY <2>1, <2>2 DEF Came
<1>7. DOMAIN t.arrived = {1} /\ t.arrived[1] = InitRid /\ Len(t.arrived) = 1
  <2>1. t.arrived = << InitRid >> BY <1>2 DEF Created
  <2>2. QED BY <2>1
<1>8. \A r : Came(t, r) <=> r = InitRid BY <1>7 DEF Came
<1>9. JointGood(t, k)
  <2>1. t.status = "open" /\ t.rid = InitRid /\ InitRid <= t.rid
    <3>1. t.status = "open" /\ t.rid = InitRid BY <1>2 DEF Created
    <3>2. QED BY <3>1, ChannelNumbers
  <2>2. \A r \in Rid : k.conn[r] # 0 => k.conn[r] \in DOMAIN t.arrived /\ t.arrived[k.conn[r]] = r
    <3>1. ASSUME NEW r \in Rid, k.conn[r] # 0
          PROVE  r = InitRid /\ k.conn[r] = 1
      <4>1. DOMAIN session.arrived = {} BY <1>6
      <4>2. QED BY <1>4, <1>5, <3>1, <4>1 DEF JointGood
    <3>2. QED BY <1>7, <3>1
  <2>3. Len(t.arrived) <= MaxConn BY <1>7, ChannelNumbers
  <2>4. \A d \in DOMAIN t.arrived : InitRid <= t.arrived[d] /\ t.arrived[d] < k.next
    <3>1. InitRid <= InitRid /\ InitRid < k.next BY <1>4, ChannelNumbers DEF ClientRecord
    <3>2. QED BY <1>7, <3>1
  <2>5. \A r \in Rid : InitRid <= r => (Recorded(t, r) <=> Came(t, r))
    <3>1. ASSUME NEW r \in Rid, InitRid <= r PROVE Recorded(t, r) <=> r = InitRid
      <4>1. t.queued_requests[r] = "none" BY <1>2 DEF Created
      <4>2. Recorded(t, r) <=> r <= InitRid BY <2>1, <4>1 DEF Recorded
      <4>3. r \in Nat BY ChannelNumbers
      <4>4. QED BY <3>1, <4>2, <4>3, ChannelNumbers
    <3>2. QED BY <1>8, <3>1
  <2>6. \A r \in Rid : IsRead(k, r) => Came(t, r) BY <1>4, <1>6 DEF JointGood
  <2>7. QED BY <2>1, <2>2, <2>3, <2>4, <2>5, <2>6 DEF JointGood
<1>10. QED BY <1>2, <1>3, <1>4, <1>9 DEF BothGood

-----------------------------------------------------------------------------
(* No session is refused.                                                  *)

ChannelInv ==
  /\ TypeOK /\ HeldInv /\ QueueInv
  /\ Genuine(session) /\ NoEnd(session) /\ BothGood

(* Where QueueGood holds, QueueInv is kept.                                *)
LEMMA GoodQueueKept ==
  ASSUME TypeOK, TypeOK', QueueInv, QueueGood
  PROVE  QueueInv'
<1>1. Untouched(session')
  <2>1. ASSUME NEW r \in Rid, r > session'.rid PROVE session'.nodes[r] = 0
    <3>1. r \in Nat /\ session.rid \in Nat /\ session'.rid \in Nat
      BY NumberFields DEF TypeOK
    <3>2. session.rid <= session'.rid /\ session'.nodes[r] = session.nodes[r]
      BY <2>1, <3>1 DEF QueueGood, NodesMove
    <3>3. QED BY <2>1, <3>1, <3>2 DEF QueueInv, Untouched
  <2>2. QED BY <2>1 DEF Untouched
<1>2. QED BY <1>1 DEF QueueGood, QueueInv

(* The channel begins well.                                                *)
LEMMA ChannelBegins ==
  ASSUME ChannelInit
  PROVE  ChannelInv
<1>1. session = EmptySession BY DEF ChannelInit, Init
<1>2. TypeOK BY <1>1, EmptyType DEF TypeOK
<1>3. /\ session.status = "none" /\ session.rid = 0 /\ session.hold = 1
      /\ session.res = << >> /\ session.arrived = << >>
      /\ session.replies = [c \in Conn |-> << >>]
      /\ session.pending_stanzas = << >> /\ session.pending_bosh_responses = << >>
      /\ \A r \in Rid : /\ session.queued_requests[r] = "none" /\ session.nodes[r] = 0
                        /\ session.unacked_responses[r] = NoBody
  BY <1>1 DEF EmptySession
<1>4. DOMAIN session.res = {} /\ Len(session.res) = 0 /\ DOMAIN session.arrived = {}
      /\ Len(session.arrived) = 0
  BY <1>3
<1>5. HeldInv
  <2>1. HeldConns(session) = {} BY <1>4 DEF HeldConns
  <2>2. \A c \in Conn : Len(session.replies[c]) = 0 BY <1>3
  <2>3. AnsweredOnce BY <1>4, <2>1, <2>2 DEF AnsweredOnce, OneReplyEach
  <2>4. QED BY <1>3, <1>4, <2>3 DEF HeldInv
<1>6. QueueInv BY <1>3 DEF QueueInv, Ahead, Untouched, Moving, Calm
<1>7. Genuine(session) /\ NoEnd(session)
  <2>1. \A c \in Conn : DOMAIN session.replies[c] = {} BY <1>3
  <2>2. QED BY <1>3, <2>1 DEF Genuine, NoEnd, Known
<1>8. ClientGood(client, network) BY ClientBegins
<1>9. JointGood(session, client)
  <2>1. PICK path \in Networks :
          client = [next |-> InitRid + 1, got |-> [r \in Rid |-> NoBody],
                   conn |-> [r \in Rid |-> IF r = InitRid THEN 1 ELSE 0],
                   waiting |-> {InitRid}, kind |-> [r \in Rid |-> "poll"],
                   data |-> 0, polls |-> 0, faults |-> 0, path |-> path]
    BY Zenon DEF ChannelInit
  <2>2. \A r \in Rid : /\ ~IsRead(client, r)
                       /\ client.conn[r] # 0 => r = InitRid /\ client.conn[r] = 1
    BY <2>1 DEF IsRead
  <2>3. \A r : ~Came(session, r) BY <1>4 DEF Came
  <2>4. \A r \in Rid : InitRid <= r => ~Recorded(session, r)
    <3>1. ASSUME NEW r \in Rid, InitRid <= r PROVE ~Recorded(session, r)
      <4>1. r \in Nat /\ ~(r <= 0) BY <3>1, ChannelNumbers
      <4>2. QED BY <1>3, <4>1 DEF Recorded
    <3>2. QED BY <3>1
  <2>5. Len(session.arrived) <= MaxConn BY <1>4, ChannelNumbers
  <2>6. QED BY <1>1, <1>3, <1>4, <2>2, <2>3, <2>4, <2>5 DEF JointGood
<1>10. QED BY <1>2, <1>5, <1>6, <1>7, <1>8, <1>9 DEF ChannelInv, BothGood

(* What the steps of the channel are to the session: its creation, an      *)
(* event, a request, or nothing.                                           *)
LEMMA ChannelStep ==
  ASSUME ChannelInv, "terminate" \notin Kinds, ChannelNext
  PROVE  ChannelInv'
<1>1. /\ TypeOK /\ HeldInv /\ QueueInv /\ Genuine(session) /\ NoEnd(session) /\ BothGood
      /\ AnsweredOnce
  BY DEF ChannelInv, HeldInv
<1>2. ASSUME session' = session, BothGood' PROVE ChannelInv'
  <2>1. TypeOK' /\ HeldInv' /\ Genuine(session') /\ NoEnd(session')
    BY <1>1, <1>2 DEF TypeOK, HeldInv, AnsweredOnce
  <2>2. QueueInv' BY <1>1, <1>2 DEF QueueInv
  <2>3. QED BY <1>2, <2>1, <2>2 DEF ChannelInv
<1>3. CASE Create
  <2>1. PICK h \in HoldAttrs, a \in AckModes : CreateSession(h, a, "poll")
    BY <1>3 DEF Create
  <2>2. TypeOK' BY <1>1, <2>1, CreateType
  <2>3. HeldInv' BY <2>1, <2>2, CreateHeld
  <2>4. QueueGood BY <1>1, <2>1, <2>2, CreateQueue
  <2>5. QueueInv' BY <1>1, <2>2, <2>4, GoodQueueKept
  <2>6. Created(session') /\ BothGood' BY <1>1, <1>3, CreateGood
  <2>7. Genuine(session') /\ NoEnd(session')
    <3>1. \A c \in Conn : DOMAIN session'.replies[c] = {} BY <2>6 DEF Created
    <3>2. QED BY <2>6, <3>1 DEF Created, Genuine, NoEnd
  <2>8. QED BY <2>2, <2>3, <2>5, <2>6, <2>7 DEF ChannelInv
<1>4. CASE Tick \/ Stanza_(FALSE) \/ Timeout
  <2>1. NextTick \/ OnResponse(FALSE) \/ RequestTimeout BY <1>4 DEF Tick, Stanza_, Timeout
  <2>2. TypeOK' BY <1>1, <2>1, NextTickType, ServerEventType, TimeoutType
  <2>3. HeldInv' BY <1>1, <2>1, <2>2, EventHeld, RequestTimeoutHeld
  <2>4. QueueGood BY <1>1, <2>1, <2>2, EventQueue
  <2>5. QueueInv' BY <1>1, <2>2, <2>4, GoodQueueKept
  <2>6. Passes(session, session') /\ BothGood' BY <1>1, <1>4, <2>2, EventGood
  <2>7. NoEnd(session') BY <1>1, <2>2, <2>6, NoEndPasses DEF TypeOK
  <2>8. Genuine(session') BY <1>1, <2>6 DEF Passes, KeepsMemory
  <2>9. QED BY <2>2, <2>3, <2>5, <2>6, <2>7, <2>8 DEF ChannelInv
<1>5. ASSUME NEW m \in network, Arrival(m) PROVE ChannelInv'
  <2>1. session.status = "open" BY <1>5 DEF Arrival, Request, RepeatedRequest, InvalidRequest
  <2>2. /\ m.rid \in Rid /\ m.ack \in Nat /\ m.kind \in Kinds
        /\ Request(m.rid, m.ack, m.kind) \/ RepeatedRequest(m.rid, m.ack, m.kind)
    <3>1. InWindow(m.rid) /\ m.rid \in Rid /\ m.ack \in Nat /\ m.kind \in Kinds
      BY <1>1, <2>1, MessageInWindow
    <3>2. QED BY <1>5, <3>1 DEF Arrival, InvalidRequest
  <2>3. TypeOK' BY <1>1, <2>2, RequestType
  <2>4. HeldInv' BY <1>1, <2>2, <2>3, RequestHeld
  <2>5. QueueGood BY <1>1, <2>2, RequestQueue, RepeatedRequestQueue
  <2>6. QueueInv' BY <1>1, <2>3, <2>5, GoodQueueKept
  <2>7. TakesRequest(session, m.rid, NextConn, m.ack, session') /\ BothGood'
    BY <1>1, <1>5, <2>3, ArrivalGood
  <2>8. NoEnd(session') /\ Genuine(session') BY <1>1, <2>7 DEF TakesRequest
  <2>9. QED BY <2>3, <2>4, <2>6, <2>7, <2>8 DEF ChannelInv
<1>6. ASSUME NEW kind \in Kinds, ClientRequest(kind) PROVE ChannelInv'
  BY <1>1, <1>2, <1>6, ClientRequestGood DEF ClientRequest
<1>7. ASSUME NEW rid \in Rid, ClientRepeat(rid) PROVE ChannelInv'
  BY <1>1, <1>2, <1>7, ClientRepeatGood DEF ClientRepeat
<1>8. ASSUME NEW rid \in Rid, ClientRead(rid) PROVE ChannelInv'
  BY <1>1, <1>2, <1>8, ClientReadGood DEF ClientRead
<1>9. ASSUME NEW rid \in Rid, Break(rid) PROVE ChannelInv'
  BY <1>1, <1>2, <1>9, BreakGood DEF Break
<1>10. QED BY <1>3, <1>4, <1>5, <1>6, <1>7, <1>8, <1>9 DEF ChannelNext

(* ChannelInv is an invariant of the channel.                              *)
LEMMA ChannelInvariant == "terminate" \notin Kinds => (ChannelSpec => []ChannelInv)
<1> SUFFICES ASSUME "terminate" \notin Kinds PROVE ChannelSpec => []ChannelInv OBVIOUS
<1>1. ChannelInit => ChannelInv BY ChannelBegins
<1>2. ChannelInv /\ [ChannelNext]_vars => ChannelInv'
  <2>1. CASE ChannelNext BY <2>1, ChannelStep
  <2>2. ASSUME ChannelInv, UNCHANGED vars PROVE ChannelInv'
    BY <2>2 DEF vars, ChannelInv, TypeOK, HeldInv, AnsweredOnce, QueueInv, BothGood
  <2>3. QED BY <2>1, <2>2
<1>3. QED BY <1>1, <1>2, PTL DEF ChannelSpec

(* A client that keeps within the window it was told, on whatever network, *)
(* is never refused: no rid it sends, repeats or has overtaken falls       *)
(* outside the window that the session checks (session.js 249-258).        *)
THEOREM NeverRefuses == "terminate" \notin Kinds => (ChannelSpec => []NeverRefused)
<1>1. ChannelInv => NeverRefused BY DEF ChannelInv, BothGood, JointGood, NeverRefused
<1>2. QED BY <1>1, ChannelInvariant, PTL

-----------------------------------------------------------------------------
(* No reply is missed, where the network loses requests or loses replies.  *)

(* A request that is held waits for its reply, at the server.              *)
HeldWaits(s, k) ==
  \A i \in DOMAIN s.res : k.conn[s.res[i].rid] = s.res[i].conn /\ s.res[i].rid \in k.waiting

(* What was read has every stanza that was sent on that rid.               *)
ReadKept(s, k) ==
  \A c \in DOMAIN s.arrived : IsRead(k, s.arrived[c]) =>
    \A i \in DOMAIN s.replies[c] :
      StanzasOf(s.replies[c][i]) \subseteq StanzasOf(k.got[s.arrived[c]])

(* Where requests are lost, none arrives twice.                            *)
OnePlace(s, k) ==
  k.path = "overtaking" => \A c \in DOMAIN s.arrived : k.conn[s.arrived[c]] = c

(* Where replies are lost, the cache has those that were not read, ...     *)
UnreadKnown(s, k) ==
  k.path = "losing" => \A c \in DOMAIN s.arrived :
    ~IsRead(k, s.arrived[c]) /\ Replied(s, c) => Known(s, s.arrived[c])

(* ... for the requests come in order, and so few of them that nothing     *)
(* overflows.                                                              *)
Covered(s, b) ==
  /\ s.rid <= b + 2 * WindowSize
  /\ \A r \in Rid : Known(s, r) \/ Held(s, r) => b < r /\ r <= s.rid

InOrder(s, k, net) ==
  k.path = "losing" =>
    /\ \A r \in Rid : s.queued_requests[r] = "none"
    /\ \A r \in Rid : InitRid < r /\ r < k.next => r <= s.rid \/ UnderWay(net, r)
    /\ \A m \in net : m.rid <= m.ack + WindowSize /\ s.rid <= m.ack + WindowSize
    /\ \E b \in Int : Covered(s, b)

MemoryInv ==
  /\ client.path \in {"overtaking", "losing"}
  /\ Memory(session)
  /\ HeldWaits(session, client) /\ ReadKept(session, client)
  /\ OnePlace(session, client) /\ UnreadKnown(session, client)
  /\ InOrder(session, client, network)

(* A request that arrived has its reply unless it is held.                 *)
LEMMA RepliedUnlessHeld ==
  ASSUME NEW s \in SessionRecord, Memory(s), NEW c \in DOMAIN s.arrived
  PROVE  /\ c \in Conn /\ s.arrived[c] \in Rid
         /\ Replied(s, c) => DOMAIN s.replies[c] = {1}
         /\ ~Replied(s, c) => \E i \in DOMAIN s.res : s.res[i].conn = c /\ s.res[i].rid = s.arrived[c]
         /\ \A i \in DOMAIN s.res : s.res[i].conn = c => ~Replied(s, c)
<1>1. c \in Conn /\ s.arrived[c] \in Rid BY ArrivedFields DEF Memory
<1>2. s.replies[c] \in Seq(Body) BY <1>1 DEF SessionRecord
<1>3. Len(s.replies[c]) = IF c \in HeldConns(s) THEN 0 ELSE 1
  BY <1>1 DEF Memory, OneReplyEach
<1>4. c \in HeldConns(s) <=> \E i \in DOMAIN s.res : s.res[i].conn = c BY DEF HeldConns
<1>5. \A i \in DOMAIN s.res : s.res[i].conn = c => s.res[i].rid = s.arrived[c]
  BY DEF Memory, ConnsAgree
<1>6. /\ Len(s.replies[c]) = 0 => s.replies[c] = << >>
      /\ Len(s.replies[c]) = 1 => s.replies[c] # << >> /\ DOMAIN s.replies[c] = {1}
  <2>1. PICK q : q = s.replies[c] OBVIOUS
  <2>2. Len(q) = 0 => q = << >> BY <1>2, <2>1, EmptySeq
  <2>3. DOMAIN q = 1..Len(q) BY <1>2, <2>1, LenProperties
  <2>4. 1..1 = {1} /\ DOMAIN << >> = {} OBVIOUS
  <2>5. Len(q) = 1 => q # << >> /\ DOMAIN q = {1} BY <2>3, <2>4
  <2>6. QED BY <2>1, <2>2, <2>5
<1>7. QED BY <1>1, <1>3, <1>4, <1>5, <1>6 DEF Replied

(* A rid that waits at no connection of the server is not held, and every  *)
(* request that came with it has its reply.                                *)
LEMMA NowhereIsReplied ==
  ASSUME TypeOK, MemoryInv, NEW rid \in Rid, client.conn[rid] = 0 \/ rid \notin client.waiting
  PROVE  /\ ~Held(session, rid)
         /\ \A c \in DOMAIN session.arrived : session.arrived[c] = rid => Replied(session, c)
<1>1. session \in SessionRecord /\ Memory(session) /\ HeldWaits(session, client)
  BY DEF TypeOK, MemoryInv
<1>2. ASSUME NEW i \in DOMAIN session.res, session.res[i].rid = rid PROVE FALSE
  <2>1. session.res[i].conn \in Conn BY <1>1, AloneIsDistinct
  <2>2. session.res[i].conn # 0 BY <2>1, ChannelNumbers DEF Conn
  <2>3. QED BY <1>1, <1>2, <2>2 DEF HeldWaits
<1>3. QED BY <1>1, <1>2, RepliedUnlessHeld DEF Held

(* A request that is sent.                                                 *)
LEMMA SendKeeps ==
  ASSUME TypeOK, ClientGood(client, network), JointGood(session, client), MemoryInv,
         NEW rid \in Rid, NEW kind, NEW k, NEW net,
         net = network \union {[rid |-> rid, ack |-> ReadUpTo, kind |-> kind]},
         rid \notin client.waiting, client.conn[rid] = 0,
         k.got = client.got, k.conn = client.conn, k.waiting = client.waiting \union {rid},
         k.path = client.path, client.next <= k.next,
         k.next = client.next \/ (k.next = client.next + 1 /\ rid = client.next),
         rid < k.next, rid <= ReadUpTo + WindowSize
  PROVE  /\ HeldWaits(session, k) /\ ReadKept(session, k)
         /\ OnePlace(session, k) /\ UnreadKnown(session, k)
         /\ InOrder(session, k, net)
<1>1. \A r : IsRead(k, r) <=> IsRead(client, r) BY DEF IsRead
<1>2. HeldWaits(session, k) BY DEF MemoryInv, HeldWaits
<1>3. ReadKept(session, k) BY <1>1 DEF MemoryInv, ReadKept
<1>4. OnePlace(session, k) BY DEF MemoryInv, OnePlace
<1>5. UnreadKnown(session, k) BY <1>1 DEF MemoryInv, UnreadKnown
<1>6. ASSUME k.path = "losing"
      PROVE  /\ \A r \in Rid : session.queued_requests[r] = "none"
             /\ \A r \in Rid : InitRid < r /\ r < k.next => r <= session.rid \/ UnderWay(net, r)
             /\ \A m \in net : m.rid <= m.ack + WindowSize /\ session.rid <= m.ack + WindowSize
             /\ \E b \in Int : Covered(session, b)
  <2> DEFINE new == [rid |-> rid, ack |-> ReadUpTo, kind |-> kind]
  <2>1. /\ \A r \in Rid : session.queued_requests[r] = "none"
        /\ \A r \in Rid : InitRid < r /\ r < client.next => r <= session.rid \/ UnderWay(network, r)
        /\ \A m \in network : m.rid <= m.ack + WindowSize /\ session.rid <= m.ack + WindowSize
        /\ \E b \in Int : Covered(session, b)
    BY <1>6 DEF MemoryInv, InOrder
  <2>2. new.rid = rid /\ new.ack = ReadUpTo OBVIOUS
  <2> HIDE DEF new
  <2>3. net = network \union {new} BY DEF new
  <2>4. UnderWay(net, rid) /\ \A r : UnderWay(network, r) => UnderWay(net, r)
    BY <2>2, <2>3 DEF UnderWay
  <2>5. ASSUME NEW r \in Rid, InitRid < r, r < k.next
        PROVE  r <= session.rid \/ UnderWay(net, r)
    <3>1. CASE r = rid BY <2>4, <3>1
    <3>2. CASE r # rid
      <4>1. r < client.next
        <5>1. client.next \in Nat /\ r \in Nat
          BY ChannelNumbers DEF ClientGood, ClientRecord
        <5>2. QED BY <2>5, <3>2, <5>1
      <4>2. QED BY <2>1, <2>4, <2>5, <4>1
    <3>3. QED BY <3>1, <3>2
  <2>6. session.rid <= ReadUpTo + WindowSize
    <3>1. PICK n \in (InitRid - 1)..MaxRid :
            client.next - 1 <= n + WindowSize /\ \A r \in InitRid..n : IsRead(client, r)
      BY DEF ClientGood
    <3>2. /\ ReadUpTo \in (InitRid - 1)..MaxRid
          /\ ReadUpTo = MaxRid \/ ~IsRead(client, ReadUpTo + 1)
      BY ReadUpToRead DEF ClientGood
    <3>3. n <= ReadUpTo
      <4>1. ASSUME n > ReadUpTo PROVE FALSE
        <5>1. ReadUpTo + 1 \in InitRid..n /\ ReadUpTo # MaxRid
          BY <3>2, <4>1, ChannelNumbers
        <5>2. QED BY <3>1, <3>2, <5>1
      <4>2. QED BY <3>2, <4>1, ChannelNumbers
    <3>4. session.rid < client.next \/ session.rid = 0
      <4>1. CASE session.status = "none"
        <5>1. session = EmptySession BY <4>1 DEF JointGood
        <5>2. QED BY <5>1 DEF EmptySession
      <4>2. CASE session.status # "none"
        <5>1. InitRid <= session.rid BY <4>2 DEF JointGood
        <5>2. session.rid \in Rid
          <6>1. session.rid \in 0..MaxRid BY DEF TypeOK, SessionRecord
          <6>2. QED BY <5>1, <6>1, ChannelNumbers
        <5>3. Recorded(session, session.rid) BY <5>2, ChannelNumbers DEF Recorded
        <5>4. Came(session, session.rid) BY <5>1, <5>2, <5>3 DEF JointGood
        <5>5. QED BY <5>4 DEF Came, JointGood
      <4>3. QED BY <4>1, <4>2
    <3>5. client.next \in Nat /\ session.rid \in Nat
      BY ChannelNumbers, NumberFields DEF ClientGood, ClientRecord, TypeOK
    <3>6. PICK a, u, w : a = session.rid /\ u = ReadUpTo /\ w = WindowSize OBVIOUS
    <3>7. /\ a \in Nat /\ u \in Int /\ u >= InitRid - 1 /\ n <= u /\ n \in Int /\ w \in Nat
          /\ a < client.next \/ a = 0
          /\ client.next - 1 <= n + w /\ client.next \in Nat /\ InitRid >= 1 /\ InitRid \in Nat
      BY <3>1, <3>2, <3>3, <3>4, <3>5, <3>6, ChannelNumbers
    <3>8. a <= u + w BY <3>7
    <3>9. QED BY <3>6, <3>8
  <2>7. ASSUME NEW m \in net
        PROVE  m.rid <= m.ack + WindowSize /\ session.rid <= m.ack + WindowSize
    <3>1. CASE m = new BY <2>2, <2>6, <3>1
    <3>2. CASE m \in network BY <2>1, <3>2
    <3>3. QED BY <2>3, <3>1, <3>2
  <2>8. QED BY <2>1, <2>5, <2>7
<1>7. QED BY <1>2, <1>3, <1>4, <1>5, <1>6 DEF InOrder

LEMMA ClientRequestKeeps ==
  ASSUME ChannelInv, MemoryInv, NEW kind \in Kinds, ClientRequest(kind)
  PROVE  MemoryInv'
<1> DEFINE k == client'
           rid == client.next
<1>1. /\ TypeOK /\ ClientGood(client, network) /\ JointGood(session, client)
      /\ client \in ClientRecord
  BY DEF ChannelInv, BothGood, ClientGood
<1>2. /\ rid <= MaxRid /\ rid <= ReadUpTo + WindowSize
      /\ network' = network \union {[rid |-> rid, ack |-> ReadUpTo, kind |-> kind]}
      /\ session' = session
  BY DEF ClientRequest, Send
<1>3. rid \in Rid /\ rid \in Nat
  BY <1>1, <1>2, ChannelNumbers DEF ClientRecord
<1>4. rid \notin client.waiting /\ client.conn[rid] = 0
  <2>1. ~(rid < client.next) BY <1>3
  <2>2. QED BY <1>1, <1>3, <2>1 DEF ClientGood
<1>5. /\ k.next = rid + 1 /\ k.waiting = client.waiting \union {rid}
      /\ k.got = client.got /\ k.conn = client.conn /\ k.path = client.path
  BY <1>1 DEF ClientRequest, ClientRecord
<1> HIDE DEF k
<1>6. client.next <= k.next /\ rid < k.next BY <1>3, <1>5
<1>7. /\ HeldWaits(session, k) /\ ReadKept(session, k)
      /\ OnePlace(session, k) /\ UnreadKnown(session, k)
      /\ InOrder(session, k, network')
  BY <1>1, <1>2, <1>3, <1>4, <1>5, <1>6, SendKeeps
<1>8. QED BY <1>2, <1>5, <1>7 DEF MemoryInv, k

LEMMA ClientRepeatKeeps ==
  ASSUME ChannelInv, MemoryInv, NEW rid \in Rid, ClientRepeat(rid)
  PROVE  MemoryInv'
<1> DEFINE k == client'
<1>1. /\ TypeOK /\ ClientGood(client, network) /\ JointGood(session, client)
      /\ client \in ClientRecord
  BY DEF ChannelInv, BothGood, ClientGood
<1>2. /\ rid \notin client.waiting /\ rid <= client.next - 1 /\ ~IsRead(client, rid)
      /\ network' = network \union {[rid |-> rid, ack |-> ReadUpTo, kind |-> client.kind[rid]]}
      /\ session' = session
  BY DEF ClientRepeat, Send, Unanswered, IsRead
<1>3. client.conn[rid] = 0 BY <1>1, <1>2 DEF ClientGood
<1>4. /\ k.next = client.next /\ k.waiting = client.waiting \union {rid}
      /\ k.got = client.got /\ k.conn = client.conn /\ k.path = client.path
  BY <1>1 DEF ClientRepeat, ClientRecord
<1> HIDE DEF k
<1>5. rid \in Nat /\ client.next \in Nat BY <1>1, ChannelNumbers DEF ClientRecord
<1>6. client.next <= k.next /\ rid < k.next BY <1>2, <1>4, <1>5
<1>7. rid <= ReadUpTo + WindowSize
  <2>1. PICK n \in (InitRid - 1)..MaxRid :
          client.next - 1 <= n + WindowSize /\ \A r \in InitRid..n : IsRead(client, r)
    BY <1>1 DEF ClientGood
  <2>2. /\ ReadUpTo \in (InitRid - 1)..MaxRid
        /\ ReadUpTo = MaxRid \/ ~IsRead(client, ReadUpTo + 1)
    BY <1>1, ReadUpToRead
  <2>3. n <= ReadUpTo
    <3>1. ASSUME n > ReadUpTo PROVE FALSE
      <4>1. ReadUpTo + 1 \in InitRid..n /\ ReadUpTo # MaxRid
        BY <2>2, <3>1, ChannelNumbers
      <4>2. QED BY <2>1, <2>2, <4>1
    <3>2. QED BY <2>2, <3>1, ChannelNumbers
  <2>4. PICK u, w : u = ReadUpTo /\ w = WindowSize OBVIOUS
  <2>5. /\ u \in Int /\ w \in Nat /\ n \in Int /\ n <= u
        /\ client.next - 1 <= n + w /\ rid <= client.next - 1
    BY <1>2, <2>1, <2>2, <2>3, <2>4, ChannelNumbers
  <2>6. rid <= u + w BY <1>5, <2>5
  <2>7. QED BY <2>4, <2>6
<1>8. /\ HeldWaits(session, k) /\ ReadKept(session, k)
      /\ OnePlace(session, k) /\ UnreadKnown(session, k)
      /\ InOrder(session, k, network')
  BY <1>1, <1>2, <1>3, <1>4, <1>6, <1>7, SendKeeps
<1>9. QED BY <1>2, <1>4, <1>8 DEF MemoryInv, k

LEMMA ClientReadKeeps ==
  ASSUME ChannelInv, MemoryInv, NEW rid \in Rid, ClientRead(rid)
  PROVE  MemoryInv'
<1> DEFINE k == client'
           c == client.conn[rid]
           body == session.replies[c][1]
<1>1. /\ TypeOK /\ ClientGood(client, network) /\ JointGood(session, client)
      /\ client \in ClientRecord /\ Memory(session) /\ session \in SessionRecord
  BY DEF ChannelInv, BothGood, ClientGood, TypeOK, MemoryInv
<1>2. /\ rid \in client.waiting /\ c # 0 /\ Replied(session, c)
      /\ session' = session /\ network' = network
  BY DEF ClientRead, Replied
<1>3. c \in DOMAIN session.arrived /\ session.arrived[c] = rid
  <2>1. ASSUME session.status = "none", c = 1 PROVE FALSE
    <3>1. session = EmptySession BY <1>1, <2>1 DEF JointGood
    <3>2. 1 \in Conn BY BoundsAssumption DEF Conn
    <3>3. session.replies[1] = << >> BY <3>1, <3>2 DEF EmptySession
    <3>4. QED BY <1>2, <2>1, <3>3 DEF Replied
  <2>2. QED BY <1>1, <1>2, <2>1 DEF JointGood
<1>4. /\ k.next = client.next /\ k.conn = client.conn /\ k.path = client.path
      /\ k.waiting = client.waiting \ {rid}
      /\ \A r \in Rid : k.got[r] = IF r = rid THEN body ELSE client.got[r]
  <2>1. k = [client EXCEPT !.got[rid] = session.replies[client.conn[rid]][1],
                           !.waiting = @ \ {rid}]
    BY Zenon DEF ClientRead
  <2>2. client.got \in [Rid -> Body] BY <1>1 DEF ClientRecord
  <2>3. k.got = [client.got EXCEPT ![rid] = body] BY <1>1, <2>1 DEF ClientRecord
  <2>4. QED BY <1>1, <2>1, <2>2, <2>3 DEF ClientRecord
<1> HIDE DEF k, c, body
<1>5. \A d \in DOMAIN session.arrived : session.arrived[d] = rid => Replied(session, d)
  <2>1. ASSUME NEW d \in DOMAIN session.arrived, session.arrived[d] = rid, ~Replied(session, d)
        PROVE  FALSE
    <3>1. PICK i \in DOMAIN session.res : session.res[i].conn = d /\ session.res[i].rid = rid
      BY <1>1, <2>1, RepliedUnlessHeld
    <3>2. client.conn[rid] = d BY <3>1 DEF MemoryInv, HeldWaits
    <3>3. QED BY <1>2, <2>1, <3>2 DEF c
  <2>2. QED BY <2>1
<1>6. \A i \in DOMAIN session.res : session.res[i].rid # rid
  <2>1. ASSUME NEW i \in DOMAIN session.res, session.res[i].rid = rid PROVE FALSE
    <3>1. session.res[i].conn \in DOMAIN session.arrived
          /\ session.arrived[session.res[i].conn] = rid
      BY <1>1, <2>1 DEF Memory, ConnsAgree
    <3>2. Replied(session, session.res[i].conn) BY <1>5, <3>1
    <3>3. QED BY <1>1, <3>1, <3>2, RepliedUnlessHeld
  <2>2. QED BY <2>1
<1>7. HeldWaits(session, k) BY <1>4, <1>6 DEF MemoryInv, HeldWaits
<1>8. \A d \in DOMAIN session.arrived : session.arrived[d] \in Rid
  BY <1>1, ArrivedFields
<1>9. \A d \in DOMAIN session.arrived : session.arrived[d] = rid =>
        \A i \in DOMAIN session.replies[d] :
          StanzasOf(session.replies[d][i]) = StanzasOf(body)
  <2>1. ASSUME NEW d \in DOMAIN session.arrived, session.arrived[d] = rid,
               NEW i \in DOMAIN session.replies[d]
        PROVE  StanzasOf(session.replies[d][i]) = StanzasOf(body)
    <3>1. Replied(session, d) /\ i = 1
      BY <1>1, <1>5, <2>1, RepliedUnlessHeld
    <3>2. CASE client.path = "overtaking"
      <4>1. client.conn[rid] = d BY <2>1, <3>2 DEF MemoryInv, OnePlace
      <4>2. QED BY <3>1, <4>1 DEF body, c
    <3>3. CASE client.path = "losing"
      <4>1. ~IsRead(client, rid) BY <1>1, <1>2 DEF ClientGood
      <4>2. Known(session, rid) BY <2>1, <3>1, <3>3, <4>1 DEF MemoryInv, UnreadKnown
      <4>3. 1 \in DOMAIN session.replies[c]
        BY <1>1, <1>2, <1>3, RepliedUnlessHeld
      <4>4. Remembered(session) BY <1>1 DEF Memory
      <4>5. StanzasOf(body) = StanzasOf(session.unacked_responses[rid])
        BY <1>3, <4>2, <4>3, <4>4 DEF Remembered, body
      <4>6. StanzasOf(session.replies[d][i]) = StanzasOf(session.unacked_responses[rid])
        BY <2>1, <4>2, <4>4 DEF Remembered
      <4>7. QED BY <4>5, <4>6
    <3>4. QED BY <3>2, <3>3 DEF MemoryInv
  <2>2. QED BY <2>1
<1>10. ReadKept(session, k)
  <2>1. ASSUME NEW d \in DOMAIN session.arrived, IsRead(k, session.arrived[d]),
               NEW i \in DOMAIN session.replies[d]
        PROVE  StanzasOf(session.replies[d][i]) \subseteq StanzasOf(k.got[session.arrived[d]])
    <3>1. CASE session.arrived[d] = rid BY <1>4, <1>9, <2>1, <3>1
    <3>2. CASE session.arrived[d] # rid
      <4>1. k.got[session.arrived[d]] = client.got[session.arrived[d]] BY <1>4, <1>8, <3>2
      <4>2. IsRead(client, session.arrived[d]) BY <2>1, <4>1 DEF IsRead
      <4>3. QED BY <2>1, <4>1, <4>2 DEF MemoryInv, ReadKept
    <3>3. QED BY <3>1, <3>2
  <2>2. QED BY <2>1 DEF ReadKept
<1>11. OnePlace(session, k) BY <1>4 DEF MemoryInv, OnePlace
<1>12. UnreadKnown(session, k)
  <2>1. ASSUME k.path = "losing", NEW d \in DOMAIN session.arrived,
               ~IsRead(k, session.arrived[d]), Replied(session, d)
        PROVE  Known(session, session.arrived[d])
    <3>1. CASE session.arrived[d] = rid
      <4>1. ~IsRead(client, rid) BY <1>1, <1>2 DEF ClientGood
      <4>2. QED BY <1>4, <2>1, <3>1, <4>1 DEF MemoryInv, UnreadKnown
    <3>2. CASE session.arrived[d] # rid
      <4>1. ~IsRead(client, session.arrived[d]) BY <1>4, <1>8, <2>1, <3>2 DEF IsRead
      <4>2. QED BY <1>4, <2>1, <4>1 DEF MemoryInv, UnreadKnown
    <3>3. QED BY <3>1, <3>2
  <2>2. QED BY <2>1 DEF UnreadKnown
<1>13. InOrder(session, k, network) BY <1>4 DEF MemoryInv, InOrder
<1>14. QED BY <1>2, <1>4, <1>7, <1>10, <1>11, <1>12, <1>13 DEF MemoryInv, k

LEMMA BreakKeeps ==
  ASSUME ChannelInv, MemoryInv, NEW rid \in Rid, Break(rid)
  PROVE  MemoryInv'
<1> DEFINE k == client'
           c == client.conn[rid]
           message == {m \in network : m.rid = rid}
           lost == IF message # {} THEN "request"
                   ELSE IF session.replies[c] # << >> THEN "reply" ELSE "nothing"
<1>1. /\ TypeOK /\ ClientGood(client, network) /\ JointGood(session, client)
      /\ client \in ClientRecord /\ Memory(session) /\ session \in SessionRecord
  BY DEF ChannelInv, BothGood, ClientGood, TypeOK, MemoryInv
<1>2. /\ session' = session /\ network' = network \ message
      /\ lost = Loses[client.path]
  BY DEF Break
<1>3. /\ client.path = "overtaking" => message # {}
      /\ client.path = "losing" => message = {} /\ session.replies[c] # << >>
  <2>1. Loses["overtaking"] = "request" /\ Loses["losing"] = "reply" BY DEF Loses
  <2>2. /\ message # {} => lost = "request"
        /\ message = {} => lost = IF session.replies[c] # << >> THEN "reply" ELSE "nothing"
    OBVIOUS
  <2> HIDE DEF message, lost
  <2>3. QED BY <1>2, <2>1, <2>2
<1>4. message # {} => c = 0 BY <1>1 DEF ClientGood
<1>5. /\ k.next = client.next /\ k.got = client.got /\ k.path = client.path
      /\ k.waiting = client.waiting \ {rid}
      /\ \A r \in Rid : k.conn[r] = IF r = rid THEN 0 ELSE client.conn[r]
  <2>1. k = [client EXCEPT !.waiting = @ \ {rid}, !.conn[rid] = 0, !.faults = @ + 1]
    BY Zenon DEF Break
  <2>2. client.conn \in [Rid -> 0..MaxConn] BY <1>1 DEF ClientRecord
  <2>3. k.conn = [client.conn EXCEPT ![rid] = 0] BY <1>1, <2>1 DEF ClientRecord
  <2>4. QED BY <1>1, <2>1, <2>2, <2>3 DEF ClientRecord
<1> HIDE DEF k, c, lost
<1>6. \A r : IsRead(k, r) <=> IsRead(client, r) BY <1>5 DEF IsRead
<1>7. \A i \in DOMAIN session.res : session.res[i].rid # rid /\ session.res[i].rid \in Rid
  <2>1. ASSUME NEW i \in DOMAIN session.res, session.res[i].rid = rid PROVE FALSE
    <3>1. c = session.res[i].conn BY <2>1 DEF MemoryInv, HeldWaits, c
    <3>2. session.res[i].conn \in Conn /\ session.replies[session.res[i].conn] = << >>
      BY <1>1, AloneIsDistinct
    <3>3. c # 0 /\ session.replies[c] = << >> BY <3>1, <3>2, ChannelNumbers DEF Conn
    <3>4. QED BY <1>3, <1>4, <3>3 DEF MemoryInv
  <2>2. \A i \in DOMAIN session.res : session.res[i].rid \in Rid
    <3>1. DOMAIN session.res = 1..Len(session.res) BY <1>1, ResponseFields, LenProperties
    <3>2. QED BY <1>1, <3>1, ResponseFields
  <2>3. QED BY <2>1, <2>2
<1>8. HeldWaits(session, k) BY <1>5, <1>7 DEF MemoryInv, HeldWaits
<1>9. ReadKept(session, k) BY <1>5, <1>6 DEF MemoryInv, ReadKept
<1>10. OnePlace(session, k)
  <2>1. ASSUME k.path = "overtaking", NEW d \in DOMAIN session.arrived
        PROVE  k.conn[session.arrived[d]] = d
    <3>1. client.conn[session.arrived[d]] = d BY <1>5, <2>1 DEF MemoryInv, OnePlace
    <3>2. d \in Conn /\ session.arrived[d] \in Rid BY <1>1, RepliedUnlessHeld
    <3>3. d # 0 BY <3>2, ChannelNumbers DEF Conn
    <3>4. c = 0 BY <1>3, <1>4, <1>5, <2>1
    <3>5. session.arrived[d] # rid BY <3>1, <3>3, <3>4 DEF c
    <3>6. QED BY <1>5, <3>1, <3>2, <3>5
  <2>2. QED BY <2>1 DEF OnePlace
<1>11. UnreadKnown(session, k) BY <1>5, <1>6 DEF MemoryInv, UnreadKnown
<1>12. InOrder(session, k, network')
  <2>1. ASSUME client.path = "losing" PROVE network' = network
    BY <1>2, <1>3, <2>1
  <2>2. InOrder(session, client, network) BY DEF MemoryInv
  <2>3. CASE client.path = "losing" BY <1>5, <2>1, <2>2, <2>3 DEF InOrder
  <2>4. CASE client.path # "losing" BY <1>5, <2>4 DEF InOrder
  <2>5. QED BY <2>3, <2>4
<1>13. QED BY <1>2, <1>5, <1>8, <1>9, <1>10, <1>11, <1>12 DEF MemoryInv, k

LEMMA EventKeeps ==
  ASSUME ChannelInv, TypeOK', MemoryInv, Tick \/ Stanza_(FALSE) \/ Timeout
  PROVE  MemoryInv'
<1> DEFINE s == session
           t == session'
           k == client'
<1>1. /\ TypeOK /\ ClientGood(client, network) /\ JointGood(s, client)
      /\ client \in ClientRecord /\ Memory(s) /\ s \in SessionRecord /\ t \in SessionRecord
  BY DEF ChannelInv, BothGood, ClientGood, TypeOK, MemoryInv
<1>2. Passes(s, t) BY EventGood DEF ChannelInv
<1>3. KeepsMemory(s, t) /\ NoMoreQueued(s, t) /\ s.rid <= t.rid
      /\ \A r \in Rid : Recorded(t, r) <=> Recorded(s, r)
  BY <1>2 DEF Passes
<1>4. /\ t.arrived = s.arrived /\ FewerHeld(s, t)
      /\ \A r \in Rid : Known(s, r) => Known(t, r)
      /\ \A r \in Rid : Known(t, r) => Known(s, r) \/ Held(s, r)
      /\ Memory(t) /\ \A c \in DOMAIN s.arrived : Lasts(s, t, c)
  BY <1>1, <1>3, Zenon DEF KeepsMemory
<1>5. /\ k.next = client.next /\ k.got = client.got /\ k.path = client.path
      /\ k.conn = client.conn /\ k.waiting = client.waiting /\ network' = network
  BY <1>1 DEF Tick, Stanza_, Timeout, ClientRecord
<1> HIDE DEF k
<1>6. \A r : IsRead(k, r) <=> IsRead(client, r) BY <1>5 DEF IsRead
<1>7. HeldWaits(t, k)
  <2>1. ASSUME NEW j \in DOMAIN t.res
        PROVE  k.conn[t.res[j].rid] = t.res[j].conn /\ t.res[j].rid \in k.waiting
    <3>1. PICK i \in DOMAIN s.res : t.res[j] = s.res[i] BY <1>4, <2>1 DEF FewerHeld
    <3>2. QED BY <1>5, <3>1 DEF MemoryInv, HeldWaits
  <2>2. QED BY <2>1 DEF HeldWaits
<1>8. ReadKept(t, k)
  <2>1. ASSUME NEW c \in DOMAIN s.arrived, IsRead(client, s.arrived[c])
        PROVE  t.replies[c] = s.replies[c]
    <3>1. s.arrived[c] \in Rid BY <1>1, ArrivedFields
    <3>2. s.arrived[c] \notin client.waiting BY <1>1, <2>1, <3>1 DEF ClientGood
    <3>3. Replied(s, c) BY <1>1, <3>1, <3>2, NowhereIsReplied
    <3>4. QED BY <1>4, <3>3 DEF Lasts
  <2>2. QED BY <1>4, <1>5, <1>6, <2>1 DEF MemoryInv, ReadKept
<1>9. OnePlace(t, k) BY <1>4, <1>5 DEF MemoryInv, OnePlace
<1>10. UnreadKnown(t, k)
  <2>1. ASSUME k.path = "losing", NEW c \in DOMAIN s.arrived,
               ~IsRead(k, s.arrived[c]), Replied(t, c)
        PROVE  Known(t, s.arrived[c])
    <3>1. Replied(s, c) \/ Known(t, s.arrived[c]) BY <1>4, <2>1 DEF Lasts
    <3>2. CASE Replied(s, c)
      <4>1. Known(s, s.arrived[c]) BY <1>5, <1>6, <2>1, <3>2 DEF MemoryInv, UnreadKnown
      <4>2. QED BY <1>1, <1>4, <4>1, ArrivedFields
    <3>3. QED BY <3>1, <3>2
  <2>2. QED BY <1>4, <2>1 DEF UnreadKnown
<1>11. InOrder(t, k, network')
  <2>1. SUFFICES ASSUME client.path = "losing"
                 PROVE  /\ \A r \in Rid : t.queued_requests[r] = "none"
                        /\ t.rid = s.rid
                        /\ \E b \in Int : Covered(t, b)
    BY <1>5 DEF MemoryInv, InOrder
  <2>2. (\A r \in Rid : s.queued_requests[r] = "none") /\ \E b \in Int : Covered(s, b)
    BY <2>1 DEF MemoryInv, InOrder
  <2>3. \A r \in Rid : t.queued_requests[r] = "none" BY <1>3, <2>2 DEF NoMoreQueued
  <2>4. t.rid = s.rid
    <3>1. s.rid \in Nat /\ t.rid \in Nat BY <1>1, NumberFields
    <3>2. CASE t.rid = 0 BY <1>3, <3>1, <3>2
    <3>3. CASE t.rid # 0
      <4>1. t.rid \in 0..MaxRid BY <1>1 DEF SessionRecord
      <4>2. t.rid \in Rid BY <3>3, <4>1, ChannelNumbers
      <4>3. Recorded(s, t.rid) BY <1>3, <3>1, <4>2 DEF Recorded
      <4>4. t.rid <= s.rid BY <2>2, <4>2, <4>3 DEF Recorded
      <4>5. QED BY <1>3, <3>1, <4>4
    <3>4. QED BY <3>2, <3>3
  <2>5. \A r : Held(t, r) => Held(s, r) BY <1>4 DEF FewerHeld, Held
  <2>6. \A b : Covered(s, b) => Covered(t, b) BY <1>4, <2>4, <2>5 DEF Covered
  <2>7. QED BY <2>2, <2>3, <2>4, <2>6
<1>12. QED BY <1>4, <1>5, <1>7, <1>8, <1>9, <1>10, <1>11 DEF MemoryInv, k

LEMMA CreateKeeps ==
  ASSUME ChannelInv, ChannelInv', MemoryInv, Create
  PROVE  MemoryInv'
<1> DEFINE t == session'
           k == client
<1>1. /\ TypeOK /\ ClientGood(k, network) /\ JointGood(session, k)
      /\ k \in ClientRecord /\ t \in SessionRecord /\ AnsweredOnce' /\ BothGood
  BY DEF ChannelInv, BothGood, ClientGood, TypeOK, HeldInv
<1>2. Created(t) BY <1>1, CreateGood
<1>3. client' = client /\ network' = network BY DEF Create
<1>4. session = EmptySession
  <2>1. PICK h \in HoldAttrs, a \in AckModes : CreateSession(h, a, "poll") BY DEF Create
  <2>2. QED BY <1>1, <2>1 DEF JointGood, CreateSession
<1>5. DOMAIN session.arrived = {} /\ session.status = "none"
  <2>1. session.arrived = << >> /\ session.status = "none" BY <1>4 DEF EmptySession
  <2>2. QED BY <2>1
<1>6. \A r \in Rid : ~IsRead(k, r)
  <2>1. \A r : ~Came(session, r) BY <1>5 DEF Came
  <2>2. QED BY <1>1, <2>1 DEF JointGood
<1>7. InitRid \in k.waiting /\ k.next = InitRid + 1
  <2>1. InitRid \in k.waiting /\ ~(k.next > InitRid + 1)
    BY <1>1, <1>6, ChannelNumbers DEF ClientGood
  <2>2. k.next \in (InitRid + 1)..(MaxRid + 1) BY <1>1 DEF ClientRecord
  <2>3. QED BY <2>1, <2>2, ChannelNumbers
<1>8. \A m \in network : FALSE
  <2>1. ASSUME NEW m \in network PROVE FALSE
    <3>1. m.rid \in (InitRid + 1)..MaxRid BY <1>1 DEF ClientGood, Message
    <3>2. m.rid \in k.waiting BY <1>1 DEF ClientGood
    <3>3. m.rid \in Rid BY <3>1, ChannelNumbers
    <3>4. m.rid < k.next BY <1>1, <3>2, <3>3 DEF ClientGood
    <3>5. QED BY <1>7, <3>1, <3>4, ChannelNumbers
  <2>2. QED BY <2>1
<1>9. k.conn[InitRid] = 1
  <2>1. k.conn[InitRid] # 0
    <3>1. k.conn[InitRid] # 0 \/ UnderWay(network, InitRid)
      BY <1>1, <1>7, ChannelNumbers DEF ClientGood
    <3>2. QED BY <1>8, <3>1 DEF UnderWay
  <2>2. QED BY <1>1, <1>5, <2>1, ChannelNumbers DEF JointGood
<1>10. /\ DOMAIN t.arrived = {1} /\ t.arrived[1] = InitRid /\ Len(t.arrived) = 1
  <2>1. t.arrived = << InitRid >> BY <1>2 DEF Created
  <2>2. QED BY <2>1
<1>11. /\ DOMAIN t.res = {1} /\ t.res[1].rid = InitRid /\ t.res[1].conn = 1
       /\ \A c \in Conn : t.replies[c] = << >>
       /\ \A r \in Rid : ~Known(t, r) /\ t.queued_requests[r] = "none"
       /\ t.rid = InitRid
  BY <1>2 DEF Created
<1>12. Memory(t)
  <2>1. Alone(t) BY <1>10, <1>11 DEF Alone
  <2>2. ConnsAgree(t) BY <1>10, <1>11 DEF ConnsAgree
  <2>3. Remembered(t) BY <1>10, <1>11, ChannelNumbers DEF Remembered
  <2>4. OneReplyEach(t, DOMAIN t.arrived) BY <1>1 DEF AnsweredOnce
  <2>5. Len(t.arrived) <= MaxConn BY <1>10, ChannelNumbers
  <2>6. QED BY <2>1, <2>2, <2>3, <2>4, <2>5 DEF Memory
<1>13. HeldWaits(t, k) BY <1>7, <1>9, <1>11 DEF HeldWaits
<1>14. ReadKept(t, k) BY <1>6, <1>10, ChannelNumbers DEF ReadKept
<1>15. OnePlace(t, k) BY <1>9, <1>10 DEF OnePlace
<1>16. 1 \in Conn BY ChannelNumbers DEF Conn
<1>17. UnreadKnown(t, k) BY <1>10, <1>11, <1>16 DEF UnreadKnown, Replied
<1>18. InOrder(t, k, network)
  <2>1. Covered(t, InitRid - 1)
    <3>1. \A r : Held(t, r) => r = InitRid BY <1>11 DEF Held
    <3>2. InitRid <= InitRid - 1 + 2 * WindowSize /\ InitRid - 1 < InitRid /\ InitRid <= InitRid
      BY ChannelNumbers
    <3>3. QED BY <1>11, <3>1, <3>2 DEF Covered
  <2>2. InitRid - 1 \in Int BY ChannelNumbers
  <2>3. \A r \in Rid : ~(InitRid < r /\ r < k.next) BY <1>7, ChannelNumbers
  <2>4. QED BY <1>8, <1>11, <2>1, <2>2, <2>3 DEF InOrder
<1>19. QED BY <1>3, <1>12, <1>13, <1>14, <1>15, <1>17, <1>18 DEF MemoryInv

LEMMA KeepsBegins ==
  ASSUME ChannelInit, "cutting" \notin Networks
  PROVE  MemoryInv
<1>1. session = EmptySession /\ network = {} BY DEF ChannelInit, Init
<1>2. ChannelInv BY ChannelBegins
<1>3. client.path \in {"overtaking", "losing"} /\ client.next = InitRid + 1
  BY NetworkAssumption DEF ChannelInit
<1>4. /\ session.res = << >> /\ session.arrived = << >> /\ session.rid = 0
      /\ \A r \in Rid : session.queued_requests[r] = "none" /\ ~Known(session, r)
  BY <1>1 DEF EmptySession, Known
<1>5. DOMAIN session.res = {} /\ DOMAIN session.arrived = {} /\ Len(session.arrived) = 0
  BY <1>4
<1>6. Memory(session)
  <2>1. OneReplyEach(session, DOMAIN session.arrived)
    BY <1>2 DEF ChannelInv, HeldInv, AnsweredOnce
  <2>2. QED BY <1>5, <2>1, ChannelNumbers DEF Memory, Alone, ConnsAgree, Remembered
<1>7. InOrder(session, client, network)
  <2>1. Covered(session, 0)
    <3>1. 0 <= 0 + 2 * WindowSize BY ChannelNumbers
    <3>2. QED BY <1>4, <1>5, <3>1 DEF Covered, Held
  <2>2. \A r \in Rid : ~(InitRid < r /\ r < client.next) BY <1>3, ChannelNumbers
  <2>3. 0 \in Int OBVIOUS
  <2>4. \E b \in Int : Covered(session, b) BY <2>1, <2>3
  <2>5. QED BY <1>1, <1>4, <2>2, <2>4 DEF InOrder
<1>8. QED BY <1>3, <1>5, <1>6, <1>7
         DEF MemoryInv, HeldWaits, ReadKept, OnePlace, UnreadKnown

(* What a request acknowledges, where requests come in order: no more than *)
(* the client has read, and no less than what leaves the cache small.      *)
LEMMA AckNumbers ==
  ASSUME NEW s \in SessionRecord, NEW rid \in Rid, NEW ack \in InitRid..MaxRid,
         rid <= ack + WindowSize, s.rid <= ack + WindowSize, s.rid - WindowSize <= rid,
         ack < rid, WindowSize <= InitRid + 1
  PROVE  /\ AckOf(s, rid, ack) \in Int /\ AckOf(s, rid, ack) <= ack
         /\ \E b \in Int : /\ b <= AckOf(s, rid, ack) /\ b <= ack /\ b < rid
                           /\ s.rid <= b + 2 * WindowSize /\ rid <= b + 2 * WindowSize
<1>1. PICK x, a, i, w, y : x = rid /\ a = ack /\ i = InitRid /\ w = WindowSize /\ y = s.rid
  OBVIOUS
<1>2. /\ x \in Nat /\ a \in Nat /\ i \in Nat /\ w \in Nat /\ y \in Nat
      /\ i >= 1 /\ w >= 1 /\ i <= a /\ x <= a + w /\ y <= a + w /\ y - w <= x /\ a < x /\ w <= i + 1
  BY <1>1, ChannelNumbers, NumberFields
<1>3. CASE s.ack
  <2>1. AckOf(s, rid, ack) = a
    <3>1. a # 0 BY <1>2
    <3>2. QED BY <1>1, <1>3, <3>1 DEF AckOf
  <2>2. /\ a \in Int /\ a <= a /\ a < x /\ y <= a + 2 * w /\ x <= a + 2 * w BY <1>2
  <2>3. QED BY <1>1, <2>1, <2>2
<1>4. CASE ~s.ack /\ x # w
  <2>1. AckOf(s, rid, ack) = x - w
    <3>1. x - w # 0 BY <1>2, <1>4
    <3>2. QED BY <1>1, <1>4, <3>1 DEF AckOf
  <2>2. /\ x - w \in Int /\ x - w <= x - w /\ x - w <= a /\ x - w < x
        /\ y <= (x - w) + 2 * w /\ x <= (x - w) + 2 * w
    BY <1>2
  <2>3. QED BY <1>1, <2>1, <2>2
<1>5. CASE ~s.ack /\ x = w
  <2>1. AckOf(s, rid, ack) = x - 1
    <3>1. x - w = 0 BY <1>2, <1>5
    <3>2. QED BY <1>1, <1>5, <3>1 DEF AckOf
  <2>2. /\ x - 1 \in Int /\ x - 1 <= a /\ 0 \in Int /\ 0 <= x - 1 /\ 0 <= a /\ 0 < x
        /\ y <= 0 + 2 * w /\ x <= 0 + 2 * w
    BY <1>2, <1>5
  <2>3. QED BY <1>1, <2>1, <2>2
<1>6. QED BY <1>3, <1>4, <1>5

(* So few replies are cached that none is cut off.                         *)
LEMMA CoveredFits ==
  ASSUME NEW s \in SessionRecord, NEW b \in Int, Covered(s, b)
  PROVE  ~Overflows(s)
<1> DEFINE I == (b + 1)..(b + 2 * WindowSize)
           K == UnackedRids(s)
<1>1. WindowSize \in Nat \ {0} BY ChannelNumbers
<1>2. s.rid \in Nat /\ Rid \subseteq Nat BY NumberFields
<1>3. K \subseteq I
  <2>1. ASSUME NEW r \in K PROVE r \in I
    <3>1. r \in Rid /\ Known(s, r) BY DEF UnackedRids, Known
    <3>2. b < r /\ r <= s.rid /\ s.rid <= b + 2 * WindowSize BY <3>1 DEF Covered
    <3>3. QED BY <1>1, <1>2, <3>1, <3>2
  <2>2. QED BY <2>1
<1>4. IsFiniteSet(I) /\ Cardinality(I) = 2 * WindowSize
  <2>1. b + 1 \in Int /\ b + 2 * WindowSize \in Int BY <1>1
  <2>2. /\ IsFiniteSet(I)
        /\ Cardinality(I) = IF b + 1 > b + 2 * WindowSize THEN 0
                            ELSE (b + 2 * WindowSize) - (b + 1) + 1
    BY <2>1, FS_Interval
  <2>3. QED BY <1>1, <2>2
<1> HIDE DEF I, K
<1>5. IsFiniteSet(K) /\ Cardinality(K) <= Cardinality(I) BY <1>3, <1>4, FS_Subset
<1>6. Cardinality(K) \in Nat BY <1>5, FS_CardinalityType
<1>7. ~(Cardinality(K) > 4 * WindowSize) BY <1>1, <1>4, <1>5, <1>6
<1>8. QED BY <1>7 DEF Overflows, K

(* A request that arrives where replies are lost.                          *)
LEMMA ArrivalInOrder ==
  ASSUME ChannelInv, TypeOK', QueueInv', MemoryInv, client.path = "losing",
         NEW m \in network, \A other \in network : m.rid <= other.rid,
         session.status = "open", WindowSize <= InitRid + 1,
         TakesRequest(session, m.rid, NextConn, m.ack, session'),
         NEW net, net = network \ {m},
         NEW k, k.path = client.path, k.next = client.next
  PROVE  /\ ~Overflows(session)
         /\ \A r \in Rid : InitRid <= r /\ ~IsRead(client, r) => r > AckOf(session, m.rid, m.ack)
         /\ InOrder(session', k, net)
<1> DEFINE s == session
           t == session'
           rid == m.rid
           ack == AckOf(s, rid, m.ack)
<1>1. /\ TypeOK /\ ClientGood(client, network) /\ JointGood(s, client) /\ BothGood /\ QueueInv
      /\ client \in ClientRecord /\ Memory(s) /\ s \in SessionRecord /\ t \in SessionRecord
  BY DEF ChannelInv, BothGood, ClientGood, TypeOK, MemoryInv
<1>2. /\ \A r \in Rid : s.queued_requests[r] = "none"
      /\ \A r \in Rid : InitRid < r /\ r < client.next => r <= s.rid \/ UnderWay(network, r)
      /\ \A o \in network : o.rid <= o.ack + WindowSize /\ s.rid <= o.ack + WindowSize
      /\ \E b \in Int : Covered(s, b)
  BY DEF MemoryInv, InOrder
<1>3. /\ s.rid \in Nat /\ t.rid \in Nat /\ Rid \subseteq Nat
  BY <1>1, NumberFields
<1>4. InWindow(rid) /\ rid \in Rid
  BY <1>1, MessageInWindow
<1>5. /\ m.ack \in InitRid..MaxRid /\ rid \in (InitRid + 1)..MaxRid
      /\ \A o \in network : o.rid \in (InitRid + 1)..MaxRid /\ o.ack \in InitRid..MaxRid
  BY <1>1 DEF ClientGood, Message
<1>6. \A r \in Rid : InitRid <= r /\ ~IsRead(client, r) => r > m.ack
  <2>1. ASSUME NEW r \in Rid, InitRid <= r, ~IsRead(client, r), r <= m.ack PROVE FALSE
    <3>1. r \in InitRid..m.ack BY <1>3, <1>5, <2>1, ChannelNumbers
    <3>2. QED BY <1>1, <2>1, <3>1 DEF ClientGood
  <2>2. QED BY <1>3, <1>5, <2>1, ChannelNumbers
<1>7. rid \in client.waiting /\ ~IsRead(client, rid) /\ rid < client.next
  BY <1>1, <1>4 DEF ClientGood
<1>8. m.ack < rid BY <1>4, <1>5, <1>6, <1>7, ChannelNumbers
<1>9. /\ ack \in Int /\ ack <= m.ack
      /\ \E b \in Int : /\ b <= ack /\ b <= m.ack /\ b < rid
                        /\ s.rid <= b + 2 * WindowSize /\ rid <= b + 2 * WindowSize
  <2>1. s.rid - WindowSize <= rid BY <1>3, <1>4, ChannelNumbers DEF InWindow
  <2>2. rid <= m.ack + WindowSize /\ s.rid <= m.ack + WindowSize BY <1>2
  <2>3. QED BY <1>1, <1>4, <1>5, <1>8, <2>1, <2>2, AckNumbers
<1>10. ~Overflows(s) BY <1>1, <1>2, CoveredFits
<1> HIDE DEF ack
<1>11. \A r \in Rid : InitRid <= r /\ ~IsRead(client, r) => r > ack
  BY <1>3, <1>5, <1>6, <1>9, ChannelNumbers
<1>12. InitRid <= s.rid /\ s.rid <= t.rid
  BY <1>1 DEF JointGood, TakesRequest
<1>13. rid <= s.rid + 1
  <2>1. CASE rid - 1 = InitRid BY <1>3, <1>5, <1>12, <2>1, ChannelNumbers
  <2>2. CASE rid - 1 # InitRid
    <3>1. /\ rid - 1 \in Rid /\ InitRid < rid - 1 /\ rid - 1 < client.next
          /\ ~(rid <= rid - 1)
      <4>1. client.next \in Nat BY <1>1, ChannelNumbers DEF ClientRecord
      <4>2. QED BY <1>5, <1>7, <2>2, <4>1, ChannelNumbers
    <3>2. ~UnderWay(network, rid - 1) BY <3>1 DEF UnderWay
    <3>3. rid - 1 <= s.rid BY <1>2, <3>1, <3>2
    <3>4. QED BY <1>3, <1>5, <3>3, ChannelNumbers
  <2>3. QED BY <2>1, <2>2
<1>14. \A r \in Rid : t.queued_requests[r] = "none"
  <2>1. ASSUME NEW r \in Rid, t.queued_requests[r] # "none" PROVE FALSE
    <3>1. r = rid BY <1>2, <2>1 DEF TakesRequest
    <3>2. rid > t.rid + 1 BY <2>1, <3>1 DEF QueueInv, Ahead
    <3>3. PICK x, y, z : x = rid /\ y = s.rid /\ z = t.rid OBVIOUS
    <3>4. x \in Nat /\ y \in Nat /\ z \in Nat BY <1>3, <1>4, <3>3
    <3>5. x <= y + 1 /\ y <= z /\ x > z + 1 BY <1>12, <1>13, <3>2, <3>3
    <3>6. QED BY <3>4, <3>5
  <2>2. QED BY <2>1
<1>15. \A r \in Rid : Recorded(t, r) <=> Recorded(s, r) \/ r = rid BY DEF TakesRequest
<1>16. rid <= t.rid BY <1>4, <1>14, <1>15 DEF Recorded
<1>17. t.rid = s.rid \/ t.rid = rid
  <2>1. t.rid \in Rid
    <3>1. t.rid \in 0..MaxRid BY <1>1 DEF SessionRecord
    <3>2. QED BY <1>3, <1>12, <3>1, ChannelNumbers
  <2>2. Recorded(t, t.rid) BY <1>3 DEF Recorded
  <2>3. CASE Recorded(s, t.rid)
    <3>1. t.rid <= s.rid BY <1>2, <2>1, <2>3 DEF Recorded
    <3>2. QED BY <1>3, <1>12, <3>1
  <2>4. QED BY <1>15, <2>1, <2>2, <2>3
<1>18. ASSUME NEW r \in Rid, InitRid < r, r < k.next PROVE r <= t.rid \/ UnderWay(net, r)
  <2>1. CASE r = rid BY <1>16, <2>1
  <2>2. CASE r # rid
    <3>1. r <= s.rid \/ UnderWay(network, r) BY <1>2, <1>18
    <3>2. UnderWay(network, r) => UnderWay(net, r) BY <2>2 DEF UnderWay
    <3>3. r <= s.rid => r <= t.rid BY <1>3, <1>12
    <3>4. QED BY <3>1, <3>2, <3>3
  <2>3. QED BY <2>1, <2>2
<1>19. ASSUME NEW o \in net
       PROVE  o.rid <= o.ack + WindowSize /\ t.rid <= o.ack + WindowSize
  <2>1. o \in network /\ rid <= o.rid OBVIOUS
  <2>2. o.rid <= o.ack + WindowSize /\ s.rid <= o.ack + WindowSize BY <1>2, <2>1
  <2>3. rid \in Int /\ o.rid \in Int /\ o.ack \in Int BY <1>5, <2>1, ChannelNumbers
  <2>4. QED BY <1>3, <1>17, <2>1, <2>2, <2>3, ChannelNumbers
<1>20. \E b \in Int : Covered(t, b)
  <2>1. PICK b \in Int : /\ b <= ack /\ b <= m.ack /\ b < rid
                         /\ s.rid <= b + 2 * WindowSize /\ rid <= b + 2 * WindowSize
    BY <1>9
  <2>2. \A r \in Rid : Known(s, r) \/ Held(s, r) => r <= s.rid BY <1>2 DEF Covered
  <2>3. ASSUME NEW r \in Rid, Held(s, r) PROVE b < r /\ r <= t.rid
    <3>1. r \in client.waiting BY <2>3 DEF Held, MemoryInv, HeldWaits
    <3>2. InitRid <= r /\ ~IsRead(client, r) BY <1>1, <3>1 DEF ClientGood
    <3>3. r > m.ack /\ r <= s.rid BY <1>6, <2>2, <2>3, <3>2
    <3>4. QED BY <1>3, <1>5, <1>12, <2>1, <3>3, ChannelNumbers
  <2>4. ASSUME NEW r \in Rid, Known(t, r) \/ Held(t, r) PROVE b < r /\ r <= t.rid
    <3>1. \/ Known(s, r) /\ r > ack
          \/ Held(s, r)
          \/ r = rid
      <4>1. CASE Known(t, r) BY <4>1 DEF TakesRequest, ack
      <4>2. CASE Held(t, r) BY <4>2 DEF TakesRequest, Held
      <4>3. QED BY <2>4, <4>1, <4>2
    <3>2. CASE Known(s, r) /\ r > ack
      <4>1. r <= s.rid BY <2>2, <3>2
      <4>2. QED BY <1>3, <1>9, <1>12, <2>1, <3>2, <4>1
    <3>3. CASE r = rid BY <1>16, <2>1, <3>3
    <3>4. QED BY <2>3, <3>1, <3>2, <3>3
  <2>5. t.rid <= b + 2 * WindowSize BY <1>17, <2>1
  <2>6. QED BY <2>4, <2>5 DEF Covered
<1>21. InOrder(t, k, net) BY <1>14, <1>18, <1>19, <1>20 DEF InOrder
<1>22. QED BY <1>10, <1>11, <1>21 DEF ack

LEMMA ArrivalKeeps ==
  ASSUME ChannelInv, ChannelInv', MemoryInv, "terminate" \notin Kinds,
         WindowSize <= InitRid + 1, NEW m \in network, Arrival(m)
  PROVE  MemoryInv'
<1> DEFINE s == session
           t == session'
           k == client'
           rid == m.rid
           c == NextConn
<1>1. /\ TypeOK /\ TypeOK' /\ QueueInv' /\ AnsweredOnce /\ NoEnd(s) /\ QueueInv /\ BothGood
      /\ ClientGood(client, network) /\ JointGood(s, client)
      /\ client \in ClientRecord /\ Memory(s) /\ s \in SessionRecord /\ t \in SessionRecord
  BY DEF ChannelInv, BothGood, ClientGood, TypeOK, MemoryInv, HeldInv
<1>2. TakesRequest(s, rid, c, m.ack, t) BY <1>1, ArrivalGood
<1>3. s.status = "open" /\ MayArrive
  BY DEF Arrival, Request, RepeatedRequest, InvalidRequest
<1>4. rid \in Rid BY <1>1, <1>3, MessageInWindow
<1>5. /\ rid \in client.waiting /\ client.conn[rid] = 0
      /\ InitRid <= rid /\ ~IsRead(client, rid)
  BY <1>1, <1>4 DEF ClientGood
<1>6. /\ ~Held(s, rid)
      /\ \A d \in DOMAIN s.arrived : s.arrived[d] = rid => Replied(s, d)
  BY <1>1, <1>4, <1>5, NowhereIsReplied
<1>7. c \in Conn /\ c # 0 /\ c = Len(s.arrived) + 1
  <2>1. c \in Conn /\ c = Len(s.arrived) + 1 BY <1>1, <1>3, NextConnType DEF NextConn
  <2>2. QED BY <2>1, ChannelNumbers DEF Conn
<1>8. /\ DOMAIN t.arrived = DOMAIN s.arrived \union {c}
      /\ \A d \in DOMAIN s.arrived : t.arrived[d] = s.arrived[d] /\ s.arrived[d] \in Rid
      /\ t.arrived[c] = rid
  <2>1. /\ s.arrived \in Seq(Rid) /\ Len(s.arrived) \in Nat
        /\ DOMAIN s.arrived = 1..Len(s.arrived)
        /\ \A d \in DOMAIN s.arrived : s.arrived[d] \in Rid
    BY <1>1, ArrivedFields
  <2>2. t.arrived = Append(s.arrived, rid) BY <1>2 DEF TakesRequest
  <2>3. /\ DOMAIN t.arrived = 1..(Len(s.arrived) + 1)
        /\ \A d \in 1..Len(s.arrived) : t.arrived[d] = s.arrived[d]
        /\ t.arrived[Len(s.arrived) + 1] = rid
    BY <1>4, <2>1, <2>2, AppendProperties
  <2>4. 1..(Len(s.arrived) + 1) = 1..Len(s.arrived) \union {Len(s.arrived) + 1} BY <2>1
  <2>5. QED BY <1>7, <2>1, <2>3, <2>4
<1>9. /\ k.next = client.next /\ k.got = client.got /\ k.path = client.path
      /\ k.waiting = client.waiting
      /\ \A r \in Rid : k.conn[r] = IF r = rid THEN c ELSE client.conn[r]
      /\ network' = network \ {m}
      /\ client.path = "overtaking" \/ \A other \in network : rid <= other.rid
  <2>1. k = [client EXCEPT !.conn[rid] = c] BY Zenon DEF Arrival
  <2>2. client.conn \in [Rid -> 0..MaxConn] BY <1>1 DEF ClientRecord
  <2>3. k.conn = [client.conn EXCEPT ![rid] = c] BY <1>1, <2>1 DEF ClientRecord
  <2>4. /\ network' = network \ {m}
        /\ client.path = "overtaking" \/ \A other \in network : rid <= other.rid
    BY DEF Arrival
  <2> HIDE DEF c, rid
  <2>5. QED BY <1>1, <2>1, <2>2, <2>3, <2>4 DEF ClientRecord
<1> HIDE DEF k, c
<1>10. client.path = "overtaking" \/ client.path = "losing" BY DEF MemoryInv
<1>11. \A r : IsRead(k, r) <=> IsRead(client, r) BY <1>9 DEF IsRead
<1>12. ASSUME client.path = "losing"
       PROVE  /\ ~Overflows(s)
              /\ \A r \in Rid : InitRid <= r /\ ~IsRead(client, r) => r > AckOf(s, rid, m.ack)
              /\ InOrder(t, k, network')
  <2>1. \A other \in network : m.rid <= other.rid BY <1>9, <1>12
  <2>2. TakesRequest(session, m.rid, NextConn, m.ack, session') BY <1>2 DEF c
  <2>3. QED BY <1>1, <1>3, <1>9, <1>12, <2>1, <2>2, ArrivalInOrder
<1>13. ASSUME client.path = "overtaking", NEW d \in DOMAIN s.arrived PROVE s.arrived[d] # rid
  <2>1. client.conn[s.arrived[d]] = d BY <1>13 DEF MemoryInv, OnePlace
  <2>2. d \in Conn BY <1>1, RepliedUnlessHeld
  <2>3. d # 0 BY <2>2, ChannelNumbers DEF Conn
  <2>4. QED BY <1>5, <2>1, <2>3
<1>14. (\A d \in DOMAIN s.arrived : s.arrived[d] # rid) \/ (rid <= s.rid /\ ~Held(s, rid))
  <2>1. CASE client.path = "overtaking" BY <1>13, <2>1
  <2>2. ASSUME client.path = "losing", NEW d \in DOMAIN s.arrived, s.arrived[d] = rid
        PROVE  rid <= s.rid
    <3>1. Recorded(s, rid) BY <1>1, <1>4, <1>5, <2>2 DEF JointGood, Came
    <3>2. s.queued_requests[rid] = "none" BY <1>4, <2>2 DEF MemoryInv, InOrder
    <3>3. QED BY <3>1, <3>2 DEF Recorded
  <2>3. QED BY <1>6, <1>10, <2>1, <2>2
<1>15. /\ Memory(t)
       /\ \A d \in DOMAIN s.arrived : Lasts(s, t, d)
       /\ Replied(t, c) /\ rid > s.rid => Known(t, rid)
  BY <1>1, <1>2, <1>14, Zenon DEF TakesRequest
<1>16. HeldWaits(t, k)
  <2>1. ASSUME NEW j \in DOMAIN t.res
        PROVE  k.conn[t.res[j].rid] = t.res[j].conn /\ t.res[j].rid \in k.waiting
    <3>1. \/ t.res[j].rid = rid /\ t.res[j].conn = c
          \/ \E i \in DOMAIN s.res : t.res[j] = s.res[i]
      BY <1>2 DEF TakesRequest
    <3>2. CASE t.res[j].rid = rid /\ t.res[j].conn = c BY <1>4, <1>5, <1>9, <3>2
    <3>3. ASSUME NEW i \in DOMAIN s.res, t.res[j] = s.res[i]
          PROVE  k.conn[t.res[j].rid] = t.res[j].conn /\ t.res[j].rid \in k.waiting
      <4>1. s.res[i].rid # rid BY <1>6 DEF Held
      <4>2. client.conn[s.res[i].rid] = s.res[i].conn /\ s.res[i].rid \in client.waiting
        BY DEF MemoryInv, HeldWaits
      <4>3. s.res[i].rid \in Rid BY <1>1, <4>2 DEF ClientRecord
      <4>4. QED BY <1>9, <3>3, <4>1, <4>2, <4>3
    <3>4. QED BY <3>1, <3>2, <3>3
  <2>2. QED BY <2>1 DEF HeldWaits
<1>17. ReadKept(t, k)
  <2>1. ASSUME NEW d \in DOMAIN t.arrived, IsRead(k, t.arrived[d]), NEW i \in DOMAIN t.replies[d]
        PROVE  StanzasOf(t.replies[d][i]) \subseteq StanzasOf(k.got[t.arrived[d]])
    <3>1. d # c BY <1>5, <1>8, <1>11, <2>1
    <3>2. d \in DOMAIN s.arrived /\ t.arrived[d] = s.arrived[d] /\ s.arrived[d] \in Rid
      BY <1>8, <2>1, <3>1
    <3>3. IsRead(client, s.arrived[d]) BY <1>11, <2>1, <3>2
    <3>4. s.arrived[d] \notin client.waiting BY <1>1, <3>2, <3>3 DEF ClientGood
    <3>5. Replied(s, d) BY <1>1, <3>2, <3>4, NowhereIsReplied
    <3>6. t.replies[d] = s.replies[d] BY <1>15, <3>2, <3>5 DEF Lasts
    <3>7. QED BY <1>9, <2>1, <3>2, <3>3, <3>6 DEF MemoryInv, ReadKept
  <2>2. QED BY <2>1 DEF ReadKept
<1>18. OnePlace(t, k)
  <2>1. ASSUME client.path = "overtaking", NEW d \in DOMAIN t.arrived
        PROVE  k.conn[t.arrived[d]] = d
    <3>1. CASE d = c BY <1>4, <1>8, <1>9, <3>1
    <3>2. CASE d # c
      <4>1. d \in DOMAIN s.arrived /\ t.arrived[d] = s.arrived[d] /\ s.arrived[d] \in Rid
        BY <1>8, <2>1, <3>2
      <4>2. s.arrived[d] # rid BY <1>13, <2>1, <4>1
      <4>3. client.conn[s.arrived[d]] = d BY <2>1, <4>1 DEF MemoryInv, OnePlace
      <4>4. QED BY <1>9, <4>1, <4>2, <4>3
    <3>3. QED BY <3>1, <3>2
  <2>2. QED BY <1>9, <2>1 DEF OnePlace
<1>19. UnreadKnown(t, k)
  <2>1. SUFFICES ASSUME client.path = "losing", NEW d \in DOMAIN t.arrived,
                        ~IsRead(client, t.arrived[d]), Replied(t, d)
                 PROVE  Known(t, t.arrived[d])
    BY <1>9, <1>11 DEF UnreadKnown
  <2>2. ASSUME NEW e \in DOMAIN s.arrived, ~IsRead(client, s.arrived[e]), Replied(s, e)
        PROVE  Known(t, s.arrived[e])
    <3>1. Known(s, s.arrived[e]) BY <2>1, <2>2 DEF MemoryInv, UnreadKnown
    <3>2. s.arrived[e] \in Rid /\ InitRid <= s.arrived[e]
      BY <1>1, <1>8 DEF JointGood
    <3>3. s.arrived[e] > AckOf(s, rid, m.ack) /\ ~Overflows(s)
      BY <1>12, <2>1, <2>2, <3>2
    <3>4. QED BY <1>2, <3>1, <3>2, <3>3 DEF TakesRequest
  <2>3. CASE d # c
    <3>1. d \in DOMAIN s.arrived /\ t.arrived[d] = s.arrived[d] BY <1>8, <2>3
    <3>2. Replied(s, d) \/ Known(t, s.arrived[d]) BY <1>15, <2>1, <3>1 DEF Lasts
    <3>3. QED BY <2>1, <2>2, <3>1, <3>2
  <2>4. CASE d = c
    <3>1. t.arrived[d] = rid BY <1>8, <2>4
    <3>2. CASE rid > s.rid BY <1>15, <2>1, <2>4, <3>1, <3>2
    <3>3. CASE ~(rid > s.rid)
      <4>1. rid <= s.rid
        <5>1. rid \in Nat /\ s.rid \in Nat BY <1>1, <1>4, NumberFields
        <5>2. QED BY <3>3, <5>1
      <4>2. Recorded(s, rid) BY <4>1 DEF Recorded
      <4>3. PICK e \in DOMAIN s.arrived : s.arrived[e] = rid
        BY <1>1, <1>4, <1>5, <4>2 DEF JointGood, Came
      <4>4. Replied(s, e) BY <1>6, <4>3
      <4>5. QED BY <1>5, <2>2, <3>1, <4>3, <4>4
    <3>4. QED BY <3>2, <3>3
  <2>5. QED BY <2>3, <2>4
<1>20. InOrder(t, k, network')
  <2>1. CASE client.path = "losing" BY <1>12, <2>1
  <2>2. CASE client.path = "overtaking" BY <1>9, <2>2 DEF InOrder
  <2>3. QED BY <1>10, <2>1, <2>2
<1>21. QED BY <1>9, <1>15, <1>16, <1>17, <1>18, <1>19, <1>20 DEF MemoryInv, k

(* Every step of the channel keeps MemoryInv.                              *)
LEMMA MemoryStep ==
  ASSUME ChannelInv, ChannelInv', MemoryInv, "terminate" \notin Kinds,
         WindowSize <= InitRid + 1, ChannelNext
  PROVE  MemoryInv'
<1>1. TypeOK' BY DEF ChannelInv
<1>2. QED
  BY <1>1, CreateKeeps, EventKeeps, ArrivalKeeps, ClientRequestKeeps, ClientRepeatKeeps,
     ClientReadKeeps, BreakKeeps, Zenon DEF ChannelNext

(* MemoryInv is an invariant of the channel.                               *)
LEMMA MemoryInvariant ==
  "terminate" \notin Kinds /\ "cutting" \notin Networks /\ WindowSize <= InitRid + 1
    => (ChannelSpec => []MemoryInv)
<1> SUFFICES ASSUME "terminate" \notin Kinds, "cutting" \notin Networks,
                    WindowSize <= InitRid + 1
             PROVE  ChannelSpec => []MemoryInv
  OBVIOUS
<1>1. ChannelInit => MemoryInv BY KeepsBegins
<1>2. ChannelInv /\ ChannelInv' /\ MemoryInv /\ [ChannelNext]_vars => MemoryInv'
  <2>1. ASSUME ChannelInv, ChannelInv', MemoryInv, ChannelNext PROVE MemoryInv'
    BY <2>1, MemoryStep
  <2>2. ASSUME MemoryInv, UNCHANGED vars PROVE MemoryInv'
    BY <2>2 DEF vars, MemoryInv
  <2>3. QED BY <2>1, <2>2
<1>3. ChannelSpec => []ChannelInv BY ChannelInvariant
<1>4. QED BY <1>1, <1>2, <1>3, PTL DEF ChannelSpec

(* The client takes nothing for the reply to a rid that lacks a stanza the *)
(* server sent on that rid, where requests are lost or replies are lost:   *)
(* what a repeated request is told is what its rid was told before         *)
(* (session.js 1094-1117): the cache has not forgotten it (984-1026).  In  *)
(* a window above InitRid + 1, rid - window is 0 for a rid above that one, *)
(* and handle_acks takes 0 for no ack, and forgets all replies before it.  *)
THEOREM RepliesAreNotMissed ==
  "terminate" \notin Kinds /\ "cutting" \notin Networks /\ WindowSize <= InitRid + 1
    => (ChannelSpec => []ReplyNotMissed)
<1>1. MemoryInv => ReplyNotMissed
  BY DEF MemoryInv, ReadKept, ReplyNotMissed, IsRead
<1>2. QED BY <1>1, MemoryInvariant, PTL
=============================================================================
