--------------------------- MODULE StropheProofs ----------------------------
(***************************************************************************)
(* Theorems about the request engine of the client, for every number of    *)
(* request ids, of lives and of sends, every window and every wait: a      *)
(* callback gets one reply, and no request id is lost without the          *)
(* connection ending, but for those whose reply has a status the code      *)
(* drops a request for.                                                    *)
(***************************************************************************)
EXTENDS Strophe, SequenceLemmas

ConnectionFields ==
  {"life", "rid", "first", "authenticated", "disconnecting", "connected", "errors", "paused",
   "_data", "_requests", "timer", "listening", "handled", "dropped"}

Func2 == {"_connect_cb", "_dataRecv"}

RequestType ==
  [rid : Rid, func : Func2, sends : Nat, age : {"none", "young", "late", "overdue"},
   dead : {"no", "yes", "long"}, xhr : {"unsent", "delayed", "sent", "failed", "refused"}]

ExchangeType == [rid : Rid, sends : Nat, func : Func2]

Types(c) ==
  /\ DOMAIN c = ConnectionFields
  /\ c.life \in Nat \ {0} /\ c.rid \in Nat /\ c.first \in Nat
  /\ c._requests \in Seq(RequestType)
  /\ c.listening \in SUBSET ExchangeType
  /\ c.handled \in [Rid -> 0..2]

(* The request ids of a life are its own.                                  *)
LifeInv(c) ==
  c.life <= MaxLives =>
    /\ c.first = (c.life - 1) * Span + 1
    /\ c.first <= c.rid /\ c.rid <= c.first + MaxRequests

(* Ids that were not taken yet have no reply, and those that are queued or *)
(* under way have none either.                                             *)
RepliesInv(c) ==
  /\ \A r \in Rid : c.handled[r] <= 1 /\ (r >= c.rid => c.handled[r] = 0)
  /\ \A i \in DOMAIN c._requests :
       c._requests[i].rid < c.rid /\ c.handled[c._requests[i].rid] = 0
  /\ \A x \in c.listening : x.rid < c.rid /\ c.handled[x.rid] = 0

(* An id is in one place of the queue and in one exchange, and the request *)
(* in the queue is the one that is under way.                              *)
PlacesInv(c) ==
  /\ \A i, j \in DOMAIN c._requests : c._requests[i].rid = c._requests[j].rid => i = j
  /\ \A x, y \in c.listening : x.rid = y.rid => x = y
  /\ \A x \in c.listening, i \in DOMAIN c._requests :
       x.rid = c._requests[i].rid => x = Exchange(c._requests[i]) /\ c._requests[i].xhr = "sent"

(* The last backoff is longer than TIMEOUT.  (Of the code's 5 sends and    *)
(* 60 seconds it is: 125 seconds to 66.)                                   *)
LastIsTooLate == MaxSends > 1 /\ ~BackoffFits(MaxSends)

(* A request is not sent for the last time.                                *)
SendsInv(c) ==
  /\ \A i \in DOMAIN c._requests : c._requests[i].sends <= MaxSends + 1
  /\ LastIsTooLate => \A x \in c.listening : x.sends <= MaxSends

Inv(c) == Types(c) /\ LifeInv(c) /\ RepliesInv(c) /\ PlacesInv(c) /\ SendsInv(c)

(* The ids of this life, but e, have their reply, are queued or have been  *)
(* dropped for the status of their reply.                                  *)
Taken(c, e) ==
  \A r \in c.first..(c.rid - 1) :
    r = e \/ c.handled[r] > 0 \/ r \in c.dropped \/ \E i \in DOMAIN c._requests : c._requests[i].rid = r

NoRid == -1

Good(c) == Inv(c) /\ (LastIsTooLate => Taken(c, NoRid))

EngineInv == Good(connection)
-----------------------------------------------------------------------------
(* What changes of a connection keep.                                      *)

Rids(c) == {c._requests[i].rid : i \in DOMAIN c._requests} \union {x.rid : x \in c.listening}

Emptied(c) == c._requests = << >> => c.first = c.rid

(* What every change to the queue keeps when it takes no new id: no reply  *)
(* is lost and no id gets back into the queue.                             *)
Keeps(c, t) ==
  /\ Inv(t)
  /\ t.handled = c.handled /\ c.rid <= t.rid
  /\ Rids(t) \subseteq Rids(c)
  /\ \A e \in Int : Taken(c, e) => Taken(t, e)
  /\ Emptied(c) => Emptied(t)

(* One change after the other.                                             *)
LEMMA KeepsKeeps ==
  ASSUME NEW c, NEW t, NEW u, Inv(c), Keeps(c, t), Keeps(t, u)
  PROVE  Keeps(c, u)
<1>1. c.rid \in Nat /\ t.rid \in Nat /\ u.rid \in Nat BY DEF Keeps, Inv, Types
<1>2. c.rid <= u.rid BY <1>1 DEF Keeps
<1>3. QED BY <1>2 DEF Keeps

(* The fields the invariant is about.                                      *)
Alike(c, t) ==
  /\ DOMAIN t = ConnectionFields
  /\ t.life = c.life /\ t.rid = c.rid /\ t.first = c.first /\ t._requests = c._requests
  /\ t.listening = c.listening /\ t.handled = c.handled /\ t.dropped = c.dropped

(* A change of other fields keeps everything.                              *)
LEMMA AlikeKeeps ==
  ASSUME NEW c, NEW t, Inv(c), Alike(c, t)
  PROVE  Keeps(c, t)
<1>1. Types(t) BY DEF Inv, Types, Alike
<1>2. LifeInv(t) BY DEF Inv, LifeInv, Alike
<1>3. RepliesInv(t) BY DEF Inv, RepliesInv, Alike
<1>4. PlacesInv(t) BY DEF Inv, PlacesInv, Alike
<1>5. SendsInv(t) BY DEF Inv, SendsInv, Alike
<1>6. \A e \in Int : Taken(c, e) => Taken(t, e) BY DEF Taken, Alike
<1>7. Rids(t) = Rids(c) BY DEF Rids, Alike
<1>8. c.rid \in Nat BY DEF Inv, Types
<1>9. QED BY <1>1, <1>2, <1>3, <1>4, <1>5, <1>6, <1>7, <1>8 DEF Keeps, Inv, Emptied, Alike

(* Requests and exchanges go: the queue has what it had, less some.        *)
Fewer(c, t) ==
  /\ DOMAIN t = ConnectionFields
  /\ t.life = c.life /\ t.rid = c.rid /\ t.first = c.first /\ t.handled = c.handled
  /\ t.listening \subseteq c.listening
  /\ t._requests \in Seq(RequestType)
  /\ \A i \in DOMAIN t._requests : \E j \in DOMAIN c._requests :
       t._requests[i] = c._requests[j]
  /\ \A i, j \in DOMAIN t._requests : t._requests[i].rid = t._requests[j].rid => i = j

(* The invariant outlives requests and exchanges that go.                  *)
LEMMA FewerInv ==
  ASSUME NEW c, NEW t, Inv(c), Fewer(c, t)
  PROVE  Inv(t) /\ Rids(t) \subseteq Rids(c)
<1>1. Types(t) BY DEF Inv, Types, Fewer
<1>2. LifeInv(t) BY DEF Inv, LifeInv, Fewer
<1>3. RepliesInv(t)
  <2>1. ASSUME NEW i \in DOMAIN t._requests
        PROVE  t._requests[i].rid < t.rid /\ t.handled[t._requests[i].rid] = 0
    <3>1. PICK j \in DOMAIN c._requests : t._requests[i] = c._requests[j] BY DEF Fewer
    <3>2. QED BY <3>1 DEF Inv, RepliesInv, Fewer
  <2>2. QED BY <2>1 DEF Inv, RepliesInv, Fewer
<1>4. PlacesInv(t)
  <2>1. ASSUME NEW x \in t.listening, NEW i \in DOMAIN t._requests, x.rid = t._requests[i].rid
        PROVE  x = Exchange(t._requests[i]) /\ t._requests[i].xhr = "sent"
    <3>1. PICK j \in DOMAIN c._requests : t._requests[i] = c._requests[j] BY DEF Fewer
    <3>2. x \in c.listening BY DEF Fewer
    <3>3. QED BY <2>1, <3>1, <3>2 DEF Inv, PlacesInv
  <2>2. QED BY <2>1 DEF Inv, PlacesInv, Fewer
<1>5. SendsInv(t)
  <2>1. ASSUME NEW i \in DOMAIN t._requests PROVE t._requests[i].sends <= MaxSends + 1
    <3>1. PICK j \in DOMAIN c._requests : t._requests[i] = c._requests[j] BY DEF Fewer
    <3>2. QED BY <3>1 DEF Inv, SendsInv
  <2>2. QED BY <2>1 DEF Inv, SendsInv, Fewer
<1>6. Rids(t) \subseteq Rids(c) BY DEF Rids, Fewer
<1>7. QED BY <1>1, <1>2, <1>3, <1>4, <1>5, <1>6 DEF Inv

(* A request is put in the place of another with its id; if it is under    *)
(* way, its exchange is the only one of its id.                            *)
LEMMA ReplaceKeeps ==
  ASSUME NEW c, Inv(c), NEW i \in DOMAIN c._requests, NEW req \in RequestType,
         req.rid = c._requests[i].rid, req.sends <= MaxSends + 1,
         NEW t, DOMAIN t = ConnectionFields,
         t.life = c.life, t.rid = c.rid, t.first = c.first, t.handled = c.handled, t.dropped = c.dropped,
         t._requests = [c._requests EXCEPT ![i] = req],
         \A x \in t.listening :
           IF x.rid = req.rid
           THEN /\ x = Exchange(req) /\ req.xhr = "sent"
                /\ LastIsTooLate => req.sends <= MaxSends
           ELSE x \in c.listening
  PROVE  Keeps(c, t)
<1>0. /\ c._requests \in Seq(RequestType) /\ Len(c._requests) \in Nat
      /\ DOMAIN c._requests = 1..Len(c._requests)
  BY DEF Inv, Types
<1>1. /\ t._requests \in Seq(RequestType) /\ DOMAIN t._requests = DOMAIN c._requests
      /\ t._requests[i] = req
      /\ \A j \in DOMAIN c._requests : j # i => t._requests[j] = c._requests[j]
      /\ \A j \in DOMAIN c._requests : t._requests[j].rid = c._requests[j].rid
  BY <1>0
<1>2. /\ Exchange(req) \in ExchangeType /\ Exchange(req).rid = req.rid
      /\ Exchange(req).sends = req.sends
  BY DEF Exchange, RequestType, ExchangeType
<1>3. Types(t)
  <2>1. t.listening \in SUBSET ExchangeType
    <3>1. c.listening \in SUBSET ExchangeType BY DEF Inv, Types
    <3>2. ASSUME NEW x \in t.listening PROVE x \in ExchangeType
      BY <1>2, <3>1
    <3>3. QED BY <3>2
  <2>2. QED BY <1>1, <2>1 DEF Inv, Types
<1>4. LifeInv(t) BY DEF Inv, LifeInv
<1>5. RepliesInv(t)
  <2>1. ASSUME NEW x \in t.listening PROVE x.rid < t.rid /\ t.handled[x.rid] = 0
    <3>1. CASE x.rid = req.rid BY <3>1 DEF Inv, RepliesInv
    <3>2. CASE x.rid # req.rid BY <3>2 DEF Inv, RepliesInv
    <3>3. QED BY <3>1, <3>2
  <2>2. QED BY <1>1, <2>1 DEF Inv, RepliesInv
<1>6. PlacesInv(t)
  <2>1. \A j, k \in DOMAIN t._requests : t._requests[j].rid = t._requests[k].rid => j = k
    BY <1>1 DEF Inv, PlacesInv
  <2>2. ASSUME NEW x \in t.listening, NEW y \in t.listening, x.rid = y.rid PROVE x = y
    <3>1. CASE x.rid = req.rid BY <2>2, <3>1
    <3>2. CASE x.rid # req.rid BY <2>2, <3>2 DEF Inv, PlacesInv
    <3>3. QED BY <3>1, <3>2
  <2>3. ASSUME NEW x \in t.listening, NEW j \in DOMAIN t._requests, x.rid = t._requests[j].rid
        PROVE  x = Exchange(t._requests[j]) /\ t._requests[j].xhr = "sent"
    <3>1. CASE x.rid = req.rid
      <4>1. j = i BY <1>1, <2>3, <3>1 DEF Inv, PlacesInv
      <4>2. QED BY <1>1, <3>1, <4>1
    <3>2. CASE x.rid # req.rid
      <4>1. x \in c.listening /\ j # i BY <1>1, <2>3, <3>2
      <4>2. QED BY <1>1, <2>3, <4>1 DEF Inv, PlacesInv
    <3>3. QED BY <3>1, <3>2
  <2>4. QED BY <2>1, <2>2, <2>3 DEF PlacesInv
<1>7. SendsInv(t)
  <2>1. ASSUME LastIsTooLate, NEW x \in t.listening PROVE x.sends <= MaxSends
    <3>1. CASE x.rid = req.rid BY <1>2, <2>1, <3>1
    <3>2. CASE x.rid # req.rid BY <2>1, <3>2 DEF Inv, SendsInv
    <3>3. QED BY <3>1, <3>2
  <2>2. ASSUME NEW j \in DOMAIN t._requests PROVE t._requests[j].sends <= MaxSends + 1
    BY <1>1 DEF Inv, SendsInv
  <2>3. QED BY <2>1, <2>2 DEF SendsInv
<1>8. Rids(t) \subseteq Rids(c)
  <2>1. ASSUME NEW x \in t.listening PROVE x.rid \in Rids(c)
    <3>1. CASE x.rid = req.rid BY <3>1 DEF Rids
    <3>2. CASE x.rid # req.rid BY <3>2 DEF Rids
    <3>3. QED BY <3>1, <3>2
  <2>2. ASSUME NEW j \in DOMAIN t._requests PROVE t._requests[j].rid \in Rids(c)
    BY <1>1 DEF Rids
  <2>3. QED BY <2>1, <2>2 DEF Rids
<1>9. \A e \in Int : Taken(c, e) => Taken(t, e) BY <1>1 DEF Taken
<1>10. c.rid <= t.rid BY DEF Inv, Types
<1>11. Emptied(c) => Emptied(t)
  <2>1. t._requests # << >> BY <1>0, <1>1
  <2>2. QED BY <2>1 DEF Emptied
<1>12. QED BY <1>3, <1>4, <1>5, <1>6, <1>7, <1>8, <1>9, <1>10, <1>11 DEF Inv, Keeps
-----------------------------------------------------------------------------
(* The end of a connection.                                                *)

(* A new life starts above every id of the old one.                        *)
LEMMA LifeAbove ==
  ASSUME NEW c, Inv(c)
  PROVE  LET t == NewLife(c)
         IN /\ DOMAIN t = ConnectionFields /\ t.life \in Nat \ {0} /\ t.rid \in Nat
            /\ t.first = t.rid /\ c.rid <= t.rid /\ LifeInv(t)
            /\ t._requests = c._requests /\ t.listening = c.listening /\ t.handled = c.handled
<1>1. PICK t : t = NewLife(c) OBVIOUS
<1>2. PICK rid : rid = IF c.life > MaxLives THEN c.rid ELSE c.life * Span + 1 OBVIOUS
<1>3. PICK life : life = IF c.life > MaxLives THEN c.life ELSE c.life + 1 OBVIOUS
<1>4. t = [c EXCEPT !.life = life, !.rid = rid, !.first = rid, !.dropped = {}]
  BY <1>1, <1>2, <1>3 DEF NewLife
<1>5. /\ DOMAIN c = ConnectionFields /\ c.life \in Nat \ {0} /\ c.rid \in Nat
  BY DEF Inv, Types
<1>6. /\ DOMAIN t = ConnectionFields /\ t.life = life /\ t.rid = rid /\ t.first = rid
      /\ t._requests = c._requests /\ t.listening = c.listening /\ t.handled = c.handled
  BY <1>4, <1>5 DEF ConnectionFields
<1>7. MaxLives \in Nat /\ MaxRequests \in Nat /\ Span \in Nat /\ MaxRequests <= Span
  BY StropheAssumption DEF Span
<1>8. CASE c.life > MaxLives
  <2>1. life = c.life /\ rid = c.rid /\ ~(life <= MaxLives) BY <1>2, <1>3, <1>5, <1>7, <1>8
  <2>2. c.rid <= rid BY <1>5, <2>1
  <2>3. LifeInv(t) BY <1>6, <2>1 DEF LifeInv
  <2>4. QED BY <1>1, <1>5, <1>6, <2>1, <2>2, <2>3
<1>9. CASE ~(c.life > MaxLives)
  <2>1. life = c.life + 1 /\ rid = c.life * Span + 1 BY <1>2, <1>3, <1>9
  <2>2. c.life <= MaxLives BY <1>5, <1>7, <1>9
  <2>3. c.rid <= (c.life - 1) * Span + 1 + MaxRequests BY <1>5, <2>2 DEF Inv, LifeInv
  <2>4. PICK a \in Nat : a = (c.life - 1) * Span
    <3>1. c.life - 1 \in Nat BY <1>5
    <3>2. QED BY <1>7, <3>1
  <2>5. c.life * Span = a + Span BY <1>5, <1>7, <2>4
  <2>6. life \in Nat \ {0} /\ life - 1 = c.life BY <1>5, <2>1
  <2>7. rid \in Nat /\ c.rid <= rid BY <1>5, <1>7, <2>1, <2>3, <2>4, <2>5
  <2>8. rid <= rid /\ rid <= rid + MaxRequests BY <1>7, <2>7
  <2>9. LifeInv(t) BY <1>6, <2>1, <2>6, <2>8 DEF LifeInv
  <2>10. QED BY <1>1, <1>6, <2>6, <2>7, <2>9
<1>10. QED BY <1>8, <1>9

(* A connection with the life t has, and the requests of c or fewer.       *)
LEMMA NewLifeKeeps ==
  ASSUME NEW c, Inv(c), NEW t, DOMAIN t = ConnectionFields,
         t.life = NewLife(c).life, t.rid = NewLife(c).rid, t.first = NewLife(c).first,
         t.handled = c.handled, t._requests = c._requests, t.listening = c.listening
  PROVE  Keeps(c, t) /\ t.first = t.rid
<1>1. PICK u : u = NewLife(c) OBVIOUS
<1>2. /\ t.life \in Nat \ {0} /\ t.rid \in Nat /\ t.first = t.rid /\ c.rid <= t.rid
      /\ LifeInv(u) /\ u.life = t.life /\ u.rid = t.rid /\ u.first = t.first
  BY <1>1, LifeAbove
<1>3. Types(t) BY <1>2 DEF Inv, Types
<1>4. LifeInv(t) BY <1>2 DEF LifeInv
<1>5. RepliesInv(t)
  <2>1. c.rid \in Nat /\ Rid \subseteq Int
    <3>1. ASSUME NEW r \in Rid PROVE r \in Int
      <4>1. PICK life \in 0..(MaxLives - 1), n \in 1..MaxRequests : r = life * Span + n
        BY DEF Rid
      <4>2. QED BY <4>1, StropheAssumption DEF Span
    <3>2. QED BY <3>1 DEF Inv, Types
  <2>2. ASSUME NEW r \in Rid PROVE t.handled[r] <= 1 /\ (r >= t.rid => t.handled[r] = 0)
    <3>1. r >= t.rid => r >= c.rid BY <1>2, <2>1
    <3>2. QED BY <3>1 DEF Inv, RepliesInv
  <2>3. ASSUME NEW r \in Rid, r < c.rid PROVE r < t.rid BY <1>2, <2>1, <2>3
  <2>4. ASSUME NEW j \in DOMAIN t._requests
        PROVE  t._requests[j].rid < t.rid /\ t.handled[t._requests[j].rid] = 0
    <3>1. t._requests[j].rid \in Rid
      <4>1. t._requests[j] \in RequestType BY <1>3, ElementOfSeq DEF Types
      <4>2. QED BY <4>1 DEF RequestType
    <3>2. QED BY <2>3, <3>1 DEF Inv, RepliesInv
  <2>5. ASSUME NEW x \in t.listening PROVE x.rid < t.rid /\ t.handled[x.rid] = 0
    <3>1. x.rid \in Rid BY <1>3 DEF Types, ExchangeType
    <3>2. QED BY <2>3, <3>1 DEF Inv, RepliesInv
  <2>6. QED BY <2>2, <2>4, <2>5 DEF RepliesInv
<1>6. PlacesInv(t) BY DEF Inv, PlacesInv
<1>7. SendsInv(t) BY DEF Inv, SendsInv
<1>8. \A e \in Int : Taken(t, e) BY <1>2 DEF Taken
<1>9. Rids(t) = Rids(c) BY DEF Rids
<1>10. QED BY <1>2, <1>3, <1>4, <1>5, <1>6, <1>7, <1>8, <1>9 DEF Inv, Keeps, Emptied

(* _doDisconnect starts a new life and keeps the queue.                    *)
LEMMA DoDisconnectKeeps ==
  ASSUME NEW c, Inv(c)
  PROVE  LET t == _doDisconnect(c)
         IN Keeps(c, t) /\ t.first = t.rid /\ t._requests = c._requests
<1>1. PICK u : u = NewLife(c) OBVIOUS
<1>2. PICK t : t = _doDisconnect(c) OBVIOUS
<1>3. t = [u EXCEPT !.authenticated = FALSE, !.disconnecting = FALSE,
                    !.connected = FALSE, !.timer = "none"]
  BY <1>1, <1>2 DEF _doDisconnect
<1>4. DOMAIN u = ConnectionFields /\ u._requests = c._requests
      /\ u.listening = c.listening /\ u.handled = c.handled
  BY <1>1, LifeAbove
<1>5. /\ DOMAIN t = ConnectionFields /\ t.life = u.life /\ t.rid = u.rid /\ t.first = u.first
      /\ t._requests = c._requests /\ t.listening = c.listening /\ t.handled = c.handled
  BY <1>3, <1>4 DEF ConnectionFields
<1>6. Keeps(c, t) /\ t.first = t.rid BY <1>1, <1>5, NewLifeKeeps
<1>7. QED BY <1>2, <1>5, <1>6

(* Whatever has gone from the queue, a new life makes up for it.           *)
LEMMA FreshStart ==
  ASSUME NEW c, NEW s, NEW t, Inv(c), Fewer(c, s), Keeps(s, t), t.first = t.rid
  PROVE  Keeps(c, t)
<1>1. Rids(s) \subseteq Rids(c) BY FewerInv
<1>2. \A e \in Int : Taken(t, e)
  <2>1. t.rid \in Nat BY DEF Keeps, Inv, Types
  <2>2. QED BY <2>1 DEF Taken
<1>3. QED BY <1>1, <1>2 DEF Keeps, Fewer, Emptied

(* _onDisconnectTimeout empties the queue and starts a new life.           *)
LEMMA DisconnectTimeoutKeeps ==
  ASSUME NEW c, Inv(c)
  PROVE  Keeps(c, _onDisconnectTimeout(c)) /\ _onDisconnectTimeout(c)._requests = << >>
<1>1. PICK L : L = c.listening \ {Exchange(r) : r \in ToSet(c._requests)} OBVIOUS
<1>2. PICK s : s = [c EXCEPT !._requests = << >>, !.listening = L] OBVIOUS
<1>3. PICK t : t = _doDisconnect(s) OBVIOUS
<1>4. t = _onDisconnectTimeout(c) BY <1>1, <1>2, <1>3 DEF _onDisconnectTimeout
<1>5. Fewer(c, s)
  <2>1. DOMAIN c = ConnectionFields BY DEF Inv, Types
  <2>2. /\ DOMAIN s = ConnectionFields /\ s.life = c.life /\ s.rid = c.rid /\ s.first = c.first
        /\ s.handled = c.handled /\ s.listening = L /\ s._requests = << >>
    BY <1>2, <2>1 DEF ConnectionFields
  <2>3. << >> \in Seq(RequestType) /\ DOMAIN << >> = {} OBVIOUS
  <2>4. L \subseteq c.listening BY <1>1
  <2>5. QED BY <2>2, <2>3, <2>4 DEF Fewer
<1>6. Inv(s) BY <1>5, FewerInv
<1>7. s._requests = << >>
  BY <1>2 DEF Inv, Types, ConnectionFields
<1>8. Keeps(s, t) /\ t.first = t.rid /\ t._requests = << >>
  BY <1>3, <1>6, <1>7, DoDisconnectKeeps
<1>9. QED BY <1>4, <1>5, <1>8, FreshStart

(* _hitError may be the one error too many.                                *)
LEMMA HitErrorKeeps ==
  ASSUME NEW c, Inv(c)
  PROVE  Keeps(c, _hitError(c))
<1>1. PICK t : t = [c EXCEPT !.errors = c.errors + 1] OBVIOUS
<1>2. Alike(c, t) BY <1>1 DEF Alike, ConnectionFields, Inv, Types
<1>3. Keeps(c, t) /\ Inv(t) BY <1>2, AlikeKeeps DEF Keeps
<1>4. _hitError(c) = IF t.errors > MaxErrors THEN _onDisconnectTimeout(t) ELSE t
  BY <1>1 DEF _hitError
<1>5. CASE t.errors > MaxErrors
  <2>1. Keeps(t, _onDisconnectTimeout(t)) BY <1>3, DisconnectTimeoutKeeps
  <2>2. QED BY <1>3, <1>4, <1>5, <2>1, KeepsKeeps
<1>6. CASE ~(t.errors > MaxErrors) BY <1>3, <1>4, <1>6
<1>7. QED BY <1>5, <1>6
-----------------------------------------------------------------------------
(* The queue.                                                              *)

(* The requests of the queue and their fields.                             *)
LEMMA QueueTypes ==
  ASSUME NEW c, Inv(c)
  PROVE  /\ Len(c._requests) \in Nat /\ DOMAIN c._requests = 1..Len(c._requests)
         /\ \A i \in DOMAIN c._requests :
              LET req == c._requests[i]
              IN /\ req \in RequestType /\ req.rid \in Rid /\ req.sends \in Nat
                 /\ req.func \in Func2 /\ req.sends <= MaxSends + 1
<1>1. c._requests \in Seq(RequestType) BY DEF Inv, Types
<1>2. ASSUME NEW i \in DOMAIN c._requests, NEW req, req = c._requests[i]
      PROVE  /\ req \in RequestType /\ req.rid \in Rid /\ req.sends \in Nat
             /\ req.func \in Func2 /\ req.sends <= MaxSends + 1
  <2>1. req \in RequestType BY <1>1, <1>2, ElementOfSeq
  <2>2. QED BY <1>2, <2>1 DEF RequestType, Inv, SendsInv
<1>3. QED BY <1>1, <1>2

(* Only what is not under way is posted.                                   *)
LEMMA PostKeeps ==
  ASSUME NEW c, Inv(c), NEW i \in DOMAIN c._requests, c._requests[i].sends <= MaxSends
  PROVE  Keeps(c, Post(c, i))
<1>1. PICK req \in RequestType : req = c._requests[i] BY QueueTypes
<1>2. PICK xhr \in {"delayed", "sent"} : xhr = IF req.sends > 1 THEN "delayed" ELSE "sent"
  OBVIOUS
<1>3. PICK posted : posted = [req EXCEPT !.age = "young", !.sends = req.sends + 1, !.xhr = xhr]
  OBVIOUS
<1>4. PICK a : a = Replace(c, i, posted) OBVIOUS
<1>5. PICK t : t = Post(c, i) OBVIOUS
<1>6. t = IF req.xhr # "unsent" THEN c
          ELSE IF posted.xhr = "sent"
               THEN [a EXCEPT !.listening = a.listening \union {Exchange(posted)}] ELSE a
  BY <1>1, <1>2, <1>3, <1>4, <1>5 DEF Post
<1>7. /\ posted \in RequestType /\ posted.rid = req.rid /\ posted.xhr = xhr
      /\ posted.sends = req.sends + 1
  <2>1. req.sends + 1 \in Nat BY DEF RequestType
  <2>2. PICK n \in Nat : n = req.sends + 1 BY <2>1
  <2>3. posted = [req EXCEPT !.age = "young", !.sends = n, !.xhr = xhr] BY <1>3, <2>2
  <2>4. posted \in RequestType BY <2>3 DEF RequestType
  <2>5. posted.rid = req.rid /\ posted.xhr = xhr /\ posted.sends = n BY <2>3 DEF RequestType
  <2>6. QED BY <2>2, <2>4, <2>5
<1>8. CASE req.xhr # "unsent"
  <2>1. t = c BY <1>6, <1>8
  <2>2. Alike(c, c) BY DEF Alike, Inv, Types
  <2>3. QED BY <1>5, <2>1, <2>2, AlikeKeeps
<1>9. CASE req.xhr = "unsent"
  <2>1. a = [c EXCEPT !._requests = [c._requests EXCEPT ![i] = posted]]
    BY <1>4 DEF Replace
  <2>2. /\ DOMAIN a = ConnectionFields /\ a.life = c.life /\ a.rid = c.rid
        /\ a.first = c.first /\ a.handled = c.handled /\ a.dropped = c.dropped /\ a.listening = c.listening
        /\ a._requests = [c._requests EXCEPT ![i] = posted]
    BY <2>1 DEF Inv, Types, ConnectionFields
  <2>3. /\ DOMAIN t = ConnectionFields /\ t.life = c.life /\ t.rid = c.rid
        /\ t.first = c.first /\ t.handled = c.handled /\ t.dropped = c.dropped
        /\ t._requests = [c._requests EXCEPT ![i] = posted]
        /\ t.listening = IF xhr = "sent" THEN c.listening \union {Exchange(posted)}
                                         ELSE c.listening
    BY <1>6, <1>7, <1>9, <2>2 DEF ConnectionFields
  <2>4. ASSUME NEW x \in c.listening PROVE x.rid # posted.rid
    BY <1>1, <1>7, <1>9 DEF Inv, PlacesInv
  <2>5. posted.sends <= MaxSends + 1 BY <1>1, <1>7, StropheAssumption DEF RequestType
  <2>6. ASSUME LastIsTooLate, xhr = "sent" PROVE posted.sends <= MaxSends
    BY <1>2, <1>7, <2>6, StropheAssumption DEF RequestType, LastIsTooLate
  <2>7. ASSUME NEW x \in t.listening
        PROVE  IF x.rid = posted.rid
               THEN /\ x = Exchange(posted) /\ posted.xhr = "sent"
                    /\ LastIsTooLate => posted.sends <= MaxSends
               ELSE x \in c.listening
    <3>1. CASE x \in c.listening BY <2>4, <3>1
    <3>2. CASE x \notin c.listening
      <4>1. x = Exchange(posted) /\ xhr = "sent" BY <2>3, <2>7, <3>2
      <4>2. x.rid = posted.rid BY <4>1 DEF Exchange
      <4>3. QED BY <1>7, <2>6, <4>1, <4>2
    <3>3. QED BY <3>1, <3>2
  <2>8. Keeps(c, t) BY <1>1, <1>7, <2>3, <2>5, <2>7, ReplaceKeeps
  <2>9. QED BY <1>5, <2>8
<1>10. QED BY <1>8, <1>9

(* A request is given up and made anew: its exchange is not heard any more.*)
LEMMA ProcessRequestKeeps ==
  ASSUME NEW c, Inv(c), NEW i \in DOMAIN c._requests
  PROVE  Keeps(c, _processRequest(c, i))
<1>1. PICK req \in RequestType : req = c._requests[i] BY QueueTypes
<1>2. PICK new : new = Request(req.rid, req.func, req.sends) OBVIOUS
<1>3. PICK a : a = Replace(c, i, new) OBVIOUS
<1>4. PICK again : again = [a EXCEPT !.listening = a.listening \ {Exchange(req)}] OBVIOUS
<1>5. PICK t : t = IF TimedOut(req) THEN again ELSE c OBVIOUS
<1>6. _processRequest(c, i) = IF req.sends > MaxSends THEN _onDisconnectTimeout(c) ELSE Post(t, i)
  BY <1>1, <1>2, <1>3, <1>4, <1>5 DEF _processRequest
<1>7. CASE req.sends > MaxSends BY <1>6, <1>7, DisconnectTimeoutKeeps
<1>8. CASE ~(req.sends > MaxSends)
  <2>1. req.sends <= MaxSends BY <1>8, StropheAssumption DEF RequestType
  <2>2. /\ new \in RequestType /\ new.rid = req.rid /\ new.sends = req.sends
    BY <1>2 DEF Request, RequestType
  <2>3. a = [c EXCEPT !._requests = [c._requests EXCEPT ![i] = new]]
    BY <1>3 DEF Replace
  <2>4. /\ DOMAIN a = ConnectionFields /\ a.life = c.life /\ a.rid = c.rid
        /\ a.first = c.first /\ a.handled = c.handled /\ a.dropped = c.dropped /\ a.listening = c.listening
        /\ a._requests = [c._requests EXCEPT ![i] = new]
    BY <2>3 DEF Inv, Types, ConnectionFields
  <2>5. /\ DOMAIN again = ConnectionFields /\ again.life = c.life /\ again.rid = c.rid
        /\ again.first = c.first /\ again.handled = c.handled /\ again.dropped = c.dropped
        /\ again._requests = [c._requests EXCEPT ![i] = new]
        /\ again.listening = c.listening \ {Exchange(req)}
    BY <1>4, <2>4 DEF ConnectionFields
  <2>6. ASSUME NEW x \in again.listening PROVE x.rid # new.rid /\ x \in c.listening
    BY <1>1, <2>2, <2>5 DEF Inv, PlacesInv
  <2>7. new.sends <= MaxSends + 1 BY <2>1, <2>2, StropheAssumption DEF RequestType
  <2>8. Keeps(c, again) BY <1>1, <2>2, <2>5, <2>6, <2>7, ReplaceKeeps
  <2>9. Alike(c, c) BY DEF Alike, Inv, Types
  <2>10. Keeps(c, t) BY <1>5, <2>8, <2>9, AlikeKeeps
  <2>11. i \in DOMAIN t._requests /\ t._requests[i].sends <= MaxSends
    BY <1>1, <1>5, <2>1, <2>2, <2>5
  <2>12. Keeps(t, Post(t, i)) BY <2>10, <2>11, PostKeeps DEF Keeps
  <2>13. QED BY <1>6, <1>8, <2>10, <2>12, KeepsKeeps
<1>9. QED BY <1>7, <1>8

(* _throttledRequestHandler processes the first request, or the first two. *)
LEMMA ThrottledKeeps ==
  ASSUME NEW c, Inv(c)
  PROVE  Keeps(c, _throttledRequestHandler(c))
<1>1. CASE c._requests = << >>
  <2>1. _throttledRequestHandler(c) = c BY <1>1 DEF _throttledRequestHandler
  <2>2. Alike(c, c) BY DEF Alike, Inv, Types
  <2>3. QED BY <2>1, <2>2, AlikeKeeps
<1>2. CASE c._requests # << >>
  <2>1. PICK t : t = _processRequest(c, 1) OBVIOUS
  <2>2. 1 \in DOMAIN c._requests
    <3>1. c._requests \in Seq(RequestType) BY DEF Inv, Types
    <3>2. Len(c._requests) # 0 BY <1>2, <3>1, EmptySeq
    <3>3. QED BY <3>2, QueueTypes
  <2>3. Keeps(c, t) /\ Inv(t) BY <2>1, <2>2, ProcessRequestKeeps DEF Keeps
  <2>4. \/ _throttledRequestHandler(c) = t
        \/ Len(t._requests) > 1 /\ _throttledRequestHandler(c) = _processRequest(t, 2)
    BY <1>2, <2>1 DEF _throttledRequestHandler
  <2>5. ASSUME Len(t._requests) > 1 PROVE Keeps(c, _processRequest(t, 2))
    <3>1. 2 \in DOMAIN t._requests BY <2>3, <2>5, QueueTypes
    <3>2. Keeps(t, _processRequest(t, 2)) BY <2>3, <3>1, ProcessRequestKeeps
    <3>3. QED BY <2>3, <3>2, KeepsKeeps
  <2>6. QED BY <2>3, <2>4, <2>5
<1>3. QED BY <1>1, <1>2

(* A restarted request is presumed dead, whatever its exchange does.       *)
LEMMA RestartKeeps ==
  ASSUME NEW c, Inv(c), NEW i \in DOMAIN c._requests
  PROVE  Keeps(c, _restartRequest(c, i))
<1>1. PICK req \in RequestType : req = c._requests[i] BY QueueTypes
<1>2. PICK dead \in {"no", "yes", "long"} : dead = IF req.dead = "no" THEN "yes" ELSE req.dead
  BY DEF RequestType
<1>3. PICK new : new = [req EXCEPT !.dead = dead] OBVIOUS
<1>4. PICK t : t = [c EXCEPT !._requests = [c._requests EXCEPT ![i] = new]] OBVIOUS
<1>5. _restartRequest(c, i) = _processRequest(t, i)
  BY <1>1, <1>2, <1>3, <1>4 DEF _restartRequest
<1>6. /\ new \in RequestType /\ new.rid = req.rid /\ new.sends = req.sends
      /\ new.func = req.func /\ new.xhr = req.xhr
  BY <1>3 DEF RequestType
<1>7. /\ DOMAIN t = ConnectionFields /\ t.life = c.life /\ t.rid = c.rid
      /\ t.first = c.first /\ t.handled = c.handled /\ t.dropped = c.dropped /\ t.listening = c.listening
      /\ t._requests = [c._requests EXCEPT ![i] = new]
  BY <1>4 DEF Inv, Types, ConnectionFields
<1>8. Exchange(new) = Exchange(req) BY <1>6 DEF Exchange
<1>9. ASSUME NEW x \in t.listening, x.rid = new.rid
      PROVE  /\ x = Exchange(new) /\ new.xhr = "sent"
             /\ LastIsTooLate => new.sends <= MaxSends
  <2>1. x \in c.listening /\ x = Exchange(req) /\ req.xhr = "sent"
    BY <1>1, <1>6, <1>7, <1>9 DEF Inv, PlacesInv
  <2>2. x.sends = req.sends BY <2>1 DEF Exchange
  <2>3. QED BY <1>6, <1>8, <2>1, <2>2 DEF Inv, SendsInv
<1>10. new.sends <= MaxSends + 1 BY <1>1, <1>6, QueueTypes
<1>11. Keeps(c, t) BY <1>1, <1>6, <1>7, <1>9, <1>10, ReplaceKeeps
<1>12. i \in DOMAIN t._requests BY <1>7
<1>13. Keeps(t, _processRequest(t, i)) BY <1>11, <1>12, ProcessRequestKeeps DEF Keeps
<1>14. QED BY <1>5, <1>11, <1>13, KeepsKeeps

(* A request leaves the queue: its id is the only one that may be missing. *)
LEMMA RemoveRequest ==
  ASSUME NEW c, Inv(c), NEW i \in DOMAIN c._requests
  PROVE  LET t == _removeRequest(c, i)
             rid == c._requests[i].rid
         IN /\ Inv(t) /\ t.handled = c.handled /\ c.rid <= t.rid
            /\ Rids(t) \subseteq Rids(c)
            /\ (\A x \in c.listening : x.rid # rid) => rid \notin Rids(t)
            /\ Taken(c, NoRid) => Taken(t, rid)
            /\ i # 1 => Emptied(t)
<1>1. PICK rid : rid = c._requests[i].rid OBVIOUS
<1>2. PICK q : q = RemoveAt(c._requests, i) OBVIOUS
<1>3. PICK s : s = [c EXCEPT !._requests = q] OBVIOUS
<1>4. PICK t : t = _removeRequest(c, i) OBVIOUS
<1>5. t = _throttledRequestHandler(s) BY <1>2, <1>3, <1>4 DEF _removeRequest
<1>6. /\ DOMAIN s = ConnectionFields /\ s.life = c.life /\ s.rid = c.rid
      /\ s.first = c.first /\ s.handled = c.handled /\ s.dropped = c.dropped /\ s.listening = c.listening
      /\ s._requests = q
  BY <1>3 DEF Inv, Types, ConnectionFields
<1>7. PICK n \in Nat : /\ n = Len(c._requests) /\ DOMAIN c._requests = 1..n
                       /\ c._requests \in Seq(RequestType)
  BY QueueTypes DEF Inv, Types
<1>8. /\ q \in Seq(RequestType) /\ Len(q) = n - 1 /\ DOMAIN q = 1..(n - 1)
      /\ \A k \in 1..(n - 1) : q[k] = IF k < i THEN c._requests[k] ELSE c._requests[k + 1]
  <2>1. i \in 1..Len(c._requests) BY <1>7
  <2>2. /\ q \in Seq(RequestType) /\ Len(q) = n - 1
        /\ \A k \in 1..(n - 1) :
             /\ k < i => q[k] = c._requests[k]
             /\ k >= i => q[k] = c._requests[k + 1]
    BY <1>2, <1>7, <2>1, RemoveAtElements
  <2>3. DOMAIN q = 1..(n - 1) BY <2>2
  <2>4. QED BY <1>7, <2>2, <2>3
<1>9. Fewer(c, s)
  <2>1. ASSUME NEW k \in DOMAIN q
        PROVE  \E j \in DOMAIN c._requests : q[k] = c._requests[j] /\ j # i
    <3>1. CASE k < i BY <1>7, <1>8, <3>1
    <3>2. CASE ~(k < i)
      <4>1. k + 1 \in DOMAIN c._requests /\ k + 1 # i BY <1>7, <1>8, <3>2
      <4>2. QED BY <1>8, <3>2, <4>1
    <3>3. QED BY <3>1, <3>2
  <2>2. ASSUME NEW j \in DOMAIN q, NEW k \in DOMAIN q, q[j].rid = q[k].rid PROVE j = k
    <3>1. ASSUME NEW m \in DOMAIN q
          PROVE  (IF m < i THEN m ELSE m + 1) \in DOMAIN c._requests
      BY <1>7, <1>8
    <3>2. (IF j < i THEN j ELSE j + 1) = (IF k < i THEN k ELSE k + 1)
      BY <1>8, <2>2, <3>1 DEF Inv, PlacesInv
    <3>3. QED BY <1>7, <1>8, <3>2
  <2>3. QED BY <1>6, <1>8, <2>1, <2>2 DEF Fewer
<1>10. Inv(s) /\ Rids(s) \subseteq Rids(c) BY <1>9, FewerInv
<1>11. Keeps(s, t) BY <1>5, <1>10, ThrottledKeeps
<1>12. ASSUME \A x \in c.listening : x.rid # rid PROVE rid \notin Rids(t)
  <2>1. \A k \in DOMAIN q : q[k].rid # rid
    <3>1. ASSUME NEW k \in DOMAIN q PROVE q[k].rid # rid
      <4>1. CASE k < i
        <5>1. k \in DOMAIN c._requests /\ k # i /\ q[k] = c._requests[k] BY <1>7, <1>8, <4>1
        <5>2. QED BY <1>1, <5>1 DEF Inv, PlacesInv
      <4>2. CASE ~(k < i)
        <5>1. k + 1 \in DOMAIN c._requests /\ k + 1 # i /\ q[k] = c._requests[k + 1]
          BY <1>7, <1>8, <4>2
        <5>2. QED BY <1>1, <5>1 DEF Inv, PlacesInv
      <4>3. QED BY <4>1, <4>2
    <3>2. QED BY <3>1
  <2>2. rid \notin Rids(s) BY <1>6, <1>12, <2>1 DEF Rids
  <2>3. QED BY <1>11, <2>2 DEF Keeps
<1>13. ASSUME Taken(c, NoRid) PROVE Taken(t, rid)
  <2>1. rid \in Int
    <3>1. rid \in Rid BY <1>1, QueueTypes
    <3>2. PICK life \in 0..(MaxLives - 1), m \in 1..MaxRequests : rid = life * Span + m
      BY <3>1 DEF Rid
    <3>3. QED BY <3>2, StropheAssumption DEF Span
  <2>2. ASSUME NEW r \in s.first..(s.rid - 1), r # rid, ~(s.handled[r] > 0), r \notin s.dropped
        PROVE  \E k \in DOMAIN q : q[k].rid = r
    <3>1. r # NoRid
      <4>1. c.first \in Nat /\ c.rid \in Nat BY DEF Inv, Types
      <4>2. QED BY <1>6, <2>2, <4>1 DEF NoRid
    <3>2. PICK j \in DOMAIN c._requests : c._requests[j].rid = r
      BY <1>6, <1>13, <2>2, <3>1 DEF Taken
    <3>3. j # i BY <1>1, <2>2, <3>2
    <3>4. CASE j < i
      <4>1. j \in DOMAIN q /\ q[j] = c._requests[j] BY <1>7, <1>8, <3>4
      <4>2. QED BY <3>2, <4>1
    <3>5. CASE j > i
      <4>1. j - 1 \in DOMAIN q /\ ~(j - 1 < i) /\ (j - 1) + 1 = j BY <1>7, <1>8, <3>5
      <4>2. q[j - 1] = c._requests[j] BY <1>8, <4>1
      <4>3. QED BY <3>2, <4>1, <4>2
    <3>6. QED BY <1>7, <3>3, <3>4, <3>5
  <2>3. Taken(s, rid) BY <1>6, <2>2 DEF Taken
  <2>4. QED BY <1>11, <2>1, <2>3 DEF Keeps
<1>14. ASSUME i # 1 PROVE Emptied(t)
  <2>1. n >= 2 /\ Len(q) # 0 BY <1>7, <1>8, <1>14
  <2>2. Emptied(s) BY <1>6, <1>8, <2>1, EmptySeq DEF Emptied
  <2>3. QED BY <1>11, <2>2 DEF Keeps
<1>15. Rids(t) \subseteq Rids(c) /\ t.handled = c.handled /\ c.rid <= t.rid /\ Inv(t)
  BY <1>6, <1>10, <1>11 DEF Keeps
<1>16. QED BY <1>1, <1>4, <1>12, <1>13, <1>14, <1>15
-----------------------------------------------------------------------------
(* What the program asks for.                                              *)

(* What Keeps keeps is all there is.                                       *)
LEMMA KeepsGood ==
  ASSUME NEW c, NEW t, Good(c), Keeps(c, t)
  PROVE  Good(t)
BY DEF Good, Keeps, NoRid

(* A change of other fields.                                               *)
LEMMA AlikeGood ==
  ASSUME NEW c, NEW t, Good(c), Alike(c, t)
  PROVE  Good(t)
BY AlikeKeeps, KeepsGood DEF Good

(* _throttledRequestHandler takes no id and loses none.                    *)
LEMMA ThrottledGood ==
  ASSUME NEW c, Good(c)
  PROVE  Good(_throttledRequestHandler(c))
BY ThrottledKeeps, KeepsGood DEF Good

(* After a new life no id has been taken.                                  *)
LEMMA DoDisconnectGood ==
  ASSUME NEW c, Inv(c)
  PROVE  Good(_doDisconnect(c))
<1>1. PICK t : t = _doDisconnect(c) OBVIOUS
<1>2. Inv(t) /\ t.first = t.rid BY <1>1, DoDisconnectKeeps DEF Keeps
<1>3. Taken(t, NoRid) BY <1>2 DEF Taken, Inv, Types
<1>4. QED BY <1>1, <1>2, <1>3 DEF Good

(* The next id is of this life and has no reply yet.                       *)
LEMMA NextIsFresh ==
  ASSUME NEW c, Inv(c), MayBuild(c)
  PROVE  c.rid \in Rid /\ c.handled[c.rid] = 0
<1>1. /\ c.life \in Nat \ {0} /\ c.life <= MaxLives
      /\ c.first = (c.life - 1) * Span + 1 /\ c.first <= c.rid
      /\ c.rid < c.first + MaxRequests /\ c.rid \in Nat
  BY DEF Inv, Types, LifeInv, MayBuild
<1>2. MaxLives \in Nat /\ MaxRequests \in Nat /\ Span \in Nat BY StropheAssumption DEF Span
<1>3. c.life - 1 \in 0..(MaxLives - 1) BY <1>1, <1>2
<1>4. PICK life \in 0..(MaxLives - 1) : life = c.life - 1 BY <1>3
<1>5. PICK a \in Int : a = life * Span BY <1>2
<1>6. PICK n \in 1..MaxRequests : c.rid = a + n
  <2>1. c.first = a + 1 BY <1>1, <1>4, <1>5
  <2>2. c.rid - a \in 1..MaxRequests BY <1>1, <1>2, <2>1
  <2>3. c.rid = a + (c.rid - a) BY <1>1
  <2>4. QED BY <2>2, <2>3
<1>7. c.rid \in Rid BY <1>5, <1>6 DEF Rid
<1>8. c.rid >= c.rid BY <1>1
<1>9. QED BY <1>7, <1>8 DEF Inv, RepliesInv

(* A new request takes the next id, which is in no other place.            *)
LEMMA PushGood ==
  ASSUME NEW c, Good(c), NEW func \in Func2
  PROVE  /\ Good(Push(c, func))
         /\ MayBuild(c) => Push(c, func)._requests # << >>
<1>1. CASE ~MayBuild(c) BY <1>1 DEF Push
<1>2. CASE MayBuild(c)
  <2>1. PICK req : req = Request(c.rid, func, 0) OBVIOUS
  <2>2. PICK q : q = Append(c._requests, req) OBVIOUS
  <2>3. PICK t : t = [c EXCEPT !._requests = q, !.rid = c.rid + 1] OBVIOUS
  <2>4. t = Push(c, func) BY <1>2, <2>1, <2>2, <2>3 DEF Push
  <2>5. Inv(c) /\ c.rid \in Nat /\ DOMAIN c = ConnectionFields BY DEF Good, Inv, Types
  <2>6. /\ DOMAIN t = ConnectionFields /\ t.life = c.life /\ t.rid = c.rid + 1
        /\ t.first = c.first /\ t.handled = c.handled /\ t.dropped = c.dropped /\ t.listening = c.listening
        /\ t._requests = q
    BY <2>3, <2>5 DEF ConnectionFields
  <2>7. c.rid \in Rid /\ c.handled[c.rid] = 0 BY <1>2, <2>5, NextIsFresh
  <2>8. /\ req \in RequestType /\ req.rid = c.rid /\ req.sends = 0
    BY <2>1, <2>7 DEF Request, RequestType
  <2>9. PICK n \in Nat : /\ n = Len(c._requests) /\ DOMAIN c._requests = 1..n
                         /\ c._requests \in Seq(RequestType)
    BY <2>5, QueueTypes DEF Inv, Types
  <2>10. /\ q \in Seq(RequestType) /\ DOMAIN q = 1..(n + 1) /\ q[n + 1] = req
         /\ \A i \in DOMAIN c._requests : q[i] = c._requests[i]
    BY <2>2, <2>8, <2>9
  <2>11. Types(t) BY <2>5, <2>6, <2>10 DEF Inv, Types
  <2>12. LifeInv(t) BY <1>2, <2>5, <2>6, StropheAssumption DEF Inv, LifeInv, MayBuild, Types
  <2>13. Rid \subseteq Int
    <3>1. ASSUME NEW r \in Rid PROVE r \in Int
      <4>1. PICK life \in 0..(MaxLives - 1), m \in 1..MaxRequests : r = life * Span + m
        BY DEF Rid
      <4>2. QED BY <4>1, StropheAssumption DEF Span
    <3>2. QED BY <3>1
  <2>14. RepliesInv(t)
    <3>1. ASSUME NEW r \in Rid PROVE t.handled[r] <= 1 /\ (r >= t.rid => t.handled[r] = 0)
      <4>1. r >= t.rid => r >= c.rid BY <2>5, <2>6, <2>13
      <4>2. QED BY <2>5, <2>6, <4>1 DEF Inv, RepliesInv
    <3>2. ASSUME NEW i \in DOMAIN q PROVE q[i].rid < t.rid /\ t.handled[q[i].rid] = 0
      <4>1. CASE i = n + 1 BY <2>5, <2>6, <2>7, <2>8, <2>10, <4>1
      <4>2. CASE i # n + 1
        <5>1. i \in DOMAIN c._requests /\ q[i] = c._requests[i] BY <2>9, <2>10, <4>2
        <5>2. q[i].rid < c.rid /\ c.handled[q[i].rid] = 0 /\ q[i].rid \in Rid
          BY <2>5, <5>1, QueueTypes DEF Inv, RepliesInv
        <5>3. QED BY <2>5, <2>6, <2>13, <5>2
      <4>3. QED BY <4>1, <4>2
    <3>3. ASSUME NEW x \in t.listening PROVE x.rid < t.rid /\ t.handled[x.rid] = 0
      <4>1. x.rid \in Rid BY <2>11 DEF Types, ExchangeType
      <4>2. x.rid < c.rid /\ c.handled[x.rid] = 0 BY <2>5, <2>6 DEF Inv, RepliesInv
      <4>3. QED BY <2>5, <2>6, <2>13, <4>1, <4>2
    <3>4. QED BY <2>6, <3>1, <3>2, <3>3 DEF RepliesInv
  <2>15. PlacesInv(t)
    <3>1. ASSUME NEW i \in DOMAIN c._requests PROVE q[i].rid < c.rid /\ q[i].rid \in Rid
      BY <2>5, <2>10, QueueTypes DEF Inv, RepliesInv
    <3>2. ASSUME NEW i \in DOMAIN q, NEW j \in DOMAIN q, q[i].rid = q[j].rid PROVE i = j
      <4>1. i = n + 1 \/ i \in DOMAIN c._requests BY <2>9, <2>10
      <4>2. j = n + 1 \/ j \in DOMAIN c._requests BY <2>9, <2>10
      <4>3. i \in DOMAIN c._requests => q[i].rid # c.rid BY <2>5, <2>13, <3>1
      <4>4. j \in DOMAIN c._requests => q[j].rid # c.rid BY <2>5, <2>13, <3>1
      <4>5. QED BY <2>5, <2>8, <2>10, <3>2, <4>1, <4>2, <4>3, <4>4 DEF Inv, PlacesInv
    <3>3. ASSUME NEW x \in t.listening, NEW i \in DOMAIN q, x.rid = q[i].rid
          PROVE  x = Exchange(q[i]) /\ q[i].xhr = "sent"
      <4>1. x \in c.listening /\ x.rid < c.rid /\ x.rid \in Rid
        BY <2>5, <2>6, <2>11 DEF Inv, RepliesInv, Types, ExchangeType
      <4>2. x.rid # c.rid BY <2>5, <2>13, <4>1
      <4>3. i \in DOMAIN c._requests BY <2>8, <2>9, <2>10, <3>3, <4>2
      <4>4. QED BY <2>5, <2>10, <3>3, <4>1, <4>3 DEF Inv, PlacesInv
    <3>4. QED BY <2>5, <2>6, <3>2, <3>3 DEF Inv, PlacesInv
  <2>16. SendsInv(t)
    <3>1. ASSUME NEW i \in DOMAIN q PROVE q[i].sends <= MaxSends + 1
      <4>1. CASE i = n + 1 BY <2>8, <2>10, <4>1, StropheAssumption
      <4>2. CASE i # n + 1
        <5>1. i \in DOMAIN c._requests /\ q[i] = c._requests[i] BY <2>9, <2>10, <4>2
        <5>2. QED BY <2>5, <5>1 DEF Inv, SendsInv
      <4>3. QED BY <4>1, <4>2
    <3>2. QED BY <2>5, <2>6, <3>1 DEF Inv, SendsInv
  <2>17. ASSUME LastIsTooLate PROVE Taken(t, NoRid)
    <3>1. ASSUME NEW r \in t.first..(t.rid - 1), r # NoRid, ~(t.handled[r] > 0),
                 r \notin t.dropped
          PROVE  \E i \in DOMAIN q : q[i].rid = r
      <4>1. CASE r = c.rid
        <5>1. n + 1 \in DOMAIN q BY <2>10
        <5>2. QED BY <2>8, <2>10, <4>1, <5>1
      <4>2. CASE r # c.rid
        <5>1. c.first \in Nat BY <2>5 DEF Inv, Types
        <5>2. r \in c.first..(c.rid - 1) BY <2>5, <2>6, <4>2, <5>1
        <5>3. PICK i \in DOMAIN c._requests : c._requests[i].rid = r
          BY <2>6, <2>17, <3>1, <5>2 DEF Good, Taken
        <5>4. i \in DOMAIN q BY <2>9, <2>10
        <5>5. QED BY <2>10, <5>3, <5>4
      <4>3. QED BY <4>1, <4>2
    <3>2. QED BY <2>6, <3>1 DEF Taken
  <2>18. q # << >> BY <2>9, <2>10
  <2>19. QED BY <2>4, <2>6, <2>11, <2>12, <2>14, <2>15, <2>16, <2>17, <2>18 DEF Good, Inv
<1>3. QED BY <1>1, <1>2

(* send marks what is to be sent and processes the queue.                  *)
LEMMA SendGood ==
  ASSUME NEW c, Good(c)
  PROVE  Good(send(c))
<1>1. PICK t : t = [c EXCEPT !._data = TRUE] OBVIOUS
<1>2. Alike(c, t) BY <1>1 DEF Alike, ConnectionFields, Good, Inv, Types
<1>3. Good(t) BY <1>2, AlikeGood
<1>4. send(c) = _throttledRequestHandler(t) BY <1>1 DEF send, _queueData
<1>5. QED BY <1>3, <1>4, ThrottledGood

(* disconnect queues the terminate request.                                *)
LEMMA DisconnectGood ==
  ASSUME NEW c, Good(c)
  PROVE  Good(disconnect(c))
<1>1. CASE ~c.connected BY <1>1 DEF disconnect
<1>2. CASE c.connected
  <2>1. PICK t : t = [c EXCEPT !.timer = IF c.timer = "due" THEN c.timer ELSE "set"] OBVIOUS
  <2>2. PICK u : u = [t EXCEPT !.disconnecting = TRUE] OBVIOUS
  <2>3. Alike(c, t) BY <2>1 DEF Alike, ConnectionFields, Good, Inv, Types
  <2>4. Alike(c, u) BY <2>2, <2>3 DEF Alike, ConnectionFields
  <2>5. Good(u) BY <2>4, AlikeGood
  <2>6. Good(Push(u, "_dataRecv")) BY <2>5, PushGood DEF Func2
  <2>7. disconnect(c) = _throttledRequestHandler(Push(u, "_dataRecv"))
    BY <1>2, <2>1, <2>2 DEF disconnect, _sendTerminate
  <2>8. QED BY <2>6, <2>7, ThrottledGood
<1>3. QED BY <1>1, <1>2
-----------------------------------------------------------------------------
(* Replies.                                                                *)

(* The callback of the connect requests, when its reply is counted.        *)
LEMMA ConnectCbGood ==
  ASSUME NEW c, Good(c), NEW body
  PROVE  Good(_connect_cb(c, body))
<1>1. PICK t : t = [c EXCEPT !.connected = TRUE] OBVIOUS
<1>2. Alike(c, t) BY <1>1 DEF Alike, ConnectionFields, Good, Inv, Types
<1>3. Good(t) BY <1>2, AlikeGood
<1>4. Good(send(t)) BY <1>3, SendGood
<1>5. Good(_throttledRequestHandler(Push(t, "_connect_cb")))
  BY <1>3, PushGood, ThrottledGood DEF Func2
<1>6. \/ _connect_cb(c, body) = t
      \/ _connect_cb(c, body) = send(t)
      \/ _connect_cb(c, body) = disconnect(t)
      \/ _connect_cb(c, body) = _throttledRequestHandler(Push(t, "_connect_cb"))
  BY <1>1 DEF _connect_cb
<1>7. QED BY <1>3, <1>4, <1>5, <1>6, DisconnectGood

(* The callback of all other requests, when its reply is counted.          *)
LEMMA DataRecvGood ==
  ASSUME NEW c, Good(c), NEW body
  PROVE  Good(_dataRecv(c, body))
<1>1. PICK t : t = [c EXCEPT !.authenticated = TRUE] OBVIOUS
<1>2. Alike(c, t) BY <1>1 DEF Alike, ConnectionFields, Good, Inv, Types
<1>3. Good(t) BY <1>2, AlikeGood
<1>4. Good(_doDisconnect(c)) BY DoDisconnectGood DEF Good
<1>5. Good(disconnect(c)) BY DisconnectGood
<1>6. \/ _dataRecv(c, body) = _doDisconnect(c)
      \/ _dataRecv(c, body) = disconnect(c)
      \/ _dataRecv(c, body) = c
      \/ _dataRecv(c, body) = t
  BY <1>1 DEF _dataRecv
<1>7. QED BY <1>3, <1>4, <1>5, <1>6

(* x has been answered: its id is neither queued nor under way any more,   *)
(* and has had no reply.                                                   *)
Answered(c, x) ==
  /\ x \in ExchangeType /\ x.rid < c.rid
  /\ c.handled[x.rid] = 0
  /\ x.rid \notin Rids(c)

(* The reply is counted, once, and its callback runs.                      *)
LEMMA FuncGood ==
  ASSUME NEW c, Inv(c), NEW x, Answered(c, x), NEW body,
         LastIsTooLate => Taken(c, x.rid)
  PROVE  Good(Func(c, x, body))
<1>1. PICK rid \in Rid : rid = x.rid BY DEF Answered, ExchangeType
<1>2. PICK h : h = [c.handled EXCEPT ![rid] = 1] OBVIOUS
<1>3. PICK t : t = [c EXCEPT !.handled = h] OBVIOUS
<1>4. PICK u : u = IF x.func = "_connect_cb" THEN _connect_cb(t, body) ELSE _dataRecv(t, body)
  OBVIOUS
<1>5. c.handled \in [Rid -> 0..2] /\ c.handled[rid] = 0 /\ DOMAIN c = ConnectionFields
  BY <1>1 DEF Inv, Types, Answered
<1>6. t = [c EXCEPT !.handled[x.rid] = IF c.handled[x.rid] < 2 THEN c.handled[x.rid] + 1
                                                               ELSE c.handled[x.rid]]
  BY <1>1, <1>2, <1>3, <1>5
<1>7. Func(c, x, body) = [u EXCEPT !.errors = 0] BY <1>4, <1>6 DEF Func
<1>8. /\ DOMAIN t = ConnectionFields /\ t.life = c.life /\ t.rid = c.rid
      /\ t.first = c.first /\ t.handled = h /\ t.dropped = c.dropped /\ t.listening = c.listening
      /\ t._requests = c._requests
  BY <1>3, <1>5 DEF ConnectionFields
<1>9. /\ h \in [Rid -> 0..2] /\ h[rid] = 1
      /\ \A r \in Rid : r # rid => h[r] = c.handled[r]
  BY <1>2, <1>5
<1>10. Types(t) BY <1>8, <1>9 DEF Inv, Types
<1>11. LifeInv(t) BY <1>8 DEF Inv, LifeInv
<1>12. RepliesInv(t)
  <2>1. ASSUME NEW r \in Rid PROVE h[r] <= 1 /\ (r >= t.rid => h[r] = 0)
    <3>1. CASE r = rid
      <4>1. PICK life \in 0..(MaxLives - 1), m \in 1..MaxRequests : r = life * Span + m
        BY DEF Rid
      <4>2. r \in Int /\ c.rid \in Int /\ r < c.rid
        BY <1>1, <3>1, <4>1, StropheAssumption DEF Span, Answered, Inv, Types
      <4>3. ~(r >= t.rid) BY <1>8, <4>2
      <4>4. QED BY <1>9, <3>1, <4>3
    <3>2. CASE r # rid BY <1>8, <1>9, <3>2 DEF Inv, RepliesInv
    <3>3. QED BY <3>1, <3>2
  <2>2. ASSUME NEW i \in DOMAIN t._requests
        PROVE  t._requests[i].rid < t.rid /\ t.handled[t._requests[i].rid] = 0
    <3>1. t._requests[i].rid # rid BY <1>1, <1>8 DEF Answered, Rids
    <3>2. t._requests[i].rid \in Rid BY <1>8, QueueTypes
    <3>3. QED BY <1>8, <1>9, <3>1, <3>2 DEF Inv, RepliesInv
  <2>3. ASSUME NEW y \in t.listening PROVE y.rid < t.rid /\ t.handled[y.rid] = 0
    <3>1. y.rid # rid BY <1>1, <1>8 DEF Answered, Rids
    <3>2. y.rid \in Rid BY <1>10 DEF Types, ExchangeType
    <3>3. QED BY <1>8, <1>9, <3>1, <3>2 DEF Inv, RepliesInv
  <2>4. QED BY <1>8, <2>1, <2>2, <2>3 DEF RepliesInv
<1>13. PlacesInv(t) BY <1>8 DEF Inv, PlacesInv
<1>14. SendsInv(t) BY <1>8 DEF Inv, SendsInv
<1>15. ASSUME LastIsTooLate PROVE Taken(t, NoRid)
  <2>1. ASSUME NEW r \in t.first..(t.rid - 1)
        PROVE  \/ t.handled[r] > 0 \/ r \in t.dropped
               \/ \E i \in DOMAIN t._requests : t._requests[i].rid = r
    <3>1. CASE r = rid BY <1>8, <1>9, <3>1
    <3>2. CASE r # rid
      <4>1. \/ c.handled[r] > 0 \/ r \in c.dropped
            \/ \E i \in DOMAIN c._requests : c._requests[i].rid = r
        BY <1>1, <1>8, <1>15, <3>2 DEF Taken
      <4>2. h[r] = c.handled[r] BY <1>2, <1>5, <3>2
      <4>3. QED BY <1>8, <4>1, <4>2
    <3>3. QED BY <3>1, <3>2
  <2>2. QED BY <2>1 DEF Taken
<1>16. Good(t) BY <1>10, <1>11, <1>12, <1>13, <1>14, <1>15 DEF Good, Inv
<1>17. Good(u) BY <1>4, <1>16, ConnectCbGood, DataRecvGood
<1>18. Alike(u, [u EXCEPT !.errors = 0])
  BY <1>17 DEF Alike, ConnectionFields, Good, Inv, Types
<1>19. QED BY <1>7, <1>17, <1>18, AlikeGood

(* The place of the request of x: 0, and its id is not queued; or in the   *)
(* queue.  x is not listened to any more.                                  *)
Heard(c, i, x) ==
  /\ Good(c)
  /\ x \in ExchangeType /\ x.rid < c.rid /\ c.handled[x.rid] = 0
  /\ \A y \in c.listening : y.rid # x.rid
  /\ \/ i = 0 /\ \A j \in DOMAIN c._requests : c._requests[j].rid # x.rid
     \/ i \in DOMAIN c._requests /\ c._requests[i].rid = x.rid
  /\ LastIsTooLate => x.sends <= MaxSends

(* A reply with status 200 takes its request off the queue, if it is there.*)
LEMMA SucceededGood ==
  ASSUME NEW c, NEW i, NEW x, NEW body, Heard(c, i, x)
  PROVE  Good(Succeeded(c, i, x, body))
<1>1. PICK t : t = IF i = 0 THEN _throttledRequestHandler(c) ELSE _removeRequest(c, i) OBVIOUS
<1>2. Inv(c) /\ c.rid \in Nat BY DEF Heard, Good, Inv, Types
<1>3. /\ Inv(t) /\ t.handled = c.handled /\ c.rid <= t.rid /\ x.rid \notin Rids(t)
      /\ LastIsTooLate => Taken(t, x.rid)
      /\ i # 0 /\ i # 1 => Emptied(t)
  <2>1. CASE i = 0
    <3>1. Keeps(c, t) BY <1>1, <1>2, <2>1, ThrottledKeeps
    <3>2. 0 \notin DOMAIN c._requests BY <1>2, QueueTypes
    <3>3. x.rid \notin Rids(c) BY <2>1, <3>2 DEF Heard, Rids
    <3>4. LastIsTooLate => Taken(c, x.rid)
      <4>1. ASSUME LastIsTooLate, NEW r \in c.first..(c.rid - 1)
            PROVE  \/ c.handled[r] > 0 \/ r \in c.dropped
                   \/ \E j \in DOMAIN c._requests : c._requests[j].rid = r
        <5>1. c.first \in Nat BY <1>2 DEF Inv, Types
        <5>2. r # NoRid BY <1>2, <5>1 DEF NoRid
        <5>3. QED BY <4>1, <5>2 DEF Heard, Good, Taken
      <4>2. QED BY <4>1 DEF Taken
    <3>5. x.rid \in Int
      <4>1. x.rid \in Rid BY DEF Heard, ExchangeType
      <4>2. PICK life \in 0..(MaxLives - 1), m \in 1..MaxRequests : x.rid = life * Span + m
        BY <4>1 DEF Rid
      <4>3. QED BY <4>2, StropheAssumption DEF Span
    <3>6. QED BY <2>1, <3>1, <3>3, <3>4, <3>5 DEF Keeps
  <2>2. CASE i # 0
    <3>1. i \in DOMAIN c._requests /\ c._requests[i].rid = x.rid BY <2>2 DEF Heard
    <3>2. t = _removeRequest(c, i) BY <1>1, <2>2
    <3>3. /\ Inv(t) /\ t.handled = c.handled /\ c.rid <= t.rid
          /\ (\A y \in c.listening : y.rid # x.rid) => x.rid \notin Rids(t)
          /\ Taken(c, NoRid) => Taken(t, x.rid)
          /\ i # 1 => Emptied(t)
      BY <1>2, <3>1, <3>2, RemoveRequest
    <3>4. QED BY <2>2, <3>3 DEF Heard, Good
  <2>3. QED BY <2>1, <2>2
<1>4. PICK late \in BOOLEAN :
        late <=> t._requests # << >> /\ t._requests[1].age \in {"late", "overdue"}
  OBVIOUS
<1>5. PICK again \in BOOLEAN : again <=> i = 2 \/ (i = 1 /\ late) OBVIOUS
<1>6. PICK u : u = IF again THEN _restartRequest(t, 1) ELSE t OBVIOUS
<1>7. Succeeded(c, i, x, body) = IF i = 2 /\ t._requests = << >> THEN t ELSE Func(u, x, body)
  BY <1>1, <1>4, <1>5, <1>6 DEF Succeeded
<1>8. CASE i = 2 /\ t._requests = << >>
  <2>1. t.first = t.rid BY <1>3, <1>8 DEF Emptied
  <2>2. Taken(t, NoRid) BY <1>3, <2>1 DEF Taken, Inv, Types
  <2>3. QED BY <1>3, <1>7, <1>8, <2>2 DEF Good
<1>9. CASE ~(i = 2 /\ t._requests = << >>)
  <2>1. Keeps(t, u)
    <3>1. CASE again
      <4>1. t._requests # << >> BY <1>4, <1>5, <1>9, <3>1
      <4>2. 1 \in DOMAIN t._requests
        <5>1. t._requests \in Seq(RequestType) BY <1>3 DEF Inv, Types
        <5>2. Len(t._requests) # 0 BY <4>1, <5>1, EmptySeq
        <5>3. QED BY <1>3, <5>2, QueueTypes
      <4>3. QED BY <1>3, <1>6, <3>1, <4>2, RestartKeeps
    <3>2. CASE ~again
      <4>1. Alike(t, t) BY <1>3 DEF Alike, Inv, Types
      <4>2. QED BY <1>3, <1>6, <3>2, <4>1, AlikeKeeps
    <3>3. QED BY <3>1, <3>2
  <2>2. x.rid \in Int
    <3>1. x.rid \in Rid BY DEF Heard, ExchangeType
    <3>2. PICK life \in 0..(MaxLives - 1), m \in 1..MaxRequests : x.rid = life * Span + m
      BY <3>1 DEF Rid
    <3>3. QED BY <3>2, StropheAssumption DEF Span
  <2>3. x.rid < u.rid
    <3>1. t.rid \in Nat /\ u.rid \in Nat BY <1>3, <2>1 DEF Keeps, Inv, Types
    <3>2. QED BY <1>2, <1>3, <2>1, <2>2, <3>1 DEF Heard, Keeps
  <2>4. Answered(u, x) BY <1>3, <2>1, <2>3 DEF Answered, Heard, Keeps
  <2>5. LastIsTooLate => Taken(u, x.rid) BY <1>3, <2>1, <2>2 DEF Keeps
  <2>6. Good(Func(u, x, body)) BY <2>1, <2>4, <2>5, FuncGood DEF Keeps
  <2>7. QED BY <1>7, <1>9, <2>6
<1>10. QED BY <1>8, <1>9

(* A request that has had an error is marked for what it is.               *)
LEMMA MarkedKeeps ==
  ASSUME NEW c, NEW i \in DOMAIN c._requests, NEW x, Heard(c, i, x), c._requests[i].rid = x.rid,
         NEW mark \in {"failed", "refused"}, NEW t,
         t = [c EXCEPT !._requests[i].xhr = mark]
  PROVE  Keeps(c, t)
<1>1. Inv(c) BY DEF Heard, Good
<1>2. PICK req \in RequestType : req = c._requests[i] BY <1>1, QueueTypes
<1>3. PICK new : new = [req EXCEPT !.xhr = mark] OBVIOUS
<1>4. t = [c EXCEPT !._requests = [c._requests EXCEPT ![i] = new]] BY <1>2, <1>3
<1>5. new \in RequestType /\ new.rid = req.rid /\ new.sends = req.sends
  BY <1>3 DEF RequestType
<1>6. /\ DOMAIN t = ConnectionFields /\ t.life = c.life /\ t.rid = c.rid
      /\ t.first = c.first /\ t.handled = c.handled /\ t.dropped = c.dropped /\ t.listening = c.listening
      /\ t._requests = [c._requests EXCEPT ![i] = new]
  BY <1>1, <1>4 DEF Inv, Types, ConnectionFields
<1>7. ASSUME NEW y \in t.listening
      PROVE  IF y.rid = new.rid
             THEN /\ y = Exchange(new) /\ new.xhr = "sent"
                  /\ LastIsTooLate => new.sends <= MaxSends
             ELSE y \in c.listening
  BY <1>2, <1>5, <1>6 DEF Heard
<1>8. new.sends <= MaxSends + 1 BY <1>1, <1>2, <1>5, QueueTypes
<1>9. QED BY <1>1, <1>2, <1>5, <1>6, <1>7, <1>8, ReplaceKeeps

(* An error is counted.                                                    *)
LEMMA HitErrorGood ==
  ASSUME NEW c, Good(c)
  PROVE  Good(_hitError(c))
BY HitErrorKeeps, KeepsGood DEF Good

(* Errors.  An id is dropped from the queue only when the connection ends, *)
(* since the exchange that is given up would be one sent for the last time.*)
LEMMA ErroredGood ==
  ASSUME NEW c, NEW i, NEW x, Heard(c, i, x), NEW status
  PROVE  Good(Errored(c, i, x, status))
<1>1. PICK gone \in BOOLEAN : gone <=> status = 404 \/ x.sends > MaxSends OBVIOUS
<1>2. PICK failed : failed = IF i = 0 THEN c ELSE [c EXCEPT !._requests[i].xhr = "failed"]
  OBVIOUS
<1>3. PICK removed : removed = IF i = 0 THEN _throttledRequestHandler(c) ELSE _removeRequest(c, i)
  OBVIOUS
<1>4. PICK t : t = _hitError(IF ~gone THEN failed ELSE removed) OBVIOUS
<1>5. Errored(c, i, x, status) = IF status = 404 THEN _doDisconnect(t)
                                 ELSE IF gone THEN t ELSE _throttledRequestHandler(t)
  BY <1>1, <1>2, <1>3, <1>4 DEF Errored
<1>6. Good(c) /\ Inv(c) /\ (i # 0 => i \in DOMAIN c._requests /\ c._requests[i].rid = x.rid)
  BY DEF Heard, Good
<1>7. CASE gone
  <2>1. Inv(removed)
    <3>1. CASE i = 0 BY <1>3, <1>6, <3>1, ThrottledKeeps DEF Keeps
    <3>2. CASE i # 0 BY <1>3, <1>6, <3>2, RemoveRequest
    <3>3. QED BY <3>1, <3>2
  <2>2. Inv(t) BY <1>4, <1>7, <2>1, HitErrorKeeps DEF Keeps
  <2>3. CASE status = 404 BY <1>5, <2>2, <2>3, DoDisconnectGood
  <2>4. CASE status # 404
    <3>1. x.sends > MaxSends /\ x.sends \in Nat BY <1>1, <1>7, <2>4 DEF Heard, ExchangeType
    <3>2. ~LastIsTooLate BY <3>1, StropheAssumption DEF Heard
    <3>3. QED BY <1>5, <1>7, <2>2, <2>4, <3>2 DEF Good
  <2>5. QED BY <2>3, <2>4
<1>8. CASE ~gone
  <2>1. Good(failed)
    <3>1. CASE i = 0 BY <1>2, <1>6, <3>1
    <3>2. CASE i # 0
      <4>1. Keeps(c, failed) BY <1>2, <1>6, <3>2, MarkedKeeps
      <4>2. QED BY <1>6, <4>1, KeepsGood
    <3>3. QED BY <3>1, <3>2
  <2>2. Good(t) BY <1>4, <1>8, <2>1, HitErrorGood
  <2>3. QED BY <1>1, <1>5, <1>8, <2>2, ThrottledGood
<1>9. QED BY <1>7, <1>8

(* What a status below 400 takes off the queue is dropped.                 *)
LEMMA DroppedGood ==
  ASSUME NEW c, NEW i, NEW x, Heard(c, i, x)
  PROVE  Good(Dropped(c, i, x))
<1>1. PICK u : u = IF i = 0 THEN _throttledRequestHandler(c) ELSE _removeRequest(c, i) OBVIOUS
<1>2. PICK t : t = [u EXCEPT !.dropped = u.dropped \union {x.rid}] OBVIOUS
<1>3. t = Dropped(c, i, x) BY <1>1, <1>2 DEF Dropped
<1>4. Good(c) /\ Inv(c) /\ (i # 0 => i \in DOMAIN c._requests /\ c._requests[i].rid = x.rid)
  BY DEF Heard, Good
<1>5. Inv(u) /\ (LastIsTooLate => Taken(u, NoRid) \/ Taken(u, x.rid))
  <2>1. CASE i = 0
    <3>1. Good(u) BY <1>1, <1>4, <2>1, ThrottledGood
    <3>2. QED BY <3>1 DEF Good
  <2>2. CASE i # 0
    <3>1. u = _removeRequest(c, i) BY <1>1, <2>2
    <3>2. Inv(u) /\ (Taken(c, NoRid) => Taken(u, x.rid)) BY <1>4, <2>2, <3>1, RemoveRequest
    <3>3. QED BY <1>4, <3>2 DEF Good
  <2>3. QED BY <2>1, <2>2
<1>6. /\ DOMAIN t = ConnectionFields /\ t.life = u.life /\ t.rid = u.rid /\ t.first = u.first
      /\ t._requests = u._requests /\ t.listening = u.listening /\ t.handled = u.handled
      /\ t.dropped = u.dropped \union {x.rid}
  BY <1>2, <1>5 DEF Inv, Types, ConnectionFields
<1>7. Inv(t)
  <2>1. Types(t) BY <1>5, <1>6 DEF Inv, Types
  <2>2. LifeInv(t) BY <1>5, <1>6 DEF Inv, LifeInv
  <2>3. RepliesInv(t) BY <1>5, <1>6 DEF Inv, RepliesInv
  <2>4. PlacesInv(t) BY <1>5, <1>6 DEF Inv, PlacesInv
  <2>5. SendsInv(t) BY <1>5, <1>6 DEF Inv, SendsInv
  <2>6. QED BY <2>1, <2>2, <2>3, <2>4, <2>5 DEF Inv
<1>8. ASSUME LastIsTooLate PROVE Taken(t, NoRid)
  <2>1. CASE Taken(u, NoRid) BY <1>6, <2>1 DEF Taken
  <2>2. CASE Taken(u, x.rid) BY <1>6, <2>2 DEF Taken
  <2>3. QED BY <1>5, <1>8, <2>1, <2>2
<1>9. QED BY <1>3, <1>7, <1>8 DEF Good

(* While disconnecting nothing leaves the queue.                           *)
LEMMA ErroredWhileDisconnectingGood ==
  ASSUME NEW c, NEW i, NEW x, Heard(c, i, x), NEW status
  PROVE  Good(ErroredWhileDisconnecting(c, i, status))
<1>1. PICK mark \in {"failed", "refused"} : mark = IF status = 404 THEN "refused" ELSE "failed"
  OBVIOUS
<1>2. PICK t : t = IF i = 0 THEN c ELSE [c EXCEPT !._requests[i].xhr = mark] OBVIOUS
<1>3. ErroredWhileDisconnecting(c, i, status) = _hitError(t)
  BY <1>1, <1>2 DEF ErroredWhileDisconnecting
<1>4. Good(c) /\ (i # 0 => i \in DOMAIN c._requests /\ c._requests[i].rid = x.rid)
  BY DEF Heard
<1>5. Good(t)
  <2>1. CASE i = 0 BY <1>2, <1>4, <2>1
  <2>2. CASE i # 0
    <3>1. Keeps(c, t) BY <1>2, <1>4, <2>2, MarkedKeeps
    <3>2. QED BY <1>4, <3>1, KeepsGood
  <2>3. QED BY <2>1, <2>2
<1>6. QED BY <1>3, <1>5, HitErrorGood

(* The handler of an exchange finds its request, or that its id has left   *)
(* the queue.                                                              *)
LEMMA StateChangeGood ==
  ASSUME NEW c, Good(c), NEW x \in c.listening, NEW status, NEW body
  PROVE  Good(_onRequestStateChange(c, x, status, body))
<1>1. PICK L : L = c.listening \ {x} OBVIOUS
<1>2. PICK h : h = [c EXCEPT !.listening = L] OBVIOUS
<1>3. PICK places : places = {j \in DOMAIN c._requests :
                                Exchange(c._requests[j]) = x /\ c._requests[j].xhr = "sent"}
  OBVIOUS
<1>4. PICK i : i = IF places = {} THEN 0 ELSE CHOOSE j \in places : TRUE OBVIOUS
<1>5. _onRequestStateChange(c, x, status, body) =
        IF status = 200 THEN Succeeded(h, i, x, body)
        ELSE IF status = 302 THEN Dropped(h, i, x)
        ELSE IF c.disconnecting THEN ErroredWhileDisconnecting(h, i, status)
        ELSE Errored(h, i, x, status)
  BY <1>1, <1>2, <1>3, <1>4 DEF _onRequestStateChange
<1>6. Inv(c) BY DEF Good
<1>7. /\ DOMAIN h = ConnectionFields /\ h.life = c.life /\ h.rid = c.rid
      /\ h.first = c.first /\ h.handled = c.handled /\ h.dropped = c.dropped /\ h.listening = L
      /\ h._requests = c._requests
  BY <1>2, <1>6 DEF Inv, Types, ConnectionFields
<1>8. Fewer(c, h)
  BY <1>1, <1>6, <1>7 DEF Fewer, Inv, Types, PlacesInv
<1>9. Inv(h) BY <1>6, <1>8, FewerInv
<1>10. Good(h) BY <1>7, <1>9 DEF Good, Taken
<1>11. x \in ExchangeType /\ x.rid < h.rid /\ h.handled[x.rid] = 0
  BY <1>6, <1>7 DEF Inv, Types, RepliesInv
<1>12. \A y \in h.listening : y.rid # x.rid BY <1>1, <1>6, <1>7 DEF Inv, PlacesInv
<1>13. \/ i = 0 /\ \A j \in DOMAIN h._requests : h._requests[j].rid # x.rid
       \/ i \in DOMAIN h._requests /\ h._requests[i].rid = x.rid
  <2>1. CASE places = {}
    <3>1. ASSUME NEW j \in DOMAIN c._requests PROVE c._requests[j].rid # x.rid
      BY <1>3, <1>6, <2>1 DEF Inv, PlacesInv
    <3>2. QED BY <1>4, <1>7, <2>1, <3>1
  <2>2. CASE places # {}
    <3>1. i \in places BY <1>4, <2>2
    <3>2. i \in DOMAIN c._requests /\ Exchange(c._requests[i]) = x BY <1>3, <3>1
    <3>3. QED BY <1>7, <3>2 DEF Exchange
  <2>3. QED BY <2>1, <2>2
<1>14. LastIsTooLate => x.sends <= MaxSends BY <1>6 DEF Inv, SendsInv
<1>15. Heard(h, i, x) BY <1>10, <1>11, <1>12, <1>13, <1>14 DEF Heard
<1>16. QED BY <1>5, <1>15, SucceededGood, DroppedGood, ErroredGood, ErroredWhileDisconnectingGood
-----------------------------------------------------------------------------
(* The actions.                                                            *)

(* A new connection has neither requests nor exchanges.                    *)
LEMMA InitGood == Init => EngineInv
<1> SUFFICES ASSUME Init PROVE Good(connection) BY DEF EngineInv
<1>1. PICK c : c = connection OBVIOUS
<1>2. /\ DOMAIN c = ConnectionFields /\ c.life = 1 /\ c.rid = 1 /\ c.first = 1
      /\ c._requests = << >> /\ c.listening = {} /\ c.handled = [r \in Rid |-> 0]
  BY <1>1 DEF Init, NewConnection, ConnectionFields
<1>3. << >> \in Seq(RequestType) /\ DOMAIN << >> = {} OBVIOUS
<1>4. Types(c) BY <1>2, <1>3 DEF Types
<1>5. LifeInv(c)
  <2>1. Span \in Nat BY StropheAssumption DEF Span
  <2>2. (1 - 1) * Span + 1 = 1 BY <2>1
  <2>3. QED BY <1>2, <2>2, StropheAssumption DEF LifeInv
<1>6. RepliesInv(c) BY <1>2, <1>3 DEF RepliesInv
<1>7. PlacesInv(c) BY <1>2, <1>3 DEF PlacesInv
<1>8. SendsInv(c) BY <1>2, <1>3 DEF SendsInv
<1>9. Taken(c, NoRid) BY <1>2 DEF Taken
<1>10. QED BY <1>1, <1>4, <1>5, <1>6, <1>7, <1>8, <1>9 DEF Good, Inv

(* Connect queues the first request of a life.                             *)
LEMMA ConnectGood ==
  ASSUME EngineInv, Connect
  PROVE  EngineInv'
<1>1. PICK t : t = [connection EXCEPT !.authenticated = FALSE, !.errors = 0] OBVIOUS
<1>2. Alike(connection, t)
  BY <1>1 DEF Alike, ConnectionFields, EngineInv, Good, Inv, Types
<1>3. Good(Push(t, "_connect_cb")) BY <1>2, AlikeGood, PushGood DEF EngineInv, Func2
<1>4. connection' = _throttledRequestHandler(Push(t, "_connect_cb")) BY <1>1 DEF Connect
<1>5. QED BY <1>3, <1>4, ThrottledGood DEF EngineInv

(* The requests of an earlier life that are still under way when the       *)
(* program resets have ids of their own.                                   *)
LEMMA ResetGood ==
  ASSUME EngineInv, Reset
  PROVE  EngineInv'
<1>1. PICK c : c = connection OBVIOUS
<1>2. PICK u : u = NewLife(c) OBVIOUS
<1>3. PICK t : t = [u EXCEPT !.authenticated = FALSE, !.disconnecting = FALSE,
                             !.connected = FALSE, !.errors = 0, !._requests = << >>,
                             !.timer = "none"]
  OBVIOUS
<1>4. connection' = t BY <1>1, <1>2, <1>3 DEF Reset
<1>5. Inv(c) BY <1>1 DEF EngineInv, Good
<1>6. /\ DOMAIN u = ConnectionFields /\ u.first = u.rid /\ u.life = NewLife(c).life
      /\ u.rid = NewLife(c).rid /\ u.first = NewLife(c).first
      /\ u._requests = c._requests /\ u.listening = c.listening /\ u.handled = c.handled
  BY <1>2, <1>5, LifeAbove
<1>7. Inv(u) BY <1>5, <1>6, NewLifeKeeps DEF Keeps
<1>8. /\ DOMAIN t = ConnectionFields /\ t.life = u.life /\ t.rid = u.rid
      /\ t.first = u.first /\ t.handled = u.handled /\ t.listening = u.listening
      /\ t._requests = << >>
  BY <1>3, <1>6 DEF ConnectionFields
<1>9. << >> \in Seq(RequestType) /\ DOMAIN << >> = {} OBVIOUS
<1>10. Fewer(u, t) BY <1>8, <1>9 DEF Fewer
<1>11. Inv(t) BY <1>7, <1>10, FewerInv
<1>12. Taken(t, NoRid) BY <1>6, <1>8, <1>11 DEF Taken, Inv, Types
<1>13. QED BY <1>4, <1>11, <1>12 DEF EngineInv, Good

(* The first request is processed again when it is dead or overdue.        *)
LEMMA CheckTimeoutsGood ==
  ASSUME NEW c, Good(c)
  PROVE  Good(CheckTimeouts(c))
<1>1. PICK t : /\ t = IF c._requests # << >> /\ c._requests[1].dead = "long"
                      THEN _throttledRequestHandler(c) ELSE c
               /\ Good(t)
  BY ThrottledGood
<1>2. CheckTimeouts(c) = t \/ CheckTimeouts(c) = _throttledRequestHandler(t)
  BY <1>1 DEF CheckTimeouts
<1>3. QED BY <1>1, <1>2, ThrottledGood

(* The idle function queues a request, sends it and looks at timeouts.     *)
LEMMA OnIdleGood ==
  ASSUME EngineInv, OnIdle
  PROVE  EngineInv'
<1>1. PICK c : c = connection OBVIOUS
<1>2. Good(c) BY <1>1 DEF EngineInv
<1>3. PICK t : /\ t = IF c.timer = "due" THEN _onDisconnectTimeout(c) ELSE c
               /\ Good(t)
  BY <1>2, DisconnectTimeoutKeeps, KeepsGood DEF Good
<1>4. PICK data : data = (t._data \/ (t.authenticated /\ t._requests = << >> /\ ~t._data
                                      /\ ~t.disconnecting))
  OBVIOUS
<1>5. PICK pending : pending = [t EXCEPT !._data = data] OBVIOUS
<1>6. PICK pushed : pushed = Push(pending, "_dataRecv") OBVIOUS
<1>7. PICK built : built = [pushed EXCEPT !._data = FALSE] OBVIOUS
<1>8. PICK u : u = IF pending._data /\ Len(t._requests) < 2 /\ ~t.paused /\ MayBuild(t)
                   THEN _processRequest(built, Len(built._requests)) ELSE pending
  OBVIOUS
<1>9. connection' = CheckTimeouts(u)
  BY <1>1, <1>3, <1>4, <1>5, <1>6, <1>7, <1>8 DEF OnIdle, _onIdle
<1>10. Alike(t, pending) BY <1>3, <1>5 DEF Alike, ConnectionFields, Good, Inv, Types
<1>11. Good(pending) BY <1>3, <1>10, AlikeGood
<1>12. Good(pushed) /\ (MayBuild(pending) => pushed._requests # << >>)
  BY <1>6, <1>11, PushGood DEF Func2
<1>13. Alike(pushed, built) BY <1>7, <1>12 DEF Alike, ConnectionFields, Good, Inv, Types
<1>14. Good(built) BY <1>12, <1>13, AlikeGood
<1>15. Good(u)
  <2>1. CASE pending._data /\ Len(t._requests) < 2 /\ ~t.paused /\ MayBuild(t)
    <3>1. MayBuild(pending) BY <1>10, <2>1 DEF MayBuild, Alike
    <3>2. built._requests # << >> BY <1>12, <1>13, <3>1 DEF Alike
    <3>3. built._requests \in Seq(RequestType) BY <1>14 DEF Good, Inv, Types
    <3>4. Len(built._requests) # 0 BY <3>2, <3>3, EmptySeq
    <3>5. Len(built._requests) \in DOMAIN built._requests BY <3>3, <3>4
    <3>6. u = _processRequest(built, Len(built._requests)) BY <1>8, <2>1
    <3>7. Keeps(built, u) BY <1>14, <3>5, <3>6, ProcessRequestKeeps DEF Good
    <3>8. QED BY <1>14, <3>7, KeepsGood
  <2>2. CASE ~(pending._data /\ Len(t._requests) < 2 /\ ~t.paused /\ MayBuild(t))
    BY <1>8, <1>11, <2>2
  <2>3. QED BY <2>1, <2>2
<1>16. QED BY <1>9, <1>15, CheckTimeoutsGood DEF EngineInv

(* What was delayed is sent, unless it would be for the last time.         *)
LEMMA SendLaterGood ==
  ASSUME EngineInv, SendLater
  PROVE  EngineInv'
<1>1. PICK c : c = connection OBVIOUS
<1>2. Good(c) /\ Inv(c) BY <1>1 DEF EngineInv, Good
<1>3. PICK i \in DOMAIN c._requests, req \in RequestType :
        /\ req = c._requests[i] /\ req.xhr = "delayed" /\ BackoffFits(req.sends - 1)
        /\ connection' = [c EXCEPT !._requests[i].xhr = "sent",
                                   !.listening = c.listening \union {Exchange(req)}]
  BY <1>1, <1>2, QueueTypes DEF SendLater, Backoff
<1>4. PICK new : new = [req EXCEPT !.xhr = "sent"] OBVIOUS
<1>5. PICK t : t = connection' OBVIOUS
<1>6. t = [c EXCEPT !._requests = [c._requests EXCEPT ![i] = new],
                    !.listening = c.listening \union {Exchange(req)}]
  BY <1>3, <1>4, <1>5
<1>7. /\ new \in RequestType /\ new.rid = req.rid /\ new.sends = req.sends
      /\ new.func = req.func /\ new.xhr = "sent"
  BY <1>4 DEF RequestType
<1>8. Exchange(new) = Exchange(req) BY <1>7 DEF Exchange
<1>9. /\ DOMAIN t = ConnectionFields /\ t.life = c.life /\ t.rid = c.rid
      /\ t.first = c.first /\ t.handled = c.handled /\ t.dropped = c.dropped
      /\ t.listening = c.listening \union {Exchange(req)}
      /\ t._requests = [c._requests EXCEPT ![i] = new]
  BY <1>2, <1>6 DEF Inv, Types, ConnectionFields
<1>10. \A x \in c.listening : x.rid # new.rid BY <1>2, <1>3, <1>7 DEF Inv, PlacesInv
<1>11. new.sends <= MaxSends + 1 /\ new.sends \in Nat BY <1>2, <1>3, <1>7, QueueTypes
<1>12. ASSUME LastIsTooLate PROVE new.sends <= MaxSends
  <2>1. new.sends - 1 # MaxSends BY <1>3, <1>7, <1>12 DEF LastIsTooLate
  <2>2. QED BY <1>11, <2>1, StropheAssumption
<1>13. Exchange(new).rid = new.rid BY DEF Exchange
<1>14. ASSUME NEW x \in t.listening
       PROVE  IF x.rid = new.rid
              THEN /\ x = Exchange(new) /\ new.xhr = "sent"
                   /\ LastIsTooLate => new.sends <= MaxSends
              ELSE x \in c.listening
  BY <1>7, <1>8, <1>9, <1>10, <1>12, <1>13
<1>15. Keeps(c, t) BY <1>2, <1>3, <1>7, <1>9, <1>11, <1>14, ReplaceKeeps
<1>16. QED BY <1>2, <1>5, <1>15, KeepsGood DEF EngineInv

(* Time changes the age of a request, not its place.                       *)
LEMMA GetOlderGood ==
  ASSUME EngineInv, NEW i, GetOlder(i)
  PROVE  EngineInv'
<1>1. PICK c : c = connection OBVIOUS
<1>2. Good(c) /\ Inv(c) BY <1>1 DEF EngineInv, Good
<1>3. i \in DOMAIN c._requests BY <1>1 DEF GetOlder
<1>4. PICK req \in RequestType : req = c._requests[i] BY <1>2, <1>3, QueueTypes
<1>5. PICK new \in RequestType :
        /\ connection' = [c EXCEPT !._requests = [c._requests EXCEPT ![i] = new]]
        /\ new.rid = req.rid /\ new.sends = req.sends /\ new.func = req.func
        /\ new.xhr = req.xhr
  <2>1. \/ connection' = [c EXCEPT !._requests[i].age = "late"]
        \/ connection' = [c EXCEPT !._requests[i].age = "overdue"]
        \/ connection' = [c EXCEPT !._requests[i].dead = "long"]
    BY <1>1 DEF GetOlder
  <2>2. ASSUME NEW new,
               \/ new = [req EXCEPT !.age = "late"] \/ new = [req EXCEPT !.age = "overdue"]
               \/ new = [req EXCEPT !.dead = "long"]
        PROVE  /\ new \in RequestType /\ new.rid = req.rid /\ new.sends = req.sends
               /\ new.func = req.func /\ new.xhr = req.xhr
    BY <2>2 DEF RequestType
  <2>3. CASE connection' = [c EXCEPT !._requests[i].age = "late"]
    <3>1. PICK new : new = [req EXCEPT !.age = "late"] OBVIOUS
    <3>2. connection' = [c EXCEPT !._requests = [c._requests EXCEPT ![i] = new]]
      BY <1>4, <2>3, <3>1
    <3>3. QED BY <2>2, <3>1, <3>2
  <2>4. CASE connection' = [c EXCEPT !._requests[i].age = "overdue"]
    <3>1. PICK new : new = [req EXCEPT !.age = "overdue"] OBVIOUS
    <3>2. connection' = [c EXCEPT !._requests = [c._requests EXCEPT ![i] = new]]
      BY <1>4, <2>4, <3>1
    <3>3. QED BY <2>2, <3>1, <3>2
  <2>5. CASE connection' = [c EXCEPT !._requests[i].dead = "long"]
    <3>1. PICK new : new = [req EXCEPT !.dead = "long"] OBVIOUS
    <3>2. connection' = [c EXCEPT !._requests = [c._requests EXCEPT ![i] = new]]
      BY <1>4, <2>5, <3>1
    <3>3. QED BY <2>2, <3>1, <3>2
  <2>6. QED BY <2>1, <2>3, <2>4, <2>5
<1>6. PICK t : t = connection' OBVIOUS
<1>7. /\ DOMAIN t = ConnectionFields /\ t.life = c.life /\ t.rid = c.rid
      /\ t.first = c.first /\ t.handled = c.handled /\ t.dropped = c.dropped /\ t.listening = c.listening
      /\ t._requests = [c._requests EXCEPT ![i] = new]
  BY <1>2, <1>5, <1>6 DEF Inv, Types, ConnectionFields
<1>8. Exchange(new) = Exchange(req) BY <1>5 DEF Exchange
<1>9. ASSUME NEW x \in t.listening, x.rid = new.rid
      PROVE  /\ x = Exchange(new) /\ new.xhr = "sent"
             /\ LastIsTooLate => new.sends <= MaxSends
  <2>1. x \in c.listening /\ x = Exchange(req) /\ req.xhr = "sent"
    BY <1>2, <1>3, <1>4, <1>5, <1>7, <1>9 DEF Inv, PlacesInv
  <2>2. x.sends = req.sends BY <2>1 DEF Exchange
  <2>3. QED BY <1>2, <1>5, <1>8, <2>1, <2>2 DEF Inv, SendsInv
<1>10. new.sends <= MaxSends + 1 BY <1>2, <1>3, <1>4, <1>5, QueueTypes
<1>11. Keeps(c, t) BY <1>2, <1>3, <1>4, <1>5, <1>7, <1>9, <1>10, ReplaceKeeps
<1>12. QED BY <1>2, <1>6, <1>11, KeepsGood DEF EngineInv

(* Every step keeps the invariant.                                         *)
LEMMA NextGood == EngineInv /\ [Next]_vars => EngineInv'
<1> SUFFICES ASSUME EngineInv, [Next]_vars PROVE EngineInv' OBVIOUS
<1>0. Good(connection) /\ DOMAIN connection = ConnectionFields
  BY DEF EngineInv, Good, Inv, Types
<1>1. CASE OnIdle BY <1>1, OnIdleGood
<1>2. CASE Connect BY <1>2, ConnectGood
<1>3. CASE Reset BY <1>3, ResetGood
<1>4. CASE Attach \/ PauseOrResume \/ TimerDue
  <2>1. Alike(connection, connection')
    <3>1. CASE Attach BY <1>0, <3>1 DEF Attach, Alike, ConnectionFields
    <3>2. CASE PauseOrResume BY <1>0, <3>2 DEF PauseOrResume, Alike, ConnectionFields
    <3>3. CASE TimerDue BY <1>0, <3>3 DEF TimerDue, Alike, ConnectionFields
    <3>4. QED BY <1>4, <3>1, <3>2, <3>3
  <2>2. QED BY <1>0, <2>1, AlikeGood DEF EngineInv
<1>5. CASE Send BY <1>0, <1>5, SendGood DEF Send, EngineInv
<1>6. CASE Disconnect BY <1>0, <1>6, DisconnectGood DEF Disconnect, EngineInv
<1>7. CASE Reply
  <2>1. PICK x \in connection.listening :
          \E status, body : connection' = _onRequestStateChange(connection, x, status, body)
    BY <1>7 DEF Reply
  <2>2. PICK status, body : connection' = _onRequestStateChange(connection, x, status, body)
    BY <2>1
  <2>3. QED BY <1>0, <2>2, StateChangeGood DEF EngineInv
<1>8. CASE SendLater BY <1>8, SendLaterGood
<1>9. CASE \E i \in 1..3 : GetOlder(i) BY <1>9, GetOlderGood
<1>10. CASE UNCHANGED vars BY <1>10 DEF vars, EngineInv
<1>11. QED BY <1>1, <1>2, <1>3, <1>4, <1>5, <1>6, <1>7, <1>8, <1>9, <1>10 DEF Next
-----------------------------------------------------------------------------
(* An id is in one place of the queue and in one exchange, those that are  *)
(* there have no reply yet, and a new life starts above them all.          *)
THEOREM EngineInvariant == Spec => []EngineInv
<1>1. Init => EngineInv BY InitGood
<1>2. EngineInv /\ [Next]_vars => EngineInv' BY NextGood
<1>3. QED BY <1>1, <1>2, PTL DEF Spec

(* However often a request is given up and sent again, its callback gets   *)
(* one reply: _processRequest drops the handler of the exchange it aborts  *)
(* (strophe.js 2184-2198), and what is answered leaves the queue           *)
(* (strophe.js 2326-2349).                                                 *)
THEOREM CallbackOnce == Spec => []HandledOnce
<1>1. EngineInv => HandledOnce BY DEF EngineInv, Good, Inv, RepliesInv, HandledOnce
<1>2. QED BY <1>1, EngineInvariant, PTL

(* Every id of this life has its reply, is still tried or was dropped for  *)
(* a status below 400 other than 200 (strophe.js 2326-2359), if the        *)
(* backoff before the last send is longer than TIMEOUT, as it is for the   *)
(* code's five sends and sixty seconds: a request is then given up with    *)
(* the connection (strophe.js 2167-2171), and never alone.                 *)
THEOREM NoIdIsLost == LastIsTooLate => (Spec => []NoRidSkipped)
<1> SUFFICES ASSUME LastIsTooLate PROVE Spec => []NoRidSkipped OBVIOUS
<1>1. EngineInv => NoRidSkipped
  <2> SUFFICES ASSUME EngineInv, NEW r \in connection.first..(connection.rid - 1)
               PROVE  connection.handled[r] > 0 \/ Queued(r) \/ r \in connection.dropped
    BY DEF NoRidSkipped
  <2>1. PICK c : c = connection OBVIOUS
  <2>2. Inv(c) /\ Taken(c, NoRid) BY <2>1 DEF EngineInv, Good
  <2>3. r # NoRid
    <3>1. c.first \in Nat /\ c.rid \in Nat BY <2>2 DEF Inv, Types
    <3>2. QED BY <2>1, <3>1 DEF NoRid
  <2>4. c.handled[r] > 0 \/ r \in c.dropped \/ \E i \in DOMAIN c._requests : c._requests[i].rid = r
    BY <2>1, <2>2, <2>3 DEF Taken
  <2>5. QED BY <2>1, <2>4 DEF Queued, ToSet
<1>2. QED BY <1>1, EngineInvariant, PTL
=============================================================================
