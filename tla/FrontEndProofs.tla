--------------------------- MODULE FrontEndProofs --------------------------
(***************************************************************************)
(* Theorems about the two front ends through which clients come in, which  *)
(* share no state.                                                         *)
(*                                                                         *)
(* The intake of HTTP requests, for every set of requests, every period    *)
(* and every limit, and whatever the parser makes of what arrives: every   *)
(* request comes to one end, in time but not before, and the lists keep no *)
(* callback longer than they must.  What the parser returns is not looked  *)
(* at, so that only the domains of the records that hold it are known      *)
(* here, not the type of its fields.                                       *)
(*                                                                         *)
(* The WebSocket front end, for every set of connections and every bound:  *)
(* a stream ends once and with one close tag, and a connection that has    *)
(* closed leaves nothing behind.  Every action changes one connection; the *)
(* invariants are predicates of its record, and each is shown of the       *)
(* record that an action leaves.                                           *)
(***************************************************************************)
EXTENDS HttpServer, WebSocket, FiniteSetTheorems, SequenceTheorems, TLAPS

-----------------------------------------------------------------------------
(* The intake of HTTP requests.                                            *)

(* The records and their fields.                                           *)
Shape(s) ==
  /\ DOMAIN s = {"requests", "req_list1", "req_list2", "parser"}
  /\ DOMAIN s.requests = Requests
  /\ \A r \in Requests :
       DOMAIN s.requests[r] = {"state", "born", "idx", "parts", "outcomes", "says"}

Typed(s) ==
  /\ Shape(s)
  /\ \A r \in Requests :
       LET q == s.requests[r]
       IN q.state \in Outcome /\ q.born \in Nat /\ q.idx \in Nat /\ q.outcomes \in Nat
  /\ s.req_list1 \in Lists /\ s.req_list2 \in Lists

(* A list has callbacks of requests that still arrive, each at its index,  *)
(* that came between two times.                                            *)
Entries(s, list, from, to) ==
  \A i \in DOMAIN list :
    list[i] \in Requests =>
      LET q == s.requests[list[i]]
      IN q.state = "receiving" /\ q.idx = i /\ from <= q.born /\ q.born <= to

In(list, r) == \E i \in DOMAIN list : list[i] = r

Held(s, r) ==
  s.requests[r].state = "receiving" => In(s.req_list1, r) \/ In(s.req_list2, r)

Once(s, r) ==
  s.requests[r].outcomes = IF s.requests[r].state \in {"none", "receiving"} THEN 0 ELSE 1

(* The lists at time n of the period that began at start: the first is of  *)
(* this period and the second of the one before.                           *)
ListInv(s, start, n) ==
  /\ Typed(s)
  /\ Entries(s, s.req_list1, start, n)
  /\ Entries(s, s.req_list2, start - Period, start - 1)
  /\ \A r \in Requests : Held(s, r) /\ Once(s, r)

(* The time of the last call of handle_request_timeout, or 0.              *)
start == now - (now % Period)

IntakeInv == now \in Nat /\ ListInv(server, start, now)
-----------------------------------------------------------------------------
(* The callbacks.                                                          *)

(* The requests of R whose callback runs.                                  *)
First(s, R) == {r \in R : s.requests[r].state = "receiving"}

(* t is s after the callbacks of R: they change their own requests and     *)
(* their own entries.                                                      *)
Effect(s, t, R, outcome) ==
  /\ Shape(t)
  /\ t.req_list1 = Cleared(s.req_list1, R) /\ t.req_list2 = Cleared(s.req_list2, R)
  /\ \A r \in R : /\ t.requests[r].state = outcome
                  /\ t.requests[r].outcomes = s.requests[r].outcomes + 1
                  /\ t.requests[r].born = s.requests[r].born
                  /\ t.requests[r].idx = s.requests[r].idx
  /\ \A r \in Requests \ R : t.requests[r] = s.requests[r]

(* _on_end_callback has this effect for the requests that still arrive.    *)
LEMMA CallbackEffect ==
  ASSUME NEW s, Shape(s), NEW R \in SUBSET Requests, NEW outcome
  PROVE  Effect(s, _on_end_callback(s, R, outcome), First(s, R), outcome)
<1> DEFINE first == {r \in R : s.requests[r].state = "receiving"}
           q(r) == IF r \in first
                   THEN [s.requests[r] EXCEPT !.state = outcome,
                                              !.outcomes = s.requests[r].outcomes + 1]
                   ELSE s.requests[r]
<1>0. PICK t : t = _on_end_callback(s, R, outcome) OBVIOUS
<1>1. PICK d : d = Decided(s, first, outcome) OBVIOUS
<1>2. d = [s EXCEPT !.requests = [r \in Requests |-> q(r)]] BY <1>1 DEF Decided
<1>3. t = [d EXCEPT !.req_list1 = Cleared(d.req_list1, first),
                    !.req_list2 = Cleared(d.req_list2, first)]
  BY <1>0, <1>1 DEF _on_end_callback
<1>4. /\ DOMAIN d = DOMAIN s /\ d.req_list1 = s.req_list1 /\ d.req_list2 = s.req_list2
      /\ d.requests = [r \in Requests |-> q(r)]
  BY <1>2 DEF Shape
<1>5. /\ DOMAIN t = DOMAIN d /\ t.requests = d.requests
      /\ t.req_list1 = Cleared(s.req_list1, first) /\ t.req_list2 = Cleared(s.req_list2, first)
  BY <1>3, <1>4 DEF Shape
<1>6. ASSUME NEW r \in Requests
      PROVE  /\ t.requests[r] = q(r)
             /\ DOMAIN t.requests[r] = {"state", "born", "idx", "parts", "outcomes", "says"}
  <2>1. t.requests[r] = q(r) BY <1>4, <1>5
  <2>2. DOMAIN s.requests[r] = {"state", "born", "idx", "parts", "outcomes", "says"}
    BY DEF Shape
  <2>3. DOMAIN q(r) = DOMAIN s.requests[r] OBVIOUS
  <2>4. QED BY <2>1, <2>2, <2>3
<1>7. Shape(t) BY <1>4, <1>5, <1>6 DEF Shape
<1>8. ASSUME NEW r \in first
      PROVE  /\ t.requests[r].state = outcome
             /\ t.requests[r].outcomes = s.requests[r].outcomes + 1
             /\ t.requests[r].born = s.requests[r].born
             /\ t.requests[r].idx = s.requests[r].idx
  <2>1. PICK u : u = [s.requests[r] EXCEPT !.state = outcome,
                                           !.outcomes = s.requests[r].outcomes + 1]
    OBVIOUS
  <2>2. t.requests[r] = u BY <1>6, <2>1
  <2>3. DOMAIN s.requests[r] = {"state", "born", "idx", "parts", "outcomes", "says"}
    BY DEF Shape
  <2>4. QED BY <2>1, <2>2, <2>3
<1>9. ASSUME NEW r \in Requests \ first PROVE t.requests[r] = s.requests[r] BY <1>6
<1>10. first = First(s, R) BY DEF First
<1> HIDE DEF first
<1>11. QED BY <1>0, <1>5, <1>7, <1>8, <1>9, <1>10 DEF Effect

Kept(s, t, R) == \A r \in Requests \ R : t.requests[r] = s.requests[r]
Indexed(s) == \A r \in Requests : s.requests[r].idx = server.requests[r].idx

InBut(clear, list, R) == \A r \in Requests : In(clear, r) <=> In(list, r) /\ r \notin R

(* The entries of R are cleared, and no other.                             *)
LEMMA ClearedEntries ==
  ASSUME NEW s, NEW t, NEW list \in Lists, NEW from, NEW to, NEW first \in SUBSET Requests,
         Entries(s, list, from, to), Indexed(s), Kept(s, t, first)
  PROVE  /\ Cleared(list, first) \in Lists
         /\ Entries(t, Cleared(list, first), from, to)
         /\ InBut(Cleared(list, first), list, first)
<1> DEFINE clear == Cleared(list, first)
<1>0. /\ NoCallback \notin Requests /\ Len(list) \in Nat /\ DOMAIN list = 1..Len(list)
      /\ \A i \in DOMAIN list : list[i] \in Requests \union {NoCallback}
  BY IntakeAssumption DEF Lists
<1>1. DOMAIN clear = DOMAIN list BY DEF Cleared
<1>2. ASSUME NEW i \in DOMAIN list
      PROVE  clear[i] = IF list[i] \in first THEN NoCallback ELSE list[i]
  <2>1. clear[i] = IF list[i] \in first /\ i = server.requests[list[i]].idx
                   THEN NoCallback ELSE list[i]
    BY DEF Cleared
  <2>2. list[i] \in first => i = server.requests[list[i]].idx BY DEF Entries, Indexed
  <2>3. QED BY <2>1, <2>2
<1>3. clear \in Lists
  <2>1. clear = [i \in 1..Len(list) |-> clear[i]] BY <1>0, <1>1 DEF Cleared
  <2> HIDE DEF clear
  <2>2. \A i \in 1..Len(list) : clear[i] \in Requests \union {NoCallback} BY <1>0, <1>2
  <2>3. QED BY <1>0, <2>1, <2>2 DEF Lists
<1> HIDE DEF clear
<1>4. Entries(t, clear, from, to)
  <2>1. ASSUME NEW i \in DOMAIN clear, clear[i] \in Requests
        PROVE  /\ list[i] = clear[i] /\ t.requests[clear[i]] = s.requests[clear[i]]
               /\ i \in DOMAIN list
    BY <1>0, <1>1, <1>2, <2>1 DEF Kept
  <2>2. QED BY <2>1 DEF Entries
<1>5. ASSUME NEW r \in Requests PROVE In(clear, r) <=> In(list, r) /\ r \notin first
  BY <1>0, <1>1, <1>2 DEF In
<1>6. QED BY <1>3, <1>4, <1>5 DEF clear, InBut

Ends == Outcome \ {"none", "receiving"}

(* Running the callbacks of R keeps the invariant, also when the requests  *)
(* of R are not in the lists.                                              *)
LEMMA CallbackKeeps ==
  ASSUME NEW s, NEW from, NEW n, NEW R \in SUBSET Requests, NEW outcome \in Ends,
         Typed(s), Entries(s, s.req_list1, from, n),
         Entries(s, s.req_list2, from - Period, from - 1),
         \A r \in Requests : Once(s, r) /\ (r \notin R => Held(s, r)),
         Indexed(s)
  PROVE  LET t == _on_end_callback(s, R, outcome)
         IN ListInv(t, from, n)
<1> DEFINE first == First(s, R)
<1>1. PICK t : t = _on_end_callback(s, R, outcome) OBVIOUS
<1>2. Effect(s, t, first, outcome)
  <2>1. Shape(s) BY DEF Typed
  <2>2. QED BY <1>1, <2>1, CallbackEffect
<1>3. first \in SUBSET Requests BY DEF First
<1>4. s.req_list1 \in Lists /\ s.req_list2 \in Lists BY DEF Typed
<1>5. /\ t.req_list1 \in Lists /\ Entries(t, t.req_list1, from, n)
      /\ InBut(t.req_list1, s.req_list1, first)
  <2>1. Kept(s, t, first) BY <1>2 DEF Effect, Kept
  <2> HIDE DEF first
  <2>2. QED BY <1>2, <1>3, <1>4, <2>1, ClearedEntries DEF Effect
<1>6. /\ t.req_list2 \in Lists /\ Entries(t, t.req_list2, from - Period, from - 1)
      /\ InBut(t.req_list2, s.req_list2, first)
  <2>1. Kept(s, t, first) BY <1>2 DEF Effect, Kept
  <2> HIDE DEF first
  <2>2. QED BY <1>2, <1>3, <1>4, <2>1, ClearedEntries DEF Effect
<1>7. ASSUME NEW r \in Requests
      PROVE  /\ t.requests[r].state \in Outcome /\ t.requests[r].born \in Nat
             /\ t.requests[r].idx \in Nat /\ t.requests[r].outcomes \in Nat
             /\ Held(t, r) /\ Once(t, r)
  <2>1. /\ s.requests[r].state \in Outcome /\ s.requests[r].born \in Nat
        /\ s.requests[r].idx \in Nat /\ s.requests[r].outcomes \in Nat
        /\ Once(s, r)
    BY DEF Typed
  <2>2. CASE r \in first
    BY <1>2, <2>1, <2>2 DEF Effect, Ends, Held, Once, First
  <2>3. CASE r \notin first
    <3>1. t.requests[r] = s.requests[r] BY <1>2, <2>3 DEF Effect
    <3>2. s.requests[r].state = "receiving" => Held(s, r) BY <2>3 DEF First
    <3>3. Held(t, r) BY <1>5, <1>6, <2>3, <3>1, <3>2 DEF Held, InBut
    <3>4. QED BY <2>1, <3>1, <3>3 DEF Once
  <2>4. QED BY <2>2, <2>3
<1>8. Typed(t) BY <1>2, <1>5, <1>6, <1>7 DEF Effect, Typed
<1>9. ListInv(t, from, n) BY <1>5, <1>6, <1>7, <1>8 DEF ListInv
<1>10. QED BY <1>1, <1>9

(* The invariant only looks at the lists and at what Same compares.        *)
Same(s, t) ==
  /\ t.req_list1 = s.req_list1 /\ t.req_list2 = s.req_list2
  /\ \A q \in Requests :
       /\ t.requests[q].state = s.requests[q].state
       /\ t.requests[q].born = s.requests[q].born
       /\ t.requests[q].idx = s.requests[q].idx
       /\ t.requests[q].outcomes = s.requests[q].outcomes

(* Who agrees with s in what it compares keeps the invariant of s.         *)
LEMMA SameKeeps ==
  ASSUME NEW s, NEW t, NEW from, NEW n, ListInv(s, from, n), Shape(t), Same(s, t)
  PROVE  ListInv(t, from, n)
<1>1. Typed(t) BY DEF ListInv, Typed, Same
<1>2. ASSUME NEW list, NEW a, NEW b, Entries(s, list, a, b)
      PROVE  Entries(t, list, a, b)
  BY <1>2 DEF Entries, Same
<1>3. \A q \in Requests : Held(t, q) /\ Once(t, q) BY DEF ListInv, Held, Once, Same
<1>4. QED BY <1>1, <1>2, <1>3 DEF ListInv, Same

(* A change of one field of a request, f, to x.                            *)
FieldSet(s, r, f, x) == [s EXCEPT !.requests[r][f] = x]

OneChanged(s, t, r, f, x) ==
  /\ Shape(t) /\ t.req_list1 = s.req_list1 /\ t.req_list2 = s.req_list2
  /\ \A q \in Requests \ {r} : t.requests[q] = s.requests[q]
  /\ \A g \in {"state", "born", "idx", "parts", "outcomes", "says"} :
       t.requests[r][g] = IF g = f THEN x ELSE s.requests[r][g]

(* It changes that field and no other.                                     *)
LEMMA FieldChanged ==
  ASSUME NEW s, Shape(s), NEW r \in Requests, NEW x,
         NEW f \in {"state", "parts", "says"}
  PROVE  OneChanged(s, FieldSet(s, r, f, x), r, f, x)
<1>0. PICK t : t = FieldSet(s, r, f, x) OBVIOUS
<1>1. PICK u : u = [s.requests[r] EXCEPT ![f] = x] OBVIOUS
<1>2. PICK m : m = [s.requests EXCEPT ![r] = u] OBVIOUS
<1>3. t = [s EXCEPT !.requests = m] BY <1>0, <1>1, <1>2 DEF FieldSet
<1>4. /\ DOMAIN t = DOMAIN s /\ t.requests = m
      /\ t.req_list1 = s.req_list1 /\ t.req_list2 = s.req_list2
  BY <1>3 DEF Shape
<1>5. /\ DOMAIN m = Requests /\ m[r] = u
      /\ \A q \in Requests \ {r} : m[q] = s.requests[q]
  BY <1>2 DEF Shape
<1>6. DOMAIN s.requests[r] = {"state", "born", "idx", "parts", "outcomes", "says"} BY DEF Shape
<1>7. /\ DOMAIN u = {"state", "born", "idx", "parts", "outcomes", "says"}
      /\ \A g \in {"state", "born", "idx", "parts", "outcomes", "says"} :
           u[g] = IF g = f THEN x ELSE s.requests[r][g]
  BY <1>1, <1>6
<1>8. Shape(t)
  <2>1. ASSUME NEW q \in Requests
        PROVE  DOMAIN t.requests[q] = {"state", "born", "idx", "parts", "outcomes", "says"}
    BY <1>4, <1>5, <1>7 DEF Shape
  <2>2. QED BY <1>4, <1>5, <2>1 DEF Shape
<1>9. OneChanged(s, t, r, f, x) BY <1>4, <1>5, <1>7, <1>8 DEF OneChanged
<1>10. QED BY <1>0, <1>9

(* What the parser leaves and what is said of a request are not looked at. *)
LEMMA ReadingKeeps ==
  ASSUME NEW s, Shape(s), NEW r \in Requests, NEW x, NEW y, NEW t,
         t = [s EXCEPT !.parser = x, !.requests[r].says = y]
  PROVE  Shape(t) /\ Same(s, t)
<1>1. PICK a : a = [s EXCEPT !.parser = x] OBVIOUS
<1>2. t = [a EXCEPT !.requests[r].says = y] BY <1>1
<1>3. Shape(a) /\ a.requests = s.requests /\ a.req_list1 = s.req_list1 /\ a.req_list2 = s.req_list2
  BY <1>1 DEF Shape
<1>4. t = FieldSet(a, r, "says", y) BY <1>2 DEF FieldSet
<1>5. OneChanged(a, t, r, "says", y) BY <1>3, <1>4, FieldChanged
<1>6. Shape(t) /\ Same(s, t) BY <1>3, <1>5 DEF Same, OneChanged
<1>7. QED BY <1>6
-----------------------------------------------------------------------------
(* The actions.                                                            *)

NoneTimedOut(s, t) ==
  \A q \in Requests : t.requests[q].state = "timed-out" => s.requests[q].state = "timed-out"

(* Reading a request and answering it.                                     *)
LEMMA ParsedKeeps ==
  ASSUME NEW s, NEW from, NEW n, NEW r \in Requests, NEW reading,
         Typed(s), Entries(s, s.req_list1, from, n),
         Entries(s, s.req_list2, from - Period, from - 1),
         \A q \in Requests : Once(s, q) /\ (q # r => Held(s, q)),
         Indexed(s),
         Held(s, r) \/ s.requests[r].state = "receiving"
  PROVE  /\ ListInv(Parsed(s, r, reading), from, n)
         /\ NoneTimedOut(s, Parsed(s, r, reading))
<1>1. PICK outcome \in Ends :
        outcome = IF reading.after.result = "body" THEN "handled" ELSE "bad-request"
  BY DEF Ends, Outcome
<1>2. PICK t : t = _on_end_callback(s, {r}, outcome) OBVIOUS
<1>3. PICK p : p = Parsed(s, r, reading) OBVIOUS
<1>4. Effect(s, t, First(s, {r}), outcome)
  BY <1>2, CallbackEffect DEF Typed
<1>5. ListInv(t, from, n)
  <2>1. \A q \in Requests : Once(s, q) /\ (q \notin {r} => Held(s, q)) OBVIOUS
  <2>2. QED BY <1>2, <2>1, CallbackKeeps
<1>6. NoneTimedOut(s, t) BY <1>1, <1>4 DEF Effect, First, NoneTimedOut
<1>7. CASE t = s
  <2>1. p = s BY <1>1, <1>2, <1>3, <1>7 DEF Parsed
  <2>2. QED BY <1>3, <1>5, <1>7, <2>1 DEF NoneTimedOut
<1>8. CASE t # s
  <2>1. p = [t EXCEPT !.parser = reading.after.parser, !.requests[r].says = reading.says]
    BY <1>1, <1>2, <1>3, <1>8 DEF Parsed
  <2>2. Shape(p) /\ Same(t, p) BY <1>4, <2>1, ReadingKeeps DEF Effect
  <2>3. ListInv(p, from, n) BY <1>5, <2>2, SameKeeps
  <2>4. NoneTimedOut(s, p) BY <1>6, <2>2 DEF NoneTimedOut, Same
  <2>5. QED BY <1>3, <2>3, <2>4
<1>9. QED BY <1>7, <1>8

(* The start of a period is no later than now.                             *)
LEMMA StartTypes ==
  ASSUME now \in Nat
  PROVE  start \in Int /\ start <= now /\ now < start + Period
<1>1. Period \in Nat /\ Period > 0 BY IntakeAssumption
<1>2. PICK m \in 0..(Period - 1) : m = now % Period BY <1>1
<1>3. start = now - m BY <1>2 DEF start
<1>4. QED BY <1>1, <1>2, <1>3

(* A request by POST is entered in the first list, at its index.           *)
LEMMA PostKeeps ==
  ASSUME IntakeInv, NEW r \in Requests, handle_post_bosh_request(r)
  PROVE  IntakeInv' /\ NoneTimedOut(server, server')
<1>1. PICK t : t = server' OBVIOUS
<1>2. PICK u : u = [server.requests[r] EXCEPT !.state = "receiving", !.born = now,
                                              !.idx = Len(server.req_list1) + 1]
  OBVIOUS
<1>3. PICK m : m = [server.requests EXCEPT ![r] = u] OBVIOUS
<1>4. PICK list : list = Append(server.req_list1, r) OBVIOUS
<1>5. t = [server EXCEPT !.req_list1 = list, !.requests = m]
  BY <1>1, <1>2, <1>3, <1>4 DEF handle_post_bosh_request
<1>6. Typed(server) /\ Shape(server) BY DEF IntakeInv, ListInv, Typed
<1>7. /\ DOMAIN t = DOMAIN server /\ t.requests = m
      /\ t.req_list1 = list /\ t.req_list2 = server.req_list2
  BY <1>5, <1>6 DEF Shape
<1>8. /\ DOMAIN m = Requests /\ m[r] = u
      /\ \A q \in Requests \ {r} : m[q] = server.requests[q]
  BY <1>3, <1>6 DEF Shape
<1>9. /\ DOMAIN u = {"state", "born", "idx", "parts", "outcomes", "says"}
      /\ u.state = "receiving" /\ u.born = now /\ u.idx = Len(server.req_list1) + 1
      /\ u.outcomes = server.requests[r].outcomes
  BY <1>2, <1>6 DEF Shape
<1>10. server.requests[r].state = "none" BY DEF handle_post_bosh_request
<1>11. server.req_list1 \in Seq(Requests \union {NoCallback}) BY <1>6 DEF Typed, Lists
<1>12. /\ list \in Seq(Requests \union {NoCallback}) /\ Len(server.req_list1) \in Nat
       /\ DOMAIN server.req_list1 = 1..Len(server.req_list1)
       /\ DOMAIN list = 1..(Len(server.req_list1) + 1)
       /\ list[Len(server.req_list1) + 1] = r
       /\ \A i \in DOMAIN server.req_list1 : list[i] = server.req_list1[i]
  BY <1>4, <1>11
<1>13. Typed(t)
  <2>1. Shape(t)
    <3>1. ASSUME NEW q \in Requests
          PROVE  DOMAIN t.requests[q] = {"state", "born", "idx", "parts", "outcomes", "says"}
      BY <1>6, <1>7, <1>8, <1>9 DEF Shape
    <3>2. QED BY <1>6, <1>7, <1>8, <3>1 DEF Shape
  <2>2. ASSUME NEW q \in Requests
        PROVE  /\ t.requests[q].state \in Outcome /\ t.requests[q].born \in Nat
               /\ t.requests[q].idx \in Nat /\ t.requests[q].outcomes \in Nat
    <3>1. CASE q = r
      <4>1. server.requests[r].outcomes \in Nat BY <1>6 DEF Typed
      <4>2. "receiving" \in Outcome BY DEF Outcome
      <4>3. now \in Nat BY DEF IntakeInv
      <4>4. t.requests[q] = u BY <1>7, <1>8, <3>1
      <4>5. Len(server.req_list1) + 1 \in Nat BY <1>12
      <4>6. QED BY <1>9, <4>1, <4>2, <4>3, <4>4, <4>5
    <3>2. CASE q # r BY <1>6, <1>7, <1>8, <3>2 DEF Typed
    <3>3. QED BY <3>1, <3>2
  <2>3. t.req_list1 \in Lists /\ t.req_list2 \in Lists
    BY <1>6, <1>7, <1>12 DEF Typed, Lists
  <2>4. QED BY <2>1, <2>2, <2>3 DEF Typed
<1>14. Entries(t, t.req_list1, start, now)
  <2> SUFFICES ASSUME NEW i \in DOMAIN list, list[i] \in Requests
               PROVE  /\ t.requests[list[i]].state = "receiving"
                      /\ t.requests[list[i]].idx = i
                      /\ start <= t.requests[list[i]].born
                      /\ t.requests[list[i]].born <= now
    BY <1>7 DEF Entries
  <2>1. CASE i = Len(server.req_list1) + 1
    <3>1. start <= now BY StartTypes DEF IntakeInv
    <3>2. now <= now BY DEF IntakeInv
    <3>3. QED BY <1>7, <1>8, <1>9, <1>12, <2>1, <3>1, <3>2
  <2>2. CASE i \in DOMAIN server.req_list1
    <3>1. list[i] = server.req_list1[i] BY <1>12, <2>2
    <3>2. Entries(server, server.req_list1, start, now) BY DEF IntakeInv, ListInv
    <3>3. /\ server.requests[list[i]].state = "receiving"
          /\ server.requests[list[i]].idx = i
          /\ start <= server.requests[list[i]].born
          /\ server.requests[list[i]].born <= now
      BY <2>2, <3>1, <3>2 DEF Entries
    <3>4. list[i] # r BY <1>10, <3>3
    <3>5. t.requests[list[i]] = server.requests[list[i]] BY <1>7, <1>8, <3>4
    <3>6. QED BY <3>3, <3>5
  <2>3. QED BY <1>12, <2>1, <2>2
<1>15. Entries(t, t.req_list2, start - Period, start - 1)
  <2>1. Entries(server, server.req_list2, start - Period, start - 1) BY DEF IntakeInv, ListInv
  <2>2. ASSUME NEW i \in DOMAIN server.req_list2, server.req_list2[i] \in Requests
        PROVE  t.requests[server.req_list2[i]] = server.requests[server.req_list2[i]]
    <3>1. server.requests[server.req_list2[i]].state = "receiving" BY <2>1, <2>2 DEF Entries
    <3>2. QED BY <1>7, <1>8, <1>10, <2>2, <3>1
  <2>3. QED BY <1>7, <2>1, <2>2 DEF Entries
<1>16. ASSUME NEW q \in Requests PROVE Held(t, q) /\ Once(t, q)
  <2>1. Held(server, q) /\ Once(server, q) BY DEF IntakeInv, ListInv
  <2>2. CASE q = r
    <3>1. In(t.req_list1, r) BY <1>7, <1>12 DEF In
    <3>2. QED BY <1>7, <1>8, <1>9, <1>10, <2>1, <2>2, <3>1 DEF Held, Once
  <2>3. CASE q # r
    <3>1. t.requests[q] = server.requests[q] BY <1>7, <1>8, <2>3
    <3>2. In(server.req_list1, q) => In(t.req_list1, q) BY <1>7, <1>12 DEF In
    <3>3. QED BY <1>7, <2>1, <3>1, <3>2 DEF Held, Once
  <2>4. QED BY <2>2, <2>3
<1>17. ListInv(t, start, now) BY <1>13, <1>14, <1>15, <1>16 DEF ListInv
<1>18. now' = now /\ start' = start BY DEF handle_post_bosh_request, start
<1>19. NoneTimedOut(server, t)
  BY <1>7, <1>8, <1>9 DEF NoneTimedOut
<1>20. QED BY <1>1, <1>17, <1>18, <1>19 DEF IntakeInv

(* A request by GET is read and answered at once.                          *)
LEMMA GetKeeps ==
  ASSUME IntakeInv, NEW r \in Requests, handle_get_bosh_request(r)
  PROVE  IntakeInv' /\ NoneTimedOut(server, server')
<1>1. PICK reading :
        server' = Parsed([server EXCEPT !.requests[r].state = "receiving"], r, reading)
  BY DEF handle_get_bosh_request
<1>2. PICK s : s = [server EXCEPT !.requests[r].state = "receiving"] OBVIOUS
<1>3. Typed(server) /\ Shape(server) BY DEF IntakeInv, ListInv, Typed
<1>4. s = FieldSet(server, r, "state", "receiving") BY <1>2 DEF FieldSet
<1>5. OneChanged(server, s, r, "state", "receiving") BY <1>3, <1>4, FieldChanged
<1>6. /\ s.requests[r].state = "receiving"
      /\ s.requests[r].born = server.requests[r].born
      /\ s.requests[r].idx = server.requests[r].idx
      /\ s.requests[r].outcomes = server.requests[r].outcomes
  BY <1>5 DEF OneChanged
<1>7. server.requests[r].state = "none" BY DEF handle_get_bosh_request
<1>8. Typed(s)
  <2>1. "receiving" \in Outcome BY DEF Outcome
  <2>2. QED BY <1>3, <1>5, <1>6, <2>1 DEF Typed, OneChanged
<1>9. ASSUME NEW list, NEW a, NEW b, Entries(server, list, a, b)
      PROVE  Entries(s, list, a, b)
  BY <1>5, <1>7, <1>9 DEF Entries, OneChanged
<1>10. /\ Entries(s, s.req_list1, start, now)
       /\ Entries(s, s.req_list2, start - Period, start - 1)
  BY <1>5, <1>9 DEF IntakeInv, ListInv, OneChanged
<1>11. ASSUME NEW q \in Requests PROVE Once(s, q) /\ (q # r => Held(s, q))
  BY <1>5, <1>6, <1>7 DEF IntakeInv, ListInv, OneChanged, Once, Held
<1>12. Indexed(s)
  <2>1. ASSUME NEW q \in Requests PROVE s.requests[q].idx = server.requests[q].idx
    BY <1>5, <1>6 DEF OneChanged
  <2>2. QED BY <2>1 DEF Indexed
<1>13. /\ ListInv(Parsed(s, r, reading), start, now)
       /\ NoneTimedOut(s, Parsed(s, r, reading))
  BY <1>6, <1>8, <1>10, <1>11, <1>12, ParsedKeeps
<1>14. now' = now /\ start' = start BY DEF handle_get_bosh_request, start
<1>15. NoneTimedOut(server, server')
  BY <1>1, <1>2, <1>5, <1>6, <1>13 DEF NoneTimedOut, OneChanged
<1>16. QED BY <1>1, <1>2, <1>13, <1>14, <1>15 DEF IntakeInv

(* A part is counted, and the callback runs when there are too many.       *)
LEMMA DataKeeps ==
  ASSUME IntakeInv, NEW r \in Requests, OnData(r)
  PROVE  IntakeInv' /\ NoneTimedOut(server, server')
<1>1. PICK x : x = server.requests[r].parts + 1 OBVIOUS
<1>2. PICK s : s = [server EXCEPT !.requests[r].parts = x] OBVIOUS
<1>3. Typed(server) /\ Shape(server) BY DEF IntakeInv, ListInv, Typed
<1>4. s = FieldSet(server, r, "parts", x) BY <1>2 DEF FieldSet
<1>5. OneChanged(server, s, r, "parts", x) BY <1>3, <1>4, FieldChanged
<1>6. Shape(s) /\ Same(server, s) BY <1>5 DEF OneChanged, Same
<1>7. ListInv(s, start, now) BY <1>6, SameKeeps DEF IntakeInv
<1>8. NoneTimedOut(server, s) BY <1>6 DEF Same, NoneTimedOut
<1>9. now' = now /\ start' = start BY DEF OnData, start
<1>10. server' = _on_end_callback(s, {r}, "too-large") \/ server' = s
  BY <1>1, <1>2 DEF OnData
<1>11. CASE server' = s BY <1>7, <1>8, <1>9, <1>11 DEF IntakeInv
<1>12. CASE server' = _on_end_callback(s, {r}, "too-large")
  <2>1. PICK outcome \in Ends : outcome = "too-large" BY DEF Ends, Outcome
  <2>2. Indexed(s) BY <1>6 DEF Same, Indexed
  <2>3. ListInv(server', start, now)
    BY <1>7, <1>12, <2>1, <2>2, CallbackKeeps DEF ListInv
  <2>4. Effect(s, server', First(s, {r}), outcome)
    BY <1>6, <1>12, <2>1, CallbackEffect
  <2>5. NoneTimedOut(s, server') BY <2>1, <2>4 DEF Effect, First, NoneTimedOut
  <2>6. QED BY <1>8, <1>9, <2>3, <2>5 DEF IntakeInv, NoneTimedOut
<1>13. QED BY <1>10, <1>11, <1>12

(* A request that has arrived is read; its callback may have run before.   *)
LEMMA EndKeeps ==
  ASSUME IntakeInv, NEW r \in Requests, OnEnd(r)
  PROVE  IntakeInv' /\ NoneTimedOut(server, server')
<1>1. PICK reading : server' = Parsed(server, r, reading) BY DEF OnEnd
<1>2. Indexed(server) BY DEF Indexed
<1>3. ListInv(server, start, now) BY DEF IntakeInv
<1>4. /\ ListInv(Parsed(server, r, reading), start, now)
      /\ NoneTimedOut(server, Parsed(server, r, reading))
  BY <1>2, <1>3, ParsedKeeps DEF ListInv
<1>5. now' = now /\ start' = start BY DEF OnEnd, start
<1>6. QED BY <1>1, <1>4, <1>5 DEF IntakeInv

(* The remainder goes up with the clock, and back to 0 after Period - 1.   *)
LEMMA NextRemainder ==
  ASSUME NEW n \in Nat
  PROVE  (n + 1) % Period = IF n % Period = Period - 1 THEN 0 ELSE (n % Period) + 1
<1>1. Period \in Nat /\ Period > 0 BY IntakeAssumption
<1>2. PICK q \in Int, m \in 0..(Period - 1) : n = Period * q + m /\ m = n % Period
  <2>1. /\ n \div Period \in Int /\ n % Period \in 0..(Period - 1)
        /\ n = Period * (n \div Period) + (n % Period)
    BY <1>1
  <2>2. QED BY <2>1
<1>3. PICK p \in Int, k \in 0..(Period - 1) : n + 1 = Period * p + k /\ k = (n + 1) % Period
  <2>1. /\ (n + 1) \div Period \in Int /\ (n + 1) % Period \in 0..(Period - 1)
        /\ n + 1 = Period * ((n + 1) \div Period) + ((n + 1) % Period)
    BY <1>1
  <2>2. QED BY <2>1
<1>4. PICK d \in Int : d = p - q BY <1>2, <1>3
<1>5. Period * d = m + 1 - k
  <2>1. Period * d = Period * p - Period * q BY <1>1, <1>2, <1>3, <1>4
  <2>2. PICK a \in Int : a = Period * p BY <1>1, <1>3
  <2>3. PICK b \in Int : b = Period * q BY <1>1, <1>2
  <2>4. n = b + m /\ n + 1 = a + k BY <1>2, <1>3, <2>2, <2>3
  <2>5. a - b = m + 1 - k BY <1>2, <1>3, <2>2, <2>3, <2>4
  <2>6. QED BY <2>1, <2>2, <2>3, <2>5
<1>6. d = 0 \/ d = 1
  <2>1. CASE d >= 2
    <3>1. Period * d >= Period * 2 BY <1>1, <1>4, <2>1
    <3>2. QED BY <1>1, <1>2, <1>3, <1>5, <3>1
  <2>2. CASE d <= -1
    <3>1. Period * d <= -Period BY <1>1, <1>4, <2>2
    <3>2. QED BY <1>1, <1>2, <1>3, <1>5, <3>1
  <2>3. QED BY <1>4, <2>1, <2>2
<1>7. CASE d = 0
  <2>1. k = m + 1 BY <1>1, <1>2, <1>3, <1>5, <1>7
  <2>2. m # Period - 1 BY <1>1, <1>2, <1>3, <2>1
  <2>3. QED BY <1>2, <1>3, <2>1, <2>2
<1>8. CASE d = 1
  <2>1. Period * d = Period BY <1>1, <1>8
  <2>2. k = 0 /\ m = Period - 1 BY <1>1, <1>2, <1>3, <1>5, <2>1
  <2>3. QED BY <1>2, <1>3, <2>2
<1>9. QED BY <1>6, <1>7, <1>8

(* The clock, and handle_request_timeout at the end of a period.  Whoever  *)
(* is timed out came before the period that ends.                          *)
LEMMA TickKeeps ==
  ASSUME IntakeInv, Tick
  PROVE  /\ IntakeInv'
         /\ \A r \in Requests :
              server'.requests[r].state = "timed-out" /\ server.requests[r].state # "timed-out"
              => now' - server.requests[r].born > Period
<1>1. now \in Nat /\ now' = now + 1 /\ now' \in Nat /\ Period \in Nat
  BY IntakeAssumption DEF IntakeInv, Tick
<1>2. start \in Int /\ start <= now BY StartTypes DEF IntakeInv
<1>3. ListInv(server, start, now) BY DEF IntakeInv
<1>4. /\ server' = IF now' % Period = 0 THEN handle_request_timeout(server) ELSE server
      /\ start' = now' - (now' % Period)
  BY DEF Tick, start
<1>5. PICK m \in 0..(Period - 1) : m = now % Period /\ start = now - m
  BY <1>1, IntakeAssumption DEF start
<1>6. now' % Period = IF m = Period - 1 THEN 0 ELSE m + 1
  BY <1>1, <1>5, NextRemainder
<1>7. CASE m # Period - 1
  <2>1. now' % Period = m + 1 /\ m + 1 # 0 BY <1>5, <1>6, <1>7
  <2>2. server' = server /\ start' = start BY <1>1, <1>4, <1>5, <2>1
  <2>3. Entries(server, server.req_list1, start, now')
    <3>1. Typed(server) /\ Entries(server, server.req_list1, start, now)
      BY <1>3 DEF ListInv
    <3>2. ASSUME NEW i \in DOMAIN server.req_list1, server.req_list1[i] \in Requests
          PROVE  server.requests[server.req_list1[i]].born <= now'
      BY <1>1, <3>1, <3>2 DEF Entries, Typed
    <3>3. QED BY <3>1, <3>2 DEF Entries
  <2>4. ListInv(server, start, now') BY <1>3, <2>3 DEF ListInv
  <2>5. QED BY <1>1, <2>2, <2>4 DEF IntakeInv
<1>8. CASE m = Period - 1
  <2>1. now' % Period = 0 BY <1>6, <1>8
  <2>2. start' = start + Period /\ start' = now + 1 BY <1>1, <1>4, <1>5, <1>8, <2>1
  <2>3. PICK R \in SUBSET Requests : R = Callbacks(server.req_list2) BY DEF Callbacks
  <2>4. PICK t : t = _on_end_callback(server, R, "timed-out") OBVIOUS
  <2>5. PICK s : s = server' OBVIOUS
  <2>6. s = [t EXCEPT !.req_list2 = t.req_list1, !.req_list1 = << >>]
    BY <1>4, <2>1, <2>3, <2>4, <2>5 DEF handle_request_timeout
  <2>7. PICK outcome \in Ends : outcome = "timed-out" BY DEF Ends, Outcome
  <2>8. ListInv(t, start, now)
    <3>1. Indexed(server) BY DEF Indexed
    <3>2. QED BY <1>3, <2>4, <2>7, <3>1, CallbackKeeps DEF ListInv
  <2>9. Effect(server, t, First(server, R), outcome)
    BY <1>3, <2>4, <2>7, CallbackEffect DEF ListInv, Typed
  <2>10. Shape(t) BY <2>8 DEF ListInv, Typed
  <2>11. /\ DOMAIN s = DOMAIN t /\ s.requests = t.requests
         /\ s.req_list2 = t.req_list1 /\ s.req_list1 = << >>
    BY <2>6, <2>10 DEF Shape
  <2>12. Typed(s)
    <3>1. Shape(s) BY <2>10, <2>11 DEF Shape
    <3>2. << >> \in Lists BY DEF Lists
    <3>3. QED BY <2>8, <2>11, <3>1, <3>2 DEF ListInv, Typed
  <2>13. Entries(s, s.req_list1, start', now') BY <2>11 DEF Entries
  <2>14. Entries(s, s.req_list2, start' - Period, start' - 1)
    <3>1. start' - Period = start /\ start' - 1 = now BY <1>1, <1>2, <2>2
    <3>2. QED BY <2>8, <2>11, <3>1 DEF ListInv, Entries
  <2>15. ASSUME NEW r \in Requests, t.requests[r].state = "receiving"
         PROVE  In(t.req_list1, r)
    <3>1. r \notin First(server, R) BY <2>7, <2>9, <2>15 DEF Effect, Ends
    <3>2. server.requests[r].state = "receiving" BY <2>9, <2>15, <3>1 DEF Effect
    <3>3. r \notin R BY <3>1, <3>2 DEF First
    <3>4. ~In(server.req_list2, r) BY <2>3, <3>3 DEF Callbacks, In
    <3>5. In(server.req_list1, r) BY <1>3, <3>2, <3>4 DEF ListInv, Held
    <3>6. t.req_list1 = Cleared(server.req_list1, First(server, R)) BY <2>9 DEF Effect
    <3>7. PICK i \in DOMAIN server.req_list1 : server.req_list1[i] = r BY <3>5 DEF In
    <3>8. i \in DOMAIN t.req_list1 /\ t.req_list1[i] = r BY <3>1, <3>6, <3>7 DEF Cleared
    <3>9. QED BY <3>8 DEF In
  <2>16. \A r \in Requests : Held(s, r) /\ Once(s, r)
    BY <2>8, <2>11, <2>15 DEF ListInv, Held, Once
  <2>17. ListInv(s, start', now') BY <2>12, <2>13, <2>14, <2>16 DEF ListInv
  <2>18. ASSUME NEW r \in Requests,
                s.requests[r].state = "timed-out", server.requests[r].state # "timed-out"
         PROVE  now' - server.requests[r].born > Period
    <3>1. r \in First(server, R) BY <2>9, <2>11, <2>18 DEF Effect
    <3>2. PICK i \in DOMAIN server.req_list2 : server.req_list2[i] = r
      BY <2>3, <3>1 DEF First, Callbacks
    <3>3. server.requests[r].born <= start - 1
      BY <1>3, <3>2 DEF ListInv, Entries
    <3>4. server.requests[r].born \in Nat BY <1>3 DEF ListInv, Typed
    <3>5. QED BY <1>1, <1>2, <2>2, <3>3, <3>4
  <2>19. QED BY <1>1, <2>5, <2>17, <2>18 DEF IntakeInv
<1>9. QED BY <1>7, <1>8

(* The server starts with empty lists, in its first period.                *)
LEMMA InitIntake == Init => IntakeInv
<1> SUFFICES ASSUME Init PROVE IntakeInv OBVIOUS
<1>1. now = 0 /\ start = 0
  <2>1. now = 0 BY DEF Init
  <2>2. 0 % Period = 0 BY IntakeAssumption
  <2>3. QED BY <2>1, <2>2 DEF start
<1>2. server = [requests |-> [r \in Requests |->
                               [state |-> "none", born |-> 0, idx |-> 0,
                                parts |-> 0, outcomes |-> 0, says |-> FALSE]],
                req_list1 |-> << >>, req_list2 |-> << >>, parser |-> Fresh]
  BY DEF Init
<1>3. server.req_list1 = << >> /\ server.req_list2 = << >> BY <1>2
<1>4. \A r \in Requests : server.requests[r] =
        [state |-> "none", born |-> 0, idx |-> 0, parts |-> 0, outcomes |-> 0, says |-> FALSE]
  BY <1>2
<1>5. Shape(server) BY <1>2, <1>4 DEF Shape
<1>6. << >> \in Lists BY DEF Lists
<1>7. Typed(server) BY <1>3, <1>4, <1>5, <1>6 DEF Typed, Outcome
<1>8. \A r \in Requests : Held(server, r) /\ Once(server, r) BY <1>4 DEF Held, Once
<1>9. /\ Entries(server, server.req_list1, start, now)
      /\ Entries(server, server.req_list2, start - Period, start - 1)
  BY <1>3 DEF Entries
<1>10. QED BY <1>1, <1>7, <1>8, <1>9 DEF IntakeInv, ListInv

(* What a step may do to requests that are not timed out yet.              *)
InTime ==
  \A r \in Requests :
    server'.requests[r].state = "timed-out" /\ server.requests[r].state # "timed-out"
    => now' - server.requests[r].born > Period

(* Every step keeps the invariant and times out nobody too early.          *)
LEMMA NextIntake ==
  ASSUME IntakeInv, [Next]_vars
  PROVE  IntakeInv' /\ InTime
<1>1. CASE Tick BY <1>1, TickKeeps DEF InTime
<1>2. ASSUME NEW r \in Requests,
             \/ handle_post_bosh_request(r) \/ handle_get_bosh_request(r)
             \/ OnData(r) \/ OnEnd(r)
      PROVE  IntakeInv' /\ InTime
  <2>1. IntakeInv' /\ NoneTimedOut(server, server')
    BY <1>2, PostKeeps, GetKeeps, DataKeeps, EndKeeps
  <2>2. QED BY <2>1 DEF NoneTimedOut, InTime
<1>3. CASE UNCHANGED vars
  <2>1. server' = server /\ now' = now BY <1>3 DEF vars
  <2>2. IntakeInv' BY <2>1 DEF IntakeInv, start
  <2>3. QED BY <2>1, <2>2 DEF InTime
<1>4. QED BY <1>1, <1>2, <1>3 DEF Next
-----------------------------------------------------------------------------
(* The lists hold the callbacks of the requests that still arrive, those   *)
(* of this period in the first and those of the last in the second.        *)
THEOREM IntakeInvariant == Spec => []IntakeInv
<1>1. Init => IntakeInv BY InitIntake
<1>2. IntakeInv /\ [Next]_vars => IntakeInv' BY NextIntake
<1>3. QED BY <1>1, <1>2, PTL DEF Spec

(* A request is handled, refused or dropped: one of them, and once.  'end',*)
(* the limit and the timer race, and the wrapper of _on_end_callback lets  *)
(* the first of them win (http-server.js 142-152).                         *)
THEOREM OneOutcomeEach == Spec => []OneOutcome
<1>1. IntakeInv => OneOutcome BY DEF IntakeInv, ListInv, Once, OneOutcome
<1>2. QED BY <1>1, IntakeInvariant, PTL

(* No request is still arriving after its second period: the swap of the   *)
(* two lists forgets none (http-server.js 294-303).                        *)
THEOREM NoneIsForgotten == Spec => []NoneForgotten
<1>1. IntakeInv => NoneForgotten
  <2> SUFFICES ASSUME IntakeInv, NEW r \in Requests, server.requests[r].state = "receiving"
               PROVE  now - server.requests[r].born < 2 * Period
    BY DEF NoneForgotten
  <2>1. PICK b \in Nat : b = server.requests[r].born BY DEF IntakeInv, ListInv, Typed
  <2>2. now \in Nat /\ start \in Int /\ now < start + Period /\ Period \in Nat
    BY StartTypes, IntakeAssumption DEF IntakeInv
  <2>3. In(server.req_list1, r) \/ In(server.req_list2, r) BY DEF IntakeInv, ListInv, Held
  <2>4. start - Period <= b
    <3>1. CASE In(server.req_list1, r)
      <4>1. start <= b BY <2>1, <3>1 DEF IntakeInv, ListInv, In, Entries
      <4>2. QED BY <2>1, <2>2, <4>1
    <3>2. CASE In(server.req_list2, r)
      BY <2>1, <3>2 DEF IntakeInv, ListInv, In, Entries
    <3>3. QED BY <2>3, <3>1, <3>2
  <2>5. now - b < 2 * Period BY <2>1, <2>2, <2>4
  <2>6. QED BY <2>1, <2>5
<1>2. QED BY <1>1, IntakeInvariant, PTL

(* The lists keep the callbacks of the requests that still arrive, and no  *)
(* other: a callback that ran clears its entry, also when the entry has    *)
(* moved to the second list (http-server.js 145-151).                      *)
THEOREM ListsAreCleared == Spec => []CallbacksCleared
<1>1. IntakeInv => CallbacksCleared
  <2> SUFFICES ASSUME IntakeInv, NEW r \in Requests
               PROVE  server.requests[r].state = "receiving"
                      <=> In(server.req_list1, r) \/ In(server.req_list2, r)
    BY DEF CallbacksCleared, In
  <2>1. server.requests[r].state = "receiving"
        => In(server.req_list1, r) \/ In(server.req_list2, r)
    BY DEF IntakeInv, ListInv, Held
  <2>2. In(server.req_list1, r) => server.requests[r].state = "receiving"
    BY DEF IntakeInv, ListInv, In, Entries
  <2>3. In(server.req_list2, r) => server.requests[r].state = "receiving"
    BY DEF IntakeInv, ListInv, In, Entries
  <2>4. QED BY <2>1, <2>2, <2>3
<1>2. QED BY <1>1, IntakeInvariant, PTL

(* Whoever is timed out had more than a period to arrive in: the timer     *)
(* runs the callbacks of the second list, whose requests came before the   *)
(* period that ends (http-server.js 294-303).                              *)
THEOREM TimeEnough == Spec => TimeToArrive
<1>1. IntakeInv /\ [Next]_vars =>
        [\A r \in Requests :
           /\ server'.requests[r].state = "timed-out"
           /\ server.requests[r].state # "timed-out"
           => now' - server.requests[r].born > Period]_vars
  BY NextIntake DEF InTime
<1>2. QED BY <1>1, IntakeInvariant, PTL DEF Spec, TimeToArrive
-----------------------------------------------------------------------------
(* The parser, for requests of any length.  What it is while it reads is   *)
(* an induction over the request: a fold of Feed.                          *)
Feeding == INSTANCE SequenceLemmas WITH op <- Feed

(* The kinds of fragment.                                                  *)
LEMMA FragmentKinds ==
  ASSUME NEW fragment
  PROVE  /\ fragment \in Open => /\ fragment \in Fragment /\ fragment \notin Close
                                 /\ fragment # Comment /\ fragment # Garbage
         /\ fragment \in Close => /\ fragment \in Fragment /\ fragment \notin Open
                                  /\ -fragment \in Open /\ -(-fragment) = fragment
                                  /\ fragment # Comment /\ fragment # Garbage
BY DEF Fragment, Open, Close, Comment, Garbage, bosh, DUMMY, body, other

(* What a request leaves, field by field.                                  *)
LEMMA LeftFields ==
  ASSUME NEW child \in BOOLEAN, NEW parsed \in {"empty", "body"}
  PROVE  Left(child, parsed) = [expat |-> "inside", open |-> << >>, child |-> child,
                                started_ |-> TRUE, parsedBody |-> parsed]
<1>1. PICK none : none = << >> OBVIOUS
<1>2. PICK t : t = Left(child, parsed) OBVIOUS
<1>3. Fresh = [expat |-> "inside", open |-> none, child |-> FALSE, started_ |-> FALSE,
               parsedBody |-> "null"]
  BY <1>1, Zenon DEF Fresh
<1>4. t = [Fresh EXCEPT !.started_ = TRUE, !.child = child, !.parsedBody = parsed]
  BY <1>2 DEF Left
<1>5. t = [expat |-> "inside", open |-> none, child |-> child, started_ |-> TRUE,
           parsedBody |-> parsed]
  BY <1>3, <1>4
<1>6. QED BY <1>1, <1>2, <1>5, Zenon

(* A fragment leaves the parser well typed, and started if it was.         *)
LEMMA FeedTypes ==
  ASSUME NEW p \in ParserType, NEW fragment \in Fragment
  PROVE  /\ Feed(p, fragment) \in ParserType
         /\ p.started_ => Feed(p, fragment).started_
<1>1. /\ p.open \in Seq(Open) /\ p.child \in BOOLEAN /\ p.started_ \in BOOLEAN
      /\ p.expat \in {"inside", "comment", "closed", "error"}
      /\ p = [expat |-> p.expat, open |-> p.open, child |-> p.child,
              started_ |-> p.started_, parsedBody |-> p.parsedBody]
  BY DEF ParserType
<1>0. ASSUME NEW e \in {"inside", "comment", "closed", "error"},
             Feed(p, fragment) = [p EXCEPT !.expat = e]
      PROVE  /\ Feed(p, fragment) \in ParserType
             /\ p.started_ => Feed(p, fragment).started_
  BY <1>0 DEF ParserType
<1>2. CASE p.expat \in {"comment", "error"}
  <2>1. Feed(p, fragment) = p BY <1>2 DEF Feed
  <2>2. QED BY <2>1
<1>3. CASE p.expat = "closed"
  <2>1. Feed(p, fragment) = [p EXCEPT !.expat = IF fragment = Comment THEN "comment" ELSE "error"]
    BY <1>3 DEF Feed
  <2>2. QED BY <1>0, <2>1
<1>4. CASE p.expat = "inside" /\ fragment = Comment
  <2>1. Feed(p, fragment) = [p EXCEPT !.expat = "comment"]
    BY <1>4 DEF Feed, Comment, Garbage, Open, Close, bosh, DUMMY, body, other
  <2>2. QED BY <1>0, <2>1
<1>5. CASE p.expat = "inside" /\ fragment = Garbage
  <2>1. Feed(p, fragment) = [p EXCEPT !.expat = "error"]
    BY <1>5 DEF Feed, Comment, Garbage, Open, Close, bosh, DUMMY, body, other
  <2>2. QED BY <1>0, <2>1
<1>6. CASE p.expat = "inside" /\ fragment \in Open
  <2>1. Feed(p, fragment) = _handle_start_element(p, fragment)
    BY <1>6, FragmentKinds DEF Feed
  <2>2. Append(p.open, fragment) \in Seq(Open) BY <1>1, <1>6
  <2>3. QED BY <1>1, <2>1, <2>2 DEF _handle_start_element, ParserType
<1>7. CASE p.expat = "inside" /\ fragment \in Close
  <2>1. Feed(p, fragment) = _handle_end_element(p, -fragment)
    BY <1>7, FragmentKinds DEF Feed
  <2>2. p.open # << >> => Front(p.open) \in Seq(Open)
    <3> SUFFICES ASSUME p.open # << >> PROVE SubSeq(p.open, 1, Len(p.open) - 1) \in Seq(Open)
      BY DEF Front
    <3>1. \A i \in 1..Len(p.open) : p.open[i] \in Open BY <1>1, ElementOfSeq
    <3>2. QED BY <1>1, <3>1, SubSeqProperties
  <2>3. CASE p.open = << >>
    <3>1. _handle_end_element(p, -fragment) \in
            {[p EXCEPT !.expat = "closed", !.parsedBody = "null"], [p EXCEPT !.expat = "error"]}
      BY <2>3 DEF _handle_end_element
    <3>2. QED BY <2>1, <3>1 DEF ParserType
  <2>4. CASE p.open # << >>
    <3>1. _handle_end_element(p, -fragment) \in
            {[p EXCEPT !.expat = "error"], [p EXCEPT !.open = Front(p.open)],
             [p EXCEPT !.open = << >>, !.parsedBody = IF p.child THEN "body" ELSE "empty"]}
      BY <2>4 DEF _handle_end_element
    <3>2. << >> \in Seq(Open) OBVIOUS
    <3>3. CASE Feed(p, fragment) = [p EXCEPT !.expat = "error"] BY <1>0, <3>3
    <3>4. CASE Feed(p, fragment) = [p EXCEPT !.open = Front(p.open)]
      <4>1. PICK front \in Seq(Open) : front = Front(p.open) BY <2>2, <2>4
      <4>2. Feed(p, fragment) = [p EXCEPT !.open = front] BY <3>4, <4>1
      <4>3. QED BY <4>2 DEF ParserType
    <3>5. CASE Feed(p, fragment) = [p EXCEPT !.open = << >>,
                                    !.parsedBody = IF p.child THEN "body" ELSE "empty"]
      BY <1>1, <3>2, <3>5 DEF ParserType
    <3>6. QED BY <2>1, <3>1, <3>3, <3>4, <3>5
  <2>5. QED BY <2>3, <2>4
<1>8. QED BY <1>1, <1>2, <1>3, <1>4, <1>5, <1>6, <1>7 DEF Fragment

(* parse, as the fold of Feed that it is.                                  *)
LEMMA ParseFolds ==
  ASSUME NEW p, NEW fragments
  PROVE  parse(p, fragments) = Feeding!Fold([p EXCEPT !.parsedBody = "null"], fragments)
BY Zenon DEF parse, Feeding!Fold, FoldLeft, Feeding!FoldLeft, MapThenFoldSet,
             Feeding!MapThenFoldSet, Max, Feeding!Max

(* A whole text leaves it so, too.                                         *)
LEMMA ParseTypes ==
  ASSUME NEW p \in ParserType, NEW fragments \in Seq(Fragment)
  PROVE  /\ parse(p, fragments) \in ParserType
         /\ p.started_ => parse(p, fragments).started_
<1> DEFINE q == [p EXCEPT !.parsedBody = "null"]
           n == Len(fragments)
           States == {t \in ParserType : p.started_ => t.started_}
           Good == [i \in 0..n |-> States]
<1>1. n \in Nat /\ DOMAIN fragments = 1..n /\ \A i \in 1..n : fragments[i] \in Fragment
  BY ElementOfSeq
<1>2. q \in States BY DEF ParserType
<1>3. \A t \in States, fragment \in Fragment : Feed(t, fragment) \in States BY FeedTypes
<1> HIDE DEF q, States
<1>4. q \in Good[0] BY <1>1, <1>2
<1>5. \A i \in 1..n : \A t \in Good[i - 1] : Feed(t, fragments[i]) \in Good[i]
  BY <1>1, <1>3
<1> HIDE DEF Good, n
<1>6. Feeding!Fold(q, fragments) \in Good[n] BY <1>1, <1>4, <1>5, Feeding!FoldLeftReaches
<1>7. Feeding!Fold(q, fragments) \in States BY <1>1, <1>6 DEF Good
<1>8. parse(p, fragments) \in States BY <1>7, ParseFolds DEF q
<1>9. QED BY <1>8 DEF States

(* A text of one fragment is that fragment.                                *)
LEMMA ParseOne ==
  ASSUME NEW p, NEW fragment
  PROVE  parse(p, << fragment >>) = Feed([p EXCEPT !.parsedBody = "null"], fragment)
<1> DEFINE q == [p EXCEPT !.parsedBody = "null"]
           Good == [i \in 0..1 |-> IF i = 0 THEN {q} ELSE {Feed(q, fragment)}]
           seq == << fragment >>
<1>1. DOMAIN seq = 1..1 /\ seq[1] = fragment OBVIOUS
<1> HIDE DEF q, seq
<1>2. Good[0] = {q} /\ Good[1] = {Feed(q, fragment)} OBVIOUS
<1> HIDE DEF Good
<1>3. \A i \in 1..1 : \A t \in Good[i - 1] : Feed(t, seq[i]) \in Good[i]
  BY <1>1, <1>2
<1>4. Feeding!Fold(q, seq) \in Good[1]
  BY <1>1, <1>2, <1>3, Feeding!FoldLeftReaches
<1>5. QED BY <1>2, <1>4, ParseFolds DEF q, seq

(* The parsers that requests can leave behind.                             *)
LeftBehind == {Fresh, Left(FALSE, "empty"), Left(TRUE, "body")}

(* Whatever a request says, it leaves one of these: nothing is open, and   *)
(* if the end of its wrapper did not come to be read, the parser is a new  *)
(* one.                                                                    *)
LEMMA RequestLeaves ==
  ASSUME NEW p \in LeftBehind, NEW buffer \in Seq(Fragment)
  PROVE  parse_request(p, buffer).parser \in LeftBehind
<1> DEFINE begun == parse(p, << DUMMY >>)
           read == parse(begun, buffer)
           ended == parse(read, << -DUMMY >>)
<1>1. << >> \in Seq(Open) OBVIOUS
<1>2. p \in ParserType /\ p.expat = "inside"
  <2>1. Fresh \in ParserType /\ Fresh.expat = "inside" BY <1>1 DEF Fresh, ParserType
  <2>2. ASSUME NEW child \in BOOLEAN, NEW parsed \in {"empty", "body"}
        PROVE  Left(child, parsed) \in ParserType /\ Left(child, parsed).expat = "inside"
    BY <2>1, <2>2 DEF Left, ParserType
  <2>3. QED BY <2>1, <2>2 DEF LeftBehind
<1>3. begun \in ParserType /\ begun.started_
  <2> DEFINE q == [p EXCEPT !.parsedBody = "null"]
  <2>1. q \in ParserType /\ q.expat = "inside" BY <1>2 DEF ParserType
  <2>2. /\ DUMMY \in Fragment /\ DUMMY \in Open /\ DUMMY \notin Close
        /\ DUMMY # Comment /\ DUMMY # Garbage
    BY FragmentKinds DEF Open
  <2>3. begun = Feed(q, DUMMY) BY ParseOne
  <2> HIDE DEF q, begun
  <2>4. Feed(q, DUMMY) = _handle_start_element(q, DUMMY)
    BY <2>1, <2>2 DEF Feed
  <2>5. _handle_start_element(q, DUMMY).started_ BY <2>1 DEF _handle_start_element, ParserType
  <2>6. QED BY <2>1, <2>2, <2>3, <2>4, <2>5, FeedTypes
<1> HIDE DEF begun
<1>4. read \in ParserType /\ read.started_ BY <1>3, ParseTypes
<1> HIDE DEF read
<1>5. parse_request(p, buffer).parser =
        IF ~Valid(read) \/ ~Valid(ended) \/ ended.parsedBody = "null" THEN Fresh ELSE ended
  BY DEF parse_request, read, begun
<1>6. ASSUME Valid(ended), ended.parsedBody # "null"
      PROVE  ended \in LeftBehind
  <2> DEFINE q == [read EXCEPT !.parsedBody = "null"]
  <2>1. /\ q \in ParserType /\ q.started_ = TRUE /\ q.parsedBody = "null"
        /\ q.expat \in {"inside", "comment", "closed", "error"}
    BY <1>4 DEF ParserType
  <2>2. ended = Feed(q, -DUMMY) BY ParseOne
  <2>3. /\ -DUMMY \in Close /\ -DUMMY # Comment /\ -DUMMY # Garbage /\ -DUMMY \notin Open
        /\ -(-DUMMY) = 2
    <3>1. -DUMMY \in Close
      <4>1. DUMMY \in Open BY DEF Open
      <4>2. QED BY <4>1 DEF Close
    <3>2. -(-DUMMY) = 2
      <4>1. DUMMY = 2 BY DEF DUMMY
      <4>2. \A n \in Int : -(-n) = n OBVIOUS
      <4>3. DUMMY \in Int BY <4>1
      <4>4. -(-DUMMY) = DUMMY BY <4>2, <4>3, Zenon
      <4>5. QED BY <4>1, <4>4
    <3>3. QED BY <3>1, <3>2, FragmentKinds
  <2> HIDE DEF q, ended
  <2>4. q.expat = "inside"
    <3>1. q.expat \in {"comment", "error"} => ended = q BY <2>2 DEF Feed
    <3>2. q.expat = "closed" => ended = [q EXCEPT !.expat = "error"] BY <2>2, <2>3 DEF Feed
    <3>3. [q EXCEPT !.expat = "error"].expat = "error" BY <2>1 DEF ParserType
    <3>4. QED BY <1>6, <2>1, <3>1, <3>2, <3>3 DEF Valid
  <2>5. Feed(q, -DUMMY) = _handle_end_element(q, 2)
    BY <2>3, <2>4 DEF Feed
  <2>6. /\ q.open # << >> /\ Last(q.open) = 2 /\ ~(Len(q.open) > 1)
    BY <1>6, <2>1, <2>2, <2>5 DEF _handle_end_element, Valid, ParserType, bosh
  <2>7. ended = [q EXCEPT !.open = << >>, !.parsedBody = IF q.child THEN "body" ELSE "empty"]
    BY <2>2, <2>5, <2>6 DEF _handle_end_element
  <2>8. ended = [expat |-> "inside", open |-> << >>, child |-> q.child, started_ |-> TRUE,
                 parsedBody |-> IF q.child THEN "body" ELSE "empty"]
    BY <2>1, <2>4, <2>7 DEF ParserType
  <2>9. q.child \in BOOLEAN BY <2>1 DEF ParserType
  <2>10. CASE q.child = TRUE
    BY <2>8, <2>10, LeftFields DEF LeftBehind
  <2>11. CASE q.child = FALSE
    BY <2>8, <2>11, LeftFields DEF LeftBehind
  <2>12. QED BY <2>9, <2>10, <2>11
<1> HIDE DEF ended
<1>7. QED BY <1>5, <1>6 DEF LeftBehind

ParserInv == server.parser \in LeftBehind

(* A callback does not touch the parser.                                   *)
LEMMA CallbackKeepsParser ==
  ASSUME NEW s, Shape(s), NEW R, NEW outcome
  PROVE  _on_end_callback(s, R, outcome).parser = s.parser
<1> DEFINE first == {r \in R : s.requests[r].state = "receiving"}
<1>1. PICK d : d = Decided(s, first, outcome) OBVIOUS
<1>2. d.parser = s.parser BY <1>1 DEF Decided, Shape
<1>3. _on_end_callback(s, R, outcome) =
        [d EXCEPT !.req_list1 = Cleared(@, first), !.req_list2 = Cleared(@, first)]
  BY <1>1 DEF _on_end_callback
<1>4. QED BY <1>2, <1>3

(* What is parsed leaves one of the parsers behind.                        *)
LEMMA ParsedLeaves ==
  ASSUME NEW s, Shape(s), s.parser \in LeftBehind, NEW r, NEW reading \in Read[s.parser]
  PROVE  Parsed(s, r, reading).parser \in LeftBehind
<1>1. reading \in Readings(s.parser) BY DEF Read, LeftBehind
<1>2. PICK buffer \in BoundedSeq(Fragment, MaxLength) :
        reading = [after |-> parse_request(s.parser, buffer), says |-> Accepted(buffer)]
  BY <1>1, Zenon DEF Readings
<1>3. buffer \in Seq(Fragment)
  BY LengthAssumption DEF BoundedSeq, SeqOf
<1>4. reading.after.parser \in LeftBehind BY <1>2, <1>3, RequestLeaves
<1> DEFINE outcome == IF reading.after.result = "body" THEN "handled" ELSE "bad-request"
<1>5. PICK t : t = _on_end_callback(s, {r}, outcome) OBVIOUS
<1>6. Parsed(s, r, reading) = IF t = s THEN s
        ELSE [t EXCEPT !.parser = reading.after.parser, !.requests[r].says = reading.says]
  BY <1>5 DEF Parsed
<1>7. t # s => "parser" \in DOMAIN t
  <2>1. PICK d : d = Decided(s, {q \in {r} : s.requests[q].state = "receiving"}, outcome)
    OBVIOUS
  <2>2. DOMAIN d = DOMAIN s BY <2>1 DEF Decided
  <2>3. DOMAIN t = DOMAIN d BY <1>5, <2>1 DEF _on_end_callback
  <2>4. QED BY <2>2, <2>3 DEF Shape
<1>8. QED BY <1>4, <1>6, <1>7

(* Every step leaves one of them.                                          *)
LEMMA NextParser ==
  ASSUME IntakeInv, ParserInv, [Next]_vars
  PROVE  ParserInv'
<1>1. Shape(server) BY DEF IntakeInv, ListInv, Typed
<1>2. ASSUME NEW r \in Requests, handle_post_bosh_request(r) PROVE ParserInv'
  BY <1>1, <1>2 DEF handle_post_bosh_request, ParserInv, Shape
<1>3. ASSUME NEW r \in Requests, handle_get_bosh_request(r) PROVE ParserInv'
  <2> DEFINE s == [server EXCEPT !.requests[r].state = "receiving"]
  <2>1. Shape(s) /\ s.parser = server.parser BY <1>1 DEF Shape
  <2>2. PICK reading \in Read[server.parser] : server' = Parsed(s, r, reading)
    BY <1>3 DEF handle_get_bosh_request
  <2> HIDE DEF s
  <2>3. QED BY <2>1, <2>2, ParsedLeaves DEF ParserInv
<1>4. ASSUME NEW r \in Requests, OnData(r) PROVE ParserInv'
  <2> DEFINE s == [server EXCEPT !.requests[r].parts = @ + 1]
  <2>1. Shape(s) /\ s.parser = server.parser BY <1>1 DEF Shape
  <2>2. server' = _on_end_callback(s, {r}, "too-large") \/ server' = s
    BY <1>4 DEF OnData
  <2> HIDE DEF s
  <2>3. QED BY <2>1, <2>2, CallbackKeepsParser DEF ParserInv
<1>5. ASSUME NEW r \in Requests, OnEnd(r) PROVE ParserInv'
  BY <1>1, <1>5, ParsedLeaves DEF OnEnd, ParserInv
<1>6. CASE Tick
  <2>1. PICK t : t = _on_end_callback(server, Callbacks(server.req_list2), "timed-out")
    OBVIOUS
  <2>2. t.parser = server.parser BY <1>1, <2>1, CallbackKeepsParser
  <2>3. handle_request_timeout(server) =
          [t EXCEPT !.req_list2 = t.req_list1, !.req_list1 = << >>]
    BY <2>1 DEF handle_request_timeout
  <2>4. handle_request_timeout(server).parser = server.parser BY <2>2, <2>3
  <2>5. QED BY <1>6, <2>4 DEF Tick, ParserInv
<1>7. CASE UNCHANGED vars BY <1>7 DEF vars, ParserInv
<1>8. QED BY <1>2, <1>3, <1>4, <1>5, <1>6, <1>7 DEF Next

(* A request leaves nothing behind for the next, whatever its text: the    *)
(* parser is inside <bosh> and nothing is open when it is reused, so that  *)
(* the assertion at bosh-request-parser.js 74 holds.                       *)
THEOREM ParserIsClean == Spec => []ParserClean
<1>1. Init => ParserInv BY DEF Init, ParserInv, LeftBehind
<1>2. IntakeInv /\ ParserInv /\ [Next]_vars => ParserInv' BY NextParser
<1>3. ParserInv => ParserClean
  <2>1. << >> \in Seq(Open) OBVIOUS
  <2>2. Clean(Fresh) BY <2>1 DEF Fresh, Clean, ParserType
  <2>3. ASSUME NEW child \in BOOLEAN, NEW parsed \in {"empty", "body"}
        PROVE  Clean(Left(child, parsed))
    <3>1. PICK none \in Seq(Open) : none = << >> BY <2>1
    <3>2. Left(child, parsed) = [expat |-> "inside", open |-> none, child |-> child,
                                 started_ |-> TRUE, parsedBody |-> parsed]
      BY <3>1, LeftFields
    <3>3. QED BY <3>1, <3>2 DEF Clean, ParserType
  <2>4. QED BY <2>2, <2>3 DEF ParserInv, LeftBehind, ParserClean
<1>4. QED BY <1>1, <1>2, <1>3, IntakeInvariant, PTL DEF Spec

-----------------------------------------------------------------------------
(* The WebSocket front end.                                                *)

(* What has been sent ends with the close tag, and who has sent it knows.  *)
ClosedLast(w) ==
  \A i \in DOMAIN w.sent : w.sent[i] = "close" => w.terminated /\ i = Len(w.sent)

(* The connector has been told of the end only if the stream cannot end    *)
(* again: it is closed, or its connection is.                              *)
EndedOnce(w) ==
  \/ w.ends = 0
  \/ w.ends = 1 /\ w.terminated /\ (w.stream_state = "closed" \/ w.conn = "closed")

(* A connection that has closed is pinged no more.                         *)
TimerOff(w) == w.conn = "closed" => ~w.pinging

(* The connector has a stream only if the client's stream tag has come and *)
(* its close tag has not; and a client that is still heard, though the     *)
(* stream was ended from this side, has none.                              *)
StreamKnown(w) ==
  /\ w.stream_state = "unopened" => w.xmpp = "none"
  /\ w.stream_state = "closed" => w.xmpp # "open"
  /\ w.conn = "none" => w.stream_state = "unopened" /\ ~w.known /\ ~w.terminated
  /\ w.conn \in {"open", "closing"} /\ w.terminated /\ ~w.garbled =>
       w.xmpp # "open" /\ w.stream_state # "unopened"
  /\ w.conn # "none" /\ ~w.known => w.xmpp # "open"
  /\ w.conn \in {"open", "closing"} /\ ~w.known => w.stream_state = "closed"
  /\ w.conn = "closed" => ~w.known

Active == {c \in Conns : ws[c].xmpp # "none" /\ ws[c].conn # "closed"}

(* The count is an upper bound of the connections with a stream.           *)
Counted == IsFiniteSet(Active) /\ active <= Cardinality(Active)

SocketInv ==
  \A c \in Conns : ClosedLast(ws[c]) /\ EndedOnce(ws[c]) /\ TimerOff(ws[c])

StreamInv == Counted /\ \A c \in Conns : StreamKnown(ws[c])
-----------------------------------------------------------------------------
(* Types.                                                                  *)

(* The handlers of the connector's events keep the type.                   *)
LEMMA HandlerTypes ==
  ASSUME NEW w \in SocketType
  PROVE  /\ \A what \in {"open", "response", "close"} : response(w, what) \in SocketType
         /\ on_terminate(w) \in SocketType
         /\ stream_terminate(w) \in SocketType
<1>1. ASSUME NEW what \in {"open", "response", "close"} PROVE response(w, what) \in SocketType
  <2>1. Append(w.sent, what) \in Seq({"open", "response", "close"}) BY DEF SocketType
  <2>2. QED BY <2>1 DEF response, SocketType
<1>2. on_terminate(w) \in SocketType
  <2>1. response(w, "close") \in SocketType BY <1>1
  <2>2. QED BY <2>1 DEF on_terminate, SocketType
<1>3. stream_terminate(w) \in SocketType
  <2>1. ASSUME NEW n \in Nat, NEW x \in {"none", "open", "over"}
        PROVE  [w EXCEPT !.ends = n, !.xmpp = x] \in SocketType
    BY DEF SocketType
  <2>2. w.xmpp \in {"none", "open", "over"} /\ w.ends + 1 \in Nat BY DEF SocketType
  <2>3. QED BY <2>1, <2>2 DEF stream_terminate
<1>4. QED BY <1>1, <1>2, <1>3

(* Marking a connection keeps the type.                                    *)
LEMMA MarkTypes ==
  ASSUME NEW w \in SocketType
  PROVE  /\ [w EXCEPT !.terminated = TRUE] \in SocketType
         /\ [w EXCEPT !.xmpp = "open"] \in SocketType
         /\ [w EXCEPT !.xmpp = "over"] \in SocketType
         /\ [w EXCEPT !.stream_state = "opened"] \in SocketType
         /\ [w EXCEPT !.stream_state = "closed"] \in SocketType
         /\ [w EXCEPT !.known = FALSE, !.conn = "closing"] \in SocketType
         /\ [w EXCEPT !.conn = "closed", !.known = FALSE, !.pinging = FALSE] \in SocketType
BY DEF SocketType

(* An action changes the record of one connection.                         *)
LEMMA OneChange ==
  ASSUME SocketTypeOK, NEW c \in Conns, NEW w, ws' = [ws EXCEPT ![c] = w]
  PROVE  /\ ws'[c] = w /\ \A d \in Conns : d # c => ws'[d] = ws[d]
         /\ w \in SocketType => ws' \in [Conns -> SocketType]
BY DEF SocketTypeOK

-----------------------------------------------------------------------------
(* The actions as steps from a record v to a record w.                     *)

Connects(v, w) ==
  v.conn = "none" /\ w = [v EXCEPT !.conn = "open", !.known = TRUE, !.pinging = Pings]

Closed(v) == [v EXCEPT !.conn = "closed", !.known = FALSE, !.pinging = FALSE]

Closes(v, w) ==
  /\ v.conn \in {"open", "closing", "destroyed"}
  /\ \/ /\ v.known /\ v.stream_state # "closed"
        /\ w = [stream_terminate(Closed(v)) EXCEPT !.terminated = TRUE]
     \/ ~(v.known /\ v.stream_state # "closed") /\ w = Closed(v)

Heard(v) ==
  v.conn \in {"open", "closing"} /\ v.messages < MaxMessages /\ (GoesOn \/ ~v.garbled)

Opened(v) == [MessageRead(v) EXCEPT !.stream_state = "opened"]

Opens(v, w) ==
  /\ Heard(v) /\ v.stream_state = "unopened"
  /\ \/ w = [Opened(v) EXCEPT !.xmpp = "open"]
     \/ w = on_terminate([Opened(v) EXCEPT !.xmpp = "over"])

Ignores(v, w) == Heard(v) /\ v.stream_state # "unopened" /\ w = MessageRead(v)

Garbles(v, w) ==
  Heard(v) /\ w = [MessageRead(v) EXCEPT !.terminated = TRUE, !.conn = "closing", !.garbled = TRUE]

StreamClosed(v) == [MessageRead(v) EXCEPT !.stream_state = "closed"]

EndsStream(v, w) ==
  /\ Heard(v) /\ v.stream_state # "closed"
  /\ \/ v.terminated /\ w = [StreamClosed(v) EXCEPT !.known = FALSE, !.conn = "closing"]
     \/ /\ ~v.terminated
        /\ w = [response(stream_terminate(StreamClosed(v)), "close") EXCEPT !.terminated = TRUE]

Pinged(v, w) ==
  \/ v.pongs < MaxPongs /\ w = [v EXCEPT !.missed = 0, !.ponged = TRUE, !.pongs = @ + 1]
  \/ w = [v EXCEPT !.terminated = TRUE, !.conn = "destroyed", !.pinging = FALSE] /\ v.pinging
  \/ v.missed < 2 /\ w = [v EXCEPT !.missed = @ + 1]

Responds(v, w) ==
  /\ v.events < MaxEvents
  /\ \E what \in {"open", "response"} : w = [response(v, what) EXCEPT !.events = @ + 1]

Terminates(v, w) == v.xmpp = "open" /\ w = on_terminate([v EXCEPT !.xmpp = "over"])

(* d is what the count of active streams gains.                            *)
Moves(v, w, d) ==
  \/ d = 1 /\ Opens(v, w)
  \/ d = -1 /\ Closes(v, w)
  \/ /\ d = 0
     /\ \/ Connects(v, w) \/ Ignores(v, w) \/ Garbles(v, w) \/ EndsStream(v, w)
        \/ Pinged(v, w) \/ Responds(v, w) \/ Terminates(v, w)

Step(c, w, d) == ws' = [ws EXCEPT ![c] = w] /\ active' = active + d /\ Moves(ws[c], w, d)

(* Every action is a step of one connection.                               *)
LEMMA NextSteps ==
  ASSUME SocketTypeOK, SocketNext
  PROVE  \E c \in Conns : \E w : \E d \in {-1, 0, 1} : Step(c, w, d)
<1> DEFINE Goal(c) == \E w : \E d \in {-1, 0, 1} : Step(c, w, d)
<1>0. active \in Int /\ active + 0 = active /\ active + (-1) = active - 1 BY DEF SocketTypeOK
<1>1. ASSUME NEW c \in Conns, Connection(c) PROVE Goal(c)
  <2>1. PICK w : w = [ws[c] EXCEPT !.conn = "open", !.known = TRUE, !.pinging = Pings] OBVIOUS
  <2>2. Connects(ws[c], w) BY <1>1, <2>1 DEF Connection, Connects
  <2>3. Step(c, w, 0) BY <1>0, <1>1, <2>1, <2>2 DEF Connection, Step, Moves
  <2>4. QED BY <2>3
<1>2. ASSUME NEW c \in Conns, ConnClosed(c) PROVE Goal(c)
  <2>1. PICK w : ws' = [ws EXCEPT ![c] = w] /\ Closes(ws[c], w)
    BY <1>2 DEF ConnClosed, Closes, Closed
  <2>2. Step(c, w, -1) BY <1>0, <1>2, <2>1 DEF ConnClosed, Step, Moves
  <2>3. QED BY <2>2
<1>3. ASSUME NEW c \in Conns, OpenMessage(c) PROVE Goal(c)
  <2>1. Heard(ws[c]) BY <1>3 DEF OpenMessage, MayArrive, Heard
  <2>2. CASE ws[c].stream_state # "unopened"
    <3>1. PICK w : w = MessageRead(ws[c]) OBVIOUS
    <3>2. Step(c, w, 0) BY <1>0, <1>3, <2>1, <2>2, <3>1 DEF OpenMessage, Step, Moves, Ignores
    <3>3. QED BY <3>2
  <2>3. CASE ws[c].stream_state = "unopened"
    <3>1. active' = active + 1 BY <1>3, <2>3 DEF OpenMessage
    <3>2. PICK w : ws' = [ws EXCEPT ![c] = w] /\ Opens(ws[c], w)
      BY <1>3, <2>1, <2>3 DEF OpenMessage, Opens, Opened
    <3>3. Step(c, w, 1) BY <3>1, <3>2 DEF Step, Moves
    <3>4. QED BY <3>3
  <2>4. QED BY <2>2, <2>3
<1>4. ASSUME NEW c \in Conns, InvalidMessage(c) PROVE Goal(c)
  <2>1. Heard(ws[c]) BY <1>4 DEF InvalidMessage, MayArrive, Heard
  <2>2. PICK w : w = [MessageRead(ws[c]) EXCEPT !.terminated = TRUE, !.conn = "closing", !.garbled = TRUE]
    OBVIOUS
  <2>3. Step(c, w, 0) BY <1>0, <1>4, <2>1, <2>2 DEF InvalidMessage, Step, Moves, Garbles
  <2>4. QED BY <2>3
<1>5. ASSUME NEW c \in Conns, CloseMessage(c) PROVE Goal(c)
  <2>1. Heard(ws[c]) /\ active' = active + 0 BY <1>0, <1>5 DEF CloseMessage, MayArrive, Heard
  <2>2. CASE ws[c].stream_state = "closed"
    <3>1. PICK w : w = MessageRead(ws[c]) OBVIOUS
    <3>2. Ignores(ws[c], w) BY <2>1, <2>2, <3>1 DEF Ignores
    <3>3. Step(c, w, 0) BY <1>5, <2>1, <2>2, <3>1, <3>2 DEF CloseMessage, Step, Moves
    <3>4. QED BY <3>3
  <2>3. CASE ws[c].stream_state # "closed" /\ ws[c].terminated
    <3>1. PICK w : w = [StreamClosed(ws[c]) EXCEPT !.known = FALSE, !.conn = "closing"] OBVIOUS
    <3>2. EndsStream(ws[c], w) BY <2>1, <2>3, <3>1 DEF EndsStream
    <3>3. ws' = [ws EXCEPT ![c] = w] BY <1>5, <2>3, <3>1 DEF CloseMessage, StreamClosed
    <3>4. QED BY <2>1, <3>2, <3>3 DEF Step, Moves
  <2>4. CASE ws[c].stream_state # "closed" /\ ~ws[c].terminated
    <3>1. PICK w : w = [response(stream_terminate(StreamClosed(ws[c])), "close")
                          EXCEPT !.terminated = TRUE]
      OBVIOUS
    <3>2. EndsStream(ws[c], w) BY <2>1, <2>4, <3>1 DEF EndsStream
    <3>3. ws' = [ws EXCEPT ![c] = w] BY <1>5, <2>4, <3>1, Zenon DEF CloseMessage, StreamClosed
    <3>4. QED BY <2>1, <3>2, <3>3 DEF Step, Moves
  <2>5. QED BY <2>2, <2>3, <2>4
<1>6. ASSUME NEW c \in Conns, Pong(c) \/ PingTimer(c) PROVE Goal(c)
  <2>1. CASE Pong(c)
    <3>1. PICK w : w = [ws[c] EXCEPT !.missed = 0, !.ponged = TRUE, !.pongs = @ + 1] OBVIOUS
    <3>2. Pinged(ws[c], w) BY <2>1, <3>1 DEF Pong, Pinged
    <3>3. Step(c, w, 0) BY <1>0, <2>1, <3>1, <3>2 DEF Pong, Step, Moves
    <3>4. QED BY <3>3
  <2>2. CASE PingTimer(c) /\ ws' = [ws EXCEPT ![c] = [@ EXCEPT !.terminated = TRUE,
                                                  !.conn = "destroyed", !.pinging = FALSE]]
    <3>1. PICK w : w = [ws[c] EXCEPT !.terminated = TRUE, !.conn = "destroyed", !.pinging = FALSE]
      OBVIOUS
    <3>2. Pinged(ws[c], w) BY <2>2, <3>1 DEF PingTimer, Pinged
    <3>3. Step(c, w, 0) BY <1>0, <2>2, <3>1, <3>2 DEF PingTimer, Step, Moves
    <3>4. QED BY <3>3
  <2>3. CASE PingTimer(c) /\ ws[c].missed < 2 /\ ws' = [ws EXCEPT ![c].missed = @ + 1]
    <3>1. PICK w : w = [ws[c] EXCEPT !.missed = @ + 1] OBVIOUS
    <3>2. Pinged(ws[c], w) BY <2>3, <3>1 DEF Pinged
    <3>3. Step(c, w, 0) BY <1>0, <2>3, <3>1, <3>2 DEF PingTimer, Step, Moves
    <3>4. QED BY <3>3
  <2>4. QED BY <1>6, <2>1, <2>2, <2>3 DEF PingTimer
<1>7. ASSUME NEW c \in Conns, NEW what \in {"open", "response"}, ConnectorResponds(c, what)
      PROVE  Goal(c)
  <2>1. PICK w : w = [response(ws[c], what) EXCEPT !.events = @ + 1] OBVIOUS
  <2>2. Responds(ws[c], w) BY <1>7, <2>1 DEF ConnectorResponds, Responds
  <2>3. Moves(ws[c], w, 0) BY <2>2 DEF Moves
  <2>4. ws' = [ws EXCEPT ![c] = w] /\ active' = active + 0
    BY <1>0, <1>7, <2>1 DEF ConnectorResponds
  <2>5. QED BY <2>3, <2>4 DEF Step
<1>8. ASSUME NEW c \in Conns, ConnectorTerminates(c) PROVE Goal(c)
  <2>1. PICK w : w = on_terminate([ws[c] EXCEPT !.xmpp = "over"]) OBVIOUS
  <2>2. Step(c, w, 0) BY <1>0, <1>8, <2>1 DEF ConnectorTerminates, Step, Moves, Terminates
  <2>3. QED BY <2>2
<1> HIDE DEF Goal
<1>9. \E c \in Conns : Goal(c) BY <1>1, <1>2, <1>3, <1>4, <1>5, <1>6, <1>7, <1>8 DEF SocketNext
<1>10. QED BY <1>9 DEF Goal

(* Every reachable state is well typed.                                    *)
THEOREM SocketTypeCorrect == SocketSpec => []SocketTypeOK
<1>1. SocketInit => SocketTypeOK BY SocketAssumption DEF SocketInit, SocketTypeOK, SocketType
<1>2. ASSUME NEW v \in SocketType, NEW w, NEW d, Moves(v, w, d) PROVE w \in SocketType
  <2> USE SocketAssumption
  <2>1. Heard(v) => MessageRead(v) \in SocketType BY DEF Heard, MessageRead, SocketType
  <2>2. CASE Opens(v, w)
    <3>1. Opened(v) \in SocketType BY <2>1, <2>2, MarkTypes DEF Opens, Opened
    <3>2. /\ [Opened(v) EXCEPT !.xmpp = "open"] \in SocketType
          /\ [Opened(v) EXCEPT !.xmpp = "over"] \in SocketType
      BY <3>1, MarkTypes
    <3>3. QED BY <2>2, <3>2, HandlerTypes DEF Opens
  <2>3. CASE Closes(v, w)
    <3>1. Closed(v) \in SocketType BY MarkTypes DEF Closed
    <3>2. stream_terminate(Closed(v)) \in SocketType BY <3>1, HandlerTypes
    <3>3. [stream_terminate(Closed(v)) EXCEPT !.terminated = TRUE] \in SocketType
      BY <3>2, MarkTypes
    <3>4. QED BY <2>3, <3>1, <3>3 DEF Closes
  <2>4. CASE Connects(v, w) BY <2>4 DEF Connects, SocketType
  <2>5. CASE Ignores(v, w) BY <2>1, <2>5 DEF Ignores
  <2>6. CASE Garbles(v, w)
    <3>1. MessageRead(v) \in SocketType BY <2>1, <2>6 DEF Garbles
    <3>2. QED BY <2>6, <3>1 DEF Garbles, SocketType
  <2>7. CASE EndsStream(v, w)
    <3>1. StreamClosed(v) \in SocketType BY <2>1, <2>7, MarkTypes DEF EndsStream, StreamClosed
    <3>2. [StreamClosed(v) EXCEPT !.known = FALSE, !.conn = "closing"] \in SocketType
      BY <3>1, MarkTypes
    <3>3. stream_terminate(StreamClosed(v)) \in SocketType BY <3>1, HandlerTypes
    <3>4. response(stream_terminate(StreamClosed(v)), "close") \in SocketType
      BY <3>3, HandlerTypes
    <3>5. [response(stream_terminate(StreamClosed(v)), "close") EXCEPT !.terminated = TRUE]
            \in SocketType
      BY <3>4, MarkTypes
    <3>6. QED BY <2>7, <3>2, <3>5 DEF EndsStream
  <2>8. CASE Pinged(v, w)
    <3>0. ASSUME NEW n \in 0..MaxPongs
          PROVE  [v EXCEPT !.missed = 0, !.ponged = TRUE, !.pongs = n] \in SocketType
      <4>1. 0 \in 0..2 OBVIOUS
      <4>2. [v EXCEPT !.pongs = n] \in SocketType BY DEF SocketType
      <4>3. ASSUME NEW u \in SocketType, NEW m \in 0..2
            PROVE  [u EXCEPT !.missed = m, !.ponged = TRUE] \in SocketType
        BY DEF SocketType
      <4>4. [[v EXCEPT !.pongs = n] EXCEPT !.missed = 0, !.ponged = TRUE]
              = [v EXCEPT !.missed = 0, !.ponged = TRUE, !.pongs = n]
        BY DEF SocketType
      <4>5. QED BY <4>1, <4>2, <4>3, <4>4
    <3>1. ASSUME v.pongs < MaxPongs
          PROVE  [v EXCEPT !.missed = 0, !.ponged = TRUE, !.pongs = @ + 1] \in SocketType
      <4>1. v.pongs + 1 \in 0..MaxPongs BY <3>1 DEF SocketType
      <4>2. QED BY <3>0, <4>1
    <3>2. [v EXCEPT !.terminated = TRUE, !.conn = "destroyed", !.pinging = FALSE] \in SocketType
      BY DEF SocketType
    <3>3. v.missed < 2 => [v EXCEPT !.missed = @ + 1] \in SocketType BY DEF SocketType
    <3>4. QED BY <2>8, <3>1, <3>2, <3>3 DEF Pinged
  <2>9. CASE Responds(v, w)
    <3>1. PICK what \in {"open", "response"} : w = [response(v, what) EXCEPT !.events = @ + 1]
      BY <2>9 DEF Responds
    <3>2. response(v, what) \in SocketType BY HandlerTypes
    <3>3. response(v, what).events < MaxEvents BY <2>9 DEF Responds, response, SocketType
    <3>4. ASSUME NEW u \in SocketType, NEW n \in 0..MaxEvents
          PROVE  [u EXCEPT !.events = n] \in SocketType
      BY DEF SocketType
    <3>5. response(v, what).events + 1 \in 0..MaxEvents BY <3>2, <3>3 DEF SocketType
    <3>6. QED BY <3>1, <3>2, <3>4, <3>5
  <2>10. CASE Terminates(v, w)
    <3>1. [v EXCEPT !.xmpp = "over"] \in SocketType BY MarkTypes
    <3>2. QED BY <2>10, <3>1, HandlerTypes DEF Terminates
  <2>11. QED
    BY <1>2, <2>2, <2>3, <2>4, <2>5, <2>6, <2>7, <2>8, <2>9, <2>10 DEF Moves
<1>3. SocketTypeOK /\ [SocketNext]_socketVars => SocketTypeOK'
  <2>1. ASSUME SocketTypeOK, SocketNext PROVE SocketTypeOK'
    <3>1. PICK c \in Conns : \E w : \E d \in {-1, 0, 1} : Step(c, w, d) BY <2>1, NextSteps
    <3> PICK w : \E d \in {-1, 0, 1} : Step(c, w, d) BY <3>1
    <3>0. PICK d \in {-1, 0, 1} : Step(c, w, d) OBVIOUS
    <3>2. ws[c] \in SocketType /\ active \in Int BY <2>1 DEF SocketTypeOK
    <3>3. w \in SocketType BY <1>2, <3>0, <3>2 DEF Step
    <3>4. ws' \in [Conns -> SocketType] BY <2>1, <3>0, <3>3, OneChange DEF Step
    <3>5. QED BY <3>0, <3>2, <3>4 DEF Step, SocketTypeOK
  <2>2. QED BY <2>1 DEF SocketTypeOK, socketVars
<1>4. QED BY <1>1, <1>3, PTL DEF SocketSpec

-----------------------------------------------------------------------------
(* A stream ends once.                                                     *)

Ending(w) == ClosedLast(w) /\ EndedOnce(w)

(* A response or a close tag is sent after nothing but responses.          *)
LEMMA ResponseLast ==
  ASSUME NEW w \in SocketType, ClosedLast(w),
         NEW what \in {"open", "response", "close"}
  PROVE  /\ what # "close" => ClosedLast(response(w, what))
         /\ ClosedLast([response(w, what) EXCEPT !.terminated = TRUE])
<1>1. CASE w.terminated \/ ~w.known \/ w.conn # "open"
  BY <1>1 DEF response, ClosedLast, SocketType
<1>2. CASE ~(w.terminated \/ ~w.known \/ w.conn # "open")
  <2>1. w.sent \in Seq({"open", "response", "close"}) BY DEF SocketType
  <2>2. ASSUME NEW u, u.sent = Append(w.sent, what), what # "close" \/ u.terminated
        PROVE  ClosedLast(u)
    BY <1>2, <2>1, <2>2 DEF ClosedLast
  <2>3. /\ response(w, what).sent = Append(w.sent, what)
        /\ [response(w, what) EXCEPT !.terminated = TRUE].sent = Append(w.sent, what)
        /\ [response(w, what) EXCEPT !.terminated = TRUE].terminated
    BY <1>2 DEF response, SocketType
  <2>4. QED BY <2>2, <2>3
<1>3. QED BY <1>1, <1>2

(* The connector's word that a stream is over leaves it closed once.       *)
LEMMA TerminateOnce ==
  ASSUME NEW w \in SocketType, Ending(w)
  PROVE  Ending(on_terminate(w))
<1>1. CASE ~w.known \/ w.terminated BY <1>1 DEF on_terminate
<1>2. CASE ~(~w.known \/ w.terminated)
  <2>1. on_terminate(w) = [response(w, "close") EXCEPT !.terminated = TRUE]
    BY <1>2 DEF on_terminate
  <2>2. ClosedLast(on_terminate(w)) BY <2>1, ResponseLast DEF Ending
  <2>3. w.ends = 0 BY <1>2 DEF Ending, EndedOnce
  <2>4. on_terminate(w).ends = w.ends BY <2>1 DEF response, SocketType
  <2>5. QED BY <2>2, <2>3, <2>4 DEF Ending, EndedOnce
<1>3. QED BY <1>1, <1>2

(* No action sends after the close tag or ends a stream again.             *)
LEMMA EndingSteps ==
  ASSUME NEW v \in SocketType, NEW w, NEW d, Ending(v), TimerOff(v), Moves(v, w, d)
  PROVE  Ending(w)
<1>1. CASE Opens(v, w)
  <2>1. Opened(v) \in SocketType /\ Opened(v).sent = v.sent /\ Opened(v).ends = v.ends
        /\ Opened(v).terminated = v.terminated /\ Opened(v).conn = v.conn
    <3>1. MessageRead(v) \in SocketType BY <1>1, SocketAssumption DEF Opens, Heard, MessageRead, SocketType
    <3>2. Opened(v) \in SocketType BY <3>1, MarkTypes DEF Opened
    <3>3. QED BY <3>2 DEF Opened, MessageRead, SocketType
  <2>2. ASSUME NEW x \in {"open", "over"}
        PROVE  [Opened(v) EXCEPT !.xmpp = x] \in SocketType /\ Ending([Opened(v) EXCEPT !.xmpp = x])
    <3>1. [Opened(v) EXCEPT !.xmpp = x] \in SocketType BY <2>1 DEF SocketType
    <3>2. ClosedLast([Opened(v) EXCEPT !.xmpp = x]) BY <2>1 DEF Ending, ClosedLast, SocketType
    <3>3. v.conn # "closed" /\ v.stream_state # "closed" BY <1>1 DEF Opens, Heard
    <3>4. EndedOnce([Opened(v) EXCEPT !.xmpp = x]) BY <2>1, <3>3 DEF Ending, EndedOnce, SocketType
    <3>5. QED BY <3>1, <3>2, <3>4 DEF Ending
  <2>3. QED BY <1>1, <2>2, TerminateOnce DEF Opens
<1>2. CASE Closes(v, w)
  <2>1. v.conn # "closed" BY <1>2 DEF Closes
  <2>2. CASE v.known /\ v.stream_state # "closed"
    <3>1. w = [stream_terminate(Closed(v)) EXCEPT !.terminated = TRUE] BY <1>2, <2>2 DEF Closes
    <3>2. v.ends = 0 BY <2>1, <2>2 DEF Ending, EndedOnce
    <3>3. /\ w.sent = v.sent /\ w.ends = 1 /\ w.terminated /\ w.conn = "closed"
      BY <3>1, <3>2 DEF stream_terminate, Closed, SocketType
    <3>4. QED BY <3>3 DEF Ending, EndedOnce, ClosedLast
  <2>3. CASE w = Closed(v)
    <3>1. w.sent = v.sent /\ w.ends = v.ends /\ w.terminated = v.terminated /\ w.conn = "closed"
      BY <2>3 DEF Closed, SocketType
    <3>2. QED BY <3>1 DEF Ending, EndedOnce, ClosedLast
  <2>4. QED BY <1>2, <2>2, <2>3 DEF Closes
<1>3. CASE Connects(v, w)
  <2>1. /\ w.sent = v.sent /\ w.ends = v.ends /\ w.terminated = v.terminated
        /\ w.stream_state = v.stream_state /\ v.conn = "none"
    BY <1>3 DEF Connects, SocketType
  <2>2. QED BY <2>1 DEF Ending, EndedOnce, ClosedLast
<1>4. CASE Ignores(v, w) \/ Garbles(v, w)
  <2>1. /\ w.sent = v.sent /\ w.ends = v.ends /\ (v.terminated => w.terminated)
        /\ w.stream_state = v.stream_state /\ v.conn # "closed"
    BY <1>4 DEF Ignores, Garbles, Heard, MessageRead, SocketType
  <2>2. QED BY <2>1 DEF Ending, EndedOnce, ClosedLast
<1>5. CASE EndsStream(v, w)
  <2>1. v.conn # "closed" /\ v.stream_state # "closed" /\ v.ends = 0
    BY <1>5 DEF EndsStream, Heard, Ending, EndedOnce
  <2>2. CASE w = [StreamClosed(v) EXCEPT !.known = FALSE, !.conn = "closing"]
    <3>1. w.sent = v.sent /\ w.ends = v.ends /\ w.terminated = v.terminated
      BY <2>2 DEF StreamClosed, MessageRead, SocketType
    <3>2. QED BY <2>1, <3>1 DEF Ending, EndedOnce, ClosedLast
  <2>3. CASE w = [response(stream_terminate(StreamClosed(v)), "close") EXCEPT !.terminated = TRUE]
    <3>1. stream_terminate(StreamClosed(v)) \in SocketType
      <4>1. MessageRead(v) \in SocketType
        BY <1>5, SocketAssumption DEF EndsStream, Heard, MessageRead, SocketType
      <4>2. StreamClosed(v) \in SocketType BY <4>1, MarkTypes DEF StreamClosed
      <4>3. QED BY <4>2, HandlerTypes
    <3>2. /\ stream_terminate(StreamClosed(v)).sent = v.sent
          /\ stream_terminate(StreamClosed(v)).terminated = v.terminated
          /\ stream_terminate(StreamClosed(v)).stream_state = "closed"
          /\ stream_terminate(StreamClosed(v)).ends = 1
      BY <2>1 DEF stream_terminate, StreamClosed, MessageRead, SocketType
    <3>3. ClosedLast(stream_terminate(StreamClosed(v)))
      BY <3>2 DEF Ending, ClosedLast
    <3>4. ClosedLast(w) BY <2>3, <3>1, <3>3, ResponseLast
    <3>5. w.ends = 1 /\ w.terminated /\ w.stream_state = "closed"
      BY <2>3, <3>1, <3>2 DEF response, SocketType
    <3>6. QED BY <3>4, <3>5 DEF Ending, EndedOnce
  <2>4. QED BY <1>5, <2>2, <2>3 DEF EndsStream
<1>6. CASE Pinged(v, w)
  <2>1. /\ w.sent = v.sent /\ w.ends = v.ends /\ (v.terminated => w.terminated)
        /\ w.stream_state = v.stream_state
    BY <1>6 DEF Pinged, SocketType
  <2>2. w.conn = v.conn \/ (w.conn = "destroyed" /\ v.pinging) BY <1>6 DEF Pinged, SocketType
  <2>3. QED BY <2>1, <2>2 DEF Ending, EndedOnce, ClosedLast, TimerOff
<1>7. CASE Responds(v, w)
  <2>1. PICK what \in {"open", "response"} : w = [response(v, what) EXCEPT !.events = @ + 1]
    BY <1>7 DEF Responds
  <2>2. ClosedLast(response(v, what)) BY ResponseLast DEF Ending
  <2>3. response(v, what) \in SocketType BY HandlerTypes
  <2>4. /\ w.sent = response(v, what).sent /\ w.ends = v.ends /\ w.terminated = v.terminated
        /\ w.stream_state = v.stream_state /\ w.conn = v.conn
        /\ response(v, what).terminated = v.terminated
    BY <2>1, <2>3 DEF response, SocketType
  <2>5. QED BY <2>2, <2>4 DEF Ending, EndedOnce, ClosedLast
<1>8. CASE Terminates(v, w)
  <2>1. [v EXCEPT !.xmpp = "over"] \in SocketType BY MarkTypes
  <2>2. Ending([v EXCEPT !.xmpp = "over"]) BY DEF Ending, EndedOnce, ClosedLast, SocketType
  <2>3. QED BY <1>8, <2>1, <2>2, TerminateOnce DEF Terminates
<1>9. QED BY <1>1, <1>2, <1>3, <1>4, <1>5, <1>6, <1>7, <1>8 DEF Moves

(* No action pings a connection that has closed.                           *)
LEMMA TimerSteps ==
  ASSUME NEW v \in SocketType, NEW w, NEW d, TimerOff(v), Moves(v, w, d)
  PROVE  TimerOff(w)
<1>1. CASE Closes(v, w)
  BY <1>1 DEF Closes, Closed, stream_terminate, TimerOff, SocketType
<1>2. CASE Pinged(v, w) BY <1>2 DEF Pinged, TimerOff, SocketType
<1>3. CASE Connects(v, w) \/ Ignores(v, w) \/ Garbles(v, w) \/ Opens(v, w)
  <2>1. w.conn # "closed"
    BY <1>3 DEF Connects, Ignores, Garbles, Opens, Opened, Heard, MessageRead, on_terminate,
                response, SocketType
  <2>2. QED BY <2>1 DEF TimerOff
<1>4. CASE EndsStream(v, w)
  <2>1. w.conn # "closed"
    BY <1>4 DEF EndsStream, StreamClosed, Heard, MessageRead, stream_terminate, response, SocketType
  <2>2. QED BY <2>1 DEF TimerOff
<1>5. CASE Responds(v, w) \/ Terminates(v, w)
  <2>1. w.conn = v.conn /\ w.pinging = v.pinging
    BY <1>5 DEF Responds, Terminates, on_terminate, response, SocketType
  <2>2. QED BY <2>1 DEF TimerOff
<1>6. QED BY <1>1, <1>2, <1>3, <1>4, <1>5 DEF Moves

(* Connections end once in every reachable state.                          *)
THEOREM SocketInvariant == SocketSpec => []SocketInv
<1>1. SocketInit => SocketInv BY DEF SocketInit, SocketInv, ClosedLast, EndedOnce, TimerOff
<1>2. SocketTypeOK /\ SocketInv /\ [SocketNext]_socketVars => SocketInv'
  <2>1. ASSUME SocketTypeOK, SocketInv, SocketNext PROVE SocketInv'
    <3>1. PICK c \in Conns : \E w : \E d \in {-1, 0, 1} : Step(c, w, d) BY <2>1, NextSteps
    <3> PICK w : \E d \in {-1, 0, 1} : Step(c, w, d) BY <3>1
    <3>2. PICK d \in {-1, 0, 1} : Step(c, w, d) OBVIOUS
    <3>3. ws[c] \in SocketType /\ Ending(ws[c]) /\ TimerOff(ws[c])
      BY <2>1 DEF SocketTypeOK, SocketInv, Ending
    <3>4. Moves(ws[c], w, d) /\ ws' = [ws EXCEPT ![c] = w] BY <3>2 DEF Step
    <3>5. Ending(w) /\ TimerOff(w) BY <3>3, <3>4, EndingSteps, TimerSteps
    <3>6. ws'[c] = w /\ \A e \in Conns : e # c => ws'[e] = ws[e] BY <2>1, <3>4, OneChange
    <3>7. ASSUME NEW e \in Conns PROVE Ending(ws'[e]) /\ TimerOff(ws'[e])
      BY <2>1, <3>5, <3>6 DEF SocketInv, Ending
    <3>8. QED BY <3>7 DEF SocketInv, Ending
  <2>2. QED BY <2>1 DEF SocketInv, socketVars
<1>3. QED BY <1>1, <1>2, SocketTypeCorrect, PTL DEF SocketSpec

(* NothingAfterClose of WebSocket, for every set of connections: the close *)
(* tag is the last thing that websocket.js sends, however the end of a     *)
(* stream is come by.                                                      *)
THEOREM CloseTagLast == SocketSpec => []NothingAfterClose
<1>1. SocketInv => NothingAfterClose BY DEF SocketInv, ClosedLast, NothingAfterClose
<1>2. QED BY <1>1, SocketInvariant, PTL

(* EndsOnce of WebSocket, for every set of connections.                    *)
THEOREM EndedOnlyOnce == SocketSpec => []EndsOnce
<1>1. SocketInv => EndsOnce BY DEF SocketInv, EndedOnce, EndsOnce
<1>2. QED BY <1>1, SocketInvariant, PTL

-----------------------------------------------------------------------------
(* Nothing is left of a connection that has closed.                        *)

(* A stream that on_terminate is told of is over.                          *)
LEMMA TerminateKnown ==
  ASSUME NEW w \in SocketType, NEW u, u = on_terminate(w)
  PROVE  /\ u.xmpp = w.xmpp /\ u.conn = w.conn /\ u.stream_state = w.stream_state
         /\ u.known = w.known /\ u.garbled = w.garbled
BY DEF on_terminate, response, SocketType

(* A connection keeps its stream only while it is known, if a client that  *)
(* sent what cannot be parsed sends nothing more.                          *)
LEMMA KnownSteps ==
  ASSUME ~GoesOn, NEW v \in SocketType, NEW w, NEW d, StreamKnown(v), Moves(v, w, d)
  PROVE  StreamKnown(w)
<1>1. CASE Opens(v, w)
  <2>1. Opened(v) \in SocketType
    <3>1. MessageRead(v) \in SocketType BY <1>1, SocketAssumption DEF Opens, Heard, MessageRead, SocketType
    <3>2. QED BY <3>1, MarkTypes DEF Opened
  <2>2. /\ Opened(v).stream_state = "opened" /\ Opened(v).conn = v.conn
        /\ Opened(v).known = v.known /\ Opened(v).terminated = v.terminated
        /\ Opened(v).garbled = v.garbled
        /\ v.conn \in {"open", "closing"} /\ ~v.garbled /\ v.stream_state = "unopened"
        /\ ~v.terminated /\ v.xmpp = "none" /\ v.known
    BY <1>1 DEF Opens, Opened, Heard, MessageRead, StreamKnown, SocketType
  <2>3. CASE w = [Opened(v) EXCEPT !.xmpp = "open"]
    <3>1. /\ w.stream_state = "opened" /\ w.conn = v.conn /\ w.known = v.known
          /\ w.terminated = v.terminated
      BY <2>1, <2>2, <2>3 DEF SocketType
    <3>2. QED BY <2>2, <2>3, <3>1 DEF StreamKnown
  <2>4. CASE w = on_terminate([Opened(v) EXCEPT !.xmpp = "over"])
    <3>1. [Opened(v) EXCEPT !.xmpp = "over"] \in SocketType BY <2>1, MarkTypes
    <3>2. PICK u : u = [Opened(v) EXCEPT !.xmpp = "over"] OBVIOUS
    <3>3. /\ u.xmpp = "over" /\ u.stream_state = "opened" /\ u.conn = v.conn
          /\ u.known = v.known
      BY <2>1, <2>2, <3>2 DEF SocketType
    <3>4. w.xmpp = "over" /\ w.stream_state = "opened" /\ w.conn = v.conn /\ w.known
      BY <2>2, <2>4, <3>1, <3>2, <3>3, TerminateKnown
    <3>5. QED BY <2>2, <3>4 DEF StreamKnown
  <2>5. QED BY <1>1, <2>2, <2>3, <2>4 DEF Opens
<1>2. CASE Closes(v, w)
  <2>1. w.conn = "closed" /\ ~w.known /\ w.stream_state = v.stream_state
    BY <1>2 DEF Closes, Closed, stream_terminate, SocketType
  <2>2. w.xmpp # "open" /\ (v.xmpp = "none" => w.xmpp = "none")
    BY <1>2 DEF Closes, Closed, stream_terminate, StreamKnown, SocketType
  <2>3. QED BY <2>1, <2>2 DEF StreamKnown
<1>3. CASE Connects(v, w)
  <2>1. w.conn = "open" /\ w.xmpp = v.xmpp /\ w.stream_state = v.stream_state
        /\ w.terminated = v.terminated /\ w.known /\ v.conn = "none"
    BY <1>3 DEF Connects, SocketType
  <2>2. QED BY <2>1 DEF StreamKnown
<1>4. CASE Ignores(v, w)
  <2>1. /\ w.conn = v.conn /\ w.xmpp = v.xmpp /\ w.stream_state = v.stream_state
        /\ w.terminated = v.terminated /\ w.garbled = v.garbled /\ w.known = v.known
    BY <1>4 DEF Ignores, MessageRead, SocketType
  <2>2. QED BY <2>1 DEF StreamKnown
<1>5. CASE Garbles(v, w)
  <2>1. /\ w.conn = "closing" /\ w.xmpp = v.xmpp /\ w.stream_state = v.stream_state
        /\ w.garbled /\ w.known = v.known /\ v.conn \in {"open", "closing"}
    BY <1>5 DEF Garbles, Heard, MessageRead, SocketType
  <2>2. QED BY <2>1 DEF StreamKnown
<1>6. CASE EndsStream(v, w)
  <2>1. v.conn \in {"open", "closing"} /\ ~v.garbled BY <1>6 DEF EndsStream, Heard
  <2>2. w.stream_state = "closed" /\ w.conn \in {"open", "closing"}
    BY <1>6, <2>1 DEF EndsStream, StreamClosed, MessageRead, stream_terminate, response, SocketType
  <2>3. w.xmpp # "open"
    <3>1. CASE v.terminated
      BY <1>6, <2>1, <3>1 DEF EndsStream, StreamClosed, MessageRead, StreamKnown, SocketType
    <3>2. CASE ~v.terminated
      BY <1>6, <3>2 DEF EndsStream, StreamClosed, MessageRead, stream_terminate, response, SocketType
    <3>3. QED BY <3>1, <3>2
  <2>4. QED BY <2>2, <2>3 DEF StreamKnown
<1>7. CASE Pinged(v, w)
  <2>1. /\ w.xmpp = v.xmpp /\ w.stream_state = v.stream_state
        /\ w.garbled = v.garbled /\ w.known = v.known
    BY <1>7 DEF Pinged, SocketType
  <2>2. w.conn = "destroyed" \/ (w.conn = v.conn /\ w.terminated = v.terminated)
    <3>1. CASE w = [v EXCEPT !.terminated = TRUE, !.conn = "destroyed", !.pinging = FALSE]
      BY <3>1 DEF SocketType
    <3>2. CASE \/ w = [v EXCEPT !.missed = 0, !.ponged = TRUE, !.pongs = @ + 1]
               \/ w = [v EXCEPT !.missed = @ + 1]
      BY <3>2 DEF SocketType
    <3>3. QED BY <1>7, <3>1, <3>2 DEF Pinged
  <2>3. QED BY <2>1, <2>2 DEF StreamKnown
<1>8. CASE Responds(v, w)
  <2>1. /\ w.conn = v.conn /\ w.xmpp = v.xmpp /\ w.stream_state = v.stream_state
        /\ w.terminated = v.terminated /\ w.garbled = v.garbled /\ w.known = v.known
    BY <1>8 DEF Responds, response, SocketType
  <2>2. QED BY <2>1 DEF StreamKnown
<1>9. CASE Terminates(v, w)
  <2>1. [v EXCEPT !.xmpp = "over"] \in SocketType BY MarkTypes
  <2>2. /\ w.conn = v.conn /\ w.xmpp = "over" /\ w.stream_state = v.stream_state
        /\ w.garbled = v.garbled /\ w.known = v.known /\ v.xmpp = "open"
    BY <1>9, <2>1, TerminateKnown DEF Terminates, SocketType
  <2>3. QED BY <2>2 DEF StreamKnown
<1>10. QED
  BY <1>1, <1>2, <1>3, <1>4, <1>5, <1>6, <1>7, <1>8, <1>9 DEF Moves

ActiveStream(w) == w.xmpp # "none" /\ w.conn # "closed"

(* The count goes up with an active stream, and down with a connection     *)
(* that is not one afterwards; otherwise the streams stay as they are.     *)
LEMMA ActiveSteps ==
  ASSUME NEW v \in SocketType, NEW w, NEW d, StreamKnown(v), TimerOff(v), Moves(v, w, d)
  PROVE  \/ d = 1 /\ ~ActiveStream(v) /\ ActiveStream(w)
         \/ d = -1 /\ ~ActiveStream(w)
         \/ d = 0 /\ (ActiveStream(w) <=> ActiveStream(v))
<1>1. CASE d = 1 /\ Opens(v, w)
  <2>1. v.xmpp = "none" /\ v.conn \in {"open", "closing"}
    BY <1>1 DEF Opens, Heard, StreamKnown
  <2>2. MessageRead(v) \in SocketType BY <1>1, SocketAssumption DEF Opens, Heard, MessageRead, SocketType
  <2>3. Opened(v) \in SocketType /\ Opened(v).conn = v.conn
    <3>1. Opened(v) \in SocketType BY <2>2, MarkTypes DEF Opened
    <3>2. QED BY <3>1 DEF Opened, MessageRead, SocketType
  <2>4. [Opened(v) EXCEPT !.xmpp = "over"] \in SocketType BY <2>3, MarkTypes
  <2>5. w.xmpp # "none" /\ w.conn = v.conn
    BY <1>1, <2>3, <2>4, TerminateKnown DEF Opens, SocketType
  <2>6. QED BY <1>1, <2>1, <2>5 DEF ActiveStream
<1>2. CASE d = -1 /\ Closes(v, w)
  BY <1>2 DEF Closes, Closed, stream_terminate, ActiveStream, SocketType
<1>3. CASE d = 0
  <2>1. CASE Connects(v, w) BY <2>1, <1>3 DEF Connects, StreamKnown, ActiveStream, SocketType
  <2>2. CASE Ignores(v, w) BY <2>2, <1>3 DEF Ignores, MessageRead, ActiveStream, SocketType
  <2>3. CASE Garbles(v, w) BY <2>3, <1>3 DEF Garbles, Heard, MessageRead, ActiveStream, SocketType
  <2>4. CASE EndsStream(v, w)
    <3>1. /\ v.conn # "closed" /\ w.conn # "closed"
          /\ w.xmpp = "none" <=> v.xmpp = "none"
      BY <2>4 DEF EndsStream, StreamClosed, Heard, MessageRead, stream_terminate, response, SocketType
    <3>2. QED BY <1>3, <3>1 DEF ActiveStream
  <2>5. CASE Pinged(v, w) BY <2>5, <1>3 DEF Pinged, TimerOff, ActiveStream, SocketType
  <2>6. CASE Responds(v, w) BY <2>6, <1>3 DEF Responds, response, ActiveStream, SocketType
  <2>7. CASE Terminates(v, w)
    <3>1. [v EXCEPT !.xmpp = "over"] \in SocketType BY MarkTypes
    <3>2. w.conn = v.conn /\ w.xmpp = "over" /\ v.xmpp = "open"
      BY <2>7, <3>1, TerminateKnown DEF Terminates, SocketType
    <3>3. QED BY <1>3, <3>2 DEF ActiveStream
  <2>8. Connects(v, w) \/ Ignores(v, w) \/ Garbles(v, w) \/ EndsStream(v, w)
        \/ Pinged(v, w) \/ Responds(v, w) \/ Terminates(v, w)
    BY <1>3 DEF Moves
  <2>9. QED BY <2>1, <2>2, <2>3, <2>4, <2>5, <2>6, <2>7, <2>8
<1>4. QED BY <1>1, <1>2, <1>3 DEF Moves

(* A step keeps the count an upper bound of the active streams.            *)
LEMMA CountSteps ==
  ASSUME SocketTypeOK, Counted, NEW c \in Conns, NEW w, NEW d \in {-1, 0, 1}, Step(c, w, d),
         StreamKnown(ws[c]), TimerOff(ws[c])
  PROVE  Counted'
<1>0. ws[c] \in SocketType /\ active \in Int BY DEF SocketTypeOK
<1>1. \/ d = 1 /\ ~ActiveStream(ws[c]) /\ ActiveStream(w)
      \/ d = -1 /\ ~ActiveStream(w)
      \/ d = 0 /\ (ActiveStream(w) <=> ActiveStream(ws[c]))
  BY <1>0, ActiveSteps DEF Step
<1>2. ws'[c] = w /\ \A e \in Conns : e # c => ws'[e] = ws[e] BY OneChange DEF Step
<1>3. Active = {e \in Conns : ActiveStream(ws[e])} /\ Active' = {e \in Conns : ActiveStream(ws'[e])}
  BY DEF Active, ActiveStream
<1>4. IsFiniteSet(Active) /\ active <= Cardinality(Active) BY DEF Counted
<1>5. active' = active + d BY DEF Step
<1>6. Cardinality(Active) \in Nat BY <1>4, FS_CardinalityType
<1>7. CASE d = 1 /\ ~ActiveStream(ws[c]) /\ ActiveStream(w)
  <2>1. Active' = Active \cup {c} /\ c \notin Active BY <1>2, <1>3, <1>7
  <2>2. IsFiniteSet(Active') /\ Cardinality(Active') = Cardinality(Active) + 1
    BY <1>4, <2>1, FS_AddElement
  <2>3. QED BY <1>0, <1>4, <1>5, <1>6, <1>7, <2>2 DEF Counted
<1>8. CASE d = -1 /\ ~ActiveStream(w)
  <2>1. Active' = Active \ {c} BY <1>2, <1>3, <1>8
  <2>2. /\ IsFiniteSet(Active')
        /\ Cardinality(Active') = IF c \in Active THEN Cardinality(Active) - 1
                                                  ELSE Cardinality(Active)
    BY <1>4, <2>1, FS_RemoveElement
  <2>3. QED BY <1>0, <1>4, <1>5, <1>6, <1>8, <2>2 DEF Counted
<1>9. CASE d = 0 /\ (ActiveStream(w) <=> ActiveStream(ws[c]))
  <2>1. Active' = Active BY <1>2, <1>3, <1>9
  <2>2. QED BY <1>0, <1>4, <1>5, <1>9, <2>1 DEF Counted
<1>10. QED BY <1>1, <1>7, <1>8, <1>9

(* NothingLeft of WebSocket, for every set of connections, of clients that *)
(* send nothing more after what cannot be parsed: websocket.js ends the    *)
(* stream of every connection that closes, and the count of active streams *)
(* is never more than those there are.                                     *)
THEOREM NothingIsLeft == ~GoesOn => (SocketSpec => []NothingLeft)
<1> SUFFICES ASSUME ~GoesOn PROVE SocketSpec => []NothingLeft OBVIOUS
<1>1. SocketInit => StreamInv
  <2>1. ASSUME SocketInit PROVE StreamInv
    <3>1. Active = {} BY <2>1 DEF SocketInit, Active
    <3>2. Counted BY <2>1, <3>1, FS_EmptySet DEF SocketInit, Counted
    <3>3. QED BY <2>1, <3>2 DEF SocketInit, StreamInv, StreamKnown
  <2>2. QED BY <2>1
<1>2. SocketTypeOK /\ SocketInv /\ StreamInv /\ [SocketNext]_socketVars => StreamInv'
  <2>1. ASSUME SocketTypeOK, SocketInv, StreamInv, SocketNext PROVE StreamInv'
    <3>1. PICK c \in Conns : \E w : \E d \in {-1, 0, 1} : Step(c, w, d) BY <2>1, NextSteps
    <3> PICK w : \E d \in {-1, 0, 1} : Step(c, w, d) BY <3>1
    <3>2. PICK d \in {-1, 0, 1} : Step(c, w, d) OBVIOUS
    <3>3. ws[c] \in SocketType /\ StreamKnown(ws[c]) /\ TimerOff(ws[c])
      BY <2>1 DEF SocketTypeOK, SocketInv, StreamInv
    <3>4. Moves(ws[c], w, d) /\ ws' = [ws EXCEPT ![c] = w] BY <3>2 DEF Step
    <3>5. StreamKnown(w) BY <3>3, <3>4, KnownSteps
    <3>6. ws'[c] = w /\ \A e \in Conns : e # c => ws'[e] = ws[e] BY <2>1, <3>4, OneChange
    <3>7. Counted' BY <2>1, <3>2, <3>3, CountSteps DEF StreamInv
    <3>8. \A e \in Conns : StreamKnown(ws'[e]) BY <2>1, <3>5, <3>6 DEF StreamInv
    <3>9. QED BY <3>7, <3>8 DEF StreamInv
  <2>2. ASSUME StreamInv, UNCHANGED socketVars PROVE StreamInv'
    <3>1. ws' = ws /\ active' = active BY <2>2 DEF socketVars
    <3>2. Active' = Active BY <3>1 DEF Active
    <3>3. QED BY <2>2, <3>1, <3>2 DEF StreamInv, Counted
  <2>3. QED BY <2>1, <2>2
<1>3. SocketInv /\ StreamInv => NothingLeft
  BY DEF SocketInv, StreamInv, Counted, Active, StreamKnown, TimerOff, NothingLeft
<1>4. QED BY <1>1, <1>2, <1>3, SocketTypeCorrect, SocketInvariant, PTL DEF SocketSpec
=============================================================================
