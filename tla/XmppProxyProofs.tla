-------------------------- MODULE XmppProxyProofs --------------------------
(***************************************************************************)
(* Theorems about the XMPP connector and its proxy, for every number of    *)
(* nodes, restarts and things the XMPP server sends: the connector is      *)
(* silent about a stream that is over, the client's nodes are written once *)
(* and in order, and STARTTLS is hidden from the client, if it and the     *)
(* server keep to RFC 6120.                                                *)
(*                                                                         *)
(* The invariants are predicates of the record link and of the number of   *)
(* nodes that the client has sent; each operator on the record is shown to *)
(* keep them.                                                              *)
(***************************************************************************)
EXTENDS XmppProxy, SequenceTheorems, FiniteSetTheorems, FunctionTheorems, TLAPS

IsEnd(e) == e \in {"terminate", "stream-terminate"}

(* The end of the stream is the last of its events.                        *)
EndLast(events) == \A i \in DOMAIN events : IsEnd(events[i]) => i = Len(events)

NoEnd(events) == \A i \in DOMAIN events : ~IsEnd(events[i])

(* Whatever still arrives is not parsed.                                   *)
Deaf(l) ==
  \/ "data" \notin l.listening
  \/ l.parser = "ended" /\ l.tls = "clear" /\ l.entry = "gone"

(* How far the proxy is with its socket, and the connector with its entry. *)
LinkInv(l) ==
  /\ l.entry = "none" => l.sock = "none" /\ ~l._terminate_on_connect
  /\ l.sock = "none" => l.entry # "present"
  /\ l.sock \in {"none", "connecting"} =>
       ~l._is_connected /\ l.wire = << >> /\ l.tls = "clear"
  /\ l.sock = "connecting" =>
       l.entry # "none" /\ (l._terminate_on_connect <=> l.entry = "gone")
  /\ l.sock = "open" => l._is_connected /\ l.entry = "present"
  /\ l.sock = "ended" => ~l._is_connected /\ Deaf(l)
  /\ l._is_connected => l.pending = << >>
  /\ EndLast(l.events)
  /\ l.entry # "gone" => NoEnd(l.events)

(* The nodes that are not written are pending, n being all of them.        *)
Numbered(l, n) ==
  /\ NodesUpTo(l.wire, n - Len(l.pending))
  /\ \A k \in DOMAIN l.pending : l.pending[k] = n - Len(l.pending) + k

NodesInv(l, n) ==
  /\ \E w \in 0..n : NodesUpTo(l.wire, w)
  /\ l.entry = "none" => n = 0 /\ l.pending = << >>
  /\ l.entry = "present" /\ l.sock \notin {"dead", "closed"} => Numbered(l, n)

LinkNodesInv(l, n) == LinkInv(l) /\ NodesInv(l, n)

ProxyInv == LinkNodesInv(link, peer.nodes)
-----------------------------------------------------------------------------
(* Types.                                                                  *)

(* A field that is given a value of its type.                              *)
LEMMA FieldTypes ==
  ASSUME NEW l \in LinkType
  PROVE  /\ \A x \in {"none", "present", "gone"} : [l EXCEPT !.entry = x] \in LinkType
         /\ \A x \in Seq(Node) : [l EXCEPT !.pending = x] \in LinkType
         /\ \A x \in {"none", "route", "srv", "done"} : [l EXCEPT !.lookup = x] \in LinkType
         /\ \A x \in {"none", "connecting", "open", "ended", "dead", "closed"} : [l EXCEPT !.sock = x] \in LinkType
         /\ \A x \in BOOLEAN : [l EXCEPT !.throws = x] \in LinkType
         /\ \A x \in BOOLEAN : [l EXCEPT !.started = x] \in LinkType
         /\ \A x \in BOOLEAN : [l EXCEPT !._is_connected = x] \in LinkType
         /\ \A x \in BOOLEAN : [l EXCEPT !._terminate_on_connect = x] \in LinkType
         /\ \A x \in BOOLEAN : [l EXCEPT !._suppress_stream_restart_event = x] \in LinkType
         /\ \A x \in {"clear", "handshake", "secure"} : [l EXCEPT !.tls = x] \in LinkType
         /\ \A x \in SUBSET {"data", "close"} : [l EXCEPT !.listening = x] \in LinkType
         /\ \A x \in {"fresh", "stream", "spent", "ended"} : [l EXCEPT !.parser = x] \in LinkType
         /\ \A x \in Seq(Written) : [l EXCEPT !.wire = x] \in LinkType
         /\ \A x \in Seq(Event) : [l EXCEPT !.events = x] \in LinkType
<1>1. \A x \in {"none", "present", "gone"} : [l EXCEPT !.entry = x] \in LinkType BY DEF LinkType
<1>2. \A x \in Seq(Node) : [l EXCEPT !.pending = x] \in LinkType BY DEF LinkType
<1>3. \A x \in {"none", "route", "srv", "done"} : [l EXCEPT !.lookup = x] \in LinkType BY DEF LinkType
<1>4. \A x \in {"none", "connecting", "open", "ended", "dead", "closed"} : [l EXCEPT !.sock = x] \in LinkType BY DEF LinkType
<1>5. \A x \in BOOLEAN : [l EXCEPT !.throws = x] \in LinkType BY DEF LinkType
<1>6. \A x \in BOOLEAN : [l EXCEPT !.started = x] \in LinkType BY DEF LinkType
<1>7. \A x \in BOOLEAN : [l EXCEPT !._is_connected = x] \in LinkType BY DEF LinkType
<1>8. \A x \in BOOLEAN : [l EXCEPT !._terminate_on_connect = x] \in LinkType BY DEF LinkType
<1>9. \A x \in BOOLEAN : [l EXCEPT !._suppress_stream_restart_event = x] \in LinkType BY DEF LinkType
<1>10. \A x \in {"clear", "handshake", "secure"} : [l EXCEPT !.tls = x] \in LinkType BY DEF LinkType
<1>11. \A x \in SUBSET {"data", "close"} : [l EXCEPT !.listening = x] \in LinkType BY DEF LinkType
<1>12. \A x \in {"fresh", "stream", "spent", "ended"} : [l EXCEPT !.parser = x] \in LinkType BY DEF LinkType
<1>13. \A x \in Seq(Written) : [l EXCEPT !.wire = x] \in LinkType BY DEF LinkType
<1>14. \A x \in Seq(Event) : [l EXCEPT !.events = x] \in LinkType BY DEF LinkType
<1>15. QED BY <1>1, <1>2, <1>3, <1>4, <1>5, <1>6, <1>7, <1>8, <1>9, <1>10, <1>11, <1>12, <1>13, <1>14

(* The fields of a link.                                                   *)
LEMMA LinkFields ==
  ASSUME NEW l \in LinkType
  PROVE  /\ l.entry \in {"none", "present", "gone"} /\ l.pending \in Seq(Node)
         /\ l.lookup \in {"none", "route", "srv", "done"}
         /\ l.sock \in {"none", "connecting", "open", "ended", "dead", "closed"}
         /\ l.throws \in BOOLEAN /\ l.tls \in {"clear", "handshake", "secure"}
         /\ l.listening \in SUBSET {"data", "close"}
         /\ l.parser \in {"fresh", "stream", "spent", "ended"}
         /\ l.started \in BOOLEAN /\ l._is_connected \in BOOLEAN
         /\ l._terminate_on_connect \in BOOLEAN
         /\ l._suppress_stream_restart_event \in BOOLEAN
         /\ l.wire \in Seq(Written) /\ l.events \in Seq(Event)
BY DEF LinkType

What == {"open", "starttls", "close", "node"}

(* send appends to the wire of an open socket, and changes nothing but     *)
(* that and _is_connected.                                                 *)
LEMMA SendEffect ==
  ASSUME NEW l \in LinkType, NEW what \in What, NEW no \in 0..MaxNodes
  PROVE  LET m == send(l, what, no)
         IN /\ m \in LinkType
            /\ m.entry = l.entry /\ m.pending = l.pending /\ m.lookup = l.lookup
            /\ m.sock = l.sock /\ m.throws = l.throws /\ m.tls = l.tls
            /\ m.listening = l.listening /\ m.parser = l.parser /\ m.started = l.started
            /\ m._terminate_on_connect = l._terminate_on_connect
            /\ m._suppress_stream_restart_event = l._suppress_stream_restart_event
            /\ m.events = l.events
            /\ m._is_connected => l._is_connected
            /\ l.sock = "open" => m._is_connected = l._is_connected
            /\ IF l._is_connected /\ l.sock = "open"
               THEN m.wire = Append(l.wire, Data(l, what, no)) ELSE m.wire = l.wire
<1>0. l._is_connected \in BOOLEAN /\ l.throws \in BOOLEAN /\ l.wire \in Seq(Written) /\ l.tls \in {"clear", "handshake", "secure"}
  BY LinkFields
<1>1. CASE ~l._is_connected BY <1>1 DEF send
<1>2. CASE l._is_connected /\ l.sock = "open"
  <2>1. Data(l, what, no) \in Written BY DEF Data, Written, What
  <2>2. Append(l.wire, Data(l, what, no)) \in Seq(Written) BY <1>0, <2>1
  <2>3. send(l, what, no) = [l EXCEPT !.wire = Append(l.wire, Data(l, what, no))]
    BY <1>2 DEF send
  <2>4. send(l, what, no) \in LinkType BY <2>2, <2>3, FieldTypes
  <2>5. QED BY <1>2, <2>3, <2>4 DEF LinkType
<1>3. CASE l._is_connected /\ l.sock # "open"
  <2>1. send(l, what, no) = [l EXCEPT !._is_connected = ~l.throws] BY <1>3 DEF send
  <2>2. (~l.throws) \in BOOLEAN BY <1>0
  <2>3. send(l, what, no) \in LinkType BY <2>1, <2>2, FieldTypes
  <2>4. QED BY <1>3, <2>1, <2>3 DEF LinkType
<1>4. QED BY <1>1, <1>2, <1>3

(* What terminate changes.                                                 *)
LEMMA TerminateEffect ==
  ASSUME NEW l \in LinkType
  PROVE  LET m == terminate(l)
         IN /\ m \in LinkType
            /\ m.entry = l.entry /\ m.pending = l.pending /\ m.tls = l.tls
            /\ m.started = l.started
            /\ m._suppress_stream_restart_event = l._suppress_stream_restart_event
            /\ m.events = l.events /\ ~m._is_connected
            /\ IF l._is_connected
               THEN /\ "data" \notin m.listening /\ m.parser = "ended"
                    /\ m.sock = IF l.sock = "open" THEN "ended" ELSE l.sock
                    /\ m._terminate_on_connect = l._terminate_on_connect
               ELSE /\ m._terminate_on_connect /\ m.sock = l.sock
                    /\ m.listening = l.listening /\ m.parser = l.parser
            /\ IF l._is_connected /\ l.sock = "open"
               THEN m.wire = Append(l.wire, Data(l, "close", 0)) ELSE m.wire = l.wire
<1>1. CASE ~l._is_connected
  <2>1. terminate(l) = [l EXCEPT !._terminate_on_connect = TRUE] BY <1>1 DEF terminate
  <2>2. terminate(l) \in LinkType BY <2>1, FieldTypes
  <2>3. QED BY <1>1, <2>1, <2>2 DEF LinkType
<1>2. CASE l._is_connected
  <2> DEFINE said == send(l, "close", 0)
             idle == said.listening \ {"data"}
             over == IF said.sock = "open" THEN "ended" ELSE said.sock
  <2>1. /\ said \in LinkType /\ said.entry = l.entry /\ said.pending = l.pending
        /\ said.tls = l.tls /\ said.events = l.events /\ said.sock = l.sock
        /\ said._terminate_on_connect = l._terminate_on_connect /\ said.started = l.started
        /\ said._suppress_stream_restart_event = l._suppress_stream_restart_event
        /\ IF l.sock = "open"
           THEN said.wire = Append(l.wire, Data(l, "close", 0)) ELSE said.wire = l.wire
    <3>1. "close" \in What /\ 0 \in 0..MaxNodes BY ProxyAssumption DEF What
    <3> HIDE DEF said
    <3>2. said = send(l, "close", 0) BY DEF said
    <3>3. QED BY <1>2, <3>1, <3>2, SendEffect
  <2>2. terminate(l) = [said EXCEPT !.listening = idle, !.parser = "ended",
                                    !._is_connected = FALSE, !.sock = over]
    BY <1>2 DEF terminate
  <2>3. /\ idle \in SUBSET {"data", "close"} /\ "data" \notin idle
        /\ over \in {"none", "connecting", "open", "ended", "dead", "closed"}
        /\ over = IF l.sock = "open" THEN "ended" ELSE l.sock
    BY <2>1, LinkFields
  <2> HIDE DEF said, idle, over
  <2>4. terminate(l) \in LinkType
    <3>1. PICK a : a = [said EXCEPT !.listening = idle] BY <2>1
    <3>2. PICK b : b = [a EXCEPT !.parser = "ended"] BY <3>1
    <3>3. PICK c : c = [b EXCEPT !._is_connected = FALSE] BY <3>2
    <3>4. a \in LinkType BY <2>1, <2>3, <3>1, FieldTypes
    <3>5. b \in LinkType BY <3>2, <3>4, FieldTypes
    <3>6. c \in LinkType BY <3>3, <3>5, FieldTypes
    <3>7. [c EXCEPT !.sock = over] \in LinkType BY <2>3, <3>6, FieldTypes
    <3>8. terminate(l) = [c EXCEPT !.sock = over]
      BY <2>1, <2>2, <3>1, <3>2, <3>3 DEF LinkType
    <3>9. QED BY <3>7, <3>8
  <2>5. QED BY <1>2, <2>1, <2>2, <2>3, <2>4 DEF LinkType
<1>3. QED BY <1>1, <1>2

(* Emit appends an event.                                                  *)
LEMMA EmitEffect ==
  ASSUME NEW l \in LinkType, NEW e \in Event
  PROVE  /\ Emit(l, e) \in LinkType /\ Emit(l, e) = [l EXCEPT !.events = Append(l.events, e)]
         /\ Emit(l, e).events = Append(l.events, e)
<1>1. l.events \in Seq(Event) BY LinkFields
<1>2. Append(l.events, e) \in Seq(Event) BY <1>1
<1>3. Emit(l, e) = [l EXCEPT !.events = Append(l.events, e)] BY DEF Emit
<1>4. Emit(l, e) \in LinkType BY <1>2, <1>3, FieldTypes
<1>5. QED BY <1>3, <1>4 DEF LinkType

-----------------------------------------------------------------------------
(* What is written.                                                        *)

(* Something else than a node after the nodes 1 to n.                      *)
LEMMA WriteOther ==
  ASSUME NEW wire \in Seq(Written), NEW n \in Nat, NEW d \in Written, d.what # "node",
         NodesUpTo(wire, n)
  PROVE  NodesUpTo(Append(wire, d), n)
<1> DEFINE longer == Append(wire, d)
<1>1. NodePositions(longer) = NodePositions(wire) BY DEF NodePositions
<1>2. \A i \in NodePositions(wire) : longer[i] = wire[i] BY DEF NodePositions
<1> HIDE DEF longer
<1>3. {longer[i].no : i \in NodePositions(longer)} = {wire[i].no : i \in NodePositions(wire)}
  BY <1>1, <1>2
<1>4. ASSUME NEW i \in NodePositions(wire), NEW j \in NodePositions(wire), i < j
      PROVE  longer[i].no < longer[j].no
  BY <1>2, <1>4 DEF NodesUpTo
<1>5. NodesUpTo(longer, n) BY <1>1, <1>3, <1>4 DEF NodesUpTo
<1>6. QED BY <1>5 DEF longer

(* The next node after the nodes 1 to n.                                   *)
LEMMA WriteNode ==
  ASSUME NEW wire \in Seq(Written), NEW n \in Nat, NEW d \in Written,
         d.what = "node", d.no = n + 1, NodesUpTo(wire, n)
  PROVE  NodesUpTo(Append(wire, d), n + 1)
<1> DEFINE longer == Append(wire, d)
           last == Len(wire) + 1
<1>1. /\ last \notin NodePositions(wire) /\ longer[last] = d
      /\ \A i \in NodePositions(wire) : longer[i] = wire[i] /\ i < last
  BY DEF NodePositions
<1>2. NodePositions(longer) = NodePositions(wire) \cup {last} BY DEF NodePositions
<1>3. \A i \in NodePositions(wire) : wire[i].no \in 1..n BY DEF NodesUpTo
<1> HIDE DEF longer, last
<1>4. {longer[i].no : i \in NodePositions(longer)} =
        {wire[i].no : i \in NodePositions(wire)} \cup {d.no}
  BY <1>1, <1>2
<1>5. (1..n) \cup {n + 1} = 1..(n + 1) OBVIOUS
<1>6. {longer[i].no : i \in NodePositions(longer)} = 1..(n + 1)
  BY <1>4, <1>5 DEF NodesUpTo
<1>7. ASSUME NEW i \in NodePositions(longer), NEW j \in NodePositions(longer), i < j
      PROVE  longer[i].no < longer[j].no
  <2>1. CASE j = last
    <3>1. i \in NodePositions(wire)
      <4>1. i # j BY <1>7, <2>1 DEF last
      <4>2. QED BY <1>2, <2>1, <4>1
    <3>2. longer[i].no \in 1..n BY <1>1, <1>3, <3>1
    <3>3. QED BY <1>1, <2>1, <3>2
  <2>2. CASE j # last
    <3>1. j \in NodePositions(wire) /\ j < last BY <1>1, <1>2, <2>2
    <3>2. i # last BY <1>7, <3>1 DEF last, NodePositions
    <3>3. i \in NodePositions(wire) BY <1>2, <3>2
    <3>4. QED BY <1>1, <1>7, <3>1, <3>3 DEF NodesUpTo
  <2>3. QED BY <2>1, <2>2
<1>8. QED BY <1>6, <1>7 DEF NodesUpTo, longer

(* All the pending nodes after a stream tag.                               *)
LEMMA WritePending ==
  ASSUME NEW p \in Seq(Node), \A k \in DOMAIN p : p[k] = k, NEW l, NEW d, d.what # "node"
  PROVE  NodesUpTo(<<d>> \o [k \in DOMAIN p |-> Data(l, "node", p[k])], Len(p))
<1> DEFINE rest == [k \in DOMAIN p |-> Data(l, "node", p[k])]
           wire == <<d>> \o rest
<1>1. Len(p) \in Nat /\ DOMAIN p = 1..Len(p) OBVIOUS
<1>2. Len(rest) = Len(p) /\ \A k \in 1..Len(p) : rest[k].what = "node" /\ rest[k].no = k
  BY <1>1 DEF Data
<1>3. rest \in Seq({Data(l, "node", x) : x \in Node}) BY <1>1
<1> HIDE DEF rest
<1>4. /\ Len(wire) = Len(p) + 1 /\ DOMAIN wire = 1..(Len(p) + 1)
      /\ \A i \in 1..(Len(p) + 1) : wire[i] = IF i = 1 THEN d ELSE rest[i - 1]
  BY <1>1, <1>2, <1>3
<1> HIDE DEF wire
<1>5. NodePositions(wire) = 2..(Len(p) + 1)
      /\ \A i \in 2..(Len(p) + 1) : wire[i].no = i - 1
  BY <1>1, <1>2, <1>4 DEF NodePositions
<1>6. {wire[i].no : i \in NodePositions(wire)} = 1..Len(p)
  <2>1. ASSUME NEW x \in 1..Len(p) PROVE x + 1 \in 2..(Len(p) + 1) /\ wire[x + 1].no = x
    BY <1>1, <1>5
  <2>2. ASSUME NEW i \in 2..(Len(p) + 1) PROVE wire[i].no \in 1..Len(p)
    BY <1>1, <1>5
  <2>3. QED BY <1>5, <2>1, <2>2
<1>7. NodesUpTo(wire, Len(p)) BY <1>1, <1>5, <1>6 DEF NodesUpTo
<1>8. QED BY <1>7 DEF wire, rest

-----------------------------------------------------------------------------
(* The proxy with an open socket.                                          *)

(* An event that does not end the stream, and one that does.               *)
LEMMA EventAppended ==
  ASSUME NEW events \in Seq(Event), NEW e \in Event, NoEnd(events)
  PROVE  EndLast(Append(events, e)) /\ (~IsEnd(e) => NoEnd(Append(events, e)))
BY DEF NoEnd, EndLast

(* From l to m, the proxy writes something else than a node and emits an   *)
(* event of the stream, at the most.                                       *)
GoesOn(l, m) ==
  /\ m \in LinkType /\ m.sock = l.sock /\ m.entry = l.entry /\ m.pending = l.pending
  /\ m._is_connected = l._is_connected
  /\ \/ m.wire = l.wire
     \/ \E d \in Written : d.what # "node" /\ m.wire = Append(l.wire, d)
  /\ \/ m.events = l.events
     \/ \E e \in Event : ~IsEnd(e) /\ m.events = Append(l.events, e)

(* Whoever goes on keeps what is known of the nodes.                       *)
LEMMA GoingOn ==
  ASSUME NEW l \in LinkType, NEW n \in Nat, LinkNodesInv(l, n), l.sock = "open",
         NEW m, GoesOn(l, m)
  PROVE  LinkNodesInv(m, n) /\ m \in LinkType /\ m.sock = "open"
<1>1. /\ m \in LinkType /\ m.sock = "open" /\ m.entry = "present" /\ m._is_connected
      /\ m.pending = << >> /\ l.entry = "present" /\ l.pending = << >>
  BY DEF GoesOn, LinkNodesInv, LinkInv
<1>2. NodesUpTo(l.wire, n)
  <2>1. Numbered(l, n) BY <1>1 DEF LinkNodesInv, NodesInv
  <2>2. n - Len(l.pending) = n BY <1>1
  <2>3. QED BY <2>1, <2>2 DEF Numbered
<1>3. NodesUpTo(m.wire, n)
  <2>1. l.wire \in Seq(Written) BY LinkFields
  <2>2. QED BY <1>2, <2>1, WriteOther DEF GoesOn
<1>4. NodesInv(m, n)
  <2>1. n \in 0..n OBVIOUS
  <2>2. Numbered(m, n) BY <1>1, <1>3 DEF Numbered
  <2>3. QED BY <1>1, <1>3, <2>1, <2>2 DEF NodesInv
<1>5. EndLast(m.events) /\ NoEnd(m.events)
  <2>1. l.events \in Seq(Event) /\ NoEnd(l.events) /\ EndLast(l.events)
    BY <1>1, LinkFields DEF LinkNodesInv, LinkInv
  <2>2. QED BY <2>1, EventAppended DEF GoesOn
<1>6. LinkInv(m) BY <1>1, <1>5 DEF LinkInv
<1>7. QED BY <1>1, <1>4, <1>6 DEF LinkNodesInv

(* What is sent on an open socket.                                         *)
LEMMA SendGoesOn ==
  ASSUME NEW l \in LinkType, l.sock = "open", NEW what \in What \ {"node"}
  PROVE  GoesOn(l, send(l, what, 0))
<1>1. 0 \in 0..MaxNodes BY ProxyAssumption
<1>2. Data(l, what, 0) \in Written /\ Data(l, what, 0).what # "node"
  BY <1>1 DEF Data, Written, What
<1>3. PICK m : m = send(l, what, 0) OBVIOUS
<1>4. /\ m \in LinkType /\ m.sock = l.sock /\ m.entry = l.entry /\ m.pending = l.pending
      /\ m._is_connected = l._is_connected /\ m.events = l.events
      /\ m.wire = Append(l.wire, Data(l, what, 0)) \/ m.wire = l.wire
  BY <1>1, <1>3, SendEffect
<1>5. QED BY <1>2, <1>3, <1>4 DEF GoesOn

(* What is emitted.                                                        *)
LEMMA EmitGoesOn ==
  ASSUME NEW l \in LinkType, NEW e \in Event, ~IsEnd(e)
  PROVE  GoesOn(l, Emit(l, e))
<1>1. PICK m : m = Emit(l, e) OBVIOUS
<1>2. m \in LinkType /\ m = [l EXCEPT !.events = Append(l.events, e)] BY <1>1, EmitEffect
<1>3. /\ m.sock = l.sock /\ m.entry = l.entry /\ m.pending = l.pending
      /\ m._is_connected = l._is_connected /\ m.wire = l.wire
      /\ m.events = Append(l.events, e)
  BY <1>2 DEF LinkType
<1>4. GoesOn(l, m) BY <1>2, <1>3 DEF GoesOn
<1>5. QED BY <1>1, <1>4

(* A change of the parser, of the handlers or of a flag.                   *)
LEMMA SetGoesOn ==
  ASSUME NEW l \in LinkType
  PROVE  /\ \A x \in {"fresh", "stream", "spent"} : GoesOn(l, [l EXCEPT !.parser = x])
         /\ GoesOn(l, [l EXCEPT !.parser = "stream", !.started = TRUE])
         /\ GoesOn(l, [l EXCEPT !._suppress_stream_restart_event = FALSE])
         /\ GoesOn(l, _starttls(l))
<1>1. ASSUME NEW x \in {"fresh", "stream", "spent"} PROVE GoesOn(l, [l EXCEPT !.parser = x])
  <2>1. PICK m : m = [l EXCEPT !.parser = x] OBVIOUS
  <2>2. m \in LinkType BY <2>1, FieldTypes
  <2>3. GoesOn(l, m) BY <2>1, <2>2 DEF GoesOn, LinkType
  <2>4. QED BY <2>1, <2>3
<1>2. PICK a : a = [l EXCEPT !.parser = "stream"] OBVIOUS
<1>3. a \in LinkType BY <1>2, FieldTypes
<1>4. [a EXCEPT !.started = TRUE] \in LinkType BY <1>3, FieldTypes
<1>5. GoesOn(l, [l EXCEPT !.parser = "stream", !.started = TRUE])
  BY <1>2, <1>4 DEF GoesOn, LinkType
<1>6. GoesOn(l, [l EXCEPT !._suppress_stream_restart_event = FALSE])
  <2>1. PICK m : m = [l EXCEPT !._suppress_stream_restart_event = FALSE] OBVIOUS
  <2>2. m \in LinkType BY <2>1, FieldTypes
  <2>3. GoesOn(l, m) BY <2>1, <2>2 DEF GoesOn, LinkType
  <2>4. QED BY <2>1, <2>3
<1>7. GoesOn(l, _starttls(l))
  <2>1. PICK b : b = [l EXCEPT !.tls = "handshake"] OBVIOUS
  <2>2. PICK c : c = [b EXCEPT !.listening = {"data", "close"}] OBVIOUS
  <2>3. b \in LinkType BY <2>1, FieldTypes
  <2>4. {"data", "close"} \in SUBSET {"data", "close"} OBVIOUS
  <2>5. c \in LinkType BY <2>2, <2>3, <2>4, FieldTypes
  <2>6. [c EXCEPT !._suppress_stream_restart_event = TRUE] \in LinkType BY <2>5, FieldTypes
  <2>7. _starttls(l) \in LinkType BY <2>1, <2>2, <2>6 DEF _starttls
  <2>8. QED BY <2>7 DEF GoesOn, LinkType, _starttls
<1>8. QED BY <1>1, <1>5, <1>6, <1>7

(* Every operator of the proxy keeps the invariant.                        *)
Kept(m, n) == LinkNodesInv(m, n) /\ m \in LinkType
Open(m, n) == Kept(m, n) /\ m.sock = "open"

(* The same, for links whose socket is open.                               *)
LEMMA OpenGoesOn ==
  ASSUME NEW l, NEW n \in Nat, Open(l, n), NEW m, GoesOn(l, m)
  PROVE  Open(m, n)
BY GoingOn DEF Open, Kept

(* What the proxy makes of a stanza of the server.                         *)
LEMMA StanzaKept == 
  ASSUME NEW l, NEW n \in Nat, Open(l, n), NEW item \in ItemKind \ {"open", "close", "huge"}
  PROVE  Open(_on_stanza(l, item), n)
<1>0. l \in LinkType /\ l.sock = "open" BY DEF Open, Kept
<1>1. Open(send(l, "starttls", 0), n) BY <1>0, SendGoesOn, OpenGoesOn DEF What
<1>2. ASSUME NEW e \in {"features", "success", "response"} PROVE Open(Emit(l, e), n)
  BY <1>0, EmitGoesOn, OpenGoesOn DEF Event, IsEnd
<1>3. Open(_starttls(l), n) BY <1>0, SetGoesOn, OpenGoesOn
<1>4. CASE item \in {"offer", "require"} BY <1>1, <1>2, <1>4 DEF _on_stanza
<1>5. CASE item = "proceed" BY <1>3, <1>5 DEF _on_stanza
<1>6. CASE item \in {"features", "success"}  BY <1>2, <1>6 DEF _on_stanza
<1>7. CASE item = "stanza" BY <1>2, <1>7 DEF _on_stanza
<1>8. QED BY <1>4, <1>5, <1>6, <1>7 DEF ItemKind

(* An opening tag starts a stream or restarts it.                          *)
LEMMA OpenTagKept ==
  ASSUME NEW l, NEW n \in Nat, Open(l, n)
  PROVE  Open(OpenTag(l), n)
<1>0. l \in LinkType /\ l.sock = "open" BY DEF Open, Kept
<1>1. CASE l.started
  <2>1. PICK a : a = [l EXCEPT !.parser = "stream"] OBVIOUS
  <2>2. Open(a, n) /\ a \in LinkType BY <1>0, <2>1, SetGoesOn, OpenGoesOn DEF Open, Kept
  <2>3. PICK b : b = IF a._suppress_stream_restart_event THEN a ELSE Emit(a, "stream-restarted")
    OBVIOUS
  <2>4. Open(Emit(a, "stream-restarted"), n)
    BY <2>2, EmitGoesOn, OpenGoesOn DEF Event, IsEnd
  <2>5. Open(b, n) /\ b \in LinkType BY <2>2, <2>3, <2>4 DEF Open, Kept
  <2>6. Open([b EXCEPT !._suppress_stream_restart_event = FALSE], n)
    BY <2>5, SetGoesOn, OpenGoesOn
  <2>7. QED BY <1>1, <2>1, <2>3, <2>6 DEF OpenTag, _on_stream_restart
<1>2. CASE ~l.started BY <1>0, <1>2, SetGoesOn, OpenGoesOn DEF OpenTag
<1>3. QED BY <1>1, <1>2

(* The proxy ends the stream itself.                                       *)
LEMMA TerminateKept ==
  ASSUME NEW l, NEW n \in Nat, Open(l, n)
  PROVE  Kept(terminate(l), n) /\ terminate(l).entry = "present"
<1>1. /\ l \in LinkType /\ l.sock = "open" /\ l.entry = "present" /\ l._is_connected
      /\ l.pending = << >> /\ EndLast(l.events) /\ NoEnd(l.events)
      /\ \E w \in 0..n : NodesUpTo(l.wire, w)
      /\ NodesUpTo(l.wire, n - Len(l.pending))
  BY DEF Open, Kept, LinkNodesInv, LinkInv, NodesInv, Numbered
<1>2. PICK m : m = terminate(l) OBVIOUS
<1>3. /\ m \in LinkType /\ m.entry = "present" /\ m.pending = << >> /\ m.events = l.events
      /\ ~m._is_connected /\ "data" \notin m.listening /\ m.sock = "ended"
      /\ m.wire = Append(l.wire, Data(l, "close", 0))
  BY <1>1, <1>2, TerminateEffect
<1>4. NodesUpTo(m.wire, n)
  <2>1. Data(l, "close", 0) \in Written /\ Data(l, "close", 0).what # "node"
    BY ProxyAssumption DEF Data, Written
  <2>2. n - Len(l.pending) = n /\ l.wire \in Seq(Written) BY <1>1, LinkFields
  <2>3. QED BY <1>1, <1>3, <2>1, <2>2, WriteOther
<1>5. n \in 0..n /\ n - Len(m.pending) = n BY <1>3
<1>6. NodesInv(m, n) BY <1>3, <1>4, <1>5 DEF NodesInv, Numbered
<1>7. LinkInv(m) BY <1>1, <1>3 DEF LinkInv, Deaf
<1>8. QED BY <1>2, <1>3, <1>6, <1>7 DEF Kept, LinkNodesInv

(* What the XMPP server sends, on a socket that is open.                   *)
LEMMA ParseKept ==
  ASSUME NEW l, NEW n \in Nat, Open(l, n), NEW item \in ItemKind
  PROVE  Kept(parse(l, item), n)
<1>0. l \in LinkType /\ l.parser \in {"fresh", "stream", "spent", "ended"}
  BY LinkFields DEF Open, Kept
<1>1. Kept(terminate(l), n) BY TerminateKept
<1>2. CASE l.parser = "ended" BY <1>2 DEF parse, Open
<1>3. CASE l.parser # "ended" /\ item \in {"close", "huge"} BY <1>1, <1>3 DEF parse
<1>4. CASE l.parser = "spent" /\ item \notin {"close", "huge"} BY <1>1, <1>4 DEF parse
<1>5. CASE l.parser \in {"fresh", "stream"} /\ item = "open"
  BY <1>5, OpenTagKept DEF parse, Open
<1>6. CASE l.parser = "stream" /\ item \notin {"open", "close", "huge"}
  BY <1>6, StanzaKept DEF parse, Open
<1>7. CASE l.parser = "fresh" /\ item \notin {"open", "close", "huge"}
  <2>1. PICK a : a = [l EXCEPT !.parser = "spent"] OBVIOUS
  <2>2. Open(a, n) BY <1>0, <2>1, SetGoesOn, OpenGoesOn
  <2>3. Kept(_on_stanza(a, item), n) BY <1>7, <2>2, StanzaKept DEF Open
  <2>4. QED BY <1>1, <1>7, <2>1, <2>3 DEF parse
<1>8. QED BY <1>0, <1>2, <1>3, <1>4, <1>5, <1>6, <1>7

-----------------------------------------------------------------------------
(* The connector, and the socket.                                          *)

(* A change of something else.                                             *)
LEMMA SameKept ==
  ASSUME NEW l, NEW n \in Nat, Kept(l, n), NEW m \in LinkType, l.sock # "open",
         m.entry = l.entry, m.sock = l.sock, m.pending = l.pending, m.wire = l.wire,
         m.events = l.events, m._terminate_on_connect = l._terminate_on_connect,
         m.tls = l.tls, m._is_connected => l._is_connected, l.sock = "ended" => Deaf(m)
  PROVE  Kept(m, n)
<1>1. LinkInv(m) BY DEF Kept, LinkNodesInv, LinkInv
<1>2. NodesInv(m, n) BY DEF Kept, LinkNodesInv, NodesInv, Numbered
<1>3. QED BY <1>1, <1>2 DEF Kept, LinkNodesInv

(* restart writes an opening tag, or keeps it for later.                   *)
LEMMA RestartKept ==
  ASSUME NEW l, NEW n \in Nat, Kept(l, n), l.sock = "ended" => "data" \notin l.listening
  PROVE  Kept(restart(l), n)
<1>0. l \in LinkType BY DEF Kept
<1>1. PICK a : a = send(l, "open", 0) OBVIOUS
<1>2. PICK m : m = [a EXCEPT !.parser = "fresh"] OBVIOUS
<1>3. m = restart(l) BY <1>1, <1>2 DEF restart
<1>4. CASE l.sock = "open"
  <2>1. Open(a, n) BY <1>0, <1>1, <1>4, SendGoesOn, OpenGoesOn DEF What, Open
  <2>2. Open(m, n) BY <1>2, <2>1, SetGoesOn, OpenGoesOn DEF Open, Kept
  <2>3. QED BY <1>3, <2>2 DEF Open
<1>5. CASE l.sock # "open"
  <2>1. "open" \in What /\ 0 \in 0..MaxNodes BY ProxyAssumption DEF What
  <2>2. /\ a \in LinkType /\ a.entry = l.entry /\ a.sock = l.sock /\ a.pending = l.pending
        /\ a.wire = l.wire /\ a.events = l.events /\ a.tls = l.tls
        /\ a._terminate_on_connect = l._terminate_on_connect
        /\ (a._is_connected => l._is_connected) /\ a.listening = l.listening
    BY <1>0, <1>1, <1>5, <2>1, SendEffect
  <2>3. /\ m \in LinkType /\ m.entry = l.entry /\ m.sock = l.sock /\ m.pending = l.pending
        /\ m.wire = l.wire /\ m.events = l.events /\ m.tls = l.tls
        /\ m._terminate_on_connect = l._terminate_on_connect
        /\ (m._is_connected => l._is_connected) /\ m.listening = l.listening
    <3>1. m \in LinkType BY <1>2, <2>2, FieldTypes
    <3>2. QED BY <1>2, <2>2, <3>1 DEF LinkType
  <2>4. l.sock = "ended" => Deaf(m) BY <2>3 DEF Deaf
  <2>5. Kept(m, n) BY <1>5, <2>3, <2>4, SameKept
  <2>6. QED BY <1>3, <2>5
<1>6. QED BY <1>4, <1>5

(* A stream with no socket, or whose socket is closed, that is over.       *)
LEMMA CloseKept ==
  ASSUME NEW l \in LinkType, NEW n \in Nat, l.sock \in {"none", "closed"},
         l.entry = "present" => NoEnd(l.events), l.entry # "none",
         l.entry = "gone" => EndLast(l.events),
         l.sock = "none" => ~l._is_connected /\ l.wire = << >> /\ l.tls = "clear",
         l._is_connected => l.pending = << >>, \E w \in 0..n : NodesUpTo(l.wire, w)
  PROVE  Kept(_on_xmpp_proxy_close(l), n)
<1>1. CASE l.entry # "present"
  <2>1. l.entry = "gone" BY <1>1, LinkFields
  <2>2. LinkInv(l) /\ NodesInv(l, n) BY <2>1 DEF LinkInv, NodesInv
  <2>3. QED BY <1>1, <2>2 DEF Kept, LinkNodesInv, _on_xmpp_proxy_close
<1>2. CASE l.entry = "present"
  <2>1. PICK a : a = [l EXCEPT !.entry = "gone"] OBVIOUS
  <2>2. PICK m : m = Emit(a, "terminate") OBVIOUS
  <2>3. a \in LinkType BY <2>1, FieldTypes
  <2>4. m \in LinkType /\ m = [a EXCEPT !.events = Append(a.events, "terminate")]
    BY <2>2, <2>3, EmitEffect DEF Event
  <2>5. /\ m.entry = "gone" /\ m.sock = l.sock /\ m.pending = l.pending /\ m.wire = l.wire
        /\ m._is_connected = l._is_connected /\ m.tls = l.tls
        /\ m.events = Append(l.events, "terminate")
    BY <2>1, <2>3, <2>4 DEF LinkType
  <2>6. EndLast(m.events) BY <1>2, <2>5, LinkFields, EventAppended DEF Event
  <2>7. LinkInv(m) /\ NodesInv(m, n) BY <2>5, <2>6 DEF LinkInv, NodesInv
  <2>8. QED BY <1>2, <2>1, <2>2, <2>4, <2>7 DEF Kept, LinkNodesInv, _on_xmpp_proxy_close
<1>3. QED BY <1>1, <1>2

(* A new entry, with its socket on the way.                                *)
LEMMA AddKept ==
  ASSUME TypeOK, ProxyInv, stream_add
  PROVE  Kept(link', peer.nodes)
<1> DEFINE n == peer.nodes
<1>0. n \in Nat BY DEF TypeOK, PeerType
<1>1. PICK refused \in Refusals, route \in Routes :
        link' = IF refused THEN _on_xmpp_proxy_close([link EXCEPT !.entry = "present"])
                ELSE [[link EXCEPT !.entry = "present"] EXCEPT
                         !.sock = "connecting", !.lookup = IF route THEN "route" ELSE "srv"]
  BY DEF stream_add
<1>2. /\ link \in LinkType /\ link.entry = "none" /\ link.sock = "none" /\ n = 0
      /\ ~link._terminate_on_connect /\ ~link._is_connected /\ link.wire = << >>
      /\ link.tls = "clear" /\ link.pending = << >> /\ NoEnd(link.events)
      /\ \E w \in 0..n : NodesUpTo(link.wire, w)
  BY DEF TypeOK, ProxyInv, LinkNodesInv, LinkInv, NodesInv, stream_add
<1>3. PICK a : a = [link EXCEPT !.entry = "present"] OBVIOUS
<1>4. /\ a \in LinkType /\ a.entry = "present" /\ a.sock = "none"
      /\ ~a._terminate_on_connect /\ ~a._is_connected /\ a.wire = << >>
      /\ a.tls = "clear" /\ a.pending = << >> /\ a.events = link.events
  <2>1. a \in LinkType BY <1>2, <1>3, FieldTypes
  <2>2. QED BY <1>2, <1>3, <2>1 DEF LinkType
<1>5. CASE refused
  <2>1. Kept(_on_xmpp_proxy_close(a), n) BY <1>0, <1>2, <1>4, CloseKept
  <2>2. QED BY <1>1, <1>3, <1>5, <2>1
<1>6. CASE ~refused
  <2>1. PICK b : b = [a EXCEPT !.sock = "connecting"] OBVIOUS
  <2>2. PICK m : m = [b EXCEPT !.lookup = IF route THEN "route" ELSE "srv"] OBVIOUS
  <2>3. b \in LinkType BY <1>4, <2>1, FieldTypes
  <2>4. m \in LinkType BY <2>2, <2>3, FieldTypes
  <2>5. /\ m.entry = "present" /\ m.sock = "connecting"
        /\ ~m._terminate_on_connect /\ ~m._is_connected /\ m.wire = << >>
        /\ m.tls = "clear" /\ m.pending = << >> /\ m.events = link.events
    BY <1>4, <2>1, <2>2 DEF LinkType
  <2>6. NodesUpTo(m.wire, n - Len(m.pending))
    BY <1>2, <2>5 DEF NodesUpTo, NodePositions
  <2>7. EndLast(m.events) BY <1>2, <2>5 DEF NoEnd, EndLast
  <2>8. LinkInv(m) /\ NodesInv(m, n)
    BY <1>2, <2>5, <2>6, <2>7 DEF LinkInv, NodesInv, Numbered
  <2>9. link' = m BY <1>1, <1>3, <1>6, <2>1, <2>2
  <2>10. QED BY <2>4, <2>8, <2>9 DEF Kept, LinkNodesInv
<1>7. QED BY <1>5, <1>6

(* A node that is written, lost, kept for later or dropped.                *)
LEMMA NodeKept ==
  ASSUME NEW l, NEW n \in Nat, Kept(l, n), n < MaxNodes, l.entry # "none"
  PROVE  Kept(stanza(l, n + 1), n + 1)
<1>0. /\ l \in LinkType /\ l.entry \in {"none", "present", "gone"}
      /\ LinkInv(l) /\ NodesInv(l, n) /\ n + 1 \in Node /\ n + 1 \in 0..MaxNodes
      /\ l.wire \in Seq(Written) /\ l.pending \in Seq(Node)
  BY LinkFields, ProxyAssumption DEF Kept, LinkNodesInv, Node
<1>1. \E w \in 0..(n + 1) : NodesUpTo(l.wire, w)
  <2>1. PICK w \in 0..n : NodesUpTo(l.wire, w) BY <1>0 DEF NodesInv
  <2>2. w \in 0..(n + 1) OBVIOUS
  <2>3. QED BY <2>1, <2>2
<1>2. CASE l.entry = "gone"
  <2>1. NodesInv(l, n + 1) BY <1>1, <1>2 DEF NodesInv
  <2>2. QED BY <1>0, <1>2, <2>1 DEF stanza, Kept, LinkNodesInv
<1>3. CASE l.entry = "present" /\ l._is_connected /\ l.sock = "open"
  <2>1. PICK m : m = stanza(l, n + 1) OBVIOUS
  <2>2. m = send(l, "node", n + 1) BY <1>3, <2>1 DEF stanza
  <2>3. /\ m \in LinkType /\ m.entry = "present" /\ m.sock = "open" /\ m._is_connected
        /\ m.pending = << >> /\ m.events = l.events
        /\ m.wire = Append(l.wire, Data(l, "node", n + 1))
    <3>1. "node" \in What BY DEF What
    <3>2. l.pending = << >> BY <1>0, <1>3 DEF LinkInv
    <3>3. QED BY <1>0, <1>3, <2>2, <3>1, <3>2, SendEffect
  <2>4. NodesUpTo(l.wire, n)
    <3>1. Numbered(l, n) /\ l.pending = << >> BY <1>0, <1>3 DEF NodesInv, LinkInv
    <3>2. n - Len(l.pending) = n BY <3>1
    <3>3. QED BY <3>1, <3>2 DEF Numbered
  <2>5. /\ Data(l, "node", n + 1) \in Written
        /\ Data(l, "node", n + 1).what = "node" /\ Data(l, "node", n + 1).no = n + 1
    BY <1>0 DEF Data, Written
  <2>6. NodesUpTo(m.wire, n + 1) BY <1>0, <2>3, <2>4, <2>5, WriteNode
  <2>7. n + 1 \in 0..(n + 1) /\ n + 1 - Len(m.pending) = n + 1 BY <2>3
  <2>8. NodesInv(m, n + 1) BY <2>3, <2>6, <2>7 DEF NodesInv, Numbered
  <2>9. LinkInv(m) BY <1>0, <1>3, <2>3 DEF LinkInv
  <2>10. QED BY <2>1, <2>3, <2>8, <2>9 DEF Kept, LinkNodesInv
<1>4. CASE l.entry = "present" /\ l._is_connected /\ l.sock # "open"
  <2>1. PICK m : m = stanza(l, n + 1) OBVIOUS
  <2>2. m = send(l, "node", n + 1) BY <1>4, <2>1 DEF stanza
  <2>3. /\ m \in LinkType /\ m.entry = l.entry /\ m.sock = l.sock /\ m.pending = l.pending
        /\ m.wire = l.wire /\ m.events = l.events /\ m.tls = l.tls
        /\ m._terminate_on_connect = l._terminate_on_connect
        /\ (m._is_connected => l._is_connected)
    <3>1. "node" \in What BY DEF What
    <3>2. QED BY <1>0, <1>4, <2>2, <3>1, SendEffect
  <2>4. l.sock \in {"dead", "closed"} BY <1>0, <1>4, LinkFields DEF LinkInv
  <2>5. Kept(m, n) BY <1>4, <2>3, <2>4, SameKept
  <2>6. NodesInv(m, n + 1) BY <1>1, <1>4, <2>3, <2>4 DEF NodesInv
  <2>7. QED BY <2>1, <2>5, <2>6 DEF Kept, LinkNodesInv
<1>5. CASE l.entry = "present" /\ ~l._is_connected
  <2>1. PICK m : m = stanza(l, n + 1) OBVIOUS
  <2>2. m = [l EXCEPT !.pending = Append(l.pending, n + 1)] BY <1>5, <2>1 DEF stanza
  <2>3. Append(l.pending, n + 1) \in Seq(Node) BY <1>0
  <2>4. m \in LinkType BY <1>0, <2>2, <2>3, FieldTypes
  <2>5. /\ m.entry = l.entry /\ m.sock = l.sock /\ m.wire = l.wire /\ m.events = l.events
        /\ m.tls = l.tls /\ m._terminate_on_connect = l._terminate_on_connect
        /\ ~m._is_connected /\ m.pending = Append(l.pending, n + 1)
        /\ m.listening = l.listening /\ m.parser = l.parser
    BY <1>0, <1>5, <2>2 DEF LinkType
  <2>6. LinkInv(m) BY <1>0, <1>5, <2>5 DEF LinkInv, Deaf
  <2>7. ASSUME Numbered(l, n) PROVE Numbered(m, n + 1)
    <3>1. Len(m.pending) = Len(l.pending) + 1 /\ Len(l.pending) \in Nat
          /\ DOMAIN l.pending = 1..Len(l.pending)
      BY <1>0, <2>5
    <3>2. n + 1 - Len(m.pending) = n - Len(l.pending) BY <3>1
    <3>3. ASSUME NEW k \in DOMAIN m.pending
          PROVE  m.pending[k] = n + 1 - Len(m.pending) + k
      <4>1. k \in 1..(Len(l.pending) + 1) BY <1>0, <2>5
      <4>2. CASE k = Len(l.pending) + 1 BY <1>0, <2>5, <3>1, <4>2
      <4>3. CASE k \in 1..Len(l.pending)
        <5>1. m.pending[k] = l.pending[k] BY <1>0, <2>5, <4>3
        <5>2. l.pending[k] = n - Len(l.pending) + k BY <2>7, <3>1, <4>3 DEF Numbered
        <5>3. QED BY <3>1, <3>2, <4>1, <5>1, <5>2
      <4>4. QED BY <3>1, <4>1, <4>2, <4>3
    <3>4. QED BY <2>5, <2>7, <3>2, <3>3 DEF Numbered
  <2>8. NodesInv(m, n + 1) BY <1>0, <1>1, <1>5, <2>5, <2>7 DEF NodesInv
  <2>9. QED BY <2>1, <2>4, <2>6, <2>8 DEF Kept, LinkNodesInv
<1>6. QED BY <1>0, <1>2, <1>3, <1>4, <1>5

(* The front end ends the stream.                                          *)
LEMMA EndKept ==
  ASSUME NEW l, NEW n \in Nat, Kept(l, n), l.entry = "present"
  PROVE  Kept(Emit([terminate(l) EXCEPT !.entry = "gone"], "stream-terminate"), n)
<1>0. /\ l \in LinkType /\ LinkInv(l) /\ NodesInv(l, n) /\ l.wire \in Seq(Written)
      /\ l.sock \in {"none", "connecting", "open", "ended", "dead", "closed"}
      /\ l.events \in Seq(Event) /\ NoEnd(l.events)
  BY LinkFields DEF Kept, LinkNodesInv, LinkInv
<1>1. PICK a : a = terminate(l) OBVIOUS
<1>2. PICK b : b = [a EXCEPT !.entry = "gone"] OBVIOUS
<1>3. PICK m : m = Emit(b, "stream-terminate") OBVIOUS
<1>4. /\ a \in LinkType /\ a.entry = l.entry /\ a.pending = l.pending /\ a.tls = l.tls
      /\ a.events = l.events /\ ~a._is_connected
      /\ a.sock = (IF l._is_connected /\ l.sock = "open" THEN "ended" ELSE l.sock)
      /\ l._is_connected => "data" \notin a.listening
      /\ ~l._is_connected => a._terminate_on_connect /\ a.listening = l.listening
      /\ IF l._is_connected /\ l.sock = "open"
         THEN a.wire = Append(l.wire, Data(l, "close", 0)) ELSE a.wire = l.wire
  BY <1>0, <1>1, TerminateEffect
<1>5. b \in LinkType BY <1>2, <1>4, FieldTypes
<1>6. m \in LinkType /\ m = [b EXCEPT !.events = Append(b.events, "stream-terminate")]
  BY <1>3, <1>5, EmitEffect DEF Event
<1>7. /\ m.entry = "gone" /\ m.pending = a.pending /\ m.tls = a.tls
      /\ m.events = Append(l.events, "stream-terminate") /\ ~m._is_connected
      /\ m.sock = a.sock /\ m.listening = a.listening /\ m.wire = a.wire
      /\ m._terminate_on_connect = a._terminate_on_connect
  BY <1>2, <1>4, <1>5, <1>6 DEF LinkType
<1>8. EndLast(m.events) BY <1>0, <1>7, EventAppended DEF Event
<1>9. \E w \in 0..n : NodesUpTo(m.wire, w)
  <2>1. PICK w \in 0..n : NodesUpTo(l.wire, w) BY <1>0 DEF NodesInv
  <2>2. Data(l, "close", 0) \in Written /\ Data(l, "close", 0).what # "node"
    BY ProxyAssumption DEF Data, Written
  <2>3. NodesUpTo(Append(l.wire, Data(l, "close", 0)), w)
    BY <1>0, <2>1, <2>2, WriteOther
  <2>4. m.wire = l.wire \/ m.wire = Append(l.wire, Data(l, "close", 0)) BY <1>4, <1>7
  <2>5. QED BY <2>1, <2>3, <2>4
<1>10. LinkInv(m)
  <2>1. CASE l._is_connected /\ l.sock = "open"
    BY <1>4, <1>7, <1>8, <2>1 DEF LinkInv, Deaf
  <2>2. CASE l.sock = "connecting"
    <3>1. ~l._is_connected BY <1>0, <2>2 DEF LinkInv
    <3>2. QED BY <1>0, <1>4, <1>7, <1>8, <2>2, <3>1 DEF LinkInv
  <2>3. CASE l.sock = "ended"
    <3>1. ~l._is_connected /\ "data" \notin l.listening BY <1>0, <2>3 DEF LinkInv, Deaf
    <3>2. QED BY <1>4, <1>7, <1>8, <2>3, <3>1 DEF LinkInv, Deaf
  <2>4. CASE l.sock \in {"dead", "closed"}
    BY <1>4, <1>7, <1>8, <2>4 DEF LinkInv
  <2>5. QED BY <1>0, <2>1, <2>2, <2>3, <2>4 DEF LinkInv
<1>11. NodesInv(m, n) BY <1>7, <1>9 DEF NodesInv
<1>12. QED BY <1>1, <1>2, <1>3, <1>6, <1>10, <1>11 DEF Kept, LinkNodesInv

(* The proxy connects, and either ends the stream at once or greets the    *)
(* XMPP server and has the pending nodes sent.                             *)
LEMMA ConnectEffect ==
  ASSUME NEW l \in LinkType, l.wire = << >>
  PROVE  LET m == _on_connect(l)
             rest == [k \in DOMAIN l.pending |-> Data(l, "node", l.pending[k])]
         IN /\ m \in LinkType /\ m.entry = l.entry /\ m.tls = l.tls /\ m.started = l.started
            /\ m._suppress_stream_restart_event = l._suppress_stream_restart_event
            /\ l._terminate_on_connect =>
                 /\ ~m._is_connected /\ m.sock = "ended" /\ m.parser = "ended"
                 /\ m.events = l.events /\ m.wire = Append(<< >>, Data(l, "close", 0))
            /\ ~l._terminate_on_connect =>
                 /\ m._is_connected /\ m.sock = "open" /\ m.pending = << >>
                 /\ m.events = Append(l.events, "stream-added")
                 /\ m.wire = <<Data(l, "open", 0)>> \o rest
<1> DEFINE rest == [k \in DOMAIN l.pending |-> Data(l, "node", l.pending[k])]
<1>0. l.pending \in Seq(Node) /\ l._terminate_on_connect \in BOOLEAN BY LinkFields
<1>1. PICK a : a = [l EXCEPT !._is_connected = TRUE] OBVIOUS
<1>2. PICK b : b = [a EXCEPT !.lookup = "done"] OBVIOUS
<1>3. PICK up : up = [b EXCEPT !.sock = "open"] OBVIOUS
<1>4. /\ up \in LinkType /\ up.sock = "open" /\ up._is_connected /\ up.wire = << >>
      /\ up.entry = l.entry /\ up.pending = l.pending /\ up.tls = l.tls
      /\ up.events = l.events /\ up._terminate_on_connect = l._terminate_on_connect
      /\ up.started = l.started
      /\ up._suppress_stream_restart_event = l._suppress_stream_restart_event
  <2>1. a \in LinkType BY <1>1, FieldTypes
  <2>2. b \in LinkType BY <1>2, <2>1, FieldTypes
  <2>3. up \in LinkType BY <1>3, <2>2, FieldTypes
  <2>4. QED BY <1>1, <1>2, <1>3, <2>3 DEF LinkType
<1>5. up = [l EXCEPT !._is_connected = TRUE, !.lookup = "done", !.sock = "open"]
  BY <1>1, <1>2, <1>3
<1>6. {"data", "close"} \in SUBSET {"data", "close"} OBVIOUS
<1>7. CASE l._terminate_on_connect
  <2>1. PICK c : c = terminate(up) OBVIOUS
  <2>2. PICK m : m = [c EXCEPT !.listening = {"data", "close"}] OBVIOUS
  <2>3. m = _on_connect(l) BY <1>4, <1>5, <1>7, <2>1, <2>2 DEF _on_connect
  <2>4. Data(up, "close", 0) = Data(l, "close", 0) BY <1>4 DEF Data
  <2>5. /\ c \in LinkType /\ c.entry = l.entry /\ c.tls = l.tls /\ c.started = l.started
        /\ c._suppress_stream_restart_event = l._suppress_stream_restart_event
        /\ c.events = l.events /\ ~c._is_connected /\ c.sock = "ended"
        /\ c.parser = "ended" /\ c.wire = Append(<< >>, Data(l, "close", 0))
    BY <1>4, <2>1, <2>4, TerminateEffect
  <2>6. m \in LinkType BY <1>6, <2>2, <2>5, FieldTypes
  <2>7. /\ m.entry = l.entry /\ m.tls = l.tls /\ m.started = l.started
        /\ m._suppress_stream_restart_event = l._suppress_stream_restart_event
        /\ m.events = l.events /\ ~m._is_connected
        /\ m.sock = "ended" /\ m.parser = "ended"
        /\ m.wire = Append(<< >>, Data(l, "close", 0))
    BY <2>2, <2>5 DEF LinkType
  <2> HIDE DEF rest
  <2>8. QED BY <1>7, <2>3, <2>6, <2>7
<1>8. CASE ~l._terminate_on_connect
  <2>1. PICK c : c = send(up, "open", 0) OBVIOUS
  <2>2. PICK d : d = Emit(c, "stream-added") OBVIOUS
  <2>3. PICK e : e = _on_xmpp_proxy_connected(c) OBVIOUS
  <2>4. PICK m : m = [e EXCEPT !.listening = {"data", "close"}] OBVIOUS
  <2>5. m = _on_connect(l) BY <1>4, <1>5, <1>8, <2>1, <2>3, <2>4 DEF _on_connect
  <2>6. Data(up, "open", 0) = Data(l, "open", 0) BY <1>4 DEF Data
  <2>7. "open" \in What /\ 0 \in 0..MaxNodes BY ProxyAssumption DEF What
  <2>8. /\ c \in LinkType /\ c.entry = l.entry /\ c.pending = l.pending /\ c.tls = l.tls
        /\ c.started = l.started
        /\ c._suppress_stream_restart_event = l._suppress_stream_restart_event
        /\ c.events = l.events /\ c._is_connected /\ c.sock = "open"
        /\ c.wire = Append(<< >>, Data(l, "open", 0))
    BY <1>4, <2>1, <2>6, <2>7, SendEffect
  <2>9. /\ d \in LinkType /\ d.entry = l.entry /\ d.sock = "open" /\ d._is_connected
        /\ d.tls = l.tls /\ d.started = l.started
        /\ d._suppress_stream_restart_event = l._suppress_stream_restart_event
        /\ d.events = Append(l.events, "stream-added") /\ d.wire = c.wire
    <3>1. d \in LinkType /\ d = [c EXCEPT !.events = Append(c.events, "stream-added")]
      BY <2>2, <2>8, EmitEffect DEF Event
    <3>2. QED BY <2>8, <3>1 DEF LinkType
  <2>10. rest = [k \in DOMAIN c.pending |-> Data(c, "node", c.pending[k])]
    BY <1>4, <2>8 DEF Data
  <2>11. e = [d EXCEPT !.wire = d.wire \o rest, !.pending = << >>]
    BY <2>2, <2>3, <2>10 DEF _on_xmpp_proxy_connected
  <2>12. <<Data(l, "open", 0)>> \o rest \in Seq(Written)
         /\ Append(<< >>, Data(l, "open", 0)) = <<Data(l, "open", 0)>>
    <3>1. Data(l, "open", 0) \in Written BY <2>7 DEF Data, Written
    <3>2. \A k \in DOMAIN l.pending : Data(l, "node", l.pending[k]) \in Written
      BY <1>0, ProxyAssumption DEF Data, Written, Node
    <3>3. rest \in Seq(Written) BY <1>0, <3>2
    <3>4. <<Data(l, "open", 0)>> \in Seq(Written) BY <3>1
    <3> HIDE DEF rest
    <3>5. <<Data(l, "open", 0)>> \o rest \in Seq(Written) BY <3>3, <3>4
    <3>6. QED BY <3>5
  <2> HIDE DEF rest
  <2>13. /\ m \in LinkType /\ m.entry = l.entry /\ m.sock = "open" /\ m._is_connected
         /\ m.tls = l.tls /\ m.started = l.started
         /\ m._suppress_stream_restart_event = l._suppress_stream_restart_event
         /\ m.pending = << >> /\ m.events = Append(l.events, "stream-added")
         /\ m.wire = <<Data(l, "open", 0)>> \o rest
    <3>1. PICK f : f = [d EXCEPT !.wire = <<Data(l, "open", 0)>> \o rest] OBVIOUS
    <3>2. f \in LinkType BY <2>9, <2>12, <3>1, FieldTypes
    <3>3. << >> \in Seq(Node) OBVIOUS
    <3>4. e = [f EXCEPT !.pending = << >>] BY <2>8, <2>9, <2>11, <2>12, <3>1
    <3>5. e \in LinkType BY <3>2, <3>3, <3>4, FieldTypes
    <3>6. m \in LinkType BY <1>6, <2>4, <3>5, FieldTypes
    <3>7. QED BY <2>4, <2>9, <3>1, <3>4, <3>6 DEF LinkType
  <2>14. QED BY <1>8, <2>5, <2>13 DEF rest
<1>9. QED BY <1>0, <1>7, <1>8

(* The nodes that are pending are all there are, and they are written.     *)
LEMMA ConnectKept ==
  ASSUME NEW l, NEW n \in Nat, Kept(l, n), l.sock = "connecting"
  PROVE  Kept(_on_connect(l), n)
<1>0. /\ l \in LinkType /\ LinkInv(l) /\ NodesInv(l, n) /\ l.entry \in {"present", "gone"}
      /\ l.wire = << >> /\ l.tls = "clear" /\ l.pending \in Seq(Node)
      /\ l.events \in Seq(Event)
  BY LinkFields DEF Kept, LinkNodesInv, LinkInv
<1>1. PICK m : m = _on_connect(l) OBVIOUS
<1>2. CASE l._terminate_on_connect
  <2>1. l.entry = "gone" BY <1>0, <1>2 DEF LinkInv
  <2>2. /\ m \in LinkType /\ m.entry = "gone" /\ m.tls = "clear" /\ m.events = l.events
        /\ ~m._is_connected /\ m.sock = "ended" /\ m.parser = "ended"
        /\ m.wire = Append(<< >>, Data(l, "close", 0))
    BY <1>0, <1>1, <1>2, <2>1, ConnectEffect
  <2>3. LinkInv(m) BY <1>0, <2>2 DEF LinkInv, Deaf
  <2>4. NodesInv(m, n)
    <3>1. Data(l, "close", 0) \in Written /\ Data(l, "close", 0).what # "node"
      BY ProxyAssumption DEF Data, Written
    <3>2. PICK w \in 0..n : NodesUpTo(<< >>, w) BY <1>0 DEF NodesInv
    <3>3. << >> \in Seq(Written) /\ w \in Nat OBVIOUS
    <3>4. NodesUpTo(m.wire, w) BY <2>2, <3>1, <3>2, <3>3, WriteOther
    <3>5. QED BY <2>2, <3>4 DEF NodesInv
  <2>5. QED BY <1>1, <2>2, <2>3, <2>4 DEF Kept, LinkNodesInv
<1>3. CASE ~l._terminate_on_connect
  <2> DEFINE rest == [k \in DOMAIN l.pending |-> Data(l, "node", l.pending[k])]
  <2>1. l.entry = "present" BY <1>0, <1>3 DEF LinkInv
  <2>2. /\ m \in LinkType /\ m.entry = "present" /\ m.sock = "open" /\ m._is_connected
        /\ m.pending = << >> /\ m.events = Append(l.events, "stream-added")
        /\ m.wire = <<Data(l, "open", 0)>> \o rest
    BY <1>0, <1>1, <1>3, <2>1, ConnectEffect
  <2> HIDE DEF rest
  <2>3. NodesUpTo(m.wire, n)
    <3>1. Numbered(l, n) BY <1>0, <2>1 DEF NodesInv
    <3>2. Len(l.pending) = n
      <4>1. n - Len(l.pending) \in Int /\ Len(l.pending) \in Nat BY <1>0
      <4>2. 1..(n - Len(l.pending)) = {}
        BY <1>0, <3>1 DEF Numbered, NodesUpTo, NodePositions
      <4>3. ~(1 <= n - Len(l.pending))
        <5>1. ASSUME 1 <= n - Len(l.pending) PROVE FALSE
          <6>1. 1 \in 1..(n - Len(l.pending)) BY <4>1, <5>1
          <6>2. QED BY <4>2, <6>1
        <5>2. QED BY <5>1
      <4>4. CASE l.pending = << >> BY <4>1, <4>3, <4>4
      <4>5. CASE l.pending # << >>
        <5>1. 1 \in DOMAIN l.pending BY <1>0, <4>5
        <5>2. l.pending[1] = n - Len(l.pending) + 1 BY <3>1, <5>1 DEF Numbered
        <5>3. l.pending[1] \in Node BY <1>0, <5>1
        <5>4. QED BY <4>1, <4>3, <5>2, <5>3, ProxyAssumption DEF Node
      <4>6. QED BY <4>4, <4>5
    <3>3. \A k \in DOMAIN l.pending : l.pending[k] = k
      BY <1>0, <3>1, <3>2 DEF Numbered
    <3>4. Data(l, "open", 0).what # "node" BY DEF Data
    <3>5. NodesUpTo(<<Data(l, "open", 0)>> \o rest, Len(l.pending))
      BY <1>0, <3>3, <3>4, WritePending DEF rest
    <3>6. QED BY <2>2, <3>2, <3>5
  <2>4. EndLast(m.events) /\ NoEnd(m.events)
    <3>1. NoEnd(l.events) BY <1>0, <2>1 DEF LinkInv
    <3>2. QED BY <1>0, <2>2, <3>1, EventAppended DEF Event, IsEnd
  <2>5. LinkInv(m) BY <2>2, <2>4 DEF LinkInv
  <2>6. NodesInv(m, n)
    <3>1. n \in 0..n /\ n - Len(m.pending) = n BY <2>2
    <3>2. QED BY <2>2, <2>3, <3>1 DEF NodesInv, Numbered
  <2>7. QED BY <1>1, <2>2, <2>5, <2>6 DEF Kept, LinkNodesInv
<1>4. QED BY <1>2, <1>3

-----------------------------------------------------------------------------
(* The steps.                                                              *)

(* A field of peer that is given a value of its type.                      *)
LEMMA PeerFields ==
  ASSUME NEW p \in PeerType
  PROVE  /\ \A x \in 0..MaxNodes : [p EXCEPT !.nodes = x] \in PeerType
         /\ \A x \in 0..MaxRestarts : [p EXCEPT !.restarts = x] \in PeerType
         /\ \A x \in Seq(Items) : [p EXCEPT !.inbound = x] \in PeerType
         /\ \A x : [p EXCEPT !.nodes = x].nodes = x
         /\ \A x : [p EXCEPT !.restarts = x].nodes = p.nodes
         /\ \A x : [p EXCEPT !.inbound = x].nodes = p.nodes
<1>1. \A x \in 0..MaxNodes : [p EXCEPT !.nodes = x] \in PeerType BY DEF PeerType
<1>2. \A x \in 0..MaxRestarts : [p EXCEPT !.restarts = x] \in PeerType BY DEF PeerType
<1>3. \A x \in Seq(Items) : [p EXCEPT !.inbound = x] \in PeerType BY DEF PeerType
<1>4. /\ \A x : [p EXCEPT !.nodes = x].nodes = x
      /\ \A x : [p EXCEPT !.restarts = x].nodes = p.nodes
      /\ \A x : [p EXCEPT !.inbound = x].nodes = p.nodes
  BY DEF PeerType
<1>5. QED BY <1>1, <1>2, <1>3, <1>4

(* peer keeps its type, and only a node of the client is counted as one.   *)
LEMMA PeerSteps ==
  ASSUME TypeOK, Next
  PROVE  /\ peer' \in PeerType
         /\ peer'.nodes = peer.nodes \/ (ClientNode /\ peer'.nodes = peer.nodes + 1)
<1>0. peer \in PeerType BY DEF TypeOK
<1>1. CASE ClientNode
  <2>1. peer.nodes + 1 \in 0..MaxNodes
    BY <1>0, <1>1, ProxyAssumption DEF ClientNode, PeerType
  <2>2. peer' = [peer EXCEPT !.nodes = peer.nodes + 1] BY <1>1 DEF ClientNode
  <2>3. QED BY <1>0, <1>1, <2>1, <2>2, PeerFields
<1>2. CASE stream_restart
  <2>1. peer.restarts + 1 \in 0..MaxRestarts
    BY <1>0, <1>2, ProxyAssumption DEF stream_restart, PeerType
  <2>2. peer' = [peer EXCEPT !.restarts = peer.restarts + 1] BY <1>2 DEF stream_restart
  <2>3. QED BY <1>0, <2>1, <2>2, PeerFields
<1>3. ASSUME NEW item \in Items, ServerSend(item)
      PROVE  peer' \in PeerType /\ peer'.nodes = peer.nodes
  <2>1. PICK sent, inbound, opens, features, proceeds, waiting :
          /\ sent = IF Answer(item) THEN peer.sent ELSE peer.sent + 1
          /\ inbound = Append(peer.inbound, item)
          /\ opens = IF item = "open" THEN peer.opens + 1 ELSE peer.opens
          /\ features = IF item \in {"features", "offer", "require"}
                        THEN peer.features + 1 ELSE peer.features
          /\ proceeds = IF item = "proceed" THEN peer.proceeds + 1 ELSE peer.proceeds
          /\ waiting = IF item = "success" THEN TRUE
                       ELSE IF item = "open" THEN FALSE ELSE peer.waiting
    OBVIOUS
  <2>2. peer' = [peer EXCEPT !.sent = sent, !.inbound = inbound, !.opens = opens,
                             !.features = features, !.proceeds = proceeds,
                             !.waiting = waiting]
    BY <1>3, <2>1 DEF ServerSend
  <2>3. sent \in 0..MaxItems
    <3>1. peer.sent \in 0..MaxItems BY <1>0 DEF PeerType
    <3>2. Answer(item) \/ peer.sent < MaxItems BY <1>3 DEF ServerSend
    <3>3. QED BY <2>1, <3>1, <3>2, ProxyAssumption
  <2>4. inbound \in Seq(Items)
    <3>1. peer.inbound \in Seq(Items) BY <1>0 DEF PeerType
    <3>2. QED BY <2>1, <3>1
  <2>5. opens \in Nat /\ features \in Nat /\ proceeds \in Nat /\ waiting \in BOOLEAN
    <3>1. /\ peer.opens \in Nat /\ peer.features \in Nat /\ peer.proceeds \in Nat
          /\ peer.waiting \in BOOLEAN
      BY <1>0 DEF PeerType
    <3>2. /\ opens \in {peer.opens, peer.opens + 1}
          /\ features \in {peer.features, peer.features + 1}
          /\ proceeds \in {peer.proceeds, peer.proceeds + 1}
          /\ waiting \in {TRUE, FALSE, peer.waiting}
      BY <2>1
    <3>3. opens \in Nat /\ features \in Nat /\ proceeds \in Nat BY <3>1, <3>2
    <3>4. waiting \in BOOLEAN BY <3>1, <3>2
    <3>5. QED BY <3>3, <3>4
  <2>6. peer' = [nodes |-> peer.nodes, restarts |-> peer.restarts, sent |-> sent,
                 inbound |-> inbound, opens |-> opens, features |-> features,
                 proceeds |-> proceeds, waiting |-> waiting]
    BY <1>0, <2>2 DEF PeerType
  <2>7. QED BY <1>0, <2>3, <2>4, <2>5, <2>6 DEF PeerType
<1>4. CASE OnData
  <2>1. peer.inbound \in Seq(Items) /\ peer.inbound # << >> BY <1>0, <1>4 DEF OnData, PeerType
  <2>2. Tail(peer.inbound) \in Seq(Items) BY <2>1
  <2>3. peer' = [peer EXCEPT !.inbound = Tail(peer.inbound)] BY <1>4 DEF OnData
  <2>4. QED BY <1>0, <2>2, <2>3, PeerFields
<1>5. CASE SocketClosed
  <2>1. peer' = [peer EXCEPT !.inbound = << >>] BY <1>5 DEF SocketClosed
  <2>2. << >> \in Seq(Items) OBVIOUS
  <2>3. QED BY <1>0, <2>1, <2>2, PeerFields
<1>6. CASE UNCHANGED peer BY <1>0, <1>6
<1>7. QED
  BY <1>1, <1>2, <1>3, <1>4, <1>5, <1>6
     DEF Next, FrontEnd, Socket, Server, stream_add, stream_terminate, Connected,
         ConnectFailed, Secured, PeerGone

(* Every step keeps the invariant of the link.                             *)
LEMMA LinkSteps ==
  ASSUME TypeOK, ProxyInv, Next
  PROVE  Kept(link', peer'.nodes)
<1> DEFINE n == peer.nodes
<1>0. /\ n \in Nat /\ Kept(link, n) /\ link \in LinkType /\ peer \in PeerType
      /\ LinkInv(link) /\ NodesInv(link, n)
  BY DEF TypeOK, PeerType, ProxyInv, Kept, LinkNodesInv
<1>1. CASE ClientNode
  <2>1. peer'.nodes = n + 1 BY <1>0, <1>1 DEF ClientNode, PeerType
  <2>2. QED BY <1>0, <1>1, <2>1, NodeKept DEF ClientNode
<1>2. ASSUME ~ClientNode PROVE peer'.nodes = n BY <1>2, PeerSteps
<1> SUFFICES ASSUME ~ClientNode PROVE Kept(link', n) BY <1>1, <1>2
<1>3. CASE stream_add BY <1>3, AddKept
<1>4. CASE stream_restart
  <2>1. link.sock = "ended" => "data" \notin link.listening
    BY <1>0, <1>4 DEF stream_restart, LinkInv, Deaf
  <2>2. QED BY <1>0, <1>4, <2>1, RestartKept DEF stream_restart
<1>5. CASE stream_terminate BY <1>0, <1>5, EndKept DEF stream_terminate
<1>6. CASE Connected BY <1>0, <1>6, ConnectKept DEF Connected
<1>7. CASE ConnectFailed
  <2>1. CASE link.lookup = "route"
    <3>1. PICK m : m = [link EXCEPT !.lookup = "srv"] OBVIOUS
    <3>2. m \in LinkType BY <1>0, <3>1, FieldTypes
    <3>3. link.sock = "connecting" /\ link' = m BY <1>7, <2>1, <3>1 DEF ConnectFailed
    <3>4. /\ m.entry = link.entry /\ m.sock = link.sock /\ m.pending = link.pending
          /\ m.wire = link.wire /\ m.events = link.events /\ m.tls = link.tls
          /\ m._terminate_on_connect = link._terminate_on_connect
          /\ m._is_connected = link._is_connected
      BY <1>0, <3>1 DEF LinkType
    <3>5. QED BY <1>0, <3>2, <3>3, <3>4, SameKept
  <2>2. CASE link.lookup # "route"
    <3>1. PICK a : a = [link EXCEPT !.lookup = "done"] OBVIOUS
    <3>2. PICK m : m = [a EXCEPT !.sock = "closed"] OBVIOUS
    <3>3. a \in LinkType BY <1>0, <3>1, FieldTypes
    <3>4. m \in LinkType BY <3>2, <3>3, FieldTypes
    <3>5. link.sock = "connecting" /\ link' = _on_xmpp_proxy_close(m)
      BY <1>7, <2>2, <3>1, <3>2 DEF ConnectFailed
    <3>6. /\ m.entry = link.entry /\ m.sock = "closed" /\ m.pending = link.pending
          /\ m.wire = link.wire /\ m.events = link.events
          /\ m._is_connected = link._is_connected
      BY <1>0, <3>1, <3>2 DEF LinkType
    <3>7. /\ m.entry # "none" /\ (m.entry = "present" => NoEnd(m.events))
          /\ EndLast(m.events) /\ ~m._is_connected
          /\ \E w \in 0..n : NodesUpTo(m.wire, w)
      BY <1>0, <3>5, <3>6 DEF LinkInv, NodesInv
    <3>8. QED BY <1>0, <3>4, <3>5, <3>6, <3>7, CloseKept
  <2>3. QED BY <2>1, <2>2
<1>8. CASE Secured
  <2>1. PICK a : a = [link EXCEPT !.tls = "secure"] OBVIOUS
  <2>2. a \in LinkType BY <1>0, <2>1, FieldTypes
  <2>3. /\ link.tls = "handshake" /\ link.sock \in {"open", "ended"}
        /\ link' = restart(a)
    BY <1>8, <2>1 DEF Secured
  <2>4. /\ a.entry = link.entry /\ a.sock = link.sock /\ a.pending = link.pending
        /\ a.wire = link.wire /\ a.events = link.events /\ a.listening = link.listening
        /\ a._terminate_on_connect = link._terminate_on_connect
        /\ a._is_connected = link._is_connected
    BY <1>0, <2>1 DEF LinkType
  <2>5. a.sock = "ended" => "data" \notin a.listening BY <1>0, <2>3, <2>4 DEF LinkInv, Deaf
  <2>6. LinkInv(a) BY <1>0, <2>3, <2>4, <2>5 DEF LinkInv, Deaf
  <2>7. NodesInv(a, n) BY <1>0, <2>4 DEF NodesInv, Numbered
  <2>8. Kept(a, n) BY <2>2, <2>6, <2>7 DEF Kept, LinkNodesInv
  <2>9. QED BY <1>0, <2>3, <2>5, <2>8, RestartKept
<1>9. CASE OnData
  <2>1. CASE "data" \notin link.listening BY <1>0, <1>9, <2>1 DEF OnData
  <2>2. CASE "data" \in link.listening
    <3>1. PICK item : item = Head(peer.inbound) OBVIOUS
    <3>2. item \in ItemKind
      <4>1. peer.inbound \in Seq(Items) /\ peer.inbound # << >>
        BY <1>0, <1>9 DEF OnData, PeerType
      <4>2. Head(peer.inbound) \in Items BY <4>1
      <4>3. QED BY <3>1, <4>2, ProxyAssumption
    <3>3. link' = parse(link, item) BY <1>9, <2>2, <3>1 DEF OnData
    <3>4. CASE link.sock = "open" BY <1>0, <3>2, <3>3, <3>4, ParseKept DEF Open
    <3>5. CASE link.sock = "ended"
      <4>1. link.parser = "ended" BY <1>0, <2>2, <3>5 DEF LinkInv, Deaf
      <4>2. link' = link BY <3>3, <4>1 DEF parse
      <4>3. QED BY <1>0, <4>2
    <3>6. QED BY <1>9, <3>4, <3>5 DEF OnData
  <2>3. QED BY <2>1, <2>2
<1>10. CASE SocketClosed
  <2>1. PICK a : a = [link EXCEPT !.sock = "closed"] OBVIOUS
  <2>2. PICK m : m = [a EXCEPT !.listening = {}] OBVIOUS
  <2>3. a \in LinkType BY <1>0, <2>1, FieldTypes
  <2>4. {} \in SUBSET {"data", "close"} OBVIOUS
  <2>5. m \in LinkType BY <2>2, <2>3, <2>4, FieldTypes
  <2>6. link.sock = "dead" /\ link' \in {_on_xmpp_proxy_close(m), m}
    BY <1>10, <2>1, <2>2 DEF SocketClosed
  <2>7. /\ m.entry = link.entry /\ m.sock = "closed" /\ m.pending = link.pending
        /\ m.wire = link.wire /\ m.events = link.events
        /\ m._is_connected = link._is_connected
    BY <1>0, <2>1, <2>2 DEF LinkType
  <2>8. LinkInv(m) BY <1>0, <2>6, <2>7 DEF LinkInv
  <2>9. NodesInv(m, n) BY <1>0, <2>7 DEF NodesInv, Numbered
  <2>10. Kept(_on_xmpp_proxy_close(m), n)
    <3>1. /\ m.entry # "none" /\ (m.entry = "present" => NoEnd(m.events))
          /\ EndLast(m.events) /\ (m._is_connected => m.pending = << >>)
          /\ \E w \in 0..n : NodesUpTo(m.wire, w)
      BY <1>0, <2>6, <2>7 DEF LinkInv, NodesInv
    <3>2. QED BY <1>0, <2>5, <2>7, <3>1, CloseKept
  <2>11. QED BY <2>5, <2>6, <2>8, <2>9, <2>10 DEF Kept, LinkNodesInv
<1>11. CASE Server BY <1>0, <1>11 DEF Server, ServerSend
<1>12. CASE PeerGone
  <2>1. PICK throws \in BOOLEAN : link' = [link EXCEPT !.sock = "dead", !.throws = throws]
    BY <1>12 DEF PeerGone
  <2>2. PICK a : a = [link EXCEPT !.sock = "dead"] OBVIOUS
  <2>3. PICK m : m = [a EXCEPT !.throws = throws] OBVIOUS
  <2>4. a \in LinkType BY <1>0, <2>2, FieldTypes
  <2>5. m \in LinkType BY <2>3, <2>4, FieldTypes
  <2>6. link' = m BY <2>1, <2>2, <2>3
  <2>7. /\ m.entry = link.entry /\ m.sock = "dead" /\ m.pending = link.pending
        /\ m.wire = link.wire /\ m.events = link.events
        /\ m._is_connected = link._is_connected
    BY <1>0, <2>2, <2>3 DEF LinkType
  <2>8. link.entry # "none" BY <1>0, <1>12 DEF PeerGone, LinkInv
  <2>9. LinkInv(m) BY <1>0, <2>7, <2>8 DEF LinkInv
  <2>10. NodesInv(m, n) BY <1>0, <2>7, <2>8 DEF NodesInv
  <2>11. QED BY <2>5, <2>6, <2>9, <2>10 DEF Kept, LinkNodesInv
<1>13. QED
  BY <1>3, <1>4, <1>5, <1>6, <1>7, <1>8, <1>9, <1>10, <1>11, <1>12
     DEF Next, FrontEnd, Socket

(* The state before there is a stream.                                     *)
LEMMA ProxyInit ==
  ASSUME Init
  PROVE  TypeOK /\ ProxyInv
<1>1. /\ << >> \in Seq(Node) /\ << >> \in Seq(Written) /\ << >> \in Seq(Event)
      /\ << >> \in Seq(Items) /\ {} \in SUBSET {"data", "close"} /\ 0 \in Nat
      /\ 0 \in 0..MaxNodes /\ 0 \in 0..MaxRestarts /\ 0 \in 0..MaxItems
  BY ProxyAssumption
<1>2. link \in LinkType BY <1>1 DEF Init, LinkType
<1>3. peer \in PeerType BY <1>1 DEF Init, PeerType
<1>4. LinkInv(link) BY DEF Init, LinkInv, EndLast, NoEnd
<1>5. NodesUpTo(<< >>, 0)
  <2>1. NodePositions(<< >>) = {} BY DEF NodePositions
  <2>2. 1..0 = {} OBVIOUS
  <2>3. QED BY <2>1, <2>2 DEF NodesUpTo
<1>6. 0 \in 0..0 OBVIOUS
<1>7. NodesInv(link, peer.nodes)
  BY <1>5, <1>6 DEF Init, NodesInv
<1>8. QED BY <1>2, <1>3, <1>4, <1>7 DEF TypeOK, ProxyInv, LinkNodesInv

(* Every reachable state is well typed, and has the invariant.             *)
THEOREM ProxyInvariant == Spec => [](TypeOK /\ ProxyInv)
<1>1. Init => TypeOK /\ ProxyInv BY ProxyInit
<1>2. TypeOK /\ ProxyInv /\ [Next]_vars => (TypeOK /\ ProxyInv)'
  <2>1. ASSUME TypeOK, ProxyInv, Next PROVE (TypeOK /\ ProxyInv)'
    BY <2>1, LinkSteps, PeerSteps DEF TypeOK, ProxyInv, Kept
  <2>2. ASSUME TypeOK, ProxyInv, UNCHANGED vars PROVE (TypeOK /\ ProxyInv)'
    BY <2>2 DEF TypeOK, ProxyInv, vars
  <2>3. QED BY <2>1, <2>2
<1>3. QED BY <1>1, <1>2, PTL DEF Spec

(* SilentWhenOver of XmppProxy: after the end of a stream, whichever side  *)
(* ended it and whatever arrives later, the connector emits nothing for    *)
(* it.                                                                     *)
THEOREM SilentAfterTheEnd == Spec => []SilentWhenOver
<1>1. TypeOK /\ ProxyInv => SilentWhenOver
  BY DEF ProxyInv, LinkNodesInv, LinkInv, EndLast, IsEnd, SilentWhenOver
<1>2. QED BY <1>1, ProxyInvariant, PTL

(* NodesKeepOrder of XmppProxy: the client's nodes are written once and in *)
(* order, and none is missing while the stream is there.                   *)
THEOREM NodesInOrderOnTheWire == Spec => []NodesKeepOrder
<1>1. TypeOK /\ ProxyInv => NodesKeepOrder
  BY DEF ProxyInv, LinkNodesInv, NodesInv, Numbered, NodesKeepOrder
<1>2. QED BY <1>1, ProxyInvariant, PTL
-----------------------------------------------------------------------------
(* STARTTLS, with a client and a server that keep to RFC 6120.             *)

(* How many members of S the sequence has.                                 *)
Tally(seq, S) == Cardinality({i \in DOMAIN seq : seq[i] \in S})
Bit(b) == IF b THEN 1 ELSE 0

OpenTags == {w \in Written : w.what = "open"}
Tags(l) == Tally(l.wire, OpenTags)
Reported(l) == Tally(l.events, {"stream-restarted"})

(* The stream tags that the proxy is still to read from the server.        *)
Due(l, p) == Tally(p.inbound, {"open"}) + (Tags(l) - p.opens)

(* Of the stream tags that are read, or due, one starts the stream, one    *)
(* follows the handshake and is suppressed, and the client has asked for   *)
(* the others.                                                             *)
Counted(l, p) ==
  /\ p.opens <= Tags(l) /\ (l.sock = "open" => Tags(l) > 0)
  /\ Reported(l) <= p.restarts
  /\ Reported(l) + Bit(l.started) + Due(l, p) <=
       Bit(Tags(l) > 0) + p.restarts + Bit(l._suppress_stream_restart_event /\ l.tls = "secure")

(* Nothing arrives between <proceed/> and the end of the handshake.        *)
Shaken(l, p) ==
  /\ l.tls = "handshake" => l._suppress_stream_restart_event /\ p.inbound = << >>
  /\ l._suppress_stream_restart_event => l.tls # "clear"
  /\ \A i \in DOMAIN p.inbound : p.inbound[i] = "proceed" => i = Len(p.inbound) /\ l.tls = "clear"

NoFeatures(l) == \A i \in DOMAIN l.events : l.events[i] # "features"
Untold(l) == \A i \in DOMAIN l.events : l.events[i] \notin {"features", "success"}
NoStarttls(l) == \A i \in DOMAIN l.wire : l.wire[i].what # "starttls"
Asking(l) == l.sock = "open" /\ l.wire # << >> /\ l.wire[Len(l.wire)].what = "starttls"

(* Before the server has offered anything.                                 *)
Early(l) == Untold(l) /\ NoStarttls(l) /\ l.tls = "clear" /\ Tags(l) <= 1

Offers == {"offer", "require"}

(* An offer of STARTTLS comes once and before anything else, and from then *)
(* on until the new stream the client is not told to speak.                *)
Offered(l, p) ==
  /\ p.features = 0 => Early(l) /\ \A i \in DOMAIN p.inbound : p.inbound[i] \in {"open", "close"}
  /\ \A j \in DOMAIN p.inbound : p.inbound[j] \in Offers =>
       /\ Early(l)
       /\ \A i \in 1..(j - 1) : p.inbound[i] \in {"open", "close"}
       /\ \A i \in (j + 1)..Len(p.inbound) : p.inbound[i] \notin Offers \union {"features"}
  /\ Asking(l) =>
       /\ Tags(l) <= 1 /\ p.features > 0 /\ NoFeatures(l)
       /\ \A i \in DOMAIN p.inbound : p.inbound[i] \notin Offers \union {"features"}

(* The second half of TlsHidden.                                           *)
Undisturbed(l) ==
  \A i \in 1..(Len(l.wire) - 1) :
    l.wire[i].what = "starttls" => l.wire[i + 1].what \in {"open", "close"}

Hidden(l, p) == Counted(l, p) /\ Shaken(l, p) /\ Offered(l, p) /\ Undisturbed(l)

(* Tallies are numbers.                                                    *)
LEMMA TallyType ==
  ASSUME NEW T, NEW seq \in Seq(T), NEW S
  PROVE  /\ IsFiniteSet({i \in DOMAIN seq : seq[i] \in S})
         /\ Tally(seq, S) \in Nat
         /\ Tally(seq, S) > 0 <=> \E i \in DOMAIN seq : seq[i] \in S
<1> DEFINE Hits == {i \in DOMAIN seq : seq[i] \in S}
<1>1. IsFiniteSet(1..Len(seq)) BY FS_Interval
<1>2. Hits \in SUBSET (1..Len(seq)) OBVIOUS
<1>3. IsFiniteSet(Hits) BY <1>1, <1>2, FS_Subset
<1>4. Cardinality(Hits) \in Nat BY <1>3, FS_CardinalityType
<1>5. Cardinality(Hits) = 0 <=> Hits = {} BY <1>3, FS_EmptySet
<1>6. Hits = {} <=> ~\E i \in DOMAIN seq : seq[i] \in S OBVIOUS
<1>7. Tally(seq, S) = Cardinality(Hits) BY DEF Tally
<1> HIDE DEF Hits
<1>8. Tally(seq, S) \in Nat /\ (Tally(seq, S) > 0 <=> Hits # {}) BY <1>4, <1>5, <1>7
<1>9. QED BY <1>3, <1>6, <1>8 DEF Hits

(* One more element.                                                       *)
LEMMA TallyAppend ==
  ASSUME NEW T, NEW seq \in Seq(T), NEW x \in T, NEW S
  PROVE  Tally(Append(seq, x), S) = Tally(seq, S) + Bit(x \in S)
<1> DEFINE longer == Append(seq, x)
           last == Len(seq) + 1
           Hits == {i \in DOMAIN seq : seq[i] \in S}
           More == {i \in DOMAIN longer : longer[i] \in S}
<1>1. /\ DOMAIN longer = DOMAIN seq \union {last} /\ last \notin DOMAIN seq
      /\ longer[last] = x /\ \A i \in DOMAIN seq : longer[i] = seq[i]
  OBVIOUS
<1>2. IsFiniteSet(Hits) BY TallyType
<1> HIDE DEF longer, last
<1>3. Cardinality(Hits) \in Nat BY <1>2, FS_CardinalityType
<1>4. CASE x \in S
  <2>1. More = Hits \union {last} /\ last \notin Hits BY <1>1, <1>4
  <2> HIDE DEF More, Hits
  <2>2. Cardinality(More) = Cardinality(Hits) + 1 BY <1>2, <2>1, FS_AddElement
  <2>3. QED BY <1>4, <2>2 DEF Tally, Bit, More, Hits, longer
<1>5. CASE x \notin S
  <2>1. More = Hits BY <1>1, <1>5
  <2> HIDE DEF More, Hits
  <2>2. Cardinality(More) = Cardinality(Hits) + 0 BY <1>3, <2>1
  <2>3. QED BY <1>5, <2>2 DEF Tally, Bit, More, Hits, longer
<1>6. QED BY <1>4, <1>5

(* One element less.                                                       *)
LEMMA TallyTail ==
  ASSUME NEW T, NEW seq \in Seq(T), seq # << >>, NEW S
  PROVE  Tally(Tail(seq), S) + Bit(Head(seq) \in S) = Tally(seq, S)
<1> DEFINE rest == Tail(seq)
           Hits == {i \in DOMAIN seq : seq[i] \in S}
           Less == {i \in DOMAIN rest : rest[i] \in S}
           Up == {i \in Hits : i # 1}
           f == [i \in Less |-> i + 1]
<1>1. /\ rest \in Seq(T) /\ Len(seq) \in Nat \ {0} /\ Len(rest) = Len(seq) - 1
      /\ DOMAIN rest = 1..(Len(seq) - 1) /\ DOMAIN seq = 1..Len(seq)
      /\ \A i \in 1..(Len(seq) - 1) : rest[i] = seq[i + 1]
      /\ Head(seq) = seq[1]
  OBVIOUS
<1>2. IsFiniteSet(Hits) /\ IsFiniteSet(Less) BY <1>1, TallyType
<1> HIDE DEF rest
<1>3. Less \in SUBSET Nat /\ Hits \in SUBSET Nat BY <1>1
<1>4. \A i \in Less : i + 1 \in Up BY <1>1
<1>5. \A j \in Up : j - 1 \in Less /\ (j - 1) + 1 = j BY <1>1
<1> HIDE DEF Less, Hits, Up
<1>6. f \in Bijection(Less, Up)
  <2>1. f \in [Less -> Up] BY <1>4
  <2>2. \A a, b \in Less : f[a] = f[b] => a = b BY <1>3
  <2>3. \A j \in Up : \E i \in Less : f[i] = j BY <1>5
  <2> HIDE DEF f
  <2>4. QED BY <2>1, <2>2, <2>3, Fun_IsBij
<1>7. Cardinality(Up) = Cardinality(Less) BY <1>2, <1>6, FS_Bijection DEF ExistsBijection
<1>8. Cardinality(Less) \in Nat BY <1>2, FS_CardinalityType
<1>9. CASE Head(seq) \in S
  <2>1. 1 \in Hits BY <1>1, <1>9 DEF Hits
  <2>2. Up = Hits \ {1} BY DEF Up
  <2>3. Cardinality(Up) = Cardinality(Hits) - 1 BY <1>2, <2>1, <2>2, FS_RemoveElement
  <2>4. Cardinality(Hits) \in Nat BY <1>2, FS_CardinalityType
  <2>5. Cardinality(Less) + 1 = Cardinality(Hits) BY <1>7, <1>8, <2>3, <2>4
  <2>6. QED BY <1>9, <2>5 DEF Tally, Bit, Less, Hits, rest
<1>10. CASE Head(seq) \notin S
  <2>1. Up = Hits BY <1>1, <1>10 DEF Up, Hits
  <2>2. Cardinality(Less) + 0 = Cardinality(Hits) BY <1>7, <1>8, <2>1
  <2>3. QED BY <1>10, <2>2 DEF Tally, Bit, Less, Hits, rest
<1>11. QED BY <1>9, <1>10

(* The numbers that Hidden compares.                                       *)
LEMMA Numbers ==
  ASSUME NEW l \in LinkType, NEW p \in PeerType
  PROVE  /\ Tags(l) \in Nat /\ Reported(l) \in Nat /\ Tally(p.inbound, {"open"}) \in Nat
         /\ p.opens \in Nat /\ p.restarts \in Nat /\ p.features \in Nat /\ p.proceeds \in Nat
         /\ p.inbound \in Seq(Items) /\ DOMAIN p.inbound = 1..Len(p.inbound)
         /\ Len(p.inbound) \in Nat
         /\ \A b : Bit(b) \in {0, 1} /\ (b => Bit(b) = 1) /\ (~b => Bit(b) = 0)
<1>1. l.wire \in Seq(Written) /\ l.events \in Seq(Event) BY LinkFields
<1>2. p.inbound \in Seq(Items) /\ p.restarts \in Nat /\ p.opens \in Nat /\ p.features \in Nat
      /\ p.proceeds \in Nat
  BY ProxyAssumption DEF PeerType
<1>3. Tags(l) \in Nat BY <1>1, TallyType DEF Tags
<1>4. Reported(l) \in Nat BY <1>1, TallyType DEF Reported
<1>5. Tally(p.inbound, {"open"}) \in Nat BY <1>2, TallyType
<1>6. \A b : Bit(b) \in {0, 1} /\ (b => Bit(b) = 1) /\ (~b => Bit(b) = 0) BY DEF Bit
<1>7. QED BY <1>2, <1>3, <1>4, <1>5, <1>6

(* From l to m nothing happens that concerns STARTTLS or the stream tags.  *)
Calm(l, m) ==
  /\ m \in LinkType
  /\ Tags(m) = Tags(l) /\ Reported(m) = Reported(l)
  /\ m.tls = l.tls /\ m.started = l.started
  /\ m._suppress_stream_restart_event = l._suppress_stream_restart_event
  /\ m.sock = "open" => l.sock = "open"
  /\ Untold(l) => Untold(m)
  /\ NoFeatures(l) => NoFeatures(m)
  /\ NoStarttls(l) => NoStarttls(m)
  /\ Asking(m) => Asking(l)
  /\ Undisturbed(l) => Undisturbed(m)

(* Then nothing is disclosed.                                              *)
LEMMA CalmHidden ==
  ASSUME NEW l \in LinkType, NEW p \in PeerType, Hidden(l, p), NEW m, Calm(l, m)
  PROVE  Hidden(m, p)
<1>1. Counted(m, p) BY DEF Hidden, Calm, Counted, Due
<1>2. Shaken(m, p) BY DEF Hidden, Calm, Shaken
<1>3. Early(l) => Early(m) BY DEF Early, Calm
<1>4. Offered(m, p) BY <1>3 DEF Hidden, Calm, Offered
<1>5. QED BY <1>1, <1>2, <1>4 DEF Hidden, Calm

(* Calm steps one after the other.                                         *)
LEMMA CalmTransitive ==
  ASSUME NEW l, NEW m, NEW n, Calm(l, m), Calm(m, n)
  PROVE  Calm(l, n)
BY DEF Calm

(* A change of something else.                                             *)
LEMMA SameCalm ==
  ASSUME NEW l \in LinkType, NEW m \in LinkType, m.wire = l.wire, m.events = l.events,
         m.tls = l.tls, m.started = l.started,
         m._suppress_stream_restart_event = l._suppress_stream_restart_event,
         m.sock = "open" => l.sock = "open"
  PROVE  Calm(l, m)
BY DEF Calm, Tags, Reported, Untold, NoFeatures, NoStarttls, Asking, Undisturbed

(* The fields that do not count.                                           *)
LEMMA FieldCalm ==
  ASSUME NEW l \in LinkType
  PROVE  /\ \A x \in {"present", "gone"} : Calm(l, [l EXCEPT !.entry = x])
         /\ \A x \in {"stream", "spent"} : Calm(l, [l EXCEPT !.parser = x])
         /\ \A x \in Seq(Node) : Calm(l, [l EXCEPT !.pending = x])
         /\ \A x \in {"srv"} : Calm(l, [l EXCEPT !.lookup = x])
<1>1. ASSUME NEW x \in {"present", "gone"} PROVE Calm(l, [l EXCEPT !.entry = x])
  <2>1. PICK m : m = [l EXCEPT !.entry = x] OBVIOUS
  <2>2. m \in LinkType BY <2>1, FieldTypes
  <2>3. /\ m.wire = l.wire /\ m.events = l.events /\ m.tls = l.tls /\ m.sock = l.sock
        /\ m.started = l.started
        /\ m._suppress_stream_restart_event = l._suppress_stream_restart_event
    BY <2>1 DEF LinkType
  <2>4. Calm(l, m) BY <2>2, <2>3, SameCalm
  <2>5. QED BY <2>1, <2>4
<1>2. ASSUME NEW x \in {"stream", "spent"} PROVE Calm(l, [l EXCEPT !.parser = x])
  <2>1. PICK m : m = [l EXCEPT !.parser = x] OBVIOUS
  <2>2. m \in LinkType BY <2>1, FieldTypes
  <2>3. /\ m.wire = l.wire /\ m.events = l.events /\ m.tls = l.tls /\ m.sock = l.sock
        /\ m.started = l.started
        /\ m._suppress_stream_restart_event = l._suppress_stream_restart_event
    BY <2>1 DEF LinkType
  <2>4. Calm(l, m) BY <2>2, <2>3, SameCalm
  <2>5. QED BY <2>1, <2>4
<1>3. ASSUME NEW x \in Seq(Node) PROVE Calm(l, [l EXCEPT !.pending = x])
  <2>1. PICK m : m = [l EXCEPT !.pending = x] OBVIOUS
  <2>2. m \in LinkType BY <2>1, FieldTypes
  <2>3. /\ m.wire = l.wire /\ m.events = l.events /\ m.tls = l.tls /\ m.sock = l.sock
        /\ m.started = l.started
        /\ m._suppress_stream_restart_event = l._suppress_stream_restart_event
    BY <2>1 DEF LinkType
  <2>4. Calm(l, m) BY <2>2, <2>3, SameCalm
  <2>5. QED BY <2>1, <2>4
<1>4. ASSUME NEW x \in {"srv"} PROVE Calm(l, [l EXCEPT !.lookup = x])
  <2>1. PICK m : m = [l EXCEPT !.lookup = x] OBVIOUS
  <2>2. m \in LinkType BY <2>1, FieldTypes
  <2>3. /\ m.wire = l.wire /\ m.events = l.events /\ m.tls = l.tls /\ m.sock = l.sock
        /\ m.started = l.started
        /\ m._suppress_stream_restart_event = l._suppress_stream_restart_event
    BY <2>1 DEF LinkType
  <2>4. Calm(l, m) BY <2>2, <2>3, SameCalm
  <2>5. QED BY <2>1, <2>4
<1>5. QED BY <1>1, <1>2, <1>3, <1>4

(* Another event.                                                          *)
LEMMA EventCalm ==
  ASSUME NEW l \in LinkType, NEW e \in Event \ {"features", "success", "stream-restarted"}
  PROVE  Calm(l, Emit(l, e))
<1>1. PICK m : m = Emit(l, e) OBVIOUS
<1>2. m \in LinkType /\ m = [l EXCEPT !.events = Append(l.events, e)] BY <1>1, EmitEffect
<1>3. /\ m.wire = l.wire /\ m.tls = l.tls /\ m.started = l.started /\ m.sock = l.sock
      /\ m._suppress_stream_restart_event = l._suppress_stream_restart_event
      /\ m.events = Append(l.events, e)
  BY <1>2 DEF LinkType
<1>4. l.events \in Seq(Event) BY LinkFields
<1>5. Reported(m) = Reported(l)
  <2>1. Tally(m.events, {"stream-restarted"}) =
          Tally(l.events, {"stream-restarted"}) + Bit(e \in {"stream-restarted"})
    BY <1>3, <1>4, TallyAppend
  <2>2. Bit(e \in {"stream-restarted"}) = 0 BY DEF Bit
  <2>3. Tally(l.events, {"stream-restarted"}) \in Nat BY <1>4, TallyType
  <2>4. QED BY <2>1, <2>2, <2>3 DEF Reported
<1>6. (Untold(l) => Untold(m)) /\ (NoFeatures(l) => NoFeatures(m))
  BY <1>3, <1>4 DEF Untold, NoFeatures
<1>7. Calm(l, m)
  BY <1>2, <1>3, <1>5, <1>6 DEF Calm, Tags, NoStarttls, Asking, Undisturbed
<1>8. QED BY <1>1, <1>7

(* An element after the others.                                            *)
LEMMA AppendedElements ==
  ASSUME NEW T, NEW seq \in Seq(T), NEW x \in T
  PROVE  LET longer == Append(seq, x)
         IN /\ Len(seq) \in Nat /\ DOMAIN seq = 1..Len(seq)
            /\ longer \in Seq(T) /\ longer # << >>
            /\ Len(longer) = Len(seq) + 1 /\ DOMAIN longer = 1..(Len(seq) + 1)
            /\ longer[Len(seq) + 1] = x
            /\ \A i \in 1..Len(seq) : longer[i] = seq[i]
OBVIOUS

(* What the wire looks like when something has been written.               *)
LEMMA WireAppended ==
  ASSUME NEW l \in LinkType, NEW m \in LinkType, NEW d \in Written, m.wire = Append(l.wire, d)
  PROVE  /\ Tags(m) = Tags(l) + Bit(d.what = "open")
         /\ m.wire # << >> /\ m.wire[Len(m.wire)] = d
         /\ d.what # "starttls" => (NoStarttls(l) => NoStarttls(m))
         /\ (d.what \in {"open", "close"} \/ l.wire = << >>
              \/ l.wire[Len(l.wire)].what # "starttls") => (Undisturbed(l) => Undisturbed(m))
<1>1. l.wire \in Seq(Written) BY LinkFields
<1>2. Tally(m.wire, OpenTags) = Tally(l.wire, OpenTags) + Bit(d \in OpenTags)
  BY <1>1, TallyAppend
<1>3. d \in OpenTags <=> d.what = "open" BY DEF OpenTags
<1>4. Bit(d \in OpenTags) = Bit(d.what = "open") BY <1>3 DEF Bit
<1>5. /\ Len(m.wire) = Len(l.wire) + 1 /\ Len(l.wire) \in Nat /\ m.wire[Len(l.wire) + 1] = d
      /\ \A i \in 1..Len(l.wire) : m.wire[i] = l.wire[i]
      /\ DOMAIN m.wire = 1..(Len(l.wire) + 1) /\ DOMAIN l.wire = 1..Len(l.wire)
      /\ m.wire # << >> /\ (l.wire # << >> => Len(l.wire) > 0)
  <2>1. l.wire # << >> => Len(l.wire) > 0 BY <1>1
  <2>2. PICK wire : wire = l.wire OBVIOUS
  <2>3. PICK longer : longer = Append(wire, d) OBVIOUS
  <2>4. wire \in Seq(Written) BY <1>1, <2>2
  <2>5. /\ Len(wire) \in Nat /\ DOMAIN wire = 1..Len(wire) /\ longer # << >>
        /\ Len(longer) = Len(wire) + 1 /\ DOMAIN longer = 1..(Len(wire) + 1)
        /\ longer[Len(wire) + 1] = d /\ \A i \in 1..Len(wire) : longer[i] = wire[i]
    BY <2>3, <2>4, AppendedElements
  <2>6. longer = m.wire BY <2>2, <2>3
  <2>7. QED BY <2>1, <2>2, <2>5, <2>6
<1>6. d.what # "starttls" => (NoStarttls(l) => NoStarttls(m)) BY <1>5 DEF NoStarttls
<1>7. ASSUME d.what \in {"open", "close"} \/ l.wire = << >> \/ l.wire[Len(l.wire)].what # "starttls",
             Undisturbed(l)
      PROVE  Undisturbed(m)
  <2>1. ASSUME NEW i \in 1..(Len(m.wire) - 1), m.wire[i].what = "starttls"
        PROVE  m.wire[i + 1].what \in {"open", "close"}
    <3>1. i \in 1..Len(l.wire) /\ m.wire[i] = l.wire[i] BY <1>5
    <3>2. CASE i = Len(l.wire)
      <4>1. m.wire[i + 1] = d BY <1>5, <3>2
      <4>2. l.wire # << >> BY <1>1, <1>5, <3>1
      <4>3. QED BY <1>7, <2>1, <3>1, <3>2, <4>1, <4>2
    <3>3. CASE i # Len(l.wire)
      <4>1. i \in 1..(Len(l.wire) - 1) /\ i + 1 \in 1..Len(l.wire) BY <1>5, <3>1, <3>3
      <4>2. m.wire[i + 1] = l.wire[i + 1] BY <1>5, <4>1
      <4>3. QED BY <1>7, <2>1, <3>1, <4>1, <4>2 DEF Undisturbed
    <3>4. QED BY <3>2, <3>3
  <2>2. QED BY <2>1 DEF Undisturbed
<1>8. QED BY <1>2, <1>4, <1>5, <1>6, <1>7 DEF Tags

(* The end of a stream, on the wire or as an event.                        *)
LEMMA TerminateCalm ==
  ASSUME NEW l \in LinkType
  PROVE  Calm(l, terminate(l))
<1>1. PICK m : m = terminate(l) OBVIOUS
<1>2. /\ m \in LinkType /\ m.events = l.events /\ m.tls = l.tls /\ m.started = l.started
      /\ m._suppress_stream_restart_event = l._suppress_stream_restart_event
      /\ m.sock = (IF l._is_connected /\ l.sock = "open" THEN "ended" ELSE l.sock)
      /\ IF l._is_connected /\ l.sock = "open"
         THEN m.wire = Append(l.wire, Data(l, "close", 0)) ELSE m.wire = l.wire
  BY <1>1, TerminateEffect
<1>3. CASE l._is_connected /\ l.sock = "open"
  <2>1. Data(l, "close", 0) \in Written /\ Data(l, "close", 0).what = "close"
    BY ProxyAssumption DEF Data, Written
  <2>2. /\ Tags(m) = Tags(l) + Bit(Data(l, "close", 0).what = "open")
        /\ (NoStarttls(l) => NoStarttls(m)) /\ (Undisturbed(l) => Undisturbed(m))
    BY <1>2, <1>3, <2>1, WireAppended
  <2>3. Tags(l) \in Nat BY LinkFields, TallyType DEF Tags
  <2>4. Tags(m) = Tags(l) BY <2>1, <2>2, <2>3 DEF Bit
  <2>5. Calm(l, m)
    BY <1>2, <1>3, <2>2, <2>4 DEF Calm, Reported, Untold, NoFeatures, Asking
  <2>6. QED BY <1>1, <2>5
<1>4. CASE ~(l._is_connected /\ l.sock = "open")
  <2>1. Calm(l, m) BY <1>2, <1>4, SameCalm
  <2>2. QED BY <1>1, <2>1
<1>5. QED BY <1>3, <1>4

(* The connector closes its entry.                                         *)
LEMMA CloseCalm ==
  ASSUME NEW l \in LinkType
  PROVE  Calm(l, _on_xmpp_proxy_close(l))
<1>1. PICK a : a = [l EXCEPT !.entry = "gone"] OBVIOUS
<1>2. a \in LinkType BY <1>1, FieldTypes
<1>3. Calm(l, a) BY <1>1, FieldCalm
<1>4. Calm(a, Emit(a, "terminate")) BY <1>2, EventCalm DEF Event
<1>5. Calm(l, Emit(a, "terminate")) BY <1>3, <1>4, CalmTransitive
<1>6. Calm(l, l) BY SameCalm
<1>7. QED BY <1>1, <1>5, <1>6 DEF _on_xmpp_proxy_close

(* What the proxy knows of the item it reads, when the others are left.    *)
Slack(l, p) ==
  Reported(l) + Bit(l.started) + Due(l, p) + 1 <=
    Bit(Tags(l) > 0) + p.restarts + Bit(l._suppress_stream_restart_event /\ l.tls = "secure")

NoOffers(p) == \A i \in DOMAIN p.inbound : p.inbound[i] \notin Offers

Read(l, p, item) ==
  /\ l.tls # "handshake"
  /\ item = "open" => Slack(l, p)
  /\ item \notin {"open", "close"} => p.features > 0
  /\ item \in Offers =>
       Early(l) /\ \A i \in DOMAIN p.inbound : p.inbound[i] \notin Offers \union {"features"}
  /\ item = "proceed" => l.tls = "clear" /\ p.inbound = << >>
  /\ item \in {"features", "success"} => NoOffers(p)
  /\ item = "features" => ~Asking(l)

(* The peer but for what is on its way.                                    *)
SamePeer(p, q) ==
  /\ q.opens = p.opens /\ q.restarts = p.restarts /\ q.features = p.features

(* The first item, and the others.                                         *)
LEMMA HeadAndTail ==
  ASSUME NEW T, NEW seq \in Seq(T), seq # << >>
  PROVE  /\ Tail(seq) \in Seq(T) /\ Len(seq) \in Nat \ {0} /\ Len(Tail(seq)) = Len(seq) - 1
         /\ DOMAIN Tail(seq) = 1..(Len(seq) - 1) /\ DOMAIN seq = 1..Len(seq)
         /\ \A i \in 1..(Len(seq) - 1) : Tail(seq)[i] = seq[i + 1]
         /\ Head(seq) = seq[1]
         /\ Len(seq) = 1 => Tail(seq) = << >>
OBVIOUS

(* Reading leaves what is hidden hidden.                                   *)
LEMMA ReadHidden ==
  ASSUME NEW l \in LinkType, NEW p \in PeerType, Hidden(l, p), p.inbound # << >>,
         NEW q \in PeerType, SamePeer(p, q), q.inbound = Tail(p.inbound)
  PROVE  Hidden(l, q) /\ Read(l, q, Head(p.inbound))
<1>1. PICK k : k = Len(p.inbound) OBVIOUS
<1>2. PICK item : item = Head(p.inbound) OBVIOUS
<1>3. /\ k \in Nat \ {0} /\ Len(p.inbound) = k /\ Len(q.inbound) = k - 1
      /\ DOMAIN q.inbound = 1..(k - 1) /\ DOMAIN p.inbound = 1..k
      /\ \A i \in 1..(k - 1) : q.inbound[i] = p.inbound[i + 1]
      /\ item = p.inbound[1] /\ (k = 1 => q.inbound = << >>)
  BY <1>1, <1>2, Numbers, HeadAndTail
<1>4. Tally(q.inbound, {"open"}) + Bit(item \in {"open"}) = Tally(p.inbound, {"open"})
  BY <1>2, Numbers, TallyTail
<1>5. /\ Tags(l) \in Nat /\ Reported(l) \in Nat /\ Tally(p.inbound, {"open"}) \in Nat
      /\ Tally(q.inbound, {"open"}) \in Nat
      /\ p.opens \in Nat /\ p.restarts \in Nat /\ p.features \in Nat
      /\ \A b : Bit(b) \in {0, 1} /\ (b => Bit(b) = 1) /\ (~b => Bit(b) = 0)
  BY Numbers
<1>6. Counted(l, q) /\ (item = "open" => Slack(l, q))
  <2>1. Counted(l, p) /\ SamePeer(p, q) BY DEF Hidden
  <2>2. item = "open" => Bit(item \in {"open"}) = 1 BY <1>5
  <2>3. Bit(item \in {"open"}) \in {0, 1} BY <1>5
  <2>4. PICK x, y, z, tags, said, before, after, opens, restarts :
          /\ x = Bit(l.started) /\ y = Bit(Tags(l) > 0)
          /\ z = Bit(l._suppress_stream_restart_event /\ l.tls = "secure")
          /\ tags = Tags(l) /\ said = Reported(l)
          /\ before = Tally(p.inbound, {"open"}) /\ after = Tally(q.inbound, {"open"})
          /\ opens = q.opens /\ restarts = q.restarts
    OBVIOUS
  <2>5. /\ x \in Nat /\ y \in Nat /\ z \in Nat /\ tags \in Nat /\ said \in Nat
        /\ before \in Nat /\ after \in Nat /\ opens \in Nat /\ restarts \in Nat
    BY <1>5, <2>1, <2>4 DEF SamePeer
  <2>6. /\ opens <= tags /\ (l.sock = "open" => tags > 0) /\ said <= restarts
        /\ said + x + (before + (tags - opens)) <= y + restarts + z
    BY <2>1, <2>4 DEF Counted, Due, SamePeer
  <2>7. after <= before /\ (item = "open" => after + 1 = before)
    BY <1>4, <2>2, <2>3, <2>4, <2>5
  <2>8. said + x + (after + (tags - opens)) <= y + restarts + z BY <2>5, <2>6, <2>7
  <2>9. Counted(l, q) BY <2>4, <2>6, <2>8 DEF Counted, Due
  <2>10. item = "open" => said + x + (after + (tags - opens)) + 1 <= y + restarts + z
    BY <2>5, <2>6, <2>7
  <2>11. QED BY <2>4, <2>9, <2>10 DEF Slack, Due
<1>7. Shaken(l, q) /\ l.tls # "handshake"
  <2>1. Shaken(l, p) BY DEF Hidden
  <2>2. l.tls # "handshake" BY <2>1 DEF Shaken
  <2>3. ASSUME NEW i \in DOMAIN q.inbound, q.inbound[i] = "proceed"
        PROVE  i = Len(q.inbound) /\ l.tls = "clear"
    <3>1. i \in 1..(k - 1) /\ i + 1 \in 1..k /\ p.inbound[i + 1] = "proceed" BY <1>3, <2>3
    <3>2. i + 1 = k /\ l.tls = "clear" BY <1>3, <2>1, <3>1 DEF Shaken
    <3>3. QED BY <1>3, <3>1, <3>2
  <2>4. QED BY <2>1, <2>2, <2>3 DEF Shaken
<1>8. item = "proceed" => l.tls = "clear" /\ q.inbound = << >>
  <2>1. Shaken(l, p) BY DEF Hidden
  <2>2. 1 \in DOMAIN p.inbound BY <1>3
  <2>3. QED BY <1>3, <2>1, <2>2 DEF Shaken
<1>9. item \notin {"open", "close"} => q.features > 0
  <2>1. 1 \in DOMAIN p.inbound BY <1>3
  <2>2. QED BY <1>3, <1>5, <2>1 DEF Hidden, Offered, SamePeer
<1>10. Offered(l, q)
  <2>1. Offered(l, p) BY DEF Hidden
  <2>2. ASSUME q.features = 0
        PROVE  Early(l) /\ \A i \in DOMAIN q.inbound : q.inbound[i] \in {"open", "close"}
    <3>1. Early(l) /\ \A i \in DOMAIN p.inbound : p.inbound[i] \in {"open", "close"}
      BY <2>1, <2>2 DEF Offered, SamePeer
    <3>2. ASSUME NEW i \in DOMAIN q.inbound PROVE q.inbound[i] \in {"open", "close"}
      <4>1. i + 1 \in DOMAIN p.inbound /\ q.inbound[i] = p.inbound[i + 1] BY <1>3
      <4>2. QED BY <3>1, <4>1
    <3>3. QED BY <3>1, <3>2
  <2>3. ASSUME NEW j \in DOMAIN q.inbound, q.inbound[j] \in Offers
        PROVE  /\ Early(l)
               /\ \A i \in 1..(j - 1) : q.inbound[i] \in {"open", "close"}
               /\ \A i \in (j + 1)..Len(q.inbound) : q.inbound[i] \notin Offers \union {"features"}
    <3>1. /\ j \in 1..(k - 1) /\ j + 1 \in DOMAIN p.inbound /\ (j + 1) - 1 = j
          /\ p.inbound[j + 1] \in Offers
      BY <1>3, <2>3
    <3>2. /\ Early(l)
          /\ \A i \in 1..j : p.inbound[i] \in {"open", "close"}
          /\ \A i \in (j + 2)..k : p.inbound[i] \notin Offers \union {"features"}
      <4>1. (j + 1) + 1 = j + 2 BY <3>1
      <4>2. QED BY <1>3, <2>1, <3>1, <4>1 DEF Offered
    <3>3. ASSUME NEW i \in 1..(j - 1) PROVE q.inbound[i] \in {"open", "close"}
      <4>1. i + 1 \in 1..j /\ i \in 1..(k - 1) BY <1>3, <3>1
      <4>2. QED BY <1>3, <3>2, <4>1
    <3>4. ASSUME NEW i \in (j + 1)..Len(q.inbound)
          PROVE  q.inbound[i] \notin Offers \union {"features"}
      <4>1. i + 1 \in (j + 2)..k /\ i \in 1..(k - 1) BY <1>3, <3>1
      <4>2. QED BY <1>3, <3>2, <4>1
    <3>5. QED BY <3>2, <3>3, <3>4
  <2>4. ASSUME Asking(l)
        PROVE  /\ Tags(l) <= 1 /\ q.features > 0 /\ NoFeatures(l)
               /\ \A i \in DOMAIN q.inbound : q.inbound[i] \notin Offers \union {"features"}
    <3>1. /\ Tags(l) <= 1 /\ p.features > 0 /\ NoFeatures(l)
          /\ \A i \in DOMAIN p.inbound : p.inbound[i] \notin Offers \union {"features"}
      BY <2>1, <2>4 DEF Offered
    <3>2. \A i \in DOMAIN q.inbound : i + 1 \in DOMAIN p.inbound BY <1>3
    <3>3. QED BY <1>3, <3>1, <3>2 DEF SamePeer
  <2>5. QED BY <2>2, <2>3, <2>4 DEF Offered
<1>11. item \in Offers =>
         Early(l) /\ \A i \in DOMAIN q.inbound : q.inbound[i] \notin Offers \union {"features"}
  <2>1. ASSUME item \in Offers
        PROVE  Early(l) /\ \A i \in DOMAIN q.inbound : q.inbound[i] \notin Offers \union {"features"}
    <3>1. 1 \in DOMAIN p.inbound /\ p.inbound[1] \in Offers /\ 1 + 1 = 2 BY <1>3, <2>1
    <3>2. Early(l) /\ \A i \in 2..k : p.inbound[i] \notin Offers \union {"features"}
      BY <1>3, <3>1 DEF Hidden, Offered
    <3>3. \A i \in DOMAIN q.inbound : i + 1 \in 2..k BY <1>3
    <3>4. QED BY <1>3, <3>2, <3>3
  <2>2. QED BY <2>1
<1>12. item \in {"features", "success"} => NoOffers(q)
  <2>1. ASSUME item \in {"features", "success"}, NEW j \in DOMAIN q.inbound, q.inbound[j] \in Offers
        PROVE  FALSE
    <3>1. /\ j \in 1..(k - 1) /\ j + 1 \in DOMAIN p.inbound /\ 1 \in 1..((j + 1) - 1)
          /\ p.inbound[j + 1] \in Offers
      BY <1>3, <2>1
    <3>2. p.inbound[1] \in {"open", "close"} BY <3>1 DEF Hidden, Offered
    <3>3. QED BY <1>3, <2>1, <3>2
  <2>2. QED BY <2>1 DEF NoOffers
<1>13. item = "features" => ~Asking(l)
  <2>1. 1 \in DOMAIN p.inbound BY <1>3
  <2>2. QED BY <1>3, <2>1 DEF Hidden, Offered
<1>14. Undisturbed(l) BY DEF Hidden
<1>15. QED
  BY <1>2, <1>6, <1>7, <1>8, <1>9, <1>10, <1>11, <1>12, <1>13, <1>14 DEF Hidden, Read

(* Nothing is on its way any more.                                         *)
LEMMA NothingInbound ==
  ASSUME NEW l \in LinkType, NEW p \in PeerType, Hidden(l, p),
         NEW q \in PeerType, SamePeer(p, q), q.inbound = << >>
  PROVE  Hidden(l, q)
<1>1. /\ Tags(l) \in Nat /\ Reported(l) \in Nat /\ Tally(p.inbound, {"open"}) \in Nat
      /\ Tally(q.inbound, {"open"}) \in Nat
      /\ p.opens \in Nat /\ p.restarts \in Nat
      /\ \A b : Bit(b) \in {0, 1}
  BY Numbers
<1>2. Tally(q.inbound, {"open"}) = 0
  <2>1. << >> \in Seq(Items) /\ DOMAIN << >> = {} OBVIOUS
  <2>2. Tally(<< >>, {"open"}) > 0 <=> \E i \in DOMAIN << >> : << >>[i] \in {"open"}
    BY <2>1, TallyType
  <2>3. ~(Tally(<< >>, {"open"}) > 0) BY <2>1, <2>2
  <2>4. QED BY <1>1, <2>3
<1>3. PICK x, y, z, tags, said, before, opens, restarts :
        /\ x = Bit(l.started) /\ y = Bit(Tags(l) > 0)
        /\ z = Bit(l._suppress_stream_restart_event /\ l.tls = "secure")
        /\ tags = Tags(l) /\ said = Reported(l)
        /\ before = Tally(p.inbound, {"open"}) /\ opens = q.opens /\ restarts = q.restarts
  OBVIOUS
<1>4. /\ x \in Nat /\ y \in Nat /\ z \in Nat /\ tags \in Nat /\ said \in Nat
      /\ before \in Nat /\ opens \in Nat /\ restarts \in Nat
  BY <1>1, <1>3 DEF SamePeer
<1>5. Counted(l, q)
  <2>1. /\ opens <= tags /\ (l.sock = "open" => tags > 0) /\ said <= restarts
        /\ said + x + (before + (tags - opens)) <= y + restarts + z
    BY <1>3 DEF Hidden, Counted, Due, SamePeer
  <2>2. said + x + (0 + (tags - opens)) <= y + restarts + z BY <1>4, <2>1
  <2>3. QED BY <1>2, <1>3, <2>1, <2>2 DEF Counted, Due
<1>6. DOMAIN q.inbound = {} OBVIOUS
<1>7. Shaken(l, q) BY <1>6 DEF Hidden, Shaken
<1>8. Offered(l, q) BY <1>6 DEF Hidden, Offered, SamePeer
<1>9. QED BY <1>5, <1>7, <1>8 DEF Hidden

(* The same of a link with the same wire.                                  *)
LEMMA SameWire ==
  ASSUME NEW l \in LinkType, NEW m \in LinkType, m.wire = l.wire, m.sock = l.sock
  PROVE  /\ Tags(m) = Tags(l) /\ (NoStarttls(m) <=> NoStarttls(l))
         /\ (Asking(m) <=> Asking(l)) /\ (Undisturbed(m) <=> Undisturbed(l))
BY DEF Tags, NoStarttls, Asking, Undisturbed

(* A stream tag starts the stream, or is the one after the handshake, or   *)
(* is reported; the client has asked for it then.                          *)
LEMMA OpenTagHidden ==
  ASSUME NEW l \in LinkType, NEW q \in PeerType, Hidden(l, q), Read(l, q, "open")
  PROVE  OpenTag(l) \in LinkType /\ Hidden(OpenTag(l), q)
<1>1. PICK a : a = [l EXCEPT !.parser = "stream"] OBVIOUS
<1>2. a \in LinkType /\ Calm(l, a)
  <2>1. a \in LinkType BY <1>1, FieldTypes
  <2>2. QED BY <1>1, <2>1, FieldCalm
<1>3. Hidden(a, q) BY <1>2, CalmHidden
<1>4. Slack(a, q) /\ a.tls # "handshake"
  BY <1>2 DEF Read, Slack, Due, Calm
<1>5. a.started = l.started BY <1>2 DEF Calm
<1>6. PICK x, y, z, tags, said, due, opens, restarts :
        /\ x = Bit(a.started) /\ y = Bit(Tags(a) > 0)
        /\ z = Bit(a._suppress_stream_restart_event /\ a.tls = "secure")
        /\ tags = Tags(a) /\ said = Reported(a)
        /\ due = Tally(q.inbound, {"open"}) /\ opens = q.opens /\ restarts = q.restarts
  OBVIOUS
<1>7. /\ x \in {0, 1} /\ y \in {0, 1} /\ z \in {0, 1} /\ tags \in Nat /\ said \in Nat
      /\ due \in Nat /\ opens \in Nat /\ restarts \in Nat
      /\ (a.started => x = 1) /\ (~a.started => x = 0)
      /\ (~a._suppress_stream_restart_event => z = 0)
  <2>1. \A b : Bit(b) \in {0, 1} /\ (b => Bit(b) = 1) /\ (~b => Bit(b) = 0) BY <1>2, Numbers
  <2>2. /\ Bit(a.started) \in {0, 1} /\ Bit(Tags(a) > 0) \in {0, 1}
        /\ Bit(a._suppress_stream_restart_event /\ a.tls = "secure") \in {0, 1}
        /\ (a.started => Bit(a.started) = 1) /\ (~a.started => Bit(a.started) = 0)
        /\ (~a._suppress_stream_restart_event =>
              Bit(a._suppress_stream_restart_event /\ a.tls = "secure") = 0)
    BY <2>1
  <2>3. /\ Tags(a) \in Nat /\ Reported(a) \in Nat /\ Tally(q.inbound, {"open"}) \in Nat
        /\ q.opens \in Nat /\ q.restarts \in Nat
    BY <1>2, Numbers
  <2>4. QED BY <1>6, <2>2, <2>3
<1>8. /\ opens <= tags /\ said <= restarts
      /\ said + x + (due + (tags - opens)) + 1 <= y + restarts + z
      /\ a.sock = "open" => tags > 0
  BY <1>3, <1>4, <1>6 DEF Hidden, Counted, Slack, Due
<1>9. Offered(a, q) /\ Undisturbed(a) /\ Shaken(a, q) BY <1>3 DEF Hidden
<1>10. Bit(TRUE) = 1 /\ Bit(FALSE) = 0 BY DEF Bit
<1>11. a.started \in BOOLEAN /\ a._suppress_stream_restart_event \in BOOLEAN BY <1>2, LinkFields
<1>12. CASE ~a.started
  <2>1. PICK m : m = [a EXCEPT !.started = TRUE] OBVIOUS
  <2>2. m \in LinkType BY <1>2, <2>1, FieldTypes
  <2>3. /\ m.wire = a.wire /\ m.sock = a.sock /\ m.events = a.events /\ m.tls = a.tls
        /\ m._suppress_stream_restart_event = a._suppress_stream_restart_event
        /\ m.started = TRUE
    BY <1>2, <2>1 DEF LinkType
  <2>4. /\ Tags(m) = Tags(a) /\ (NoStarttls(m) <=> NoStarttls(a))
        /\ (Asking(m) <=> Asking(a)) /\ (Undisturbed(m) <=> Undisturbed(a))
    BY <1>2, <2>2, <2>3, SameWire
  <2>5. said + 1 + (due + (tags - opens)) <= y + restarts + z BY <1>7, <1>8, <1>12
  <2>6. Reported(m) = said BY <1>6, <2>3 DEF Reported
  <2>7. Counted(m, q)
    <3>1. /\ Bit(m.started) = 1 /\ Bit(Tags(m) > 0) = y /\ m.sock = a.sock
          /\ Bit(m._suppress_stream_restart_event /\ m.tls = "secure") = z
          /\ Tags(m) = tags
      BY <1>6, <1>10, <2>3, <2>4
    <3>2. QED BY <1>6, <1>8, <2>5, <2>6, <3>1 DEF Counted, Due
  <2>8. Shaken(m, q) BY <1>9, <2>3 DEF Shaken
  <2>9. Offered(m, q) BY <1>9, <2>3, <2>4 DEF Offered, Early, Untold, NoFeatures
  <2>10. OpenTag(l) = m BY <1>1, <1>5, <1>12, <2>1 DEF OpenTag
  <2>11. QED BY <1>9, <2>2, <2>4, <2>7, <2>8, <2>9, <2>10 DEF Hidden
<1>13. CASE a.started
  <2>1. PICK b : b = IF a._suppress_stream_restart_event THEN a ELSE Emit(a, "stream-restarted")
    OBVIOUS
  <2>2. PICK m : m = [b EXCEPT !._suppress_stream_restart_event = FALSE] OBVIOUS
  <2>3. /\ b \in LinkType /\ b.wire = a.wire /\ b.sock = a.sock /\ b.tls = a.tls
        /\ b.started = a.started
        /\ b.events = IF a._suppress_stream_restart_event THEN a.events
                      ELSE Append(a.events, "stream-restarted")
    <3>1. PICK c : c = Emit(a, "stream-restarted") OBVIOUS
    <3>2. c \in LinkType /\ c = [a EXCEPT !.events = Append(a.events, "stream-restarted")]
      BY <1>2, <3>1, EmitEffect DEF Event
    <3>3. /\ c.wire = a.wire /\ c.sock = a.sock /\ c.tls = a.tls /\ c.started = a.started
          /\ c.events = Append(a.events, "stream-restarted")
      BY <1>2, <3>2 DEF LinkType
    <3>4. QED BY <1>2, <2>1, <3>1, <3>2, <3>3
  <2>4. m \in LinkType BY <2>2, <2>3, FieldTypes
  <2>5. /\ m.wire = a.wire /\ m.sock = a.sock /\ m.tls = a.tls /\ m.started = TRUE
        /\ m.events = b.events /\ m._suppress_stream_restart_event = FALSE
    BY <1>13, <2>2, <2>3 DEF LinkType
  <2>6. /\ Tags(m) = Tags(a) /\ (NoStarttls(m) <=> NoStarttls(a))
        /\ (Asking(m) <=> Asking(a)) /\ (Undisturbed(m) <=> Undisturbed(a))
    BY <1>2, <2>4, <2>5, SameWire
  <2>7. a.events \in Seq(Event) BY <1>2, LinkFields
  <2>8. (Untold(a) => Untold(m)) /\ (NoFeatures(a) => NoFeatures(m))
    <3>1. CASE a._suppress_stream_restart_event BY <2>3, <2>5, <3>1 DEF Untold, NoFeatures
    <3>2. CASE ~a._suppress_stream_restart_event
      <4>1. m.events = Append(a.events, "stream-restarted") BY <2>3, <2>5, <3>2
      <4>2. "stream-restarted" \in Event BY DEF Event
      <4>3. /\ DOMAIN m.events = 1..(Len(a.events) + 1) /\ Len(a.events) \in Nat
            /\ m.events[Len(a.events) + 1] = "stream-restarted"
            /\ DOMAIN a.events = 1..Len(a.events)
            /\ \A i \in 1..Len(a.events) : m.events[i] = a.events[i]
        BY <2>7, <4>1, <4>2, AppendedElements
      <4>4. \A i \in DOMAIN m.events :
               (i \in DOMAIN a.events /\ m.events[i] = a.events[i]) \/ m.events[i] = "stream-restarted"
        BY <4>3
      <4>5. Untold(a) => Untold(m) BY <4>4 DEF Untold
      <4>6. NoFeatures(a) => NoFeatures(m) BY <4>4 DEF NoFeatures
      <4>7. QED BY <4>5, <4>6
    <3>3. QED BY <1>11, <3>1, <3>2
  <2>9. Counted(m, q)
    <3>1. Bit(m._suppress_stream_restart_event /\ m.tls = "secure") = 0 BY <2>5 DEF Bit
    <3>2. Reported(m) = IF a._suppress_stream_restart_event THEN said ELSE said + 1
      <4>1. CASE a._suppress_stream_restart_event
        BY <1>6, <2>3, <2>5, <4>1 DEF Reported
      <4>2. CASE ~a._suppress_stream_restart_event
        <5>1. m.events = Append(a.events, "stream-restarted") BY <2>3, <2>5, <4>2
        <5>2. "stream-restarted" \in Event BY DEF Event
        <5>3. Tally(m.events, {"stream-restarted"}) =
                Tally(a.events, {"stream-restarted"}) + Bit("stream-restarted" \in {"stream-restarted"})
          BY <2>7, <5>1, <5>2, TallyAppend
        <5>4. Bit("stream-restarted" \in {"stream-restarted"}) = 1 BY DEF Bit
        <5>5. QED BY <1>6, <4>2, <5>3, <5>4 DEF Reported
      <4>3. QED BY <1>11, <4>1, <4>2
    <3>3. PICK now : now = Reported(m) OBVIOUS
    <3>4. x = 1 BY <1>7, <1>13
    <3>8. /\ Bit(m.started) = 1 /\ Bit(Tags(m) > 0) = y /\ m.sock = a.sock /\ Tags(m) = tags
      BY <1>6, <1>10, <2>5, <2>6
    <3>5. CASE a._suppress_stream_restart_event
      <4>1. now = said BY <3>2, <3>3, <3>5
      <4>2. now <= restarts /\ now + 1 + (due + (tags - opens)) <= y + restarts + 0
        BY <1>7, <1>8, <3>4, <4>1
      <4>3. QED BY <1>6, <1>8, <3>1, <3>3, <3>8, <4>2 DEF Counted, Due
    <3>6. CASE ~a._suppress_stream_restart_event
      <4>1. now = said + 1 /\ z = 0 BY <1>7, <3>2, <3>3, <3>6
      <4>2. now <= restarts /\ now + 1 + (due + (tags - opens)) <= y + restarts + 0
        BY <1>7, <1>8, <3>4, <4>1
      <4>3. QED BY <1>6, <1>8, <3>1, <3>3, <3>8, <4>2 DEF Counted, Due
    <3>7. QED BY <1>11, <3>5, <3>6
  <2>10. Shaken(m, q) BY <1>4, <1>9, <2>5 DEF Shaken
  <2>11. Offered(m, q) BY <1>9, <2>5, <2>6, <2>8 DEF Offered, Early
  <2>12. OpenTag(l) = m
    BY <1>1, <1>5, <1>13, <2>1, <2>2 DEF OpenTag, _on_stream_restart
  <2>13. QED BY <1>9, <2>4, <2>6, <2>9, <2>10, <2>11, <2>12 DEF Hidden
<1>14. QED BY <1>11, <1>12, <1>13

(* An event that tells the client to go on.                                *)
LEMMA TellHidden ==
  ASSUME NEW l \in LinkType, NEW q \in PeerType, Hidden(l, q), NEW e \in {"features", "success"},
         q.features > 0, NoOffers(q), e = "features" => ~Asking(l)
  PROVE  Emit(l, e) \in LinkType /\ Hidden(Emit(l, e), q)
<1>1. PICK m : m = Emit(l, e) OBVIOUS
<1>2. m \in LinkType /\ m = [l EXCEPT !.events = Append(l.events, e)]
  BY <1>1, EmitEffect DEF Event
<1>3. /\ m.wire = l.wire /\ m.tls = l.tls /\ m.started = l.started /\ m.sock = l.sock
      /\ m._suppress_stream_restart_event = l._suppress_stream_restart_event
      /\ m.events = Append(l.events, e)
  BY <1>2 DEF LinkType
<1>4. l.events \in Seq(Event) /\ e \in Event BY LinkFields DEF Event
<1>5. Reported(m) = Reported(l)
  <2>1. Tally(m.events, {"stream-restarted"}) =
          Tally(l.events, {"stream-restarted"}) + Bit(e \in {"stream-restarted"})
    BY <1>3, <1>4, TallyAppend
  <2>2. Bit(e \in {"stream-restarted"}) = 0 BY DEF Bit
  <2>3. Tally(l.events, {"stream-restarted"}) \in Nat BY <1>4, TallyType
  <2>4. QED BY <2>1, <2>2, <2>3 DEF Reported
<1>6. e = "success" => (NoFeatures(l) => NoFeatures(m))
  <2>1. /\ DOMAIN m.events = 1..(Len(l.events) + 1) /\ Len(l.events) \in Nat
        /\ m.events[Len(l.events) + 1] = e /\ DOMAIN l.events = 1..Len(l.events)
        /\ \A i \in 1..Len(l.events) : m.events[i] = l.events[i]
    BY <1>3, <1>4, AppendedElements
  <2>2. QED BY <2>1 DEF NoFeatures
<1>7. /\ Tags(m) = Tags(l) /\ (Asking(m) <=> Asking(l)) /\ (Undisturbed(m) <=> Undisturbed(l))
  BY <1>2, <1>3, SameWire
<1>8. Counted(m, q) BY <1>3, <1>5, <1>7 DEF Hidden, Counted, Due
<1>9. Shaken(m, q) BY <1>3 DEF Hidden, Shaken
<1>10. Offered(m, q)
  <2>1. q.features # 0 BY Numbers
  <2>2. Asking(m) => e = "success" /\ Asking(l) BY <1>7
  <2>3. QED BY <1>6, <1>7, <2>1, <2>2 DEF Hidden, Offered, NoOffers
<1>11. QED BY <1>1, <1>2, <1>7, <1>8, <1>9, <1>10 DEF Hidden

(* What is known of the item that is read is known after a calm step.      *)
LEMMA ReadCalm ==
  ASSUME NEW l, NEW m, Calm(l, m), NEW q, NEW item, Read(l, q, item)
  PROVE  Read(m, q, item)
BY DEF Read, Calm, Slack, Due, Early

(* The proxy asks for STARTTLS.                                            *)
LEMMA AskHidden ==
  ASSUME NEW l \in LinkType, l.sock = "open", l._is_connected,
         NEW q \in PeerType, Hidden(l, q), Early(l), q.features > 0,
         \A i \in DOMAIN q.inbound : q.inbound[i] \notin Offers \union {"features"}
  PROVE  send(l, "starttls", 0) \in LinkType /\ Hidden(send(l, "starttls", 0), q)
<1>1. PICK m : m = send(l, "starttls", 0) OBVIOUS
<1>2. PICK d : d = Data(l, "starttls", 0) OBVIOUS
<1>3. "starttls" \in What /\ 0 \in 0..MaxNodes BY ProxyAssumption DEF What
<1>4. /\ m \in LinkType /\ m.sock = "open" /\ m.tls = l.tls /\ m.started = l.started
      /\ m._suppress_stream_restart_event = l._suppress_stream_restart_event
      /\ m.events = l.events /\ m.wire = Append(l.wire, d)
  BY <1>1, <1>2, <1>3, SendEffect
<1>5. d \in Written /\ d.what = "starttls" BY <1>2, <1>3 DEF Data, Written, What
<1>6. l.wire = << >> \/ l.wire[Len(l.wire)].what # "starttls"
  <2>1. l.wire \in Seq(Written) BY LinkFields
  <2>2. l.wire # << >> => Len(l.wire) \in DOMAIN l.wire BY <2>1
  <2>3. QED BY <2>2 DEF Early, NoStarttls
<1>7. /\ Tags(m) = Tags(l) + Bit(d.what = "open") /\ (Undisturbed(l) => Undisturbed(m))
  BY <1>4, <1>5, <1>6, WireAppended
<1>8. Tags(m) = Tags(l)
  <2>1. Tags(l) \in Nat BY Numbers
  <2>2. Bit(d.what = "open") = 0 BY <1>5 DEF Bit
  <2>3. QED BY <1>7, <2>1, <2>2
<1>9. Counted(m, q) BY <1>4, <1>8 DEF Hidden, Counted, Due, Reported
<1>10. Shaken(m, q) BY <1>4 DEF Hidden, Shaken
<1>11. Offered(m, q)
  <2>1. q.features # 0 BY Numbers
  <2>2. Tags(m) <= 1 BY <1>8 DEF Early
  <2>3. NoFeatures(m) BY <1>4 DEF Early, Untold, NoFeatures
  <2>4. QED BY <2>1, <2>2, <2>3 DEF Offered
<1>12. QED BY <1>1, <1>4, <1>7, <1>9, <1>10, <1>11 DEF Hidden

(* The handshake begins.                                                   *)
LEMMA HandshakeHidden ==
  ASSUME NEW l \in LinkType, NEW q \in PeerType, Hidden(l, q), l.tls = "clear",
         q.inbound = << >>, q.features > 0
  PROVE  _starttls(l) \in LinkType /\ Hidden(_starttls(l), q)
<1>1. PICK m : m = _starttls(l) OBVIOUS
<1>2. m \in LinkType
  <2>1. PICK b : b = [l EXCEPT !.tls = "handshake"] OBVIOUS
  <2>2. PICK c : c = [b EXCEPT !.listening = {"data", "close"}] OBVIOUS
  <2>3. b \in LinkType BY <2>1, FieldTypes
  <2>4. {"data", "close"} \in SUBSET {"data", "close"} OBVIOUS
  <2>5. c \in LinkType BY <2>2, <2>3, <2>4, FieldTypes
  <2>6. [c EXCEPT !._suppress_stream_restart_event = TRUE] \in LinkType BY <2>5, FieldTypes
  <2>7. QED BY <1>1, <2>1, <2>2, <2>6 DEF _starttls
<1>3. /\ m.wire = l.wire /\ m.sock = l.sock /\ m.events = l.events /\ m.started = l.started
      /\ m.tls = "handshake" /\ m._suppress_stream_restart_event
  BY <1>1, <1>2 DEF LinkType, _starttls
<1>4. /\ Tags(m) = Tags(l) /\ (Asking(m) <=> Asking(l)) /\ (Undisturbed(m) <=> Undisturbed(l))
  BY <1>2, <1>3, SameWire
<1>5. DOMAIN q.inbound = {} OBVIOUS
<1>6. Counted(m, q)
  <2>1. ~(l._suppress_stream_restart_event /\ l.tls = "secure") OBVIOUS
  <2>2. ~(m._suppress_stream_restart_event /\ m.tls = "secure") BY <1>3
  <2>3. Bit(m._suppress_stream_restart_event /\ m.tls = "secure") =
          Bit(l._suppress_stream_restart_event /\ l.tls = "secure")
    BY <2>1, <2>2 DEF Bit
  <2>4. Reported(m) = Reported(l) /\ Due(m, q) = Due(l, q) BY <1>3, <1>4 DEF Reported, Due
  <2>5. QED BY <1>3, <1>4, <2>3, <2>4 DEF Hidden, Counted
<1>7. Shaken(m, q) BY <1>3, <1>5 DEF Shaken
<1>8. Offered(m, q)
  <2>1. q.features # 0 BY Numbers
  <2>2. NoFeatures(l) => NoFeatures(m) BY <1>3 DEF NoFeatures
  <2>3. QED BY <1>4, <1>5, <2>1, <2>2 DEF Hidden, Offered
<1>9. QED BY <1>1, <1>2, <1>4, <1>6, <1>7, <1>8 DEF Hidden

(* What the proxy makes of a stanza of the server.                         *)
LEMMA StanzaHidden ==
  ASSUME NEW l \in LinkType, l.sock = "open", l._is_connected,
         NEW q \in PeerType, Hidden(l, q),
         NEW item \in ItemKind \ {"open", "close", "huge"}, Read(l, q, item)
  PROVE  _on_stanza(l, item) \in LinkType /\ Hidden(_on_stanza(l, item), q)
<1>1. q.features > 0 BY DEF Read
<1>2. CASE item \in Offers
  <2>1. /\ Early(l)
        /\ \A i \in DOMAIN q.inbound : q.inbound[i] \notin Offers \union {"features"}
    BY <1>2 DEF Read
  <2>2. send(l, "starttls", 0) \in LinkType /\ Hidden(send(l, "starttls", 0), q)
    BY <1>1, <2>1, AskHidden
  <2>3. ~Asking(l)
    <3>1. l.wire \in Seq(Written) BY LinkFields
    <3>2. l.wire # << >> => Len(l.wire) \in DOMAIN l.wire BY <3>1
    <3>3. QED BY <2>1, <3>2 DEF Early, NoStarttls, Asking
  <2>4. NoOffers(q) BY <2>1 DEF NoOffers
  <2>5. Emit(l, "features") \in LinkType /\ Hidden(Emit(l, "features"), q)
    BY <1>1, <2>3, <2>4, TellHidden
  <2>6. QED BY <1>2, <2>2, <2>5 DEF _on_stanza, Offers
<1>3. CASE item = "proceed"
  <2>1. l.tls = "clear" /\ q.inbound = << >> BY <1>3 DEF Read
  <2>2. _starttls(l) \in LinkType /\ Hidden(_starttls(l), q) BY <1>1, <2>1, HandshakeHidden
  <2>3. QED BY <1>3, <2>2 DEF _on_stanza
<1>4. CASE item \in {"features", "success"}
  <2>1. NoOffers(q) /\ (item = "features" => ~Asking(l)) BY <1>4 DEF Read
  <2>2. Emit(l, item) \in LinkType /\ Hidden(Emit(l, item), q) BY <1>1, <1>4, <2>1, TellHidden
  <2>3. QED BY <1>4, <2>2 DEF _on_stanza
<1>5. CASE item = "stanza"
  <2>1. Calm(l, Emit(l, "response")) BY EventCalm DEF Event
  <2>2. Emit(l, "response") \in LinkType BY <2>1 DEF Calm
  <2>3. Hidden(Emit(l, "response"), q) BY <2>1, CalmHidden
  <2>4. QED BY <1>5, <2>2, <2>3 DEF _on_stanza
<1>6. QED BY <1>2, <1>3, <1>4, <1>5 DEF ItemKind, Offers

(* What the proxy makes of anything that it reads.                         *)
LEMMA ParseHidden ==
  ASSUME NEW l \in LinkType, l.sock = "open", l._is_connected,
         NEW q \in PeerType, Hidden(l, q), NEW item \in ItemKind, Read(l, q, item)
  PROVE  Hidden(parse(l, item), q)
<1>1. l.parser \in {"fresh", "stream", "spent", "ended"} BY LinkFields
<1>2. Hidden(terminate(l), q) BY TerminateCalm, CalmHidden
<1>3. CASE l.parser = "ended" BY <1>3 DEF parse
<1>4. CASE l.parser # "ended" /\ item \in {"close", "huge"} BY <1>2, <1>4 DEF parse
<1>5. CASE l.parser = "spent" /\ item \notin {"close", "huge"} BY <1>2, <1>5 DEF parse
<1>6. CASE l.parser \in {"fresh", "stream"} /\ item = "open"
  <2>1. Hidden(OpenTag(l), q) BY <1>6, OpenTagHidden
  <2>2. QED BY <1>6, <2>1 DEF parse
<1>7. CASE l.parser = "stream" /\ item \notin {"open", "close", "huge"}
  <2>1. Hidden(_on_stanza(l, item), q) BY <1>7, StanzaHidden
  <2>2. QED BY <1>7, <2>1 DEF parse
<1>8. CASE l.parser = "fresh" /\ item \notin {"open", "close", "huge"}
  <2>1. PICK a : a = [l EXCEPT !.parser = "spent"] OBVIOUS
  <2>2. a \in LinkType BY <2>1, FieldTypes
  <2>3. a.sock = "open" /\ a._is_connected BY <2>1, <2>2 DEF LinkType
  <2>4. Calm(l, a) BY <2>1, FieldCalm
  <2>5. Hidden(a, q) /\ Read(a, q, item) BY <2>4, CalmHidden, ReadCalm
  <2>6. Hidden(_on_stanza(a, item), q) BY <1>8, <2>2, <2>3, <2>5, StanzaHidden
  <2>7. QED BY <1>2, <1>8, <2>1, <2>6 DEF parse
<1>9. QED BY <1>1, <1>3, <1>4, <1>5, <1>6, <1>7, <1>8

(* Only what SamePeer names and what is on its way counts.                 *)
LEMMA PeerHidden ==
  ASSUME NEW l, NEW p, Hidden(l, p), NEW q, SamePeer(p, q), q.inbound = p.inbound
  PROVE  Hidden(l, q)
BY DEF Hidden, Counted, Due, Shaken, Offered, SamePeer

(* A new stream tag, that the client has asked for or that follows the     *)
(* handshake.                                                              *)
LEMMA RestartHidden ==
  ASSUME NEW l \in LinkType, l.sock = "open" => l._is_connected /\ Tags(l) > 0,
         NEW q \in PeerType, Slack(l, q), Reported(l) <= q.restarts, q.opens <= Tags(l),
         Shaken(l, q), Undisturbed(l), q.features > 0, NoOffers(q)
  PROVE  Hidden(restart(l), q)
<1>1. PICK a : a = send(l, "open", 0) OBVIOUS
<1>2. PICK m : m = [a EXCEPT !.parser = "fresh"] OBVIOUS
<1>3. PICK d : d = Data(l, "open", 0) OBVIOUS
<1>4. "open" \in What /\ 0 \in 0..MaxNodes BY ProxyAssumption DEF What
<1>5. /\ a \in LinkType /\ a.sock = l.sock /\ a.tls = l.tls /\ a.started = l.started
      /\ a._suppress_stream_restart_event = l._suppress_stream_restart_event
      /\ a.events = l.events
      /\ IF l._is_connected /\ l.sock = "open"
         THEN a.wire = Append(l.wire, d) ELSE a.wire = l.wire
  BY <1>1, <1>3, <1>4, SendEffect
<1>6. m \in LinkType BY <1>2, <1>5, FieldTypes
<1>7. /\ m.sock = l.sock /\ m.tls = l.tls /\ m.started = l.started
      /\ m._suppress_stream_restart_event = l._suppress_stream_restart_event
      /\ m.events = l.events /\ m.wire = a.wire
  BY <1>2, <1>5, <1>6 DEF LinkType
<1>8. d \in Written /\ d.what = "open" BY <1>3, <1>4 DEF Data, Written, What
<1>9. PICK x, y, z, tags, said, due, opens, restarts :
        /\ x = Bit(l.started) /\ y = Bit(Tags(l) > 0)
        /\ z = Bit(l._suppress_stream_restart_event /\ l.tls = "secure")
        /\ tags = Tags(l) /\ said = Reported(l)
        /\ due = Tally(q.inbound, {"open"}) /\ opens = q.opens /\ restarts = q.restarts
  OBVIOUS
<1>10. /\ x \in {0, 1} /\ y \in {0, 1} /\ z \in {0, 1} /\ tags \in Nat /\ said \in Nat
       /\ due \in Nat /\ opens \in Nat /\ restarts \in Nat
  <2>1. /\ Bit(l.started) \in {0, 1} /\ Bit(Tags(l) > 0) \in {0, 1}
        /\ Bit(l._suppress_stream_restart_event /\ l.tls = "secure") \in {0, 1}
    BY DEF Bit
  <2>2. /\ Tags(l) \in Nat /\ Reported(l) \in Nat /\ Tally(q.inbound, {"open"}) \in Nat
        /\ q.opens \in Nat /\ q.restarts \in Nat
    BY Numbers
  <2>3. QED BY <1>9, <2>1, <2>2
<1>11. /\ opens <= tags /\ said <= restarts
       /\ said + x + (due + (tags - opens)) + 1 <= y + restarts + z
  BY <1>9 DEF Slack, Due
<1>12. /\ Reported(m) = said /\ Bit(m.started) = x
       /\ Bit(m._suppress_stream_restart_event /\ m.tls = "secure") = z
  BY <1>7, <1>9 DEF Reported
<1>13. Shaken(m, q) BY <1>7 DEF Shaken
<1>14. q.features # 0 BY Numbers
<1>15. CASE l.sock = "open"
  <2>1. m.wire = Append(l.wire, d) /\ tags > 0 BY <1>5, <1>7, <1>9, <1>15
  <2>2. /\ Tags(m) = Tags(l) + Bit(d.what = "open") /\ m.wire[Len(m.wire)] = d
        /\ Undisturbed(m)
    BY <1>6, <1>8, <2>1, WireAppended
  <2>3. Tags(m) = tags + 1 BY <1>8, <1>9, <2>2 DEF Bit
  <2>4. tags + 1 > 0 BY <1>10
  <2>5. y = 1 /\ Bit(Tags(m) > 0) = 1 BY <1>9, <2>1, <2>3, <2>4 DEF Bit
  <2>6. /\ opens <= tags + 1
        /\ said + x + (due + ((tags + 1) - opens)) <= 1 + restarts + z
    BY <1>10, <1>11, <2>5
  <2>7. Counted(m, q) BY <1>9, <1>11, <1>12, <2>3, <2>4, <2>5, <2>6 DEF Counted, Due
  <2>8. ~Asking(m) BY <1>8, <2>2 DEF Asking
  <2>9. Offered(m, q) BY <1>14, <2>8 DEF Offered, NoOffers
  <2>10. QED BY <1>1, <1>2, <1>13, <2>2, <2>7, <2>9 DEF Hidden, restart
<1>16. CASE l.sock # "open"
  <2>1. m.wire = l.wire BY <1>5, <1>7, <1>16
  <2>2. Tags(m) = Tags(l) /\ Undisturbed(m) BY <1>6, <1>7, <2>1, SameWire
  <2>3. said + x + (due + (tags - opens)) <= y + restarts + z BY <1>10, <1>11
  <2>4. Counted(m, q) BY <1>7, <1>9, <1>11, <1>12, <1>16, <2>2, <2>3 DEF Counted, Due
  <2>5. ~Asking(m) BY <1>7, <1>16 DEF Asking
  <2>6. Offered(m, q) BY <1>14, <2>5 DEF Offered, NoOffers
  <2>7. QED BY <1>1, <1>2, <1>13, <2>2, <2>4, <2>6 DEF Hidden, restart
<1>17. QED BY <1>15, <1>16

(* The item that the server sends next.                                    *)
Arrives(l, p, q, item) ==
  /\ q.inbound = Append(p.inbound, item) /\ q.restarts = p.restarts
  /\ q.opens = IF item = "open" THEN p.opens + 1 ELSE p.opens
  /\ item = "open" => p.opens < Tags(l)
  /\ p.features <= q.features /\ (item \notin {"open", "close"} => q.features > 0)
  /\ item \in Offers => p.features = 0
  /\ item = "features" => ~Asking(l) /\ NoOffers(p)
  /\ l.tls # "handshake" /\ \A i \in DOMAIN p.inbound : p.inbound[i] # "proceed"
  /\ item = "proceed" => l.tls = "clear"

(* What an orderly server sends leaves what is hidden hidden.              *)
LEMMA ArrivalHidden ==
  ASSUME NEW l \in LinkType, NEW p \in PeerType, Hidden(l, p),
         NEW q \in PeerType, NEW item \in Items, Arrives(l, p, q, item)
  PROVE  Hidden(l, q)
<1>1. PICK k : k = Len(p.inbound) OBVIOUS
<1>2. /\ k \in Nat /\ Len(q.inbound) = k + 1
      /\ DOMAIN q.inbound = 1..(k + 1) /\ DOMAIN p.inbound = 1..k
      /\ \A i \in 1..k : q.inbound[i] = p.inbound[i]
      /\ q.inbound[k + 1] = item
  <2>1. PICK longer : longer = Append(p.inbound, item) OBVIOUS
  <2>2. p.inbound \in Seq(Items) BY Numbers
  <2>3. /\ Len(p.inbound) \in Nat /\ Len(longer) = Len(p.inbound) + 1
        /\ DOMAIN longer = 1..(Len(p.inbound) + 1) /\ DOMAIN p.inbound = 1..Len(p.inbound)
        /\ \A i \in 1..Len(p.inbound) : longer[i] = p.inbound[i]
        /\ longer[Len(p.inbound) + 1] = item
    BY <2>1, <2>2, AppendedElements
  <2>4. q.inbound = longer BY <2>1 DEF Arrives
  <2>5. QED BY <1>1, <2>3, <2>4
<1>3. Offered(l, p) /\ Shaken(l, p) /\ Undisturbed(l) BY DEF Hidden
<1>4. /\ p.opens \in Nat /\ p.features \in Nat /\ q.features \in Nat BY Numbers
<1>5. Counted(l, q)
  <2>1. PICK x, y, z, tags, said, before, after, one, opens, restarts :
          /\ x = Bit(l.started) /\ y = Bit(Tags(l) > 0)
          /\ z = Bit(l._suppress_stream_restart_event /\ l.tls = "secure")
          /\ tags = Tags(l) /\ said = Reported(l) /\ one = Bit(item \in {"open"})
          /\ before = Tally(p.inbound, {"open"}) /\ after = Tally(q.inbound, {"open"})
          /\ opens = p.opens /\ restarts = p.restarts
    OBVIOUS
  <2>2. /\ x \in Nat /\ y \in Nat /\ z \in Nat /\ tags \in Nat /\ said \in Nat
        /\ before \in Nat /\ opens \in Nat /\ restarts \in Nat
    <3>1. /\ Bit(l.started) \in Nat /\ Bit(Tags(l) > 0) \in Nat
          /\ Bit(l._suppress_stream_restart_event /\ l.tls = "secure") \in Nat
      BY DEF Bit
    <3>2. /\ Tags(l) \in Nat /\ Reported(l) \in Nat /\ Tally(p.inbound, {"open"}) \in Nat
          /\ p.opens \in Nat /\ p.restarts \in Nat
      BY Numbers
    <3>3. QED BY <2>1, <3>1, <3>2
  <2>3. /\ opens <= tags /\ (l.sock = "open" => tags > 0) /\ said <= restarts
        /\ said + x + (before + (tags - opens)) <= y + restarts + z
    BY <2>1 DEF Hidden, Counted, Due
  <2>4. after = before + one
    <3>1. p.inbound \in Seq(Items) BY Numbers
    <3>2. Tally(Append(p.inbound, item), {"open"}) =
            Tally(p.inbound, {"open"}) + Bit(item \in {"open"})
      BY <3>1, TallyAppend
    <3>3. QED BY <2>1, <3>2 DEF Arrives
  <2>5. q.opens = opens + one /\ opens + one <= tags
    <3>1. CASE item = "open"
      <4>1. one = 1 BY <2>1, <3>1 DEF Bit
      <4>2. q.opens = opens + 1 /\ opens < tags BY <2>1, <3>1 DEF Arrives
      <4>3. QED BY <2>2, <4>1, <4>2
    <3>2. CASE item # "open"
      <4>1. one = 0 BY <2>1, <3>2 DEF Bit
      <4>2. q.opens = opens BY <2>1, <3>2 DEF Arrives
      <4>3. QED BY <2>2, <2>3, <4>1, <4>2
    <3>3. QED BY <3>1, <3>2
  <2>6. one \in Nat BY <2>1 DEF Bit
  <2>7. said + x + (after + (tags - (opens + one))) <= y + restarts + z
    BY <2>2, <2>3, <2>4, <2>6
  <2>8. q.restarts = restarts BY <2>1 DEF Arrives
  <2>9. QED BY <2>1, <2>3, <2>5, <2>7, <2>8 DEF Counted, Due
<1>6. Shaken(l, q)
  <2>1. ASSUME NEW i \in DOMAIN q.inbound, q.inbound[i] = "proceed"
        PROVE  i = Len(q.inbound) /\ l.tls = "clear"
    <3>1. i \in 1..k \/ i = k + 1 BY <1>2
    <3>2. CASE i \in 1..k BY <1>2, <2>1, <3>2 DEF Arrives
    <3>3. CASE i = k + 1 BY <1>2, <2>1, <3>3 DEF Arrives
    <3>4. QED BY <3>1, <3>2, <3>3
  <2>2. l.tls # "handshake" BY DEF Arrives
  <2>3. QED BY <1>3, <2>1, <2>2 DEF Shaken
<1>7. ASSUME q.features = 0
      PROVE  Early(l) /\ \A i \in DOMAIN q.inbound : q.inbound[i] \in {"open", "close"}
  <2>1. p.features = 0 /\ item \in {"open", "close"} BY <1>4, <1>7 DEF Arrives
  <2>2. Early(l) /\ \A i \in DOMAIN p.inbound : p.inbound[i] \in {"open", "close"}
    BY <1>3, <2>1 DEF Offered
  <2>3. ASSUME NEW i \in DOMAIN q.inbound PROVE q.inbound[i] \in {"open", "close"}
    <3>1. i \in 1..k \/ i = k + 1 BY <1>2
    <3>2. QED BY <1>2, <2>1, <2>2, <3>1
  <2>4. QED BY <2>2, <2>3
<1>8. ASSUME NEW j \in DOMAIN q.inbound, q.inbound[j] \in Offers
      PROVE  /\ Early(l)
             /\ \A i \in 1..(j - 1) : q.inbound[i] \in {"open", "close"}
             /\ \A i \in (j + 1)..Len(q.inbound) : q.inbound[i] \notin Offers \union {"features"}
  <2>1. CASE j = k + 1
    <3>1. p.features = 0 BY <1>2, <1>8, <2>1 DEF Arrives
    <3>2. Early(l) /\ \A i \in DOMAIN p.inbound : p.inbound[i] \in {"open", "close"}
      BY <1>3, <3>1 DEF Offered
    <3>3. ASSUME NEW i \in 1..(j - 1) PROVE q.inbound[i] \in {"open", "close"}
      <4>1. i \in 1..k BY <1>2, <2>1
      <4>2. QED BY <1>2, <3>2, <4>1
    <3>4. (j + 1)..Len(q.inbound) = {} BY <1>2, <2>1
    <3>5. QED BY <3>2, <3>3, <3>4
  <2>2. CASE j \in 1..k
    <3>1. j \in DOMAIN p.inbound /\ p.inbound[j] \in Offers BY <1>2, <1>8, <2>2
    <3>2. /\ Early(l)
          /\ \A i \in 1..(j - 1) : p.inbound[i] \in {"open", "close"}
          /\ \A i \in (j + 1)..k : p.inbound[i] \notin Offers \union {"features"}
      BY <1>1, <1>3, <3>1 DEF Offered
    <3>3. ASSUME NEW i \in 1..(j - 1) PROVE q.inbound[i] \in {"open", "close"}
      <4>1. i \in 1..k BY <1>2, <2>2
      <4>2. QED BY <1>2, <3>2, <4>1
    <3>4. item \notin Offers \union {"features"}
      <4>1. p.features # 0
        <5>1. p.inbound[j] \notin {"open", "close"} BY <3>1 DEF Offers
        <5>2. QED BY <1>3, <3>1, <5>1 DEF Offered
      <4>2. item \notin Offers BY <4>1 DEF Arrives
      <4>3. item # "features" BY <3>1 DEF Arrives, NoOffers
      <4>4. QED BY <4>2, <4>3
    <3>5. ASSUME NEW i \in (j + 1)..Len(q.inbound)
          PROVE  q.inbound[i] \notin Offers \union {"features"}
      <4>1. i = k + 1 \/ (i \in (j + 1)..k /\ i \in 1..k) BY <1>2, <2>2
      <4>2. QED BY <1>2, <3>2, <3>4, <4>1
    <3>6. QED BY <3>2, <3>3, <3>5
  <2>3. QED BY <1>2, <2>1, <2>2
<1>9. ASSUME Asking(l)
      PROVE  /\ Tags(l) <= 1 /\ q.features > 0 /\ NoFeatures(l)
             /\ \A i \in DOMAIN q.inbound : q.inbound[i] \notin Offers \union {"features"}
  <2>1. /\ Tags(l) <= 1 /\ p.features > 0 /\ NoFeatures(l)
        /\ \A i \in DOMAIN p.inbound : p.inbound[i] \notin Offers \union {"features"}
    BY <1>3, <1>9 DEF Offered
  <2>2. q.features > 0 BY <1>4, <2>1 DEF Arrives
  <2>3. item \notin Offers \union {"features"}
    <3>1. p.features # 0 BY <1>4, <2>1
    <3>2. QED BY <1>9, <3>1 DEF Arrives
  <2>4. ASSUME NEW i \in DOMAIN q.inbound PROVE q.inbound[i] \notin Offers \union {"features"}
    <3>1. i \in 1..k \/ i = k + 1 BY <1>2
    <3>2. QED BY <1>2, <2>1, <2>3, <3>1
  <2>5. QED BY <2>1, <2>2, <2>4
<1>10. Offered(l, q) BY <1>7, <1>8, <1>9 DEF Offered
<1>11. QED BY <1>3, <1>5, <1>6, <1>10 DEF Hidden

(* What an orderly server knows when it sends.                             *)
LEMMA OrderlyArrives ==
  ASSUME TypeOK, Hidden(link, peer), Orderly, NEW item \in Items, ServerSend(item)
  PROVE  Arrives(link, peer, peer', item)
<1>1. link \in LinkType /\ peer \in PeerType /\ link.wire \in Seq(Written)
  BY LinkFields DEF TypeOK
<1>2. /\ peer.opens \in Nat /\ peer.features \in Nat /\ peer.proceeds \in Nat
      /\ Tags(link) \in Nat
  BY <1>1, Numbers
<1>3. /\ peer'.inbound = Append(peer.inbound, item) /\ peer'.restarts = peer.restarts
      /\ peer'.opens = (IF item = "open" THEN peer.opens + 1 ELSE peer.opens)
      /\ peer'.features = IF item \in {"features", "offer", "require"}
                          THEN peer.features + 1 ELSE peer.features
  BY <1>1 DEF ServerSend, PeerType
<1>4. /\ link.sock = "open" /\ link.tls # "handshake"
      /\ \A i \in DOMAIN peer.inbound : peer.inbound[i] # "proceed"
      /\ (item = "proceed" => link.tls = "clear") /\ ServerMaySend(item)
  BY DEF ServerSend
<1>5. OpensSeen = Tags(link)
  <2>1. \A i \in DOMAIN link.wire : link.wire[i].what = "open" <=> link.wire[i] \in OpenTags
    BY <1>1 DEF OpenTags
  <2>2. {i \in DOMAIN link.wire : link.wire[i].what = "open"} =
          {i \in DOMAIN link.wire : link.wire[i] \in OpenTags}
    BY <2>1
  <2>3. QED BY <2>2 DEF OpensSeen, Count, Tags, Tally
<1>6. StarttlsSeen > 0 => ~NoStarttls(link)
  <2>1. PICK S : S = {w \in Written : w.what = "starttls"} OBVIOUS
  <2>2. \A i \in DOMAIN link.wire : link.wire[i].what = "starttls" <=> link.wire[i] \in S
    BY <1>1, <2>1
  <2>3. {i \in DOMAIN link.wire : link.wire[i].what = "starttls"} =
          {i \in DOMAIN link.wire : link.wire[i] \in S}
    BY <2>2
  <2>4. StarttlsSeen = Tally(link.wire, S) BY <2>3 DEF StarttlsSeen, Count, Tally
  <2>5. Tally(link.wire, S) > 0 => \E i \in DOMAIN link.wire : link.wire[i] \in S
    BY <1>1, TallyType
  <2>6. QED BY <2>2, <2>4, <2>5 DEF NoStarttls
<1>7. Offered(link, peer) /\ Tags(link) > 0 /\ peer.opens <= Tags(link)
  BY <1>4 DEF Hidden, Counted
<1>8. item = "open" => peer.opens < Tags(link)
  BY <1>2, <1>4, <1>5 DEF ServerMaySend
<1>9. peer.features <= peer'.features /\ (item \notin {"open", "close"} => peer'.features > 0)
  <2>1. CASE item \in {"features", "offer", "require"} BY <1>2, <1>3, <2>1
  <2>2. CASE item = "proceed"
    <3>1. StarttlsSeen > peer.proceeds BY <1>4, <2>2 DEF ServerMaySend
    <3>2. StarttlsSeen > 0
      <4>1. StarttlsSeen \in Nat
        <5>1. PICK S : S = {w \in Written : w.what = "starttls"} OBVIOUS
        <5>2. \A i \in DOMAIN link.wire : link.wire[i].what = "starttls" <=> link.wire[i] \in S
          BY <1>1, <5>1
        <5>3. {i \in DOMAIN link.wire : link.wire[i].what = "starttls"} =
                {i \in DOMAIN link.wire : link.wire[i] \in S}
          BY <5>2
        <5>4. StarttlsSeen = Tally(link.wire, S) BY <5>3 DEF StarttlsSeen, Count, Tally
        <5>5. QED BY <1>1, <5>4, TallyType
      <4>2. QED BY <1>2, <3>1, <4>1
    <3>3. peer.features # 0 BY <1>6, <1>7, <3>2 DEF Offered, Early
    <3>4. peer'.features = peer.features BY <1>3, <2>2
    <3>5. QED BY <1>2, <3>3, <3>4
  <2>3. CASE item \in {"stanza", "success"}
    <3>1. OpensSeen = peer.opens /\ peer.opens = peer.features
      BY <1>4, <2>3 DEF ServerMaySend
    <3>2. peer'.features = peer.features BY <1>3, <2>3
    <3>3. QED BY <1>2, <1>5, <1>7, <3>1, <3>2
  <2>4. CASE item \in {"open", "close"} BY <1>2, <1>3, <2>4
  <2>5. CASE item = "huge" BY <1>4, <2>5 DEF ServerMaySend
  <2>6. item \in ItemKind BY ProxyAssumption
  <2>7. QED BY <2>1, <2>2, <2>3, <2>4, <2>5, <2>6 DEF ItemKind
<1>10. item \in Offers => peer.features = 0 BY <1>4 DEF Offers, ServerMaySend
<1>11. item = "features" => ~Asking(link) /\ NoOffers(peer)
  <2>1. ASSUME item = "features" PROVE ~Asking(link) /\ NoOffers(peer)
    <3>1. peer.opens > peer.features BY <1>4, <2>1 DEF ServerMaySend
    <3>2. ~(Tags(link) <= 1 /\ peer.features # 0) BY <1>2, <1>7, <3>1
    <3>3. ~Asking(link) BY <1>2, <1>7, <3>2 DEF Offered
    <3>4. ASSUME NEW j \in DOMAIN peer.inbound, peer.inbound[j] \in Offers PROVE FALSE
      <4>1. Early(link) BY <1>7, <3>4 DEF Offered
      <4>2. peer.inbound[j] \notin {"open", "close"} BY <3>4 DEF Offers
      <4>3. peer.features # 0 BY <1>7, <3>4, <4>2 DEF Offered
      <4>4. QED BY <3>2, <4>1, <4>3 DEF Early
    <3>5. QED BY <3>3, <3>4 DEF NoOffers
  <2>2. QED BY <2>1
<1>12. QED BY <1>3, <1>4, <1>8, <1>9, <1>10, <1>11 DEF Arrives

(* The wire of a proxy that has just connected.                            *)
LEMMA GreetingWire ==
  ASSUME NEW d \in Written, d.what = "open", NEW rest \in Seq(Written),
         \A k \in DOMAIN rest : rest[k].what = "node", NEW m \in LinkType, m.wire = <<d>> \o rest
  PROVE  Tags(m) = 1 /\ NoStarttls(m)
<1>1. /\ DOMAIN m.wire = 1..(Len(rest) + 1) /\ Len(rest) \in Nat /\ m.wire[1] = d
      /\ \A i \in 2..(Len(rest) + 1) : i - 1 \in DOMAIN rest /\ m.wire[i] = rest[i - 1]
  OBVIOUS
<1>2. \A i \in 1..(Len(rest) + 1) : i # 1 => i \in 2..(Len(rest) + 1) BY <1>1
<1>3. \A i \in DOMAIN m.wire : m.wire[i].what = IF i = 1 THEN "open" ELSE "node"
  BY <1>1, <1>2
<1>4. {i \in DOMAIN m.wire : m.wire[i] \in OpenTags} = {1}
  <2>1. 1 \in DOMAIN m.wire /\ m.wire[1] \in OpenTags BY <1>1 DEF OpenTags
  <2>2. \A i \in DOMAIN m.wire : m.wire[i] \in OpenTags => i = 1 BY <1>3 DEF OpenTags
  <2>3. QED BY <2>1, <2>2
<1>5. Tags(m) = 1 BY <1>4, FS_Singleton DEF Tags, Tally
<1>6. NoStarttls(m) BY <1>3 DEF NoStarttls
<1>7. QED BY <1>5, <1>6

(* The first stream tag.                                                   *)
LEMMA GreetHidden ==
  ASSUME NEW l \in LinkType, NEW p \in PeerType, Hidden(l, p), l.wire = << >>, l.tls = "clear",
         NEW m \in LinkType, Tags(m) = 1, NoStarttls(m), m.tls = "clear", m.started = l.started,
         m._suppress_stream_restart_event = l._suppress_stream_restart_event,
         m.events = Append(l.events, "stream-added")
  PROVE  Hidden(m, p)
<1>1. PICK e : e = Emit(l, "stream-added") OBVIOUS
<1>2. /\ e.events = m.events /\ Calm(l, e)
  <2>1. "stream-added" \in Event BY DEF Event
  <2>2. e.events = Append(l.events, "stream-added") BY <1>1, <2>1, EmitEffect
  <2>3. Calm(l, e) BY <1>1, <2>1, EventCalm
  <2>4. QED BY <2>2, <2>3
<1>3. Reported(m) = Reported(l) /\ (Untold(l) => Untold(m))
  BY <1>2 DEF Calm, Reported, Untold
<1>4. Tags(l) = 0
  <2>1. << >> \in Seq(Written) /\ DOMAIN << >> = {} OBVIOUS
  <2>2. Tally(<< >>, OpenTags) > 0 <=> \E i \in DOMAIN << >> : << >>[i] \in OpenTags
    BY <2>1, TallyType
  <2>3. ~(Tags(l) > 0) BY <2>1, <2>2 DEF Tags
  <2>4. Tags(l) \in Nat BY Numbers
  <2>5. QED BY <2>3, <2>4
<1>5. PICK x, said, before, opens, restarts :
        /\ x = Bit(l.started) /\ said = Reported(l) /\ before = Tally(p.inbound, {"open"})
        /\ opens = p.opens /\ restarts = p.restarts
  OBVIOUS
<1>6. x \in Nat /\ said \in Nat /\ before \in Nat /\ opens \in Nat /\ restarts \in Nat
  <2>1. Bit(l.started) \in Nat BY DEF Bit
  <2>2. QED BY <1>5, <2>1, Numbers
<1>7. /\ Bit(Tags(l) > 0) = 0 /\ Bit(Tags(m) > 0) = 1
      /\ Bit(l._suppress_stream_restart_event /\ l.tls = "secure") = 0
      /\ Bit(m._suppress_stream_restart_event /\ m.tls = "secure") = 0
  BY <1>4 DEF Bit
<1>8. Counted(m, p)
  <2>1. /\ opens <= 0 /\ said <= restarts
        /\ said + x + (before + (0 - opens)) <= 0 + restarts + 0
    BY <1>4, <1>5, <1>7 DEF Hidden, Counted, Due
  <2>2. /\ opens <= 1 /\ said + x + (before + (1 - opens)) <= 1 + restarts + 0
    BY <1>6, <2>1
  <2>3. QED BY <1>3, <1>5, <1>7, <2>1, <2>2 DEF Counted, Due
<1>9. Shaken(m, p) BY DEF Hidden, Shaken
<1>10. Early(l) => Early(m) BY <1>3 DEF Early
<1>11. m.wire \in Seq(Written) /\ (m.wire # << >> => Len(m.wire) \in DOMAIN m.wire)
  <2>1. m.wire \in Seq(Written) BY LinkFields
  <2>2. QED BY <2>1
<1>12. ~Asking(m) BY <1>11 DEF NoStarttls, Asking
<1>13. Offered(m, p) BY <1>10, <1>12 DEF Hidden, Offered
<1>14. Undisturbed(m) BY <1>11 DEF NoStarttls, Undisturbed
<1>15. QED BY <1>8, <1>9, <1>13, <1>14 DEF Hidden

(* The proxy connects.                                                     *)
LEMMA ConnectHidden ==
  ASSUME NEW l \in LinkType, NEW p \in PeerType, Hidden(l, p), l.wire = << >>, l.tls = "clear"
  PROVE  Hidden(_on_connect(l), p)
<1> DEFINE rest == [k \in DOMAIN l.pending |-> Data(l, "node", l.pending[k])]
<1>1. PICK m : m = _on_connect(l) OBVIOUS
<1>2. /\ m \in LinkType /\ m.tls = "clear" /\ m.started = l.started
      /\ m._suppress_stream_restart_event = l._suppress_stream_restart_event
      /\ l._terminate_on_connect =>
           /\ m.sock = "ended" /\ m.events = l.events
           /\ m.wire = Append(<< >>, Data(l, "close", 0))
      /\ ~l._terminate_on_connect =>
           /\ m.events = Append(l.events, "stream-added")
           /\ m.wire = <<Data(l, "open", 0)>> \o rest
  BY <1>1, ConnectEffect
<1>3. CASE l._terminate_on_connect
  <2>1. PICK d : d = Data(l, "close", 0) OBVIOUS
  <2>2. d \in Written /\ d.what = "close" BY <2>1, ProxyAssumption DEF Data, Written
  <2>3. m.wire = Append(l.wire, d) BY <1>2, <1>3, <2>1
  <2> HIDE DEF rest
  <2>4. /\ Tags(m) = Tags(l) + Bit(d.what = "open") /\ (NoStarttls(l) => NoStarttls(m))
        /\ (Undisturbed(l) => Undisturbed(m))
    BY <1>2, <2>2, <2>3, WireAppended
  <2>5. Tags(m) = Tags(l)
    <3>1. Tags(l) \in Nat BY Numbers
    <3>2. Bit(d.what = "open") = 0 BY <2>2 DEF Bit
    <3>3. QED BY <2>4, <3>1, <3>2
  <2>6. Calm(l, m) BY <1>2, <1>3, <2>4, <2>5 DEF Calm, Reported, Untold, NoFeatures, Asking
  <2>7. QED BY <1>1, <2>6, CalmHidden
<1>4. CASE ~l._terminate_on_connect
  <2>1. PICK d : d = Data(l, "open", 0) OBVIOUS
  <2>2. d \in Written /\ d.what = "open" BY <2>1, ProxyAssumption DEF Data, Written
  <2>3. rest \in Seq(Written) /\ \A k \in DOMAIN rest : rest[k].what = "node"
    <3>1. l.pending \in Seq(Node) BY LinkFields
    <3>2. \A k \in DOMAIN l.pending : Data(l, "node", l.pending[k]) \in Written
      BY <3>1, ProxyAssumption DEF Data, Written, Node
    <3>3. rest \in Seq(Written) BY <3>1, <3>2
    <3>4. \A k \in DOMAIN rest : rest[k].what = "node" BY DEF Data
    <3>5. QED BY <3>3, <3>4
  <2>4. m.wire = <<d>> \o rest BY <1>2, <1>4, <2>1
  <2> HIDE DEF rest
  <2>5. Tags(m) = 1 /\ NoStarttls(m) BY <1>2, <2>2, <2>3, <2>4, GreetingWire
  <2>6. Hidden(m, p) BY <1>2, <1>4, <2>5, GreetHidden
  <2>7. QED BY <1>1, <2>6
<1>5. QED BY <1>3, <1>4

(* A node that is not written behind a request for STARTTLS.               *)
LEMMA NodeCalm ==
  ASSUME NEW l \in LinkType, NEW n \in Node, ~Asking(l)
  PROVE  Calm(l, stanza(l, n))
<1>1. n \in 0..MaxNodes /\ "node" \in What BY ProxyAssumption DEF Node, What
<1>2. Calm(l, l) BY SameCalm
<1>3. CASE l.entry # "present" BY <1>2, <1>3 DEF stanza
<1>4. CASE l.entry = "present" /\ l._is_connected
  <2>1. PICK m : m = send(l, "node", n) OBVIOUS
  <2>2. /\ m \in LinkType /\ m.events = l.events /\ m.tls = l.tls /\ m.started = l.started
        /\ m._suppress_stream_restart_event = l._suppress_stream_restart_event
        /\ m.sock = l.sock
        /\ IF l._is_connected /\ l.sock = "open"
           THEN m.wire = Append(l.wire, Data(l, "node", n)) ELSE m.wire = l.wire
    BY <1>1, <2>1, SendEffect
  <2>3. CASE l.sock = "open"
    <3>1. PICK d : d = Data(l, "node", n) OBVIOUS
    <3>2. d \in Written /\ d.what = "node" BY <1>1, <3>1 DEF Data, Written
    <3>3. m.wire = Append(l.wire, d) BY <1>4, <2>2, <2>3, <3>1
    <3>4. l.wire = << >> \/ l.wire[Len(l.wire)].what # "starttls" BY <2>3 DEF Asking
    <3>5. /\ Tags(m) = Tags(l) + Bit(d.what = "open") /\ (NoStarttls(l) => NoStarttls(m))
          /\ (Undisturbed(l) => Undisturbed(m)) /\ m.wire[Len(m.wire)] = d
      BY <2>2, <3>2, <3>3, <3>4, WireAppended
    <3>6. Tags(m) = Tags(l)
      <4>1. l.wire \in Seq(Written) BY LinkFields
      <4>2. Tags(l) \in Nat BY <4>1, TallyType DEF Tags
      <4>3. Bit(d.what = "open") = 0 BY <3>2 DEF Bit
      <4>4. QED BY <3>5, <4>2, <4>3
    <3>7. ~Asking(m) BY <3>2, <3>5 DEF Asking
    <3>8. Calm(l, m) BY <2>2, <3>5, <3>6, <3>7 DEF Calm, Reported, Untold, NoFeatures
    <3>9. QED BY <1>4, <2>1, <3>8 DEF stanza
  <2>4. CASE l.sock # "open"
    <3>1. Calm(l, m) BY <2>2, <2>4, SameCalm
    <3>2. QED BY <1>4, <2>1, <3>1 DEF stanza
  <2>5. QED BY <2>3, <2>4
<1>5. CASE l.entry = "present" /\ ~l._is_connected
  <2>1. l.pending \in Seq(Node) BY LinkFields
  <2>2. PICK x : x = Append(l.pending, n) OBVIOUS
  <2>3. x \in Seq(Node) BY <2>1, <2>2
  <2>4. PICK m : m = [l EXCEPT !.pending = x] OBVIOUS
  <2>5. Calm(l, m) BY <2>3, <2>4, FieldCalm
  <2>6. QED BY <1>5, <2>2, <2>4, <2>5 DEF stanza
<1>6. QED BY <1>3, <1>4, <1>5

(* Events that are counted are there.                                      *)
LEMMA CountedFeatures ==
  ASSUME NEW l \in LinkType, NEW n \in Nat, Count(l.events, LAMBDA e : e = "features") > n
  PROVE  ~NoFeatures(l)
<1>1. l.events \in Seq(Event) BY LinkFields
<1>2. {i \in DOMAIN l.events : l.events[i] = "features"} =
        {i \in DOMAIN l.events : l.events[i] \in {"features"}}
  OBVIOUS
<1>3. Tally(l.events, {"features"}) > n BY <1>2 DEF Count, Tally
<1>4. /\ Tally(l.events, {"features"}) \in Nat
      /\ Tally(l.events, {"features"}) > 0 =>
           \E i \in DOMAIN l.events : l.events[i] \in {"features"}
  BY <1>1, TallyType
<1>5. Tally(l.events, {"features"}) > 0 BY <1>3, <1>4
<1>6. QED BY <1>4, <1>5 DEF NoFeatures

(* The steps of the front end, for an orderly client.                      *)
LEMMA FrontEndHidden ==
  ASSUME TypeOK, ProxyInv, Hidden(link, peer), Orderly, FrontEnd, peer' \in PeerType
  PROVE  Hidden(link', peer')
<1>0. /\ link \in LinkType /\ peer \in PeerType /\ LinkInv(link)
      /\ Offered(link, peer)
  BY DEF TypeOK, ProxyInv, LinkNodesInv, Hidden
<1>1. CASE stream_add
  <2>1. PICK refused \in Refusals, route \in Routes :
          link' = IF refused THEN _on_xmpp_proxy_close([link EXCEPT !.entry = "present"])
                  ELSE [[link EXCEPT !.entry = "present"] EXCEPT
                           !.sock = "connecting", !.lookup = IF route THEN "route" ELSE "srv"]
    BY <1>1 DEF stream_add
  <2>2. peer' = peer /\ link.sock = "none" BY <1>0, <1>1 DEF stream_add, LinkInv
  <2>3. PICK a : a = [link EXCEPT !.entry = "present"] OBVIOUS
  <2>4. a \in LinkType BY <1>0, <2>3, FieldTypes
  <2>5. Calm(link, a) BY <1>0, <2>3, FieldCalm
  <2>6. CASE refused
    <3>1. Calm(a, _on_xmpp_proxy_close(a)) BY <2>4, CloseCalm
    <3>2. Calm(link, _on_xmpp_proxy_close(a)) BY <2>5, <3>1, CalmTransitive
    <3>3. link' = _on_xmpp_proxy_close(a) BY <2>1, <2>3, <2>6
    <3>4. QED BY <1>0, <2>2, <3>2, <3>3, CalmHidden
  <2>7. CASE ~refused
    <3>1. PICK b : b = [a EXCEPT !.sock = "connecting"] OBVIOUS
    <3>2. PICK m : m = [b EXCEPT !.lookup = IF route THEN "route" ELSE "srv"] OBVIOUS
    <3>3. b \in LinkType BY <2>4, <3>1, FieldTypes
    <3>4. m \in LinkType BY <3>2, <3>3, FieldTypes
    <3>5. /\ m.wire = a.wire /\ m.events = a.events /\ m.tls = a.tls /\ m.sock = "connecting"
          /\ m.started = a.started
          /\ m._suppress_stream_restart_event = a._suppress_stream_restart_event
      BY <2>4, <3>1, <3>2 DEF LinkType
    <3>6. Calm(a, m) BY <2>4, <3>4, <3>5, SameCalm
    <3>7. Calm(link, m) BY <2>5, <3>6, CalmTransitive
    <3>8. link' = m BY <2>1, <2>3, <2>7, <3>1, <3>2
    <3>9. QED BY <1>0, <2>2, <3>7, <3>8, CalmHidden
  <2>8. QED BY <2>6, <2>7
<1>2. CASE ClientNode
  <2>1. ~Asking(link)
    <3>1. Count(link.events, LAMBDA e : e = "features") > peer.restarts
      BY <1>2 DEF ClientNode, ClientMaySpeak
    <3>2. peer.restarts \in Nat BY <1>0, Numbers
    <3>3. ~NoFeatures(link) BY <1>0, <3>1, <3>2, CountedFeatures
    <3>4. QED BY <1>0, <3>3 DEF Offered
  <2>2. peer.nodes + 1 \in Node /\ peer' = [peer EXCEPT !.nodes = peer.nodes + 1]
    BY <1>0, <1>2, ProxyAssumption DEF ClientNode, PeerType, Node
  <2>3. SamePeer(peer, peer') /\ peer'.inbound = peer.inbound
    BY <1>0, <2>2 DEF SamePeer, PeerType
  <2>4. Calm(link, stanza(link, peer.nodes + 1)) BY <1>0, <2>1, <2>2, NodeCalm
  <2>5. link' = stanza(link, peer.nodes + 1) BY <1>2 DEF ClientNode
  <2>6. Hidden(link', peer) BY <1>0, <2>4, <2>5, CalmHidden
  <2>7. QED BY <2>3, <2>6, PeerHidden
<1>3. CASE stream_restart
  <2>1. /\ link' = restart(link) /\ peer' = [peer EXCEPT !.restarts = peer.restarts + 1]
        /\ LastIs("success")
    BY <1>3 DEF stream_restart
  <2>2. /\ peer'.restarts = peer.restarts + 1 /\ peer'.opens = peer.opens
        /\ peer'.features = peer.features /\ peer'.inbound = peer.inbound
    BY <1>0, <2>1 DEF PeerType
  <2>3. ~Untold(link)
    <3>1. link.events \in Seq(Event) BY <1>0, LinkFields
    <3>2. /\ Len(link.events) \in DOMAIN link.events
          /\ link.events[Len(link.events)] = "success"
      BY <2>1, <3>1 DEF LastIs, Last
    <3>3. QED BY <3>2 DEF Untold
  <2>4. peer'.features > 0 /\ NoOffers(peer')
    <3>1. ~Early(link) BY <2>3 DEF Early
    <3>2. peer.features # 0 /\ NoOffers(peer) BY <1>0, <3>1 DEF Offered, NoOffers
    <3>3. peer.features \in Nat BY <1>0, Numbers
    <3>4. QED BY <2>2, <3>2, <3>3 DEF NoOffers
  <2>5. /\ link.sock = "open" => link._is_connected /\ Tags(link) > 0
        /\ peer'.opens <= Tags(link) /\ Undisturbed(link) /\ Shaken(link, peer')
    BY <1>0, <2>2 DEF LinkInv, Hidden, Counted, Shaken
  <2>6. Reported(link) <= peer'.restarts /\ Slack(link, peer')
    <3>1. PICK x, y, z, tags, said, due, opens, restarts :
            /\ x = Bit(link.started) /\ y = Bit(Tags(link) > 0)
            /\ z = Bit(link._suppress_stream_restart_event /\ link.tls = "secure")
            /\ tags = Tags(link) /\ said = Reported(link)
            /\ due = Tally(peer.inbound, {"open"}) /\ opens = peer.opens
            /\ restarts = peer.restarts
      OBVIOUS
    <3>2. /\ x \in Nat /\ y \in Nat /\ z \in Nat /\ tags \in Nat /\ said \in Nat
          /\ due \in Nat /\ opens \in Nat /\ restarts \in Nat
      <4>1. /\ Bit(link.started) \in Nat /\ Bit(Tags(link) > 0) \in Nat
            /\ Bit(link._suppress_stream_restart_event /\ link.tls = "secure") \in Nat
        BY DEF Bit
      <4>2. /\ Tags(link) \in Nat /\ Reported(link) \in Nat
            /\ Tally(peer.inbound, {"open"}) \in Nat
            /\ peer.opens \in Nat /\ peer.restarts \in Nat
        BY <1>0, Numbers
      <4>3. QED BY <3>1, <4>1, <4>2
    <3>3. said <= restarts /\ said + x + (due + (tags - opens)) <= y + restarts + z
      BY <3>1 DEF Hidden, Counted, Due
    <3>4. /\ said <= restarts + 1
          /\ said + x + (due + (tags - opens)) + 1 <= y + (restarts + 1) + z
      BY <3>2, <3>3
    <3>5. QED BY <2>2, <3>1, <3>4 DEF Slack, Due
  <2>7. Hidden(restart(link), peer') BY <1>0, <2>4, <2>5, <2>6, RestartHidden
  <2>8. QED BY <2>1, <2>7
<1>4. CASE stream_terminate
  <2>1. PICK a : a = terminate(link) OBVIOUS
  <2>2. PICK b : b = [a EXCEPT !.entry = "gone"] OBVIOUS
  <2>3. Calm(link, a) /\ a \in LinkType BY <1>0, <2>1, TerminateCalm DEF Calm
  <2>4. b \in LinkType BY <2>2, <2>3, FieldTypes
  <2>5. Calm(a, b) BY <2>2, <2>3, FieldCalm
  <2>6. Calm(b, Emit(b, "stream-terminate")) BY <2>4, EventCalm DEF Event
  <2>7. Calm(link, b) BY <2>3, <2>5, CalmTransitive
  <2>8. Calm(link, Emit(b, "stream-terminate")) BY <2>6, <2>7, CalmTransitive
  <2>9. link' = Emit(b, "stream-terminate") /\ peer' = peer
    BY <1>4, <2>1, <2>2 DEF stream_terminate
  <2>10. QED BY <1>0, <2>8, <2>9, CalmHidden
<1>5. QED BY <1>1, <1>2, <1>3, <1>4 DEF FrontEnd

(* The steps of the socket.                                                *)
LEMMA SocketHidden ==
  ASSUME TypeOK, ProxyInv, Hidden(link, peer), Socket \/ PeerGone, peer' \in PeerType
  PROVE  Hidden(link', peer')
<1>0. /\ link \in LinkType /\ peer \in PeerType /\ LinkInv(link)
      /\ Offered(link, peer) /\ Counted(link, peer) /\ Shaken(link, peer) /\ Undisturbed(link)
  BY DEF TypeOK, ProxyInv, LinkNodesInv, Hidden
<1>1. CASE Connected
  <2>1. link' = _on_connect(link) /\ peer' = peer /\ link.wire = << >> /\ link.tls = "clear"
    BY <1>0, <1>1 DEF Connected, LinkInv
  <2>2. QED BY <1>0, <2>1, ConnectHidden
<1>2. CASE ConnectFailed
  <2>1. peer' = peer /\ link.sock = "connecting" BY <1>2 DEF ConnectFailed
  <2>2. CASE link.lookup = "route"
    <3>1. PICK m : m = [link EXCEPT !.lookup = "srv"] OBVIOUS
    <3>2. Calm(link, m) BY <1>0, <3>1, FieldCalm
    <3>3. link' = m BY <1>2, <2>2, <3>1 DEF ConnectFailed
    <3>4. QED BY <1>0, <2>1, <3>2, <3>3, CalmHidden
  <2>3. CASE link.lookup # "route"
    <3>1. PICK a : a = [link EXCEPT !.lookup = "done"] OBVIOUS
    <3>2. PICK m : m = [a EXCEPT !.sock = "closed"] OBVIOUS
    <3>3. a \in LinkType BY <1>0, <3>1, FieldTypes
    <3>4. m \in LinkType BY <3>2, <3>3, FieldTypes
    <3>5. /\ m.wire = link.wire /\ m.events = link.events /\ m.tls = link.tls
          /\ m.sock = "closed" /\ m.started = link.started
          /\ m._suppress_stream_restart_event = link._suppress_stream_restart_event
      BY <1>0, <3>1, <3>2 DEF LinkType
    <3>6. Calm(link, m) BY <1>0, <3>4, <3>5, SameCalm
    <3>7. Calm(m, _on_xmpp_proxy_close(m)) BY <3>4, CloseCalm
    <3>8. Calm(link, _on_xmpp_proxy_close(m)) BY <3>6, <3>7, CalmTransitive
    <3>9. link' = _on_xmpp_proxy_close(m) BY <1>2, <2>3, <3>1, <3>2 DEF ConnectFailed
    <3>10. QED BY <1>0, <2>1, <3>8, <3>9, CalmHidden
  <2>4. QED BY <2>2, <2>3
<1>3. CASE Secured
  <2>1. PICK a : a = [link EXCEPT !.tls = "secure"] OBVIOUS
  <2>2. a \in LinkType BY <1>0, <2>1, FieldTypes
  <2>3. link.tls = "handshake" /\ link' = restart(a) /\ peer' = peer
    BY <1>3, <2>1 DEF Secured
  <2>4. /\ a.wire = link.wire /\ a.sock = link.sock /\ a.events = link.events
        /\ a.started = link.started /\ a._is_connected = link._is_connected
        /\ a._suppress_stream_restart_event = link._suppress_stream_restart_event
        /\ a.tls = "secure"
    BY <1>0, <2>1 DEF LinkType
  <2>5. Tags(a) = Tags(link) /\ Undisturbed(a) /\ Reported(a) = Reported(link)
    BY <1>0, <2>2, <2>4, SameWire DEF Reported
  <2>6. a._suppress_stream_restart_event /\ peer.inbound = << >>
    BY <1>0, <2>3, <2>4 DEF Shaken
  <2>7. DOMAIN peer.inbound = {} BY <2>6
  <2>8. Shaken(a, peer) BY <2>4, <2>7 DEF Shaken
  <2>9. peer.features > 0 /\ NoOffers(peer)
    <3>1. ~Early(link) BY <2>3 DEF Early
    <3>2. peer.features # 0 BY <1>0, <3>1 DEF Offered
    <3>3. peer.features \in Nat BY <1>0, Numbers
    <3>4. QED BY <2>7, <3>2, <3>3 DEF NoOffers
  <2>10. Slack(a, peer)
    <3>1. PICK x, y, tags, said, due, opens, restarts :
            /\ x = Bit(link.started) /\ y = Bit(Tags(link) > 0)
            /\ tags = Tags(link) /\ said = Reported(link)
            /\ due = Tally(peer.inbound, {"open"}) /\ opens = peer.opens
            /\ restarts = peer.restarts
      OBVIOUS
    <3>2. /\ x \in Nat /\ y \in Nat /\ tags \in Nat /\ said \in Nat
          /\ due \in Nat /\ opens \in Nat /\ restarts \in Nat
      <4>1. Bit(link.started) \in Nat /\ Bit(Tags(link) > 0) \in Nat BY DEF Bit
      <4>2. /\ Tags(link) \in Nat /\ Reported(link) \in Nat
            /\ Tally(peer.inbound, {"open"}) \in Nat
            /\ peer.opens \in Nat /\ peer.restarts \in Nat
        BY <1>0, Numbers
      <4>3. QED BY <3>1, <4>1, <4>2
    <3>3. /\ Bit(link._suppress_stream_restart_event /\ link.tls = "secure") = 0
          /\ Bit(a._suppress_stream_restart_event /\ a.tls = "secure") = 1
      BY <2>3, <2>4, <2>6 DEF Bit
    <3>4. said + x + (due + (tags - opens)) <= y + restarts + 0
      BY <1>0, <3>1, <3>3 DEF Counted, Due
    <3>5. said + x + (due + (tags - opens)) + 1 <= y + restarts + 1 BY <3>2, <3>4
    <3>6. QED BY <2>4, <2>5, <3>1, <3>3, <3>5 DEF Slack, Due
  <2>11. /\ a.sock = "open" => a._is_connected /\ Tags(a) > 0
         /\ Reported(a) <= peer.restarts /\ peer.opens <= Tags(a)
    BY <1>0, <2>4, <2>5 DEF LinkInv, Counted
  <2>12. Hidden(restart(a), peer)
    BY <1>0, <2>2, <2>5, <2>8, <2>9, <2>10, <2>11, RestartHidden
  <2>13. QED BY <2>3, <2>12
<1>4. CASE OnData
  <2>1. PICK item : item = Head(peer.inbound) OBVIOUS
  <2>2. peer.inbound # << >> /\ peer' = [peer EXCEPT !.inbound = Tail(peer.inbound)]
    BY <1>4 DEF OnData
  <2>3. SamePeer(peer, peer') /\ peer'.inbound = Tail(peer.inbound)
    BY <1>0, <2>2 DEF SamePeer, PeerType
  <2>4. Hidden(link, peer') /\ Read(link, peer', item) BY <1>0, <2>1, <2>2, <2>3, ReadHidden
  <2>5. CASE "data" \notin link.listening BY <1>4, <2>4, <2>5 DEF OnData
  <2>6. CASE "data" \in link.listening
    <3>1. link' = parse(link, item) BY <1>4, <2>1, <2>6 DEF OnData
    <3>2. CASE link.sock = "ended"
      <4>1. link.parser = "ended" BY <1>0, <2>6, <3>2 DEF LinkInv, Deaf
      <4>2. link' = link BY <3>1, <4>1 DEF parse
      <4>3. QED BY <2>4, <4>2
    <3>3. CASE link.sock = "open"
      <4>1. peer.inbound \in Seq(Items) BY <1>0, Numbers
      <4>2. item \in ItemKind BY <2>1, <2>2, <4>1, ProxyAssumption
      <4>3. link._is_connected BY <1>0, <3>3 DEF LinkInv
      <4>4. QED BY <1>0, <2>4, <3>1, <3>3, <4>2, <4>3, ParseHidden
    <3>4. QED BY <1>4, <3>2, <3>3 DEF OnData
  <2>7. QED BY <2>5, <2>6
<1>5. CASE SocketClosed
  <2>1. PICK a : a = [link EXCEPT !.sock = "closed"] OBVIOUS
  <2>2. PICK m : m = [a EXCEPT !.listening = {}] OBVIOUS
  <2>3. a \in LinkType BY <1>0, <2>1, FieldTypes
  <2>4. {} \in SUBSET {"data", "close"} OBVIOUS
  <2>5. m \in LinkType BY <2>2, <2>3, <2>4, FieldTypes
  <2>6. /\ link' \in {_on_xmpp_proxy_close(m), m}
        /\ peer' = [peer EXCEPT !.inbound = << >>]
    BY <1>5, <2>1, <2>2 DEF SocketClosed
  <2>7. /\ m.wire = link.wire /\ m.events = link.events /\ m.tls = link.tls
        /\ m.sock = "closed" /\ m.started = link.started
        /\ m._suppress_stream_restart_event = link._suppress_stream_restart_event
    BY <1>0, <2>1, <2>2 DEF LinkType
  <2>8. Calm(link, m) BY <1>0, <2>5, <2>7, SameCalm
  <2>9. Calm(m, _on_xmpp_proxy_close(m)) BY <2>5, CloseCalm
  <2>10. Calm(link, _on_xmpp_proxy_close(m)) BY <2>8, <2>9, CalmTransitive
  <2>11. SamePeer(peer, peer') /\ peer'.inbound = << >>
    BY <1>0, <2>6 DEF SamePeer, PeerType
  <2>12. Hidden(link, peer') BY <1>0, <2>11, NothingInbound
  <2>13. QED BY <1>0, <2>6, <2>8, <2>10, <2>12, CalmHidden
<1>6. CASE PeerGone
  <2>1. PICK throws \in BOOLEAN : link' = [link EXCEPT !.sock = "dead", !.throws = throws]
    BY <1>6 DEF PeerGone
  <2>2. PICK a : a = [link EXCEPT !.sock = "dead"] OBVIOUS
  <2>3. PICK m : m = [a EXCEPT !.throws = throws] OBVIOUS
  <2>4. a \in LinkType BY <1>0, <2>2, FieldTypes
  <2>5. m \in LinkType BY <2>3, <2>4, FieldTypes
  <2>6. link' = m /\ peer' = peer BY <1>6, <2>1, <2>2, <2>3 DEF PeerGone
  <2>7. /\ m.wire = link.wire /\ m.events = link.events /\ m.tls = link.tls
        /\ m.sock = "dead" /\ m.started = link.started
        /\ m._suppress_stream_restart_event = link._suppress_stream_restart_event
    BY <1>0, <2>2, <2>3 DEF LinkType
  <2>8. Calm(link, m) BY <1>0, <2>5, <2>7, SameCalm
  <2>9. QED BY <1>0, <2>6, <2>8, CalmHidden
<1>7. QED BY <1>1, <1>2, <1>3, <1>4, <1>5, <1>6 DEF Socket

ProxyHidden == TypeOK /\ ProxyInv /\ Hidden(link, peer)

(* TlsHidden of XmppProxy, when client and server keep to RFC 6120: the    *)
(* client is told of the restarts it asked for and of no other, and        *)
(* nothing is written between <starttls/> and the new stream.              *)
THEOREM TlsIsHidden == Orderly => (Spec => []TlsHidden)
<1> SUFFICES ASSUME Orderly PROVE Spec => []TlsHidden OBVIOUS
<1>1. Init => ProxyHidden
  <2>1. ASSUME Init PROVE ProxyHidden
    <3>1. TypeOK /\ ProxyInv BY <2>1, ProxyInit
    <3>2. link \in LinkType /\ peer \in PeerType BY <3>1 DEF TypeOK
    <3>3. /\ link.wire = << >> /\ link.events = << >> /\ link.sock = "none"
          /\ link.tls = "clear" /\ ~link.started /\ ~link._suppress_stream_restart_event
          /\ peer.inbound = << >> /\ peer.opens = 0 /\ peer.restarts = 0 /\ peer.features = 0
      BY <2>1 DEF Init
    <3>4. ASSUME NEW T, NEW S PROVE Tally(<< >>, S) = 0
      <4>1. << >> \in Seq(T) /\ DOMAIN << >> = {} OBVIOUS
      <4>2. /\ Tally(<< >>, S) \in Nat
            /\ Tally(<< >>, S) > 0 <=> \E i \in DOMAIN << >> : << >>[i] \in S
        BY <4>1, TallyType
      <4>3. ~(Tally(<< >>, S) > 0) BY <4>1, <4>2
      <4>4. QED BY <4>2, <4>3
    <3>5. Tags(link) = 0 /\ Reported(link) = 0 /\ Tally(peer.inbound, {"open"}) = 0
      BY <3>3, <3>4 DEF Tags, Reported
    <3>6. /\ Bit(link.started) = 0 /\ Bit(Tags(link) > 0) = 0
          /\ Bit(link._suppress_stream_restart_event /\ link.tls = "secure") = 0
      BY <3>3, <3>5 DEF Bit
    <3>7. Counted(link, peer) BY <3>3, <3>5, <3>6 DEF Counted, Due
    <3>8. Shaken(link, peer) BY <3>3 DEF Shaken
    <3>9. Offered(link, peer) /\ Undisturbed(link)
      BY <3>3, <3>5 DEF Offered, Early, Untold, NoStarttls, Asking, Undisturbed
    <3>10. QED BY <3>1, <3>7, <3>8, <3>9 DEF ProxyHidden, Hidden
  <2>2. QED BY <2>1
<1>2. ProxyHidden /\ [Next]_vars => ProxyHidden'
  <2>1. ASSUME ProxyHidden, Next PROVE ProxyHidden'
    <3>1. TypeOK /\ ProxyInv /\ Hidden(link, peer) BY <2>1 DEF ProxyHidden
    <3>2. peer' \in PeerType /\ TypeOK' /\ ProxyInv'
      BY <2>1, <3>1, LinkSteps, PeerSteps DEF TypeOK, ProxyInv, Kept
    <3>3. CASE FrontEnd BY <3>1, <3>2, <3>3, FrontEndHidden DEF ProxyHidden
    <3>4. CASE Socket \/ PeerGone BY <3>1, <3>2, <3>4, SocketHidden DEF ProxyHidden
    <3>5. CASE Server
      <4>1. PICK item \in Items : ServerSend(item) BY <3>5 DEF Server
      <4>2. Arrives(link, peer, peer', item) BY <3>1, <4>1, OrderlyArrives
      <4>3. link' = link BY <4>1 DEF ServerSend
      <4>4. Hidden(link, peer') BY <3>1, <3>2, <4>2, ArrivalHidden DEF TypeOK
      <4>5. QED BY <3>2, <4>3, <4>4 DEF ProxyHidden
    <3>6. QED BY <2>1, <3>3, <3>4, <3>5 DEF Next
  <2>2. ASSUME ProxyHidden, UNCHANGED vars PROVE ProxyHidden'
    BY <2>2 DEF ProxyHidden, TypeOK, ProxyInv, vars
  <2>3. QED BY <2>1, <2>2
<1>3. ProxyHidden => TlsHidden
  <2>1. ASSUME ProxyHidden PROVE TlsHidden
    <3>1. Counted(link, peer) /\ Undisturbed(link) BY <2>1 DEF ProxyHidden, Hidden
    <3>2. {i \in DOMAIN link.events : link.events[i] = "stream-restarted"} =
            {i \in DOMAIN link.events : link.events[i] \in {"stream-restarted"}}
      OBVIOUS
    <3>3. Count(link.events, LAMBDA e : e = "stream-restarted") = Reported(link)
      BY <3>2 DEF Count, Reported, Tally
    <3>4. QED BY <3>1, <3>3 DEF Counted, Undisturbed, TlsHidden
  <2>2. QED BY <2>1
<1>4. QED BY <1>1, <1>2, <1>3, PTL DEF Spec
=============================================================================
