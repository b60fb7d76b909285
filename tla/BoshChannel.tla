---------------------------- MODULE BoshChannel ----------------------------
(***************************************************************************)
(* A session, its client and the network between them.  The client (not    *)
(* part of the repository; XEP-0124) numbers its requests, keeps within    *)
(* the window the session announced, repeats a request whose connection    *)
(* broke and puts the replies in rid order.  Networks differ: on one,      *)
(* requests overtake one another and may be lost; on the others they stay  *)
(* in order, and a connection breaks with the reply on its way, or while   *)
(* the server holds the request.                                           *)
(***************************************************************************)
EXTENDS Session

CONSTANTS
  MaxPolls,      \* bound: requests the server may let time out
  MaxData,       \* bound: requests with nodes the client makes
  MaxFaults,     \* bound: connections that break
  Networks       \* the kinds of network the client may be on

ASSUME NetworkAssumption ==
  /\ MaxPolls \in Nat /\ MaxData \in Nat /\ MaxFaults \in Nat
  /\ Networks \subseteq {"overtaking", "losing", "cutting"}

VARIABLES
  client,   \* next: the rid of its next request; got: the replies it has read;
            \* conn: where a request is at the server (0: nowhere); waiting:
            \* the requests that have a connection; kind: what each says;
            \* data, polls, faults: what the bounds count; path: its network
  network   \* the requests under way

vars == <<session, client, network>>

ChannelInit ==
  /\ Init
  /\ \E path \in Networks :
       client = [next |-> InitRid + 1, got |-> [r \in Rid |-> NoBody],
                 conn |-> [r \in Rid |-> IF r = InitRid THEN 1 ELSE 0],
                 waiting |-> {InitRid}, kind |-> [r \in Rid |-> "poll"],
                 data |-> 0, polls |-> 0, faults |-> 0, path |-> path]
  /\ network = {}

(* The replies read without a gap: what the client can acknowledge.        *)
ReadUpTo ==
  CHOOSE n \in (InitRid - 1)..MaxRid :
    /\ \A r \in InitRid..n : client.got[r] # NoBody
    /\ n = MaxRid \/ client.got[n + 1] = NoBody

Unanswered == {r \in InitRid..(client.next - 1) : client.got[r] = NoBody}

Send(rid, kind) ==
  network' = network \union {[rid |-> rid, ack |-> ReadUpTo, kind |-> kind]}

(* A poll keeps up to hold requests at the server; a request with nodes is *)
(* made at will; both stay in the window.                                  *)
ClientRequest(kind) ==
  /\ client.got[InitRid] # NoBody
  /\ client.next <= MaxRid /\ client.next <= ReadUpTo + WindowSize
  /\ IF kind = "poll" THEN Cardinality(Unanswered) < session.hold ELSE client.data < MaxData
  /\ client' = [client EXCEPT !.next = @ + 1, !.waiting = @ \union {client.next},
                              !.kind[client.next] = kind,
                              !.data = IF kind = "poll" THEN @ ELSE @ + 1]
  /\ Send(client.next, kind)
  /\ UNCHANGED session

ClientRepeat(rid) ==
  /\ rid \in Unanswered \ client.waiting
  /\ client' = [client EXCEPT !.waiting = @ \union {rid}]
  /\ Send(rid, client.kind[rid])
  /\ UNCHANGED session

ClientRead(rid) ==
  /\ rid \in client.waiting /\ client.conn[rid] # 0
  /\ session.replies[client.conn[rid]] # << >>
  /\ client' = [client EXCEPT !.got[rid] = session.replies[client.conn[rid]][1],
                              !.waiting = @ \ {rid}]
  /\ UNCHANGED <<session, network>>

(* What a broken connection loses on each kind of network.                 *)
Loses == [overtaking |-> "request", losing |-> "reply", cutting |-> "nothing"]

(* The connection of a request breaks, and the client learns of it: before *)
(* the request has arrived, with the reply on its way, or while the server *)
(* holds the request.                                                      *)
Break(rid) ==
  LET message == {m \in network : m.rid = rid}
      lost == IF message # {} THEN "request"
              ELSE IF session.replies[client.conn[rid]] # << >> THEN "reply" ELSE "nothing"
  IN /\ client.faults < MaxFaults
     /\ rid \in client.waiting \ {InitRid}
     /\ lost = Loses[client.path]
     /\ network' = network \ message
     /\ client' = [client EXCEPT !.waiting = @ \ {rid}, !.conn[rid] = 0, !.faults = @ + 1]
     /\ UNCHANGED session

(* A request arrives; the session takes it as new or as a repeated one.    *)
Arrival(m) ==
  /\ client.path = "overtaking" \/ \A other \in network : m.rid <= other.rid
  /\ network' = network \ {m}
  /\ client' = [client EXCEPT !.conn[m.rid] = NextConn]
  /\ \/ Request(m.rid, m.ack, m.kind)
     \/ RepeatedRequest(m.rid, m.ack, m.kind)
     \/ InvalidRequest(m.rid, FALSE)

Create ==
  /\ \E h \in HoldAttrs, a \in AckModes : CreateSession(h, a, "poll")
  /\ UNCHANGED <<client, network>>

Tick == NextTick /\ UNCHANGED <<client, network>>

Stanza_(error) == OnResponse(error) /\ UNCHANGED <<client, network>>

Timeout ==
  /\ client.polls < MaxPolls
  /\ RequestTimeout
  /\ client' = [client EXCEPT !.polls = @ + 1]
  /\ UNCHANGED network

ChannelNext ==
  \/ Create \/ Tick \/ Stanza_(FALSE) \/ Timeout
  \/ \E kind \in Kinds : ClientRequest(kind)
  \/ \E rid \in Rid : ClientRepeat(rid) \/ ClientRead(rid) \/ Break(rid)
  \/ \E m \in network : Arrival(m)

(* What goes on by itself: the runtime runs its callbacks, the network     *)
(* delivers, and a client that is alive reads, polls and repeats.  Nothing *)
(* obliges a stanza or a request with nodes to come, a timer to fire or a  *)
(* connection to break; each of these happens a bounded number of times.   *)
Progress ==
  \/ \E rid \in Rid : ClientRead(rid) \/ ClientRepeat(rid)
  \/ ClientRequest("poll")
  \/ Create \/ Tick
  \/ \E m \in network : Arrival(m)

ChannelSpec == ChannelInit /\ [][ChannelNext]_vars /\ WF_vars(Progress)

-----------------------------------------------------------------------------
(* What the client has in the order of the rids.                           *)
Delivered ==
  FlattenSeq([i \in 1..(ReadUpTo - InitRid + 1) |-> client.got[InitRid + i - 1].stanzas])

Sent == [i \in 1..session.stanza_no |-> i]

Promise == INSTANCE Channel WITH sent <- Sent, delivered <- Delivered

(* The session, its client and the network together implement Channel,     *)
(* its fairness included.                                                  *)
ImplementsChannel == Promise!Spec

(* The client takes nothing for the reply to a rid that lacks a stanza the *)
(* server sent on that rid: what the assumptions of session.js 818-819 and *)
(* 1108-1109 amount to.                                                    *)
ReplyNotMissed ==
  \A c \in DOMAIN session.arrived :
    LET rid == session.arrived[c] IN
    client.got[rid] # NoBody =>
      \A i \in DOMAIN session.replies[c] :
        StanzasOf(session.replies[c][i]) \subseteq StanzasOf(client.got[rid])

(* A client that keeps to the rules never makes the session give up on it. *)
NeverRefused == session.status \in {"none", "open"}

(* Each request with nodes reaches the XMPP server, once and eventually:   *)
(* again and again, all that were made so far have.                        *)
NodesArrive ==
  []<>(\A r \in Rid : client.kind[r] = "data" => session.nodes[r] = 1)

=============================================================================
