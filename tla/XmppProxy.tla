----------------------------- MODULE XmppProxy -----------------------------
(***************************************************************************)
(* One XMPP stream on the side of the XMPP server: the connector           *)
(* (src/xmpp-proxy-connector.js), its proxy (src/xmpp-proxy.js) with the   *)
(* stream parser (src/stream-parser.js), the lookup of the host            *)
(* (src/lookup-service.js) and STARTTLS (src/starttls.js).  The socket,    *)
(* the XMPP server and the client behind the front end are external.       *)
(*                                                                         *)
(* Each function that changes state is an operator on a record, link,      *)
(* under the function's name where it has one; a data event, a socket      *)
(* event or a call of the front end is an action.                          *)
(***************************************************************************)
EXTENDS Integers, Sequences, SequencesExt

CONSTANTS
  MaxNodes,     \* bound: nodes the client sends
  MaxRestarts,  \* bound: restarts the client asks for
  MaxItems,     \* bound: things the XMPP server sends, answers apart
  Items,        \* the kinds of thing it sends
  Routes,       \* may the stream name a route (or a host with one built in)?
  Refusals,     \* may the firewall rules refuse the host?
  NoTls,        \* is the host among options.no_tls_domains?
  Orderly       \* do client and server keep to RFC 6120?

ItemKind == {"open", "features", "offer", "require", "proceed", "success", "stanza",
             "close", "huge"}

ASSUME ProxyAssumption ==
  /\ MaxNodes \in Nat /\ MaxRestarts \in Nat /\ MaxItems \in Nat
  /\ Items \subseteq ItemKind
  /\ Routes \subseteq BOOLEAN /\ Refusals \subseteq BOOLEAN
  /\ NoTls \in BOOLEAN /\ Orderly \in BOOLEAN

VARIABLES
  link,    \* the connector's entry for the stream, its proxy and its socket
  peer     \* what client and XMPP server have done

vars == <<link, peer>>

Node == 1..MaxNodes

(* What is written to the XMPP server; no is the number of a node.         *)
Written == [what : {"open", "starttls", "close", "node"}, no : 0..MaxNodes, secure : BOOLEAN]

(* Events between the front end and the connector: "terminate" comes from  *)
(* the connector, "stream-terminate" from the front end; either ends the   *)
(* stream.                                                                 *)
Event == {"stream-added", "stream-restarted", "features", "success", "response",
          "terminate", "stream-terminate"}

LinkType ==
  [entry : {"none", "present", "gone"},        \* connector.streams[name]
   pending : Seq(Node),
   lookup : {"none", "route", "srv", "done"},  \* the connector function being tried
   sock : {"none", "connecting", "open", "ended", "dead", "closed"},
   throws : BOOLEAN,                           \* does write() throw on a dead socket?
   tls : {"clear", "handshake", "secure"},
   listening : SUBSET {"data", "close"},       \* handlers on the socket
   parser : {"fresh", "stream", "spent", "ended"},
   started : BOOLEAN,
   _is_connected : BOOLEAN, _terminate_on_connect : BOOLEAN,
   _suppress_stream_restart_event : BOOLEAN,
   wire : Seq(Written), events : Seq(Event)]

PeerType ==
  [nodes : 0..MaxNodes, restarts : 0..MaxRestarts, sent : 0..MaxItems,
   inbound : Seq(Items),                       \* on its way to the proxy
   opens : Nat, features : Nat, proceeds : Nat,
   waiting : BOOLEAN]                          \* told success, awaits a new stream

TypeOK == link \in LinkType /\ peer \in PeerType

Init ==
  /\ link = [entry |-> "none", pending |-> << >>, lookup |-> "none", sock |-> "none",
             throws |-> FALSE, tls |-> "clear", listening |-> {}, parser |-> "fresh",
             started |-> FALSE, _is_connected |-> FALSE, _terminate_on_connect |-> FALSE,
             _suppress_stream_restart_event |-> FALSE, wire |-> << >>, events |-> << >>]
  /\ peer = [nodes |-> 0, restarts |-> 0, sent |-> 0, inbound |-> << >>,
             opens |-> 0, features |-> 0, proceeds |-> 0, waiting |-> FALSE]

Emit(l, e) == [l EXCEPT !.events = Append(@, e)]
Count(seq, Is(_)) == Cardinality({i \in DOMAIN seq : Is(seq[i])})

-----------------------------------------------------------------------------
(* The proxy.                                                              *)

Data(l, what, no) == [what |-> what, no |-> no, secure |-> l.tls # "clear"]

(* send: on a socket whose peer is gone the data is lost, and write may    *)
(* throw, which is caught.                                                 *)
send(l, what, no) ==
  IF ~l._is_connected THEN l
  ELSE IF l.sock = "open" THEN [l EXCEPT !.wire = Append(@, Data(l, what, no))]
       ELSE [l EXCEPT !._is_connected = ~l.throws]

(* Mutant: forgets a termination asked for while it connects.              *)
terminate_now_or_never(l) ==
  IF ~l._is_connected THEN l
  ELSE LET said == send(l, "close", 0)
       IN [said EXCEPT !.listening = @ \ {"data"}, !.parser = "ended", !._is_connected = FALSE,
                       !.sock = IF @ = "open" THEN "ended" ELSE @]

(* Mutant: goes on listening and parsing.                                  *)
terminate_still_listening(l) ==
  IF ~l._is_connected THEN [l EXCEPT !._terminate_on_connect = TRUE]
  ELSE LET said == send(l, "close", 0)
       IN [said EXCEPT !._is_connected = FALSE, !.sock = IF @ = "open" THEN "ended" ELSE @]

(* Mutant: detaches the 'close' handler too (_detach_handlers).            *)
terminate_detached(l) ==
  IF ~l._is_connected THEN [l EXCEPT !._terminate_on_connect = TRUE]
  ELSE LET said == send(l, "close", 0)
       IN [said EXCEPT !.listening = {}, !.parser = "ended", !._is_connected = FALSE,
                       !.sock = IF @ = "open" THEN "ended" ELSE @]

(* end() closes this side of the connection only; nothing destroys the     *)
(* socket later, so that it is there for as long as the server keeps its   *)
(* side open.                                                              *)
terminate(l) ==
  IF ~l._is_connected THEN [l EXCEPT !._terminate_on_connect = TRUE]
  ELSE LET said == send(l, "close", 0)
       IN [said EXCEPT !.listening = @ \ {"data"}, !.parser = "ended", !._is_connected = FALSE,
                       !.sock = IF @ = "open" THEN "ended" ELSE @]

restart(l) == [send(l, "open", 0) EXCEPT !.parser = "fresh"]

(* _starttls, and the flag that _on_stanza sets after it.                  *)
_starttls(l) ==
  [l EXCEPT !.tls = "handshake", !.listening = {"data", "close"},
            !._suppress_stream_restart_event = TRUE]

(* Mutant: passes on features that offer STARTTLS.                         *)
_on_stanza_offering(l, item) ==
  CASE item \in {"offer", "require"} ->
         Emit(IF item = "require" \/ ~NoTls THEN send(l, "starttls", 0) ELSE l, "features")
    [] item = "proceed" -> _starttls(l)
    [] item \in {"features", "success"} -> Emit(l, item)
    [] item = "stanza" -> Emit(l, "response")

(* STARTTLS unless the host is exempt and does not require it.             *)
_on_stanza(l, item) ==
  CASE item \in {"offer", "require"} ->
         IF item = "require" \/ ~NoTls THEN send(l, "starttls", 0) ELSE Emit(l, "features")
    [] item = "proceed" -> _starttls(l)
    [] item \in {"features", "success"} -> Emit(l, item)
    [] item = "stanza" -> Emit(l, "response")

(* Mutant: the flag stays up.                                              *)
_on_stream_restart_sticky(l) ==
  IF l._suppress_stream_restart_event THEN l ELSE Emit(l, "stream-restarted")

_on_stream_restart(l) ==
  [(IF l._suppress_stream_restart_event THEN l ELSE Emit(l, "stream-restarted"))
     EXCEPT !._suppress_stream_restart_event = FALSE]

(* A stream tag: the first starts the stream, a later one restarts it.     *)
OpenTag(l) ==
  IF l.started THEN _on_stream_restart([l EXCEPT !.parser = "stream"])
  ELSE [l EXCEPT !.parser = "stream", !.started = TRUE]

(* Whatever is not well formed ends the stream: a stanza before any stream *)
(* tag, the end of a stream that was not opened, anything after the root   *)
(* element of a restarted parser has closed.                               *)
parse(l, item) ==
  CASE l.parser = "ended" -> l
    [] l.parser # "ended" /\ item \in {"close", "huge"} -> terminate(l)
    [] l.parser = "spent" /\ item \notin {"close", "huge"} -> terminate(l)
    [] l.parser \in {"fresh", "stream"} /\ item = "open" -> OpenTag(l)
    [] l.parser = "stream" /\ item \notin {"open", "close", "huge"} -> _on_stanza(l, item)
    [] l.parser = "fresh" /\ item \notin {"open", "close", "huge"} ->
         IF l.started THEN _on_stanza([l EXCEPT !.parser = "spent"], item) ELSE terminate(l)

-----------------------------------------------------------------------------
(* The connector.                                                          *)

_on_xmpp_proxy_close(l) ==
  IF l.entry # "present" THEN l ELSE Emit([l EXCEPT !.entry = "gone"], "terminate")

(* Mutant: does not empty pending.                                         *)
_on_xmpp_proxy_connected_keeping(l) ==
  [Emit(l, "stream-added") EXCEPT
     !.wire = @ \o [k \in DOMAIN l.pending |-> Data(l, "node", l.pending[k])]]

(* The proxy has just connected, so that it writes whatever it sends.      *)
_on_xmpp_proxy_connected(l) ==
  [Emit(l, "stream-added") EXCEPT
     !.wire = @ \o [k \in DOMAIN l.pending |-> Data(l, "node", l.pending[k])],
     !.pending = << >>]

(* The 'connect' event of the lookup.                                      *)
_on_connect(l) ==
  LET up == [l EXCEPT !._is_connected = TRUE, !.lookup = "done", !.sock = "open"]
      greeted == IF up._terminate_on_connect THEN terminate(up)
                 ELSE _on_xmpp_proxy_connected(send(up, "open", 0))
  IN [greeted EXCEPT !.listening = {"data", "close"}]

(* A node of the client.                                                   *)
stanza(l, n) ==
  IF l.entry # "present" THEN l
  ELSE IF l._is_connected THEN send(l, "node", n) ELSE [l EXCEPT !.pending = Append(@, n)]

(* stream_add; a host the rules refuse is closed before it has a socket.   *)
stream_add ==
  /\ link.entry = "none"
  /\ \E refused \in Refusals, route \in Routes :
       LET added == [link EXCEPT !.entry = "present"]
       IN link' = IF refused THEN _on_xmpp_proxy_close(added)
                  ELSE [added EXCEPT !.sock = "connecting",
                                     !.lookup = IF route THEN "route" ELSE "srv"]
  /\ UNCHANGED peer

(* An orderly client speaks when it has the features of the stream, and    *)
(* restarts it when it is told of its success.                             *)
LastIs(e) == link.events # << >> /\ Last(link.events) = e
ClientMaySpeak ==
  Orderly => Count(link.events, LAMBDA e : e = "features") > peer.restarts

ClientNode ==
  /\ link.entry # "none" /\ peer.nodes < MaxNodes /\ ClientMaySpeak
  /\ link' = stanza(link, peer.nodes + 1)
  /\ peer' = [peer EXCEPT !.nodes = @ + 1]

stream_restart ==
  /\ link.entry = "present" /\ peer.restarts < MaxRestarts
  /\ Orderly => LastIs("success")
  /\ link' = restart(link)
  /\ peer' = [peer EXCEPT !.restarts = @ + 1]

stream_terminate ==
  /\ link.entry = "present"
  /\ link' = Emit([terminate(link) EXCEPT !.entry = "gone"], "stream-terminate")
  /\ UNCHANGED peer

-----------------------------------------------------------------------------
(* The socket and the XMPP server.                                         *)

Connected == link.sock = "connecting" /\ link' = _on_connect(link) /\ UNCHANGED peer

(* The next way to connect is tried; with none left the lookup gives up.   *)
ConnectFailed ==
  /\ link.sock = "connecting"
  /\ link' = IF link.lookup = "route" THEN [link EXCEPT !.lookup = "srv"]
             ELSE _on_xmpp_proxy_close([link EXCEPT !.lookup = "done", !.sock = "closed"])
  /\ UNCHANGED peer

(* The 'secure' event of the TLS pair.                                     *)
Secured ==
  /\ link.tls = "handshake" /\ link.sock \in {"open", "ended"}
  /\ link' = restart([link EXCEPT !.tls = "secure"])
  /\ UNCHANGED peer

OpensSeen == Count(link.wire, LAMBDA w : w.what = "open")
StarttlsSeen == Count(link.wire, LAMBDA w : w.what = "starttls")

(* An orderly server answers a stream tag with its own and with features,  *)
(* <starttls/> with <proceed/>, and says nothing else until then; it       *)
(* offers STARTTLS once, before anything else.                             *)
ServerMaySend(item) ==
  CASE item = "open" -> OpensSeen > peer.opens
    [] item = "features" -> peer.opens > peer.features
    [] item \in {"offer", "require"} -> peer.opens = 1 /\ peer.features = 0
    [] item = "proceed" -> StarttlsSeen > peer.proceeds
    [] item \in {"stanza", "success"} ->
         /\ OpensSeen = peer.opens /\ peer.opens = peer.features
         /\ StarttlsSeen = peer.proceeds /\ ~peer.waiting
         /\ link.tls = "clear" => StarttlsSeen = 0
    [] item = "close" -> TRUE
    [] item = "huge" -> FALSE

(* What an orderly server says once for each thing it reads needs no bound. *)
Answer(item) == Orderly /\ item \notin {"stanza", "success", "close"}

(* What a TLS handshake has begun on carries nothing else, and a second    *)
(* one is not modelled.                                                    *)
ServerSend(item) ==
  /\ link.sock = "open" /\ (Answer(item) \/ peer.sent < MaxItems)
  /\ link.tls # "handshake" /\ \A i \in DOMAIN peer.inbound : peer.inbound[i] # "proceed"
  /\ item = "proceed" => link.tls = "clear"
  /\ Orderly => ServerMaySend(item)
  /\ peer' = [peer EXCEPT
       !.sent = IF Answer(item) THEN @ ELSE @ + 1, !.inbound = Append(@, item),
       !.opens = IF item = "open" THEN @ + 1 ELSE @,
       !.features = IF item \in {"features", "offer", "require"} THEN @ + 1 ELSE @,
       !.proceeds = IF item = "proceed" THEN @ + 1 ELSE @,
       !.waiting = IF item = "success" THEN TRUE ELSE IF item = "open" THEN FALSE ELSE @]
  /\ UNCHANGED link

(* _on_data.                                                               *)
OnData ==
  /\ peer.inbound # << >>
  /\ link.sock \in {"open", "ended"}
  /\ link' = IF "data" \in link.listening THEN parse(link, Head(peer.inbound)) ELSE link
  /\ peer' = [peer EXCEPT !.inbound = Tail(@)]

(* The socket has learned that the other end is gone (it closed, it reset  *)
(* the connection, a write timed out): nothing more can be read or         *)
(* written, and the 'close' event is still to come.  Nothing makes a       *)
(* server close its side: this step has no fairness.                       *)
PeerGone ==
  /\ link.sock \in {"open", "ended"}
  /\ \E throws \in BOOLEAN : link' = [link EXCEPT !.sock = "dead", !.throws = throws]
  /\ UNCHANGED peer

(* The 'close' event, for which the socket needs the other end to be gone. *)
(* Since STARTTLS _on_close listens to the cleartext stream, to which pipe *)
(* (starttls.js 50-76) does not forward the event of the socket; whether   *)
(* the TLS pair closes the stream then depends on the version of node.     *)
SocketClosed ==
  /\ link.sock = "dead"
  /\ LET closed == [link EXCEPT !.sock = "closed", !.listening = {}]
     IN \/ "close" \in link.listening /\ link' = _on_xmpp_proxy_close(closed)
        \/ ("close" \notin link.listening \/ link.tls # "clear") /\ link' = closed
  /\ peer' = [peer EXCEPT !.inbound = << >>]

FrontEnd == stream_add \/ ClientNode \/ stream_restart \/ stream_terminate

Socket == Connected \/ ConnectFailed \/ Secured \/ OnData \/ SocketClosed

Server == \E item \in Items : ServerSend(item)

Next == FrontEnd \/ Socket \/ Server \/ PeerGone

(* Name resolution and connecting come to an end, what has arrived is read *)
(* and a socket that knows its peer to be gone closes.  That the peer goes *)
(* is not assumed, not even after it was sent the end of the stream.       *)
Fairness == WF_vars(Connected \/ ConnectFailed) /\ WF_vars(OnData) /\ WF_vars(SocketClosed)

Spec == Init /\ [][Next]_vars

FairSpec == Spec /\ Fairness

(* As above, with a server that answers and completes the TLS handshake.   *)
AnsweringSpec == FairSpec /\ WF_vars(Server) /\ WF_vars(Secured)
-----------------------------------------------------------------------------
(* Once the stream has ended, by whichever side, the connector emits no    *)
(* event for it: bosh.js would put a response on a deleted stream or       *)
(* terminate it twice.                                                     *)
SilentWhenOver ==
  \A i \in DOMAIN link.events :
    link.events[i] \in {"terminate", "stream-terminate"} => i = Len(link.events)

NodePositions(wire) == {i \in DOMAIN wire : wire[i].what = "node"}

(* What is written has the nodes 1 to n, in order and once each.           *)
NodesUpTo(wire, n) ==
  /\ {wire[i].no : i \in NodePositions(wire)} = 1..n
  /\ \A i, j \in NodePositions(wire) : i < j => wire[i].no < wire[j].no

(* The client's nodes reach the socket in order and once, whatever they    *)
(* raced with: the connection coming up, the end of the stream, TLS.  None *)
(* is lost while the stream is there and its peer is not gone: those that  *)
(* are not written are pending.                                            *)
NodesKeepOrder ==
  /\ \E n \in 0..peer.nodes : NodesUpTo(link.wire, n)
  /\ link.entry = "present" /\ link.sock \notin {"dead", "closed"} =>
       LET written == peer.nodes - Len(link.pending)
       IN /\ NodesUpTo(link.wire, written)
          /\ \A k \in DOMAIN link.pending : link.pending[k] = written + k

(* STARTTLS is the proxy's own affair (xmpp-proxy.js 71-76): the client is *)
(* told of the restarts it asked for and of no other, and between          *)
(* <starttls/> and the new stream nothing else is written.                 *)
TlsHidden ==
  /\ Count(link.events, LAMBDA e : e = "stream-restarted") <= peer.restarts
  /\ \A i \in 1..(Len(link.wire) - 1) :
       link.wire[i].what = "starttls" => link.wire[i + 1].what \in {"open", "close"}

(* A stream that is over does not keep the proxy's side of a connection    *)
(* open, even if it ended while the proxy was still connecting.  (Whether  *)
(* the socket ever closes is for the server to decide.)                    *)
SocketReleased == link.entry = "gone" ~> link.sock \notin {"connecting", "open"}

Lost == link.sock \in {"dead", "closed"}

(* The front end learns that the XMPP server is gone, also after the proxy *)
(* has ended the stream itself, as long as the connection is in the clear. *)
(* After STARTTLS it may never be told.                                    *)
EndReported ==
  link.entry = "present" /\ link.tls = "clear" /\ Lost ~> link.entry = "gone"

(* A restart the client asked for is reported to it, unless client, proxy  *)
(* or server end the stream first.                                         *)
RestartReported ==
  \A n \in 1..MaxRestarts :
    peer.restarts = n ~>
      \/ Count(link.events, LAMBDA e : e = "stream-restarted") >= n
      \/ link.entry = "gone" \/ link.sock = "ended" \/ Lost
=============================================================================
