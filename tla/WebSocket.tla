----------------------------- MODULE WebSocket -----------------------------
(***************************************************************************)
(* The WebSocket front end (src/websocket.js): connections of clients,     *)
(* their XMPP streams, pings, and the count of active streams it shares    *)
(* with the BOSH front end (src/stream.js).  The connector is what module  *)
(* XmppProxy shows it to be: silent about a stream that is over.           *)
(***************************************************************************)
EXTENDS Integers, Sequences, FiniteSets

CONSTANTS
  Conns,        \* WebSocket connections
  MaxMessages,  \* bound: messages of each client
  MaxEvents,    \* bound: events of the connector about each stream
  MaxPongs,     \* bound: pongs of each client
  Messages,     \* the kinds of message clients send
  GoesOn,       \* do they go on after one that could not be parsed?
  Pings,        \* options.websocket_ping_interval is not 0
  Late          \* may a timer be noticeably late?

ASSUME SocketAssumption ==
  /\ MaxMessages \in Nat /\ MaxEvents \in Nat /\ MaxPongs \in Nat
  /\ Messages \subseteq {"open", "close", "invalid"}
  /\ GoesOn \in BOOLEAN /\ Pings \in BOOLEAN /\ Late \in BOOLEAN

VARIABLES
  ws,      \* each connection's sstate, the connection itself and its stream
  active   \* stream_store._sn_info.length

socketVars == <<ws, active>>

SocketType ==
  [conn : {"none", "open", "closing", "destroyed", "closed"},
   known : BOOLEAN,                            \* is it in sn_state?
   stream_state : {"unopened", "opened", "closed"},
   terminated : BOOLEAN,
   pinging : BOOLEAN,                          \* ping_timer_id is set
   missed : 0..2,                              \* pings since the last pong
   ponged : BOOLEAN,                           \* has there been a pong?
   xmpp : {"none", "open", "over"},            \* the connector's stream
   sent : Seq({"open", "response", "close"}),
   ends : Nat,                                 \* 'stream-terminate' events
   garbled : BOOLEAN,                          \* was a message invalid?
   messages : 0..MaxMessages, events : 0..MaxEvents, pongs : 0..MaxPongs]

SocketTypeOK == ws \in [Conns -> SocketType] /\ active \in Int

SocketInit ==
  /\ ws = [c \in Conns |->
            [conn |-> "none", known |-> FALSE, stream_state |-> "unopened",
             terminated |-> FALSE, pinging |-> FALSE, missed |-> 0, ponged |-> FALSE,
             xmpp |-> "none", sent |-> << >>, ends |-> 0, garbled |-> FALSE,
             messages |-> 0, events |-> 0, pongs |-> 0]]
  /\ active = 0

(* The 'response' handler; a connection that is closing takes no data.     *)
response(w, what) ==
  IF w.terminated \/ ~w.known \/ w.conn # "open" THEN w
  ELSE [w EXCEPT !.sent = Append(@, what)]

(* Mutant: does not remember that the stream was ended from this side.     *)
on_terminate_forgetful(w) ==
  IF ~w.known \/ w.terminated THEN w ELSE response(w, "close")

(* The 'terminate' handler.                                                *)
on_terminate(w) ==
  IF ~w.known \/ w.terminated THEN w
  ELSE [response(w, "close") EXCEPT !.terminated = TRUE]

(* The 'stream-terminate' event and what the connector does with it.       *)
stream_terminate(w) ==
  [w EXCEPT !.ends = @ + 1, !.xmpp = IF @ = "open" THEN "over" ELSE @]

Connection(c) ==
  /\ ws[c].conn = "none"
  /\ ws' = [ws EXCEPT ![c] = [@ EXCEPT !.conn = "open", !.known = TRUE, !.pinging = Pings]]
  /\ UNCHANGED active

-----------------------------------------------------------------------------
(* Messages.  Until the close handshake is over messages still come in.    *)
(* Those with nodes go to the connector whatever the state, which drops    *)
(* them if it has no stream: they change nothing here.                     *)
MayArrive(c, kind) ==
  /\ kind \in Messages
  /\ ws[c].conn \in {"open", "closing"} /\ ws[c].messages < MaxMessages
  /\ GoesOn \/ ~ws[c].garbled

MessageRead(w) == [w EXCEPT !.messages = @ + 1]

(* A stream tag opens the stream; a second one restarts it, which changes  *)
(* nothing here.  The connector may refuse the host at once.               *)
OpenMessage(c) ==
  /\ MayArrive(c, "open")
  /\ IF ws[c].stream_state # "unopened"
     THEN ws' = [ws EXCEPT ![c] = MessageRead(@)] /\ UNCHANGED active
     ELSE /\ active' = active + 1
          /\ LET opened == [MessageRead(ws[c]) EXCEPT !.stream_state = "opened"]
             IN \/ ws' = [ws EXCEPT ![c] = [opened EXCEPT !.xmpp = "open"]]
                \/ ws' = [ws EXCEPT ![c] = on_terminate([opened EXCEPT !.xmpp = "over"])]

(* What cannot be parsed.                                                  *)
InvalidMessage(c) ==
  /\ MayArrive(c, "invalid")
  /\ ws' = [ws EXCEPT ![c] = [MessageRead(@) EXCEPT !.terminated = TRUE, !.conn = "closing",
                                                   !.garbled = TRUE]]
  /\ UNCHANGED active

(* Mutant: does not remember that the stream is closed.                    *)
CloseMessageForgotten(c) ==
  /\ MayArrive(c, "close")
  /\ LET closed == MessageRead(ws[c])
     IN ws' = [ws EXCEPT ![c] =
          IF @.terminated THEN [closed EXCEPT !.known = FALSE, !.conn = "closing"]
          ELSE [response(stream_terminate(closed), "close") EXCEPT !.terminated = TRUE]]
  /\ UNCHANGED active

(* The client's close tag, in a message of its own: the answer to ours, or *)
(* the end of the stream.  A second one is ignored.                        *)
CloseMessage(c) ==
  /\ MayArrive(c, "close")
  /\ LET closed == [MessageRead(ws[c]) EXCEPT !.stream_state = "closed"]
     IN ws' = [ws EXCEPT ![c] =
          IF @.stream_state = "closed" THEN MessageRead(@)
          ELSE IF @.terminated THEN [closed EXCEPT !.known = FALSE, !.conn = "closing"]
          ELSE [response(stream_terminate(closed), "close") EXCEPT !.terminated = TRUE]]
  /\ UNCHANGED active

(* Mutant: leaves the stream of a terminated connection alone.             *)
ConnClosedQuietly(c) ==
  /\ ws[c].conn \in {"open", "closing", "destroyed"}
  /\ LET closed == [ws[c] EXCEPT !.conn = "closed", !.known = FALSE, !.pinging = FALSE]
     IN ws' = [ws EXCEPT ![c] =
          IF @.known /\ ~@.terminated
          THEN [stream_terminate(closed) EXCEPT !.terminated = TRUE] ELSE closed]
  /\ active' = active - 1

(* The 'close' event of the connection, whichever end closed it.           *)
ConnClosed(c) ==
  /\ ws[c].conn \in {"open", "closing", "destroyed"}
  /\ LET closed == [ws[c] EXCEPT !.conn = "closed", !.known = FALSE, !.pinging = FALSE]
     IN ws' = [ws EXCEPT ![c] =
          IF @.known /\ @.stream_state # "closed"
          THEN [stream_terminate(closed) EXCEPT !.terminated = TRUE] ELSE closed]
  /\ active' = active - 1

-----------------------------------------------------------------------------
(* Pings.  A pong comes at once or not at all.                             *)
Pong(c) ==
  /\ ws[c].conn = "open" /\ ws[c].missed > 0 /\ ws[c].pongs < MaxPongs
  /\ ws' = [ws EXCEPT ![c] = [ws[c] EXCEPT !.missed = 0, !.ponged = TRUE, !.pongs = @ + 1]]
  /\ UNCHANGED active

(* Mutant: counts a ping that was sent as a sign of life.                  *)
PingTimerForgiving(c) ==
  /\ ws[c].pinging
  /\ ws' = [ws EXCEPT ![c].missed = 1]
  /\ UNCHANGED active

(* The timer.  last_pong is younger than two intervals when the second     *)
(* ping since then is due; without any pong it is the time of connecting,  *)
(* two intervals old then, and older if the timer is late.                 *)
PingTimer(c) ==
  /\ ws[c].pinging
  /\ \/ /\ ws[c].missed = 2 \/ (Late /\ ws[c].missed = 1 /\ ~ws[c].ponged)
        /\ ws' = [ws EXCEPT ![c] = [@ EXCEPT !.terminated = TRUE, !.conn = "destroyed",
                                             !.pinging = FALSE]]
     \/ /\ ws[c].missed < 2
        /\ ws' = [ws EXCEPT ![c].missed = @ + 1]
  /\ UNCHANGED active

-----------------------------------------------------------------------------
(* Events of the connector, while its stream is there.                     *)
ConnectorResponds(c, what) ==
  /\ ws[c].xmpp = "open" /\ ws[c].events < MaxEvents
  /\ ws' = [ws EXCEPT ![c] = [response(ws[c], what) EXCEPT !.events = @ + 1]]
  /\ UNCHANGED active

ConnectorTerminates(c) ==
  /\ ws[c].xmpp = "open"
  /\ ws' = [ws EXCEPT ![c] = on_terminate([@ EXCEPT !.xmpp = "over"])]
  /\ UNCHANGED active

SocketNext ==
  \E c \in Conns :
    \/ Connection(c) \/ ConnClosed(c)
    \/ OpenMessage(c) \/ InvalidMessage(c) \/ CloseMessage(c)
    \/ Pong(c) \/ PingTimer(c)
    \/ ConnectorResponds(c, "open") \/ ConnectorResponds(c, "response")
    \/ ConnectorTerminates(c)

SocketSpec == SocketInit /\ [][SocketNext]_socketVars

(* Timers run, and a connection we have destroyed or begun to close closes *)
(* (the library gives up on a close handshake that is not answered).       *)
FairSocketSpec ==
  /\ SocketSpec
  /\ \A c \in Conns :
       /\ WF_socketVars(PingTimer(c))
       /\ WF_socketVars(ws[c].conn \in {"closing", "destroyed"} /\ ConnClosed(c))

-----------------------------------------------------------------------------
(* The close tag is the last thing a client is sent, and it is sent once.  *)
NothingAfterClose ==
  \A c \in Conns : \A i \in DOMAIN ws[c].sent :
    ws[c].sent[i] = "close" => i = Len(ws[c].sent)

(* The connector is told once that a stream is over.                       *)
EndsOnce == \A c \in Conns : ws[c].ends <= 1

(* A connection that has closed leaves no stream at the connector, no      *)
(* entry in sn_state and no timer, whichever end closed it and why, and is *)
(* not counted as active.  (Connections that close without having opened a *)
(* stream are even subtracted: websocket.js 333.)                          *)
NothingLeft ==
  /\ \A c \in Conns :
       ws[c].conn = "closed" => ws[c].xmpp # "open" /\ ~ws[c].known /\ ~ws[c].pinging
  /\ active <= Cardinality({c \in Conns : ws[c].xmpp # "none" /\ ws[c].conn # "closed"})

(* A client that stops answering pings is disconnected.                    *)
DeadConnectionCloses ==
  Pings => \A c \in Conns : ws[c].missed > 0 ~> ws[c].missed = 0 \/ ws[c].conn = "closed"
=============================================================================
