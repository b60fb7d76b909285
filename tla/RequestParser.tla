--------------------------- MODULE RequestParser ---------------------------
(***************************************************************************)
(* The parser of request bodies (src/bosh-request-parser.js) as            *)
(* parse_request (src/http-server.js 48-93) uses it: one expat parser      *)
(* serves all requests, inside a <bosh> element that never closes, and     *)
(* every request is wrapped in a <DUMMY> element.  XML is abstracted to    *)
(* tags: +n opens and -n closes the element n; a comment hides what        *)
(* follows.  The module has operators only; HttpServer keeps the parser.   *)
(***************************************************************************)
EXTENDS Integers, Sequences, SequencesExt

CONSTANT MaxLength   \* bound: fragments of a request

ASSUME LengthAssumption == MaxLength \in Nat

(* The names of elements.                                                  *)
bosh == 1
DUMMY == 2
body == 3
other == 4

Open == {bosh, DUMMY, body, other}
Close == {-n : n \in Open}
Comment == 0          \* the start of a comment that is not closed
Garbage == 5          \* what no XML parser accepts
Fragment == Open \union Close \union {Comment, Garbage}

(* expat's state, the elements that are open (the last is this.stanza) and *)
(* parsedBody; child tells whether the outermost has a <body> child.       *)
Fresh ==
  [expat |-> "inside", open |-> << >>, child |-> FALSE, started_ |-> FALSE,
   parsedBody |-> "null"]

ParserType ==
  [expat : {"inside", "comment", "closed", "error"}, open : Seq(Open), child : BOOLEAN,
   started_ : BOOLEAN, parsedBody : {"null", "empty", "body"}]

_handle_start_element(p, name) ==
  [p EXCEPT !.open = Append(@, name), !.started_ = TRUE,
            !.child = IF Len(p.open) = 0 THEN FALSE
                      ELSE @ \/ (Len(p.open) = 1 /\ name = body)]

(* Closing what was not opened last is an error of expat; closing <bosh>   *)
(* ends its document.                                                      *)
_handle_end_element(p, name) ==
  IF p.open = << >>
  THEN IF name = bosh THEN [p EXCEPT !.expat = "closed", !.parsedBody = "null"]
       ELSE [p EXCEPT !.expat = "error"]
  ELSE IF Last(p.open) # name THEN [p EXCEPT !.expat = "error"]
  ELSE IF Len(p.open) > 1 THEN [p EXCEPT !.open = Front(@)]
  ELSE [p EXCEPT !.open = << >>, !.parsedBody = IF p.child THEN "body" ELSE "empty"]

Feed(p, fragment) ==
  CASE p.expat \in {"comment", "error"} -> p
    [] p.expat = "closed" -> [p EXCEPT !.expat = IF fragment = Comment THEN "comment" ELSE "error"]
    [] p.expat = "inside" /\ fragment = Comment -> [p EXCEPT !.expat = "comment"]
    [] p.expat = "inside" /\ fragment = Garbage -> [p EXCEPT !.expat = "error"]
    [] p.expat = "inside" /\ fragment \in Open -> _handle_start_element(p, fragment)
    [] p.expat = "inside" /\ fragment \in Close -> _handle_end_element(p, -fragment)

(* Mutant: does not forget what the last call parsed.                      *)
parse_remembering(p, fragments) == FoldLeft(Feed, p, fragments)

parse(p, fragments) == FoldLeft(Feed, [p EXCEPT !.parsedBody = "null"], fragments)

Valid(p) == p.expat # "error"

(* Mutant: keeps the parser when the request was well formed XML.          *)
parse_request_keeping(p, buffer) ==
  LET read == parse(parse(p, <<DUMMY>>), buffer)
      ended == parse(read, <<-DUMMY>>)
  IN IF ~Valid(read) \/ ~Valid(ended) THEN [parser |-> Fresh, result |-> "null"]
     ELSE [parser |-> ended, result |-> IF ended.parsedBody = "body" THEN "body" ELSE "null"]

(* parse_request with the parser p; a new parser stands for a reset one.   *)
parse_request(p, buffer) ==
  LET read == parse(parse(p, <<DUMMY>>), buffer)
      ended == parse(read, <<-DUMMY>>)
  IN IF ~Valid(read) \/ ~Valid(ended) \/ ended.parsedBody = "null"
     THEN [parser |-> Fresh, result |-> "null"]
     ELSE [parser |-> ended, result |-> IF ended.parsedBody = "body" THEN "body" ELSE "null"]

(* What no request may leave behind: an element that is open.             *)
Clean(p) == p \in ParserType /\ p.expat = "inside" /\ p.open = << >>
-----------------------------------------------------------------------------
(* A reference definition: what XML says of the wrapped request.           *)
Balanced[t \in Seq(Fragment)] ==
  \/ t = << >>
  \/ \E i \in 2..Len(t) :
       /\ t[1] \in Open /\ t[i] = -t[1]
       /\ Balanced[SubSeq(t, 2, i - 1)] /\ Balanced[SubSeq(t, i + 1, Len(t))]

HasBody(t) ==
  \E i, j \in DOMAIN t :
    /\ i < j /\ t[i] = body /\ t[j] = -body
    /\ Balanced[SubSeq(t, 1, i - 1)] /\ Balanced[SubSeq(t, i + 1, j - 1)]
    /\ Balanced[SubSeq(t, j + 1, Len(t))]

(* The request, wrapped, is a sequence of elements; the last one has a     *)
(* <body> child.                                                           *)
Accepted(buffer) ==
  LET t == <<DUMMY>> \o buffer \o <<-DUMMY>>
  IN \E i \in 1..(Len(t) - 1) :
       /\ t[i] \in Open /\ t[Len(t)] = -t[i]
       /\ Balanced[SubSeq(t, 1, i - 1)] /\ HasBody(SubSeq(t, i + 1, Len(t) - 1))

(* All that requests of this length can make of a parser, and what they    *)
(* say.                                                                    *)
Readings(p) ==
  {[after |-> parse_request(p, buffer), says |-> Accepted(buffer)] :
     buffer \in BoundedSeq(Fragment, MaxLength)}
=============================================================================
