------------------------------ MODULE Channel ------------------------------
(***************************************************************************)
(* What a BOSH session promises to the XMPP server: an order-preserving    *)
(* channel to the client that neither loses nor repeats a stanza.  Only    *)
(* the two ends are visible: what was sent and what the client, reading    *)
(* the replies in rid order, has got.                                      *)
(***************************************************************************)
EXTENDS Naturals, Sequences

CONSTANT MaxStanza

VARIABLES sent, delivered

Init == sent = << >> /\ delivered = << >>

Send ==
  /\ Len(sent) < MaxStanza
  /\ sent' = Append(sent, Len(sent) + 1)
  /\ UNCHANGED delivered

(* One reply may carry several stanzas, and may fill a hole in front of    *)
(* replies that came before it.                                            *)
Deliver ==
  /\ \E n \in (Len(delivered) + 1)..Len(sent) : delivered' = SubSeq(sent, 1, n)
  /\ UNCHANGED sent

Next == Send \/ Deliver

Spec == Init /\ [][Next]_<<sent, delivered>> /\ WF_<<sent, delivered>>(Deliver)
=============================================================================
