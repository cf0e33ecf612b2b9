-------------------------- MODULE MCPacketDelivery --------------------------
(* The instance of PacketDelivery for TLC: the delivered packet goes from   *)
(* alice to bob; the other one goes anywhere and is hybrid if it is signed. *)
EXTENDS PacketDelivery

CONSTANTS alice, bob

AliceToBob ==
    /\ Init
    /\ sent[First].body.sender = alice /\ sent[First].body.recipient = bob
    /\ IsHybrid(sent[Second]) <=> IsSigned(sent[Second])

\* A document that is refused before any key is used is not changed further, and
\* one party signs it on its way.
StillRead  == packet' # packet => FromJson(packet.body) = "ok"
SignedOnce == signers' # signers => signers = {}

DeliverySpec == AliceToBob /\ [][Next /\ StillRead /\ SignedOnce]_vars
=============================================================================
