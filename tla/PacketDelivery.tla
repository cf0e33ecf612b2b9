--------------------------- MODULE PacketDelivery ---------------------------
(***************************************************************************)
(* Packets on their way from encrypt to decrypt.  A packet is a JSON file  *)
(* that leaves the program: before it is decrypted, fields may be damaged, *)
(* dropped or mixed up with those of another packet.  What may come out is *)
(* what tests/integration/test_security.py pins for one field at a time.   *)
(*                                                                         *)
(* Every identity has one key set, named by the identity.                  *)
(***************************************************************************)
EXTENDS HybridPacket, Naturals

CONSTANTS
    Ids,        \* identities, each with its keys
    First,      \* the encryption whose packet is delivered
    Second,     \* another encryption of the same program
    Other,      \* a well-formed value of a binary field from nowhere
    MaxEdits    \* bound on the number of fields changed one by one

ASSUME DeliveryAssumption == First # Second /\ MaxEdits \in Nat

Encs == {First, Second}

VARIABLES
    sent,      \* [Encs -> packet]: what encrypt produced
    packet,    \* the packet file as it stands
    signers,   \* history: the identities that signed it on its way
    edits,     \* how many fields have been changed so far
    reader,    \* the identity that decrypts, Absent before
    outcome    \* what decrypt returned or raised, Absent before

vars == <<sent, packet, signers, edits, reader, outcome>>

\* Every encryption the program may perform, with and without the ML-KEM key
\* of the recipient and the signing key of the sender.
Encryption(e, s, r, kem, sig) ==
    EncryptPacket(e, e, s, r, r, IF kem THEN r ELSE Absent,
                  IF sig THEN s ELSE Absent, IF sig THEN s ELSE Absent, TRUE)

EncryptionsOf(e) ==
    {Encryption(e, s, r, kem, sig) : s \in Ids, r \in Ids, kem \in BOOLEAN, sig \in BOOLEAN}

Init ==
    /\ sent \in [Encs -> EncryptionsOf(First) \union EncryptionsOf(Second)]
    /\ \A e \in Encs : sent[e] \in EncryptionsOf(e)
    /\ packet = sent[First]
    /\ signers = {}
    /\ edits = 0
    /\ reader = Absent
    /\ outcome = Absent

\* What a field may be changed to: dropped, damaged, replaced by the same
\* field of the other packet, or rewritten.
Rewrites(f) ==
    CASE f = "version"                     -> {"2", NotText}
      [] f = "algorithm"                   -> {Hybrid, Classical, NotText}
      [] f \in {"sender", "recipient"}     -> Ids \union {Blank, NotText}
      [] f \in {"created", "ciphertext", "kem"} -> Malformed
      [] f \in {"salt", "iv"}              -> Malformed \union {Other}
      [] f = "ephemeral"                   -> Malformed \union {Other, LowOrder}

EditBody(f) ==
    /\ outcome = Absent /\ edits < MaxEdits
    /\ \E v \in Rewrites(f) \union {Absent, sent[Second].body[f]} :
          /\ v # packet.body[f]
          /\ packet' = [packet EXCEPT !.body[f] = v]
    /\ edits' = edits + 1
    /\ UNCHANGED <<sent, signers, reader, outcome>>

EditSignature ==
    /\ outcome = Absent /\ edits < MaxEdits
    /\ \/ \E v \in Malformed \union {Absent, Empty, sent[Second].signature} :
             packet' = [packet EXCEPT !.signature = v]
       \/ \E v \in Malformed \union Ids \union {Absent} :
             packet' = [packet EXCEPT !.signer = v]
    /\ packet' # packet
    /\ edits' = edits + 1
    /\ UNCHANGED <<sent, signers, reader, outcome>>

\* Whoever can write the file can sign it: the key that decrypt verifies with is
\* the one in the packet.
Resign(s) ==
    /\ outcome = Absent
    /\ packet' = [packet EXCEPT !.signature = Sign(s, packet.body), !.signer = s]
    /\ signers' = signers \union {s}
    /\ UNCHANGED <<sent, edits, reader, outcome>>

\* Two packets mixed up: any set of fields comes from the other one.
Mix(fields) ==
    /\ outcome = Absent /\ edits = 0
    /\ packet' = [packet EXCEPT !.body =
                    [f \in BodyFields |-> sent[IF f \in fields THEN Second ELSE First].body[f]]]
    /\ edits' = MaxEdits
    /\ UNCHANGED <<sent, signers, reader, outcome>>

\* The program run by r: load_from_file, then decrypt with r's private keys.
Opened(r, available) ==
    IF FromJson(packet.body) # "ok" THEN FromJson(packet.body)
    ELSE DecryptOutcome(packet, r, IF IsHybrid(packet) THEN r ELSE Absent, available)

Deliver(r) ==
    /\ outcome = Absent
    /\ reader' = r
    /\ \E available \in BOOLEAN : outcome' = Opened(r, available)
    /\ UNCHANGED <<sent, packet, signers, edits>>

Next ==
    \/ \E f \in BodyFields : EditBody(f)
    \/ EditSignature
    \/ \E s \in Ids : Resign(s)
    \/ \E fields \in SUBSET BodyFields : Mix(fields)
    \/ \E r \in Ids : Deliver(r)

Spec == Init /\ [][Next]_vars

-----------------------------------------------------------------------------
Outcomes ==
    {"ok", "KeyError", "TypeError", "AttributeError", "ValueError", "binascii.Error",
     "UnsupportedVersionError", "PacketValidationError", "RuntimeError",
     "AuthenticationError", "SignatureVerificationError"}

Markers == Malformed \union {Absent, Blank, Empty, LowOrder}

\* The pairs drawn for an encryption are nobody's long-term ones, and the values
\* that mark a field as missing or broken are no sound value of a field.
ASSUME MarkersAssumption ==
    /\ Ids \cap Encs = {}
    /\ Markers \cap (Ids \union Encs \union Outcomes \union {"1", Hybrid, Classical}) = {}
    /\ \A e \in Encs, r, q \in Ids :
          Markers \cap {Encapsulate(q, e), Decapsulate(r, Encapsulate(q, e))} = {}
    /\ \A e \in Encs : \A p \in EncryptionsOf(e) :
          p.body.ciphertext \notin Markers /\ (IsSigned(p) => p.signature \notin Markers)

TypeOK ==
    /\ DOMAIN sent = Encs
    /\ \A e \in Encs : DOMAIN sent[e].body = BodyFields
    /\ DOMAIN packet = {"body", "signature", "signer"} /\ DOMAIN packet.body = BodyFields
    /\ signers \subseteq Ids
    /\ edits \in 0 .. MaxEdits
    /\ reader \in Ids \union {Absent}
    /\ outcome \in Outcomes \union {Absent}

\* The fields AES-GCM authenticates, directly or through the key.
Covered == BodyFields \ {"created"}

SameMessage(p, q) == \A f \in Covered : p.body[f] = q.body[f]

\* orchestrator.decrypt: whatever was changed on the way, a packet that decrypts
\* is one that encrypt produced, in every field but the time stamp and the
\* signature, so the plaintext, the two key ids and the mode shown are those of
\* one encryption and never a mixture of two.
AcceptedIsGenuine ==
    outcome = "ok" => \E e \in Encs : SameMessage(packet, sent[e])

\* ... and it was made for the identity whose keys opened it.
AcceptedByRecipient ==
    outcome = "ok" =>
        \E e \in Encs :
            /\ packet.body.ciphertext = sent[e].body.ciphertext
            /\ sent[e].body.recipient = reader

\* A signature answers for the key it is verified with, and that key stands in
\* the packet.  An accepted packet with the key of somebody who signed nothing
\* since encrypt is, in every field, the time stamp included, as encrypt wrote it.
SignatureCoversBody ==
    outcome = "ok" /\ IsSigned(packet) /\ packet.signer \notin signers =>
        \E e \in Encs : packet = sent[e]

\* README.md, "Security Properties", on the signature: "proves sender identity".
SignerIsSender ==
    outcome = "ok" /\ IsSigned(packet) => packet.signer = packet.body.sender

\* The round trip: a packet nobody changed decrypts for its recipient, unless
\* it is hybrid and the recipient has no liboqs.
UntouchedIsReadable ==
    outcome # Absent /\ packet = sent[First] =>
        CASE reader # packet.body.recipient /\ ~IsHybrid(packet) -> outcome = "AuthenticationError"
          [] reader # packet.body.recipient /\ IsHybrid(packet) ->
                outcome \in {"AuthenticationError", "RuntimeError"}
          [] reader = packet.body.recipient /\ ~IsHybrid(packet) -> outcome = "ok"
          [] reader = packet.body.recipient /\ IsHybrid(packet) ->
                outcome \in {"ok", "RuntimeError"}
=============================================================================
