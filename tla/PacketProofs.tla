---------------------------- MODULE PacketProofs ----------------------------
(***************************************************************************)
(* The invariants of PacketDelivery, proved for any set of identities, any *)
(* two encryptions and any number of changed fields.                       *)
(***************************************************************************)
EXTENDS PacketDelivery, HybridPacketProofs

-----------------------------------------------------------------------------
(***************************************************************************)
(* The inductive invariant.                                                *)
(***************************************************************************)
Genuine == \A e \in Encs : sent[e] \in EncryptionsOf(e)

\* A field is what one of the two encryptions put there, or something no
\* encryption puts there; nobody outside makes a ciphertext, and a signature
\* from outside is that of somebody who signed on the way.
Spliced ==
    /\ \A f \in BodyFields :
          packet.body[f] \in Rewrites(f) \union {Absent, sent[First].body[f], sent[Second].body[f]}
    /\ \/ packet.signature \in
             Malformed \union {Absent, Empty, sent[First].signature, sent[Second].signature}
       \/ \E s \in signers : packet.signature = Sign(s, packet.signature.message)
    /\ packet.signer \in Malformed \union Ids \union {Absent}

\* The outcome is that of the packet as it stands.
Decided ==
    /\ reader = Absent <=> outcome = Absent
    /\ reader # Absent => \E available \in BOOLEAN : outcome = Opened(reader, available)

\* A packet is a record of its three parts.
Whole(p) == p = [body |-> p.body, signature |-> p.signature, signer |-> p.signer]

IInv == TypeOK /\ Genuine /\ Spliced /\ Decided /\ Whole(packet)

-----------------------------------------------------------------------------
(***************************************************************************)
(* What an encryption puts into a packet.                                  *)
(***************************************************************************)
\* The values that may stand in a field, as far as any check tells them apart.
LEMMA Distinct ==
    /\ Absent \notin Ids /\ Blank \notin Ids /\ Ids \cap Malformed = {}
    /\ Absent \notin Encs /\ Encs \cap Malformed = {} /\ Ids \cap Encs = {}
    /\ Absent \notin Outcomes
    /\ Absent \notin {"1", Hybrid, Classical}
    /\ Absent \notin Malformed \union {Empty}
    /\ LowOrder \notin Encs /\ NotText \notin Ids
    /\ First \in Encs /\ Second \in Encs
  BY PacketAssumption, MarkersAssumption, DeliveryAssumption
  DEF Markers, Malformed, Encs

\* Who sent a packet to whom, and with which keys.
Made(p, e, s, r, k, sp) ==
    /\ s \in Ids /\ r \in Ids /\ k \in {r, Absent} /\ sp \in {s, Absent}
    /\ Sealed(p.body, e, e, s, r, r, k)
    /\ Signed(p, sp, sp)
    /\ DOMAIN p = {"body", "signature", "signer"} /\ Whole(p)

LEMMA EncryptionMade ==
    ASSUME NEW e \in Encs, NEW p \in EncryptionsOf(e)
    PROVE  \E s, r, k, sp : Made(p, e, s, r, k, sp)
  <1>1. PICK s \in Ids, r \in Ids, kem \in BOOLEAN, sig \in BOOLEAN :
           p = Encryption(e, s, r, kem, sig)
    BY DEF EncryptionsOf
  <1> DEFINE k  == IF kem THEN r ELSE Absent
             sp == IF sig THEN s ELSE Absent
             b  == EncryptBody(e, e, s, r, r, k, TRUE)
  <1>2. p = SignBody(b, sp, sp)
    BY <1>1 DEF Encryption, EncryptPacket
  <1>3. Sealed(b, e, e, s, r, r, k)
    BY SealedBody
  <1>4. k \in {r, Absent} /\ sp \in {s, Absent}
    OBVIOUS
  <1> HIDE DEF k, sp, b
  <1>5. p.body = b /\ Signed(p, sp, sp) /\ DOMAIN p = {"body", "signature", "signer"}
    BY <1>2, SignedBody
  <1>6. Whole(p)
    BY <1>2 DEF SignBody, Whole
  <1>7. Made(p, e, s, r, k, sp)
    BY <1>3, <1>4, <1>5, <1>6 DEF Made
  <1> QED
    BY <1>7

\* A packet as encrypt made it has every field, and none of them damaged.
LEMMA EncryptionSound ==
    ASSUME NEW e \in Encs, NEW p \in EncryptionsOf(e),
           NEW s, NEW r, NEW k, NEW sp, Made(p, e, s, r, k, sp)
    PROVE  /\ DOMAIN p = {"body", "signature", "signer"} /\ DOMAIN p.body = BodyFields
           /\ p.body.ciphertext \notin Malformed /\ p.body.ciphertext # Absent
           /\ p.body.kem \notin Malformed
           /\ IsHybrid(p) => k = r /\ KemSecret(p.body.kem) # Absent
           /\ p.signer \in Ids \union {Absent}
           /\ p.signature = Absent \/ p.signature \notin Malformed
           /\ IsSigned(p) =>
                 p.signature \notin Malformed \union {Empty} /\ p.signer \notin Malformed
  <1>1. DOMAIN p.body = BodyFields /\ DOMAIN p = {"body", "signature", "signer"}
    BY DEF Made, Sealed
  <1>2. p.body.ciphertext \notin Markers /\ (IsSigned(p) => p.signature \notin Markers)
    BY MarkersAssumption
  <1>3. p.body.ciphertext \notin Malformed /\ p.body.ciphertext # Absent
    BY <1>2 DEF Markers
  <1>4. IsHybrid(p) => p.body.kem = Encapsulate(r, e) /\ k = r
    BY DEF Made, Sealed, IsHybrid
  <1>5. Encapsulate(r, e) \notin Malformed /\ Decapsulate(r, Encapsulate(r, e)) # Absent
    BY MarkersAssumption DEF Markers, Made
  <1>6. p.body.kem \notin Malformed
    BY <1>4, <1>5, Distinct DEF IsHybrid, Malformed
  <1>7. IsHybrid(p) => k = r /\ KemSecret(p.body.kem) # Absent
    BY <1>4, <1>5 DEF Decapsulate, KemSecret, Encapsulate
  <1>8. p.signer \in Ids \union {Absent}
    BY DEF Made, Signed
  <1>9. IsSigned(p) =>
           p.signature \notin Malformed \union {Empty} /\ p.signer \notin Malformed
    BY <1>2, <1>8, Distinct DEF Markers, Malformed
  <1>10. p.signature = Absent \/ p.signature \notin Malformed
    BY <1>9, Distinct DEF Made, Signed, IsSigned
  <1> QED
    BY <1>1, <1>3, <1>6, <1>7, <1>8, <1>9, <1>10

-----------------------------------------------------------------------------
(***************************************************************************)
(* The steps.                                                              *)
(***************************************************************************)
\* Whatever the packet looks like, one of the listed outcomes is its outcome.
LEMMA OpenedOutcome ==
    ASSUME NEW r, NEW available \in BOOLEAN
    PROVE  Opened(r, available) \in Outcomes
  <1>1. \A body : Validate(body) \in Outcomes
    BY DEF Validate, NamesSomebody, Then, Require, Outcomes
  <1>2. \A body : FromDict(body) \in Outcomes
    BY DEF FromDict, Then, Require, Outcomes
  <1>3. \A body : FromJson(body) \in Outcomes
    BY <1>1, <1>2 DEF FromJson, Then
  <1>4. \A p : SignatureOutcome(p) \in Outcomes
    BY DEF SignatureOutcome, Then, Require, Outcomes
  <1>5. \A p, k : DecryptOutcome(p, r, k, available) \in Outcomes
    BY <1>1, <1>4 DEF DecryptOutcome, Then, Require, Outcomes
  <1> QED
    BY <1>3, <1>5 DEF Opened

\* The two packets encrypt made keep their shape.
LEMMA SentShape ==
    ASSUME Genuine, NEW e \in Encs
    PROVE  /\ DOMAIN sent[e] = {"body", "signature", "signer"}
           /\ DOMAIN sent[e].body = BodyFields
           /\ sent[e].signer \in Ids \union {Absent}
           /\ Whole(sent[e])
  <1>1. sent[e] \in EncryptionsOf(e)
    BY DEF Genuine
  <1>2. PICK s, r, k, sp : Made(sent[e], e, s, r, k, sp)
    BY <1>1, EncryptionMade
  <1> QED
    BY <1>1, <1>2, EncryptionSound DEF Made

LEMMA InitIInv == Init => IInv
  <1> SUFFICES ASSUME Init
               PROVE  IInv
    OBVIOUS
  <1>1. Genuine
    BY DEF Init, Genuine
  <1>2. packet = sent[First] /\ signers = {} /\ edits = 0 /\ reader = Absent /\ outcome = Absent
    BY DEF Init
  <1>3. TypeOK
    BY <1>1, <1>2, SentShape, Distinct, DeliveryAssumption DEF TypeOK, Init
  <1>4. Spliced
    BY <1>1, <1>2, SentShape, Distinct DEF Spliced
  <1>5. Whole(packet)
    BY <1>1, <1>2, SentShape, Distinct
  <1> QED
    BY <1>1, <1>2, <1>3, <1>4, <1>5 DEF IInv, Decided

\* A packet is changed only before it is opened.
LEMMA EditKeepsDecided ==
    ASSUME IInv, outcome = Absent, UNCHANGED <<sent, reader, outcome>>
    PROVE  Genuine' /\ Decided'
  <1>1. Genuine'
    BY DEF IInv, Genuine
  <1>2. reader = Absent
    BY DEF IInv, Decided
  <1> QED
    BY <1>1, <1>2 DEF Decided

LEMMA EditBodyStep ==
    ASSUME IInv, NEW f \in BodyFields, EditBody(f)
    PROVE  IInv'
  <1>1. PICK v \in Rewrites(f) \union {Absent, sent[Second].body[f]} :
           packet' = [packet EXCEPT !.body[f] = v]
    BY DEF EditBody
  <1>2. /\ DOMAIN packet' = {"body", "signature", "signer"}
        /\ DOMAIN packet'.body = BodyFields
        /\ packet'.body[f] = v
        /\ \A g \in BodyFields \ {f} : packet'.body[g] = packet.body[g]
        /\ packet'.signature = packet.signature /\ packet'.signer = packet.signer
    BY <1>1 DEF IInv, TypeOK
  <1>3. edits' \in 0 .. MaxEdits
    BY DeliveryAssumption DEF IInv, TypeOK, EditBody
  <1>4. UNCHANGED <<sent, signers, reader, outcome>> /\ outcome = Absent
    BY DEF EditBody
  <1>5. TypeOK'
    BY <1>2, <1>3, <1>4 DEF IInv, TypeOK
  <1>6. Spliced'
    BY <1>2, <1>4 DEF IInv, Spliced
  <1>7. Whole(packet)'
    <2>1. packet = [body |-> packet.body, signature |-> packet.signature, signer |-> packet.signer]
      BY DEF IInv, Whole
    <2>2. packet' = [body |-> [packet.body EXCEPT ![f] = v],
                     signature |-> packet.signature, signer |-> packet.signer]
      BY <1>1, <2>1
    <2> QED
      BY <2>2 DEF Whole
  <1> QED
    BY <1>4, <1>5, <1>6, <1>7, EditKeepsDecided DEF IInv

LEMMA EditSignatureStep ==
    ASSUME IInv, EditSignature
    PROVE  IInv'
  <1>1. UNCHANGED <<sent, signers, reader, outcome>> /\ outcome = Absent
    BY DEF EditSignature
  <1>2. edits' \in 0 .. MaxEdits
    BY DeliveryAssumption DEF IInv, TypeOK, EditSignature
  <1>3. /\ DOMAIN packet' = {"body", "signature", "signer"}
        /\ packet'.body = packet.body
    BY DEF IInv, TypeOK, EditSignature
  <1>4. /\ packet'.signature \in
              {packet.signature, Absent, Empty, sent[Second].signature} \union Malformed
        /\ packet'.signer \in {packet.signer, Absent} \union Ids \union Malformed
    BY DEF IInv, TypeOK, EditSignature
  <1>5. TypeOK'
    BY <1>1, <1>2, <1>3 DEF IInv, TypeOK
  <1>6. Spliced'
    BY <1>1, <1>3, <1>4 DEF IInv, Spliced
  <1>7. Whole(packet)'
    BY DEF IInv, Whole, EditSignature
  <1> QED
    BY <1>1, <1>5, <1>6, <1>7, EditKeepsDecided DEF IInv

LEMMA ResignStep ==
    ASSUME IInv, NEW s \in Ids, Resign(s)
    PROVE  IInv'
  <1>1. /\ UNCHANGED <<sent, edits, reader, outcome>> /\ outcome = Absent
        /\ signers' = signers \union {s}
    BY DEF Resign
  <1>2. /\ DOMAIN packet' = {"body", "signature", "signer"}
        /\ packet'.body = packet.body
        /\ packet'.signature = Sign(s, packet.body) /\ packet'.signer = s
    BY DEF IInv, TypeOK, Resign
  <1>3. TypeOK'
    BY <1>1, <1>2 DEF IInv, TypeOK
  <1>4. packet'.signature = Sign(s, packet'.signature.message)
    BY <1>2 DEF Sign
  <1>5. Spliced'
    BY <1>1, <1>2, <1>4 DEF IInv, Spliced
  <1>6. Whole(packet)'
    BY DEF IInv, Whole, Resign
  <1> QED
    BY <1>1, <1>3, <1>5, <1>6, EditKeepsDecided DEF IInv

LEMMA MixStep ==
    ASSUME IInv, NEW fields \in SUBSET BodyFields, Mix(fields)
    PROVE  IInv'
  <1>1. UNCHANGED <<sent, signers, reader, outcome>> /\ outcome = Absent /\ edits' = MaxEdits
    BY DEF Mix
  <1>2. /\ DOMAIN packet' = {"body", "signature", "signer"}
        /\ packet'.body =
              [f \in BodyFields |-> sent[IF f \in fields THEN Second ELSE First].body[f]]
        /\ packet'.signature = packet.signature /\ packet'.signer = packet.signer
    BY DEF IInv, TypeOK, Mix
  <1>3. TypeOK'
    BY <1>1, <1>2, DeliveryAssumption DEF IInv, TypeOK
  <1>4. \A f \in BodyFields : packet'.body[f] \in {sent[First].body[f], sent[Second].body[f]}
    BY <1>2
  <1>5. Spliced'
    BY <1>1, <1>2, <1>4 DEF IInv, Spliced
  <1>6. Whole(packet)'
    BY DEF IInv, Whole, Mix
  <1> QED
    BY <1>1, <1>3, <1>5, <1>6, EditKeepsDecided DEF IInv

LEMMA DeliverStep ==
    ASSUME IInv, NEW r \in Ids, Deliver(r)
    PROVE  IInv'
  <1>1. UNCHANGED <<sent, packet, signers, edits>> /\ reader' = r
    BY DEF Deliver
  <1>2. PICK available \in BOOLEAN : outcome' = Opened(r, available)
    BY DEF Deliver
  <1>3. outcome' \in Outcomes
    BY <1>2, OpenedOutcome
  <1>4. Opened(r, available)' = Opened(r, available)
    BY <1>1 DEF Opened
  <1>5. TypeOK'
    BY <1>1, <1>3 DEF IInv, TypeOK
  <1>6. Genuine' /\ Spliced'
    BY <1>1 DEF IInv, Genuine, Spliced
  <1>7. reader' # Absent /\ outcome' # Absent
    BY <1>1, <1>3, Distinct
  <1>8. \E a \in BOOLEAN : outcome' = Opened(reader, a)'
    BY <1>1, <1>2 DEF Opened
  <1>9. Decided'
    BY <1>7, <1>8 DEF Decided
  <1>10. Whole(packet)'
    BY <1>1 DEF IInv, Whole
  <1> QED
    BY <1>5, <1>6, <1>9, <1>10 DEF IInv

\* IInv is an invariant of packets that are damaged, mixed up and opened by
\* anybody, for any identities and any number of changes.
THEOREM DeliveryInvariant == Spec => []IInv
  <1>1. IInv /\ [Next]_vars => IInv'
    <2> SUFFICES ASSUME IInv, [Next]_vars
                 PROVE  IInv'
      OBVIOUS
    <2>1. CASE UNCHANGED vars
      BY <2>1 DEF vars, IInv, TypeOK, Genuine, Spliced, Decided, Opened, Whole
    <2> QED
      BY <2>1, EditBodyStep, EditSignatureStep, ResignStep, MixStep, DeliverStep DEF Next
  <1> QED
    BY InitIInv, <1>1, PTL DEF Spec

\* The variables keep their types, and decrypt ends in one of the exceptions it
\* is known to raise, or in the plaintext.
THEOREM TypeCorrect == Spec => []TypeOK
  <1>1. IInv => TypeOK
    BY DEF IInv
  <1> QED
    BY DeliveryInvariant, <1>1, PTL

-----------------------------------------------------------------------------
(***************************************************************************)
(* What an accepted packet is.                                             *)
(***************************************************************************)
\* Every check that an accepted packet has passed.
LEMMA AcceptedPassed ==
    ASSUME IInv, outcome = "ok"
    PROVE  /\ reader \in Ids
           /\ FromDict(packet.body) = "ok" /\ Validate(packet.body) = "ok"
           /\ Authentic(packet, reader, IF IsHybrid(packet) THEN reader ELSE Absent)
           /\ SignatureOutcome(packet) = "ok"
  <1>1. reader \in Ids
    BY Distinct DEF IInv, TypeOK, Decided, Outcomes
  <1>2. PICK available \in BOOLEAN : Opened(reader, available) = "ok"
    BY <1>1, Distinct DEF IInv, Decided
  <1> DEFINE k == IF IsHybrid(packet) THEN reader ELSE Absent
  <1> HIDE DEF k
  <1>3. FromJson(packet.body) = "ok" /\ DecryptOutcome(packet, reader, k, available) = "ok"
    BY <1>2 DEF Opened, k
  <1>4. FromDict(packet.body) = "ok" /\ Validate(packet.body) = "ok"
    BY <1>3, FromJsonOK
  <1>5. Authentic(packet, reader, k) /\ SignatureOutcome(packet) = "ok"
    BY <1>3, DecryptOK
  <1> QED
    BY <1>1, <1>4, <1>5 DEF k

\* Its ciphertext is whole, so one of the two encryptions made it.
LEMMA AcceptedCiphertext ==
    ASSUME IInv, outcome = "ok"
    PROVE  \E e \in Encs : packet.body.ciphertext = sent[e].body.ciphertext
  <1>1. packet.body.ciphertext \notin Malformed /\ packet.body.ciphertext # Absent
    BY AcceptedPassed, ValidateOK, FromDictOK DEF BodyFields, Malformed
  <1>2. packet.body["ciphertext"] \in Rewrites("ciphertext")
           \union {Absent, sent[First].body["ciphertext"], sent[Second].body["ciphertext"]}
    BY DEF IInv, Spliced, BodyFields
  <1>3. Rewrites("ciphertext") = Malformed
    BY DEF Rewrites
  <1> QED
    BY <1>1, <1>2, <1>3 DEF Encs

\* The heart of the matter: if the keys derived from a packet open the
\* ciphertext of encryption e, then every field that goes into the key or the
\* associated data is that of e, and the reader is the recipient of e.
LEMMA OpenedIsSent ==
    ASSUME IInv, outcome = "ok", NEW e \in Encs,
           packet.body.ciphertext = sent[e].body.ciphertext
    PROVE  SameMessage(packet, sent[e]) /\ sent[e].body.recipient = reader
  <1> DEFINE p == packet
             q == sent[e]
  <1>1. q \in EncryptionsOf(e)
    BY DEF IInv, Genuine
  <1>2. PICK s, r, k, sp : Made(q, e, s, r, k, sp)
    BY <1>1, EncryptionMade
  <1>3. /\ IsHybrid(q) => k = r /\ KemSecret(q.body.kem) # Absent
        /\ q.body.kem \notin Malformed
    BY <1>1, <1>2, EncryptionSound
  <1>4. /\ reader \in Ids
        /\ Authentic(p, reader, IF IsHybrid(p) THEN reader ELSE Absent)
        /\ p.body.version = "1"
    BY AcceptedPassed, ValidateOK
  <1>5. /\ p.body.iv = e /\ MakeAad(p.body) = MakeAad(q.body)
        /\ MasterKey(p, reader, IF IsHybrid(p) THEN reader ELSE Absent)
              = DeriveHybrid(SharedSecret(e, r),
                             IF q.body.kem # Absent THEN KemSecret(q.body.kem) ELSE Absent, e)
    BY <1>2, <1>4 DEF Made, Sealed, Authentic, Opens, Seal
  <1>6. /\ p.body.algorithm = q.body.algorithm /\ p.body.sender = q.body.sender
        /\ p.body.recipient = q.body.recipient /\ p.body.version = q.body.version
    BY <1>5 DEF MakeAad
  <1>7. /\ SharedSecret(reader, p.body.ephemeral) = SharedSecret(e, r)
        /\ p.body.salt = e
        /\ (IF IsHybrid(p) THEN Decapsulate(reader, p.body.kem) ELSE Absent)
              = (IF q.body.kem # Absent THEN KemSecret(q.body.kem) ELSE Absent)
    BY <1>5 DEF MasterKey, DeriveHybrid
  <1>8. reader = r /\ p.body.ephemeral = e
    BY <1>2, <1>4, <1>7, Distinct DEF SharedSecret, Made
  <1>9. IsHybrid(p) => Decapsulate(reader, p.body.kem) # Absent
    <2>1. p.body.kem \notin Malformed
      BY AcceptedPassed, ValidateOK DEF Malformed
    <2>2. p.body["kem"] \in Rewrites("kem")
             \union {Absent, sent[First].body["kem"], sent[Second].body["kem"]}
      BY DEF IInv, Spliced, BodyFields
    <2>3. Rewrites("kem") = Malformed
      BY DEF Rewrites
    <2>4. IsHybrid(p) => \E c \in Encs : p.body.kem = sent[c].body.kem /\ IsHybrid(sent[c])
      BY <2>1, <2>2, <2>3 DEF Encs, IsHybrid
    <2>5. ASSUME NEW c \in Encs, IsHybrid(sent[c])
          PROVE  Decapsulate(reader, sent[c].body.kem) # Absent
      <3>1. PICK s2, r2, k2, sp2 : Made(sent[c], c, s2, r2, k2, sp2)
        BY EncryptionMade DEF IInv, Genuine
      <3>2. sent[c].body.kem = Encapsulate(r2, c) /\ r2 \in Ids
        BY <2>5, <3>1, Distinct DEF Made, Sealed, IsHybrid
      <3> QED
        BY <1>4, <3>2, MarkersAssumption DEF Markers
    <2> QED
      BY <2>4, <2>5
  <1>10. p.body.kem = q.body.kem
    <2>1. CASE IsHybrid(p)
      <3>1. q.body.kem # Absent /\ Decapsulate(reader, p.body.kem) = KemSecret(q.body.kem)
        BY <2>1, <1>7, <1>9
      <3> QED
        BY <3>1 DEF Decapsulate, KemSecret
    <2>2. CASE ~IsHybrid(p)
      <3>1. q.body.kem = Absent
        BY <2>2, <1>3, <1>7 DEF IsHybrid
      <3> QED
        BY <2>2, <3>1 DEF IsHybrid
    <2> QED
      BY <2>1, <2>2
  <1>11. /\ q.body.ephemeral = e /\ q.body.salt = e /\ q.body.iv = e
         /\ q.body.recipient = r
    BY <1>2 DEF Made, Sealed
  <1>12. \A f \in Covered : p.body[f] = q.body[f]
    BY <1>5, <1>6, <1>7, <1>8, <1>10, <1>11 DEF Covered, BodyFields
  <1> QED
    BY <1>8, <1>11, <1>12 DEF SameMessage

\* A packet that decrypts carries the message of one encryption: no field but
\* the time stamp and the signature is other than encrypt left it.
THEOREM GenuineOnly == Spec => []AcceptedIsGenuine
  <1>1. IInv => AcceptedIsGenuine
    BY AcceptedCiphertext, OpenedIsSent DEF AcceptedIsGenuine
  <1> QED
    BY DeliveryInvariant, <1>1, PTL

\* ... and it decrypts for the identity it was made for.
THEOREM RecipientOnly == Spec => []AcceptedByRecipient
  <1>1. IInv => AcceptedByRecipient
    BY AcceptedCiphertext, OpenedIsSent DEF AcceptedByRecipient
  <1> QED
    BY DeliveryInvariant, <1>1, PTL

\* A signature answers for the key that stands in the packet: an accepted packet
\* with the key of somebody who signed nothing on the way is, time stamp and all,
\* as encrypt wrote it.
THEOREM SignedIsWhole == Spec => []SignatureCoversBody
  <1>1. ASSUME IInv, outcome = "ok", IsSigned(packet), packet.signer \notin signers
        PROVE  \E e \in Encs : packet = sent[e]
    <2>1. /\ packet.signature \notin {NotText, NotBase64, Empty}
          /\ Verifies(packet.signer, packet.body, packet.signature)
      BY <1>1, AcceptedPassed, SignatureOK
    <2>2. /\ packet.signature \notin Malformed \union {Absent, Empty}
          /\ packet.signature = Sign(packet.signer, packet.body)
      BY <1>1, <2>1 DEF Verifies, Malformed, IsSigned
    <2>3. \A s \in signers : packet.signature # Sign(s, packet.signature.message)
      BY <1>1, <2>2 DEF Sign
    <2>4. PICK e \in Encs : packet.signature = sent[e].signature
      BY <1>1, <2>2, <2>3 DEF IInv, Spliced, Encs
    <2>5. PICK s, r, k, sp : Made(sent[e], e, s, r, k, sp)
      BY <1>1, EncryptionMade DEF IInv, Genuine
    <2>6. sent[e].signature = Sign(sp, sent[e].body) /\ sent[e].signer = sp
      BY <2>2, <2>4, <2>5 DEF Made, Signed
    <2>7. packet.body = sent[e].body /\ packet.signer = sent[e].signer
      BY <2>2, <2>4, <2>6 DEF Sign
    <2>8. Whole(packet) /\ Whole(sent[e])
      BY <1>1, SentShape DEF IInv
    <2> QED
      BY <2>4, <2>7, <2>8 DEF Whole
  <1>2. IInv => SignatureCoversBody
    BY <1>1 DEF SignatureCoversBody
  <1> QED
    BY DeliveryInvariant, <1>2, PTL

-----------------------------------------------------------------------------
(***************************************************************************)
(* The round trip.                                                         *)
(***************************************************************************)
\* A packet as it was sent is well-formed, and for its recipient it opens and
\* its signature verifies; for anybody else AES-GCM refuses it.
LEMMA SentOpens ==
    ASSUME Genuine, NEW e \in Encs, NEW r \in Ids
    PROVE  /\ FromJson(sent[e].body) = "ok" /\ Validate(sent[e].body) = "ok"
           /\ SignatureOutcome(sent[e]) = "ok" /\ sent[e].body.ephemeral # LowOrder
           /\ Authentic(sent[e], r, IF IsHybrid(sent[e]) THEN r ELSE Absent)
                 <=> r = sent[e].body.recipient
  <1> DEFINE q == sent[e]
             kpriv == IF IsHybrid(q) THEN r ELSE Absent
  <1>1. q \in EncryptionsOf(e)
    BY DEF Genuine
  <1>2. PICK s, rcp, k, sp : Made(q, e, s, rcp, k, sp)
    BY <1>1, EncryptionMade
  <1>3. /\ q.body.ciphertext \notin Malformed /\ q.body.ciphertext # Absent
        /\ q.body.kem \notin Malformed
        /\ IsHybrid(q) => k = rcp
        /\ IsSigned(q) =>
              q.signature \notin Malformed \union {Empty} /\ q.signer \notin Malformed
    BY <1>1, <1>2, EncryptionSound
  <1>4. /\ q.body.version = "1" /\ q.body.created = e
        /\ q.body.sender = s /\ q.body.recipient = rcp
        /\ q.body.ephemeral = e /\ q.body.salt = e /\ q.body.iv = e
        /\ q.body.algorithm \in {Hybrid, Classical}
        /\ s \in Ids /\ rcp \in Ids
        /\ Sealed(q.body, e, e, s, rcp, rcp, k) /\ Signed(q, sp, sp)
    BY <1>2 DEF Made, Sealed
  <1>5. Validate(q.body) = "ok"
    BY <1>3, <1>4, ValidateOK, Distinct DEF Malformed
  <1>6. FromDict(q.body) = "ok"
    <2>1. q.body.created \notin Malformed
      BY <1>4, Distinct
    <2>2. ASSUME NEW f \in BodyFields \ {"kem"}
          PROVE  q.body[f] # Absent
      BY <1>3, <1>4, Distinct DEF BodyFields
    <2> QED
      BY <2>1, <2>2, FromDictOK
  <1>7. SignatureOutcome(q) = "ok"
    BY <1>3, <1>4, SignedRoundTrip
  <1>8. \A kp : Authentic(q, r, kp) => r = rcp
    <2> SUFFICES ASSUME NEW kp, Authentic(q, r, kp)
                 PROVE  r = rcp
      OBVIOUS
    <2>1. Sealed(q.body, e, e, s, rcp, rcp, k)
      BY <1>4
    <2> QED
      BY <2>1, OnlyMatchingKeys
  <1>9. Authentic(q, rcp, k)
    BY <1>3, <1>4, MatchingKeysOpen
  <1>10. ASSUME r = rcp
         PROVE  Authentic(q, r, kpriv)
    <2>1. MasterKey(q, r, kpriv) = MasterKey(q, rcp, k)
      BY <1>3, <1>10 DEF MasterKey
    <2> QED
      BY <1>9, <2>1 DEF Authentic
  <1> QED
    BY <1>4, <1>5, <1>6, <1>7, <1>8, <1>10, Distinct, FromJsonOK

\* A packet nobody changed comes out for its recipient, and for nobody else.
THEOREM RoundTrip == Spec => []UntouchedIsReadable
  <1>1. ASSUME IInv, outcome # Absent, packet = sent[First]
        PROVE  /\ reader # packet.body.recipient =>
                     \/ outcome = "AuthenticationError"
                     \/ IsHybrid(packet) /\ outcome = "RuntimeError"
               /\ reader = packet.body.recipient =>
                     \/ outcome = "ok"
                     \/ IsHybrid(packet) /\ outcome = "RuntimeError"
    <2> DEFINE k == IF IsHybrid(packet) THEN reader ELSE Absent
    <2>1. reader \in Ids
      BY <1>1 DEF IInv, TypeOK, Decided
    <2>2. PICK available \in BOOLEAN : outcome = Opened(reader, available)
      BY <1>1, <2>1, Distinct DEF IInv, Decided
    <2>3. /\ FromJson(packet.body) = "ok" /\ Validate(packet.body) = "ok"
          /\ SignatureOutcome(packet) = "ok" /\ packet.body.ephemeral # LowOrder
          /\ Authentic(packet, reader, k) <=> reader = packet.body.recipient
      BY <1>1, <2>1, SentOpens, Distinct DEF IInv
    <2>4. IsHybrid(packet) => k # Absent
      BY <2>1, Distinct
    <2> HIDE DEF k
    <2>5. outcome = DecryptOutcome(packet, reader, k, available)
      BY <2>2, <2>3 DEF Opened, k
    <2>6. CASE IsHybrid(packet) /\ ~available
      BY <2>3, <2>4, <2>5, <2>6 DEF DecryptOutcome, Then, Require
    <2>7. CASE ~(IsHybrid(packet) /\ ~available)
      <3>1. outcome = IF Authentic(packet, reader, k) THEN "ok" ELSE "AuthenticationError"
        BY <2>3, <2>4, <2>5, <2>7 DEF DecryptOutcome, Then, Require
      <3> QED
        BY <2>3, <3>1
    <2> QED
      BY <2>6, <2>7
  <1>2. IInv => UntouchedIsReadable
    BY <1>1 DEF UntouchedIsReadable
  <1> QED
    BY DeliveryInvariant, <1>2, PTL
=============================================================================
