---------------------------- MODULE HybridPacket ----------------------------
(***************************************************************************)
(* What EncryptionOrchestrator.encrypt puts into a packet and what decrypt *)
(* makes of one: pqhe/services/encryption_orchestrator.py over the packet  *)
(* model, the packet validation and the services of pqhe/services.         *)
(*                                                                         *)
(* Cryptography is symbolic.  A key pair is named by whoever drew it: the  *)
(* encryption for an ephemeral pair, the keygen run for a long-term one.   *)
(* The random values of one encryption (salt, IV, encapsulation coins) are *)
(* fresh, so they too are named by the encryption.  A primitive is a       *)
(* constructor, so its results are equal only if its arguments are.        *)
(***************************************************************************)

CONSTANTS
    Absent,        \* None: a field, a key or a secret that is not there
    NotText,       \* a number in a field for text, or null in a required one
    NotBase64,     \* a field that does not decode
    WrongLength,   \* a field that decodes to a length it may not have
    Empty,         \* a signature field with the empty text
    LowOrder,      \* an X25519 public key that no exchange accepts
    Blank          \* a key id of white space only

Hybrid    == "X25519+ML-KEM-768+HKDF-SHA256+AES-256-GCM"
Classical == "X25519+HKDF-SHA256+AES-256-GCM"

\* A binary field that does not decode to bytes of its length.
Malformed == {NotText, NotBase64, WrongLength}

ASSUME PacketAssumption ==
    /\ Absent \notin Malformed \union {Empty, LowOrder}
    /\ NotText \notin {NotBase64, WrongLength} /\ NotBase64 # WrongLength

-----------------------------------------------------------------------------
(***************************************************************************)
(* The primitives.                                                         *)
(***************************************************************************)
\* X25519: both sides of a pair of key pairs get the same secret.
SharedSecret(mine, peer) == {mine, peer}

\* ML-KEM-768.  Decapsulating with a key the ciphertext was not made for does
\* not fail: it yields a secret nobody else has (implicit rejection).
Encapsulate(pub, coins) == [pub |-> pub, coins |-> coins]
KemSecret(kem)          == <<"shared", kem.pub, kem>>
Decapsulate(priv, kem)  == <<"shared", priv, kem>>

\* Fault: the ML-KEM secret is derived from alone, present or not.
DerivePostQuantum(classical, pq, salt) == [pq |-> pq, salt |-> salt]

\* HKDF over the one secret or the concatenation of the two.
DeriveHybrid(classical, pq, salt) ==
    [classical |-> classical, pq |-> pq, salt |-> salt]

\* Fault: every AES key opens the box.
OpensAnyKey(key, iv, aad, box) ==
    box \notin Malformed /\ box.iv = iv /\ box.aad = aad

\* Faults: the message, or everything, goes unverified.
VerifiesSigner(pub, message, sig)  == sig # WrongLength /\ sig.signer = pub
VerifiesNothing(pub, message, sig) == TRUE

\* AES-256-GCM and Ed25519.
Seal(key, iv, aad, plaintext) ==
    [key |-> key, iv |-> iv, aad |-> aad, plaintext |-> plaintext]
Opens(key, iv, aad, box) ==
    box \notin Malformed /\ box.key = key /\ box.iv = iv /\ box.aad = aad

Sign(priv, message)         == [signer |-> priv, message |-> message]
Verifies(pub, message, sig) == sig # WrongLength /\ sig = Sign(pub, message)

-----------------------------------------------------------------------------
(***************************************************************************)
(* A packet: its body, the fields a signature covers, and the two fields   *)
(* the signature adds, Absent from an unsigned packet.                     *)
(***************************************************************************)
BodyFields == {"version", "algorithm", "created", "sender", "recipient",
               "ephemeral", "salt", "iv", "ciphertext", "kem"}

\* Fault: the sender is left out of the associated data.
MakeAadNoSender(metadata) ==
    <<metadata.version, metadata.algorithm, metadata.recipient>>

\* make_aad joins these four with bars; no accepted key id holds a bar.
MakeAad(metadata) ==
    <<metadata.version, metadata.algorithm, metadata.sender, metadata.recipient>>

IsHybrid(p) == p.body.kem # Absent
IsSigned(p) == p.signature # Absent /\ p.signer # Absent

(***************************************************************************)
(* encrypt, called e: xpub and kpub are the recipient's public keys, kpub  *)
(* Absent when there is no ML-KEM key, spriv and spub the sender's signing *)
(* pair, both Absent when there is none; available says whether liboqs is. *)
(***************************************************************************)
EncryptBody(e, plaintext, sender, recipient, xpub, kpub, available) ==
    LET kem       == IF kpub # Absent /\ available THEN Encapsulate(kpub, e) ELSE Absent
        pq        == IF kem # Absent THEN KemSecret(kem) ELSE Absent
        key       == DeriveHybrid(SharedSecret(e, xpub), pq, e)
        algorithm == IF kem # Absent THEN Hybrid ELSE Classical
        aad       == MakeAad([version |-> "1", algorithm |-> algorithm,
                              sender |-> sender, recipient |-> recipient])
    IN  [version |-> "1", algorithm |-> algorithm, created |-> e,
         sender |-> sender, recipient |-> recipient,
         ephemeral |-> e, salt |-> e, iv |-> e, kem |-> kem,
         ciphertext |-> Seal(key, e, aad, plaintext)]

SignBody(body, spriv, spub) ==
    IF spriv # Absent /\ spub # Absent
    THEN [body |-> body, signature |-> Sign(spriv, body), signer |-> spub]
    ELSE [body |-> body, signature |-> Absent, signer |-> Absent]

EncryptPacket(e, plaintext, sender, recipient, xpub, kpub, spriv, spub, available) ==
    SignBody(EncryptBody(e, plaintext, sender, recipient, xpub, kpub, available), spriv, spub)

(***************************************************************************)
(* Checks.  A check yields "ok" or the exception it raises, and then the   *)
(* ones after it are not made.                                             *)
(***************************************************************************)
Require(condition, exception) == IF condition THEN "ok" ELSE exception
Then(check, rest)             == IF check = "ok" THEN rest ELSE check

(***************************************************************************)
(* from_dict on a parsed document.  A field the document lacks is Absent,  *)
(* and so is a null in one of the three that may be missing; created_at is *)
(* parsed as the third of them.                                            *)
(***************************************************************************)
FromDict(body) ==
    Then(Require(Absent \notin {body.version, body.algorithm, body.created}, "KeyError"),
    Then(Require(body.created # NotText, "TypeError"),
    Then(Require(body.created \notin Malformed, "ValueError"),
         Require(\A f \in BodyFields \ {"kem"} : body[f] # Absent, "KeyError"))))

(***************************************************************************)
(* validate.  The ciphertext is decoded outside any try block, after the   *)
(* fixed-length fields and before the ML-KEM one; the key ids are stripped *)
(* of white space without asking whether they are texts.                   *)
(***************************************************************************)
FixedLength(body) == {body.ephemeral, body.salt, body.iv}

NamesSomebody(id) ==
    Then(Require(id # NotText, "AttributeError"),
         Require(id # Blank, "PacketValidationError"))

Validate(body) ==
    Then(Require(body.version = "1", "UnsupportedVersionError"),
    Then(Require(FixedLength(body) \cap Malformed = {}, "PacketValidationError"),
    Then(Require(body.ciphertext # NotText, "TypeError"),
    Then(Require(body.ciphertext # NotBase64, "binascii.Error"),
    Then(Require(body.ciphertext # WrongLength /\ body.kem \notin Malformed,
                 "PacketValidationError"),
    Then(NamesSomebody(body.sender),
         NamesSomebody(body.recipient)))))))

\* Fault: the ML-KEM secret is left out.
MasterKeyClassical(p, xpriv, kpriv) ==
    DeriveHybrid(SharedSecret(xpriv, p.body.ephemeral), Absent, p.body.salt)

(***************************************************************************)
(* decrypt: "ok", and then the sealed plaintext is returned, or the name   *)
(* of the exception.  xpriv is the recipient's X25519 key, kpriv the       *)
(* ML-KEM one.  The exchange of keys comes first, the signature only after *)
(* AES-GCM has accepted the packet; an Ed25519 public key that is not 32   *)
(* bytes long is not a failed verification.                                *)
(***************************************************************************)
MasterKey(p, xpriv, kpriv) ==
    DeriveHybrid(SharedSecret(xpriv, p.body.ephemeral),
                 IF IsHybrid(p) THEN Decapsulate(kpriv, p.body.kem) ELSE Absent,
                 p.body.salt)

Authentic(p, xpriv, kpriv) ==
    Opens(MasterKey(p, xpriv, kpriv), p.body.iv, MakeAad(p.body), p.body.ciphertext)

\* Fault: an exception of the library is let through.
SignatureUncaught(p) ==
    IF IsSigned(p) /\ Malformed \cap {p.signature, p.signer} = {} /\ p.signature # Empty
    THEN Require(Verifies(p.signer, p.body, p.signature), "InvalidSignature")
    ELSE "ok"

\* An empty text decodes to no signature at all, and None is no bytes to verify.
SignatureOutcome(p) ==
    IF ~IsSigned(p) THEN "ok"
    ELSE Then(Require(p.signature # NotText, "TypeError"),
         Then(Require(p.signature # NotBase64, "binascii.Error"),
         Then(Require(p.signer # NotText, "TypeError"),
         Then(Require(p.signer # NotBase64, "binascii.Error"),
         Then(Require(p.signer # WrongLength, "ValueError"),
         Then(Require(p.signature # Empty, "TypeError"),
              Require(Verifies(p.signer, p.body, p.signature),
                      "SignatureVerificationError")))))))

DecryptOutcome(p, xpriv, kpriv, available) ==
    Then(Validate(p.body),
    Then(Require(p.body.ephemeral # LowOrder, "ValueError"),
    Then(Require(IsHybrid(p) => kpriv # Absent, "ValueError"),
    Then(Require(IsHybrid(p) => available, "RuntimeError"),
    Then(Require(Authentic(p, xpriv, kpriv), "AuthenticationError"),
         SignatureOutcome(p))))))

(***************************************************************************)
(* from_json: a parsed document becomes a packet that validate accepts.    *)
(***************************************************************************)
FromJson(body) == Then(FromDict(body), Validate(body))
=============================================================================
