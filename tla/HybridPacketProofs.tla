------------------------- MODULE HybridPacketProofs -------------------------
(***************************************************************************)
(* What the operators of HybridPacket do, for every value of their         *)
(* arguments: the conditions under which a packet is accepted, and the     *)
(* round trip from encrypt to decrypt.                                     *)
(***************************************************************************)
EXTENDS HybridPacket, TLAPS

-----------------------------------------------------------------------------
(***************************************************************************)
(* When each check says "ok".                                              *)
(***************************************************************************)
\* What validate accepts.
LEMMA ValidateOK ==
    ASSUME NEW body
    PROVE  Validate(body) = "ok" <=>
              /\ body.version = "1"
              /\ {body.ephemeral, body.salt, body.iv, body.ciphertext, body.kem}
                    \cap Malformed = {}
              /\ {body.sender, body.recipient} \cap {Blank, NotText} = {}
  BY DEF Validate, FixedLength, NamesSomebody, Then, Require, Malformed

LEMMA FromDictOK ==
    ASSUME NEW body
    PROVE  FromDict(body) = "ok" <=>
              /\ body.created \notin Malformed
              /\ \A f \in BodyFields \ {"kem"} : body[f] # Absent
  BY PacketAssumption DEF FromDict, Then, Require, Malformed, BodyFields

LEMMA SignatureOK ==
    ASSUME NEW p
    PROVE  SignatureOutcome(p) = "ok" <=>
              \/ ~IsSigned(p)
              \/ /\ p.signature \notin {NotText, NotBase64, Empty}
                 /\ p.signer \notin Malformed
                 /\ Verifies(p.signer, p.body, p.signature)
  BY DEF SignatureOutcome, Then, Require, Malformed

LEMMA DecryptOK ==
    ASSUME NEW p, NEW xpriv, NEW kpriv, NEW available \in BOOLEAN
    PROVE  DecryptOutcome(p, xpriv, kpriv, available) = "ok" <=>
              /\ Validate(p.body) = "ok" /\ p.body.ephemeral # LowOrder
              /\ IsHybrid(p) => kpriv # Absent /\ available
              /\ Authentic(p, xpriv, kpriv)
              /\ SignatureOutcome(p) = "ok"
  BY DEF DecryptOutcome, Then, Require

LEMMA FromJsonOK ==
    ASSUME NEW body
    PROVE  FromJson(body) = "ok" <=> FromDict(body) = "ok" /\ Validate(body) = "ok"
  BY DEF FromJson, Then

-----------------------------------------------------------------------------
(***************************************************************************)
(* The round trip.                                                         *)
(***************************************************************************)
\* A body as encrypt makes it: sealed under what the recipient derives from that
\* very body, with its own metadata as associated data.
Sealed(b, e, m, s, r, x, k) ==
    /\ DOMAIN b = BodyFields
    /\ b.version = "1" /\ b.created = e /\ b.sender = s /\ b.recipient = r
    /\ b.ephemeral = e /\ b.salt = e /\ b.iv = e
    /\ b.kem # Absent => b.kem = Encapsulate(k, e) /\ k # Absent
    /\ b.algorithm = (IF b.kem # Absent THEN Hybrid ELSE Classical)
    /\ b.ciphertext =
          Seal(DeriveHybrid(SharedSecret(e, x),
                            IF b.kem # Absent THEN KemSecret(b.kem) ELSE Absent, e),
               e, MakeAad(b), m)

LEMMA SealedBody ==
    ASSUME NEW e, NEW m, NEW s, NEW r, NEW x, NEW k, NEW a
    PROVE  Sealed(EncryptBody(e, m, s, r, x, k, a), e, m, s, r, x, k)
  <1> DEFINE b == EncryptBody(e, m, s, r, x, k, a)
  <1>1. CASE k # Absent /\ a /\ Encapsulate(k, e) # Absent
    BY <1>1 DEF EncryptBody, Sealed, MakeAad, BodyFields
  <1>2. CASE ~(k # Absent /\ a /\ Encapsulate(k, e) # Absent)
    BY <1>2 DEF EncryptBody, Sealed, MakeAad, BodyFields
  <1> QED
    BY <1>1, <1>2

\* Whoever opens a packet as encrypt wrote it holds the X25519 key it was made
\* for, and the ML-KEM key too when it is hybrid.
THEOREM OnlyMatchingKeys ==
    ASSUME NEW p, NEW e, NEW m, NEW s, NEW r, NEW x, NEW k, NEW xpriv, NEW kpriv,
           Sealed(p.body, e, m, s, r, x, k), Authentic(p, xpriv, kpriv)
    PROVE  xpriv = x /\ (IsHybrid(p) => kpriv = k)
  <1> DEFINE pq == IF p.body.kem # Absent THEN KemSecret(p.body.kem) ELSE Absent
  <1>2. MasterKey(p, xpriv, kpriv) = DeriveHybrid(SharedSecret(e, x), pq, e)
    BY DEF Sealed, Authentic, Opens, Seal
  <1>3. /\ SharedSecret(xpriv, e) = SharedSecret(e, x)
        /\ IsHybrid(p) => Decapsulate(kpriv, p.body.kem) = KemSecret(p.body.kem)
    BY <1>2 DEF Sealed, MasterKey, DeriveHybrid, IsHybrid
  <1>4. xpriv = x
    BY <1>3 DEF SharedSecret
  <1>5. IsHybrid(p) => kpriv = k
    BY <1>3 DEF Sealed, IsHybrid, Decapsulate, KemSecret, Encapsulate
  <1> QED
    BY <1>4, <1>5

\* The keys a packet was made for open it.
THEOREM MatchingKeysOpen ==
    ASSUME NEW p, NEW e, NEW m, NEW s, NEW r, NEW x, NEW k,
           Sealed(p.body, e, m, s, r, x, k), p.body.ciphertext \notin Malformed
    PROVE  Authentic(p, x, k)
  <1>1. IsHybrid(p) => Decapsulate(k, p.body.kem) = KemSecret(p.body.kem)
    BY DEF Sealed, IsHybrid, Decapsulate, KemSecret, Encapsulate
  <1>2. SharedSecret(x, e) = SharedSecret(e, x)
    BY DEF SharedSecret
  <1> QED
    BY <1>1, <1>2 DEF Sealed, Authentic, Opens, Seal, MasterKey, IsHybrid

\* The two fields sign_packet_data adds.
Signed(p, sp, su) ==
    IF sp # Absent /\ su # Absent
    THEN p.signature = Sign(sp, p.body) /\ p.signer = su
    ELSE p.signature = Absent /\ p.signer = Absent

LEMMA SignedBody ==
    ASSUME NEW b, NEW sp, NEW su
    PROVE  /\ SignBody(b, sp, su).body = b
           /\ Signed(SignBody(b, sp, su), sp, su)
           /\ DOMAIN SignBody(b, sp, su) = {"body", "signature", "signer"}
  BY DEF SignBody, Signed

\* The signature encrypt makes is accepted exactly if the sender's two signing
\* files were halves of one pair, and a packet without one is not questioned.
THEOREM SignedRoundTrip ==
    ASSUME NEW p, NEW sp, NEW su, Signed(p, sp, su),
           IsSigned(p) => p.signature \notin Malformed \union {Empty} /\ p.signer \notin Malformed
    PROVE  SignatureOutcome(p) = "ok" <=> (IsSigned(p) => sp = su)
  <1>1. CASE IsSigned(p)
    <2>1. p.signature = Sign(sp, p.body) /\ p.signer = su
      BY <1>1 DEF Signed, IsSigned
    <2>2. p.signature \notin {NotText, NotBase64, Empty} /\ p.signer \notin Malformed
      BY <1>1 DEF Malformed
    <2>3. Verifies(p.signer, p.body, p.signature) <=> su = sp
      BY <1>1, <2>1 DEF Verifies, Sign, Malformed
    <2>4. SignatureOutcome(p) = "ok" <=> Verifies(p.signer, p.body, p.signature)
      BY <1>1, <2>2, SignatureOK
    <2> QED
      BY <1>1, <2>3, <2>4
  <1>2. CASE ~IsSigned(p)
    <2>1. SignatureOutcome(p) = "ok"
      BY <1>2 DEF SignatureOutcome
    <2> QED
      BY <1>2, <2>1
  <1> QED
    BY <1>1, <1>2
=============================================================================
