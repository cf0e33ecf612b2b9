---------------------------- MODULE SessionProofs ----------------------------
(***************************************************************************)
(* Encrypt and decrypt processes over a key directory that any number of   *)
(* overlapping and dying keygens rewrite: what they leave, proved for any  *)
(* number of processes, key ids and passphrases, and that together they    *)
(* implement Mail.                                                         *)
(***************************************************************************)
EXTENDS Session, KeygenProofs, HybridPacketProofs

-----------------------------------------------------------------------------
(***************************************************************************)
(* The inductive invariant.                                                *)
(***************************************************************************)
EncFields == {"pc", "from", "to", "error", "x", "kem", "spriv", "spub",
              "packet", "alone", "last"}
DecFields == {"pc", "of", "as", "error", "phrase", "packet", "x", "kem"}

\* A packet no check finds fault with, and no file that was cut short.
Sound(p) ==
    /\ p # Absent /\ p # Torn
    /\ FromJson(p.body) = "ok" /\ Validate(p.body) = "ok"
    /\ p.body.ciphertext \notin Malformed
    /\ IsSigned(p) =>
          p.signature \notin Malformed \union {Empty} /\ p.signer \notin Malformed

\* The packet that encryption e makes of these keys, or of those it has read.
MadeOf(p, e, from, to, x, kem, spriv, spub) ==
    /\ Sound(p)
    /\ Sealed(p.body, e, e, from, to, x, kem)
    /\ Signed(p, spriv, spub)

MadeFrom(p, e, c) == MadeOf(p, e, c.from, c.to, c.x, c.kem, c.spriv, c.spub)

EncTypes(e) ==
    /\ DOMAIN enc[e] = EncFields
    /\ enc[e].pc \in EncPcs
    /\ enc[e].from \in Spellings /\ enc[e].to \in Spellings
    /\ enc[e].x \in Runs \union {Absent} /\ enc[e].kem \in Runs \union {Absent}
    /\ enc[e].spriv \in Runs \union {Absent} /\ enc[e].spub \in Runs \union {Absent}

\* The recipient's key is one of the recipient's, and it is there before the
\* packet is made.
EncKey(e) ==
    /\ enc[e].x # Absent => enc[e].to \in KeyIds /\ key[enc[e].x] = enc[e].to
    /\ enc[e].pc \in {"kem", "spriv", "spub", "seal"} => enc[e].x # Absent

EncPacket(e) ==
    /\ enc[e].packet # Absent => MadeFrom(enc[e].packet, e, enc[e]) /\ enc[e].x # Absent
    /\ enc[e].pc \in {"open", "fill", "chmod", "done"} => enc[e].packet # Absent
    /\ enc[e].pc \in {"new", "xpub", "kem", "spriv", "spub", "seal"} =>
          enc[e].packet = Absent

\* The packet file is as far as the phase says.
EncBox(e) ==
    /\ box[e] \in {Absent, Torn, enc[e].packet}
    /\ box[e] # Absent => enc[e].packet # Absent
    /\ enc[e].pc \notin {"fill", "chmod"} \union EncEnded => box[e] = Absent
    /\ enc[e].pc = "fill" => box[e] = Torn

EncInv(e) == EncTypes(e) /\ EncKey(e) /\ EncPacket(e) /\ EncBox(e)

DecTypes(d) ==
    /\ DOMAIN dec[d] = DecFields
    /\ dec[d].pc \in DecPcs
    /\ dec[d].of \in Encs /\ dec[d].as \in Spellings /\ dec[d].phrase \in Locks
    /\ dec[d].x \in Runs \union {Absent} /\ dec[d].kem \in Runs \union {Absent}

\* The packet a decryption holds is the one that was encrypted, and on disk.
DecPacketHeld(d) ==
    /\ dec[d].pc # "new" => box[dec[d].of] # Absent
    /\ dec[d].pc \in {"new", "packet"} => dec[d].packet = Absent
    /\ dec[d].pc \in {"xpriv", "kpriv", "decrypt", "open", "fill", "done"} =>
          dec[d].packet # Absent
    /\ dec[d].packet # Absent =>
          /\ dec[d].packet = enc[dec[d].of].packet
          /\ box[dec[d].of] = enc[dec[d].of].packet

DecKeys(d) ==
    /\ dec[d].x # Absent => dec[d].as \in KeyIds /\ key[dec[d].x] = dec[d].as
    /\ dec[d].pc \in {"kpriv", "decrypt"} => dec[d].x # Absent
    /\ dec[d].pc = "kpriv" => IsHybrid(dec[d].packet)
    /\ dec[d].pc = "decrypt" /\ IsHybrid(dec[d].packet) => dec[d].kem # Absent

\* The keys a decryption used are those the packet was made for.
Matching(d, e) ==
    /\ dec[d].packet # Absent /\ dec[d].x # Absent
    /\ dec[d].x = enc[e].x
    /\ IsHybrid(enc[e].packet) => dec[d].kem = enc[e].kem
    /\ IsSigned(enc[e].packet) => enc[e].spriv = enc[e].spub

\* The output file is opened only after that, and is as far as the phase says.
DecOut(d) ==
    /\ dec[d].pc \in {"open", "fill", "done"} \/ out[d] # Absent => Matching(d, dec[d].of)
    /\ out[d] \in {Absent, Torn, dec[d].of}
    /\ dec[d].pc \notin {"fill"} \union DecEnded => out[d] = Absent
    /\ dec[d].pc = "fill" => out[d] = Torn
    /\ dec[d].pc = "failed" =>
          out[d] = Absent \/ (out[d] = Torn /\ dec[d].error = "OSError")

DecInv(d) == DecTypes(d) /\ DecPacketHeld(d) /\ DecKeys(d) /\ DecOut(d)

SInv ==
    /\ IInv
    /\ DOMAIN enc = Encs /\ DOMAIN dec = Decs /\ DOMAIN box = Encs /\ DOMAIN out = Decs
    /\ \A e \in Encs : EncInv(e)
    /\ \A d \in Decs : DecInv(d)

-----------------------------------------------------------------------------
(***************************************************************************)
(* The values that stand for something missing.                            *)
(***************************************************************************)
LEMMA Markers ==
    /\ Absent # Torn /\ Absent \notin Runs /\ Absent \notin Encs /\ Torn \notin Encs
    /\ {Absent, Blank, NotText} \cap Spellings = {} /\ LowOrder \notin Encs
    /\ Absent \notin {"1", Hybrid, Classical}
    /\ Encs \cap Malformed = {} /\ Runs \cap Malformed = {}
    /\ Absent \notin Malformed
  BY SessionAssumption, PacketAssumption DEF Malformed

LEMMA SpellingOf ==
    ASSUME NEW n \in Spellings
    PROVE  Stripped(n) \in KeyIds
  BY DEF Spellings, Stripped, Padded

\* Whatever keys it was given, encrypt makes a packet that nothing is wrong with.
LEMMA SoundPacket ==
    ASSUME NEW e \in Encs, NEW from \in Spellings, NEW to \in Spellings, NEW x \in Runs,
           NEW kem \in Runs \union {Absent}, NEW spriv \in Runs \union {Absent},
           NEW spub \in Runs \union {Absent}, NEW available \in BOOLEAN
    PROVE  MadeOf(EncryptPacket(e, e, from, to, x, kem, spriv, spub, available),
                  e, from, to, x, kem, spriv, spub)
  <1> DEFINE p == EncryptPacket(e, e, from, to, x, kem, spriv, spub, available)
             b == EncryptBody(e, e, from, to, x, kem, available)
  <1>1. p = SignBody(b, spriv, spub)
    BY DEF EncryptPacket
  <1>2. Sealed(b, e, e, from, to, x, kem)
    BY SealedBody
  <1>0. Intact(p)
    BY SessionAssumption
  <1> HIDE DEF b, p
  <1>3. p.body = b /\ Signed(p, spriv, spub)
    BY <1>1, SignedBody
  <1>4. /\ p # Absent /\ p # Torn /\ p.body.ciphertext # Absent
        /\ p.body.ciphertext \notin Malformed /\ p.body.kem \notin Malformed
        /\ IsSigned(p) => p.signature \notin Malformed \union {Empty}
    BY <1>0 DEF Intact
  <1>5. /\ p.body.version = "1" /\ p.body.created = e
        /\ p.body.sender = from /\ p.body.recipient = to
        /\ p.body.ephemeral = e /\ p.body.salt = e /\ p.body.iv = e
        /\ p.body.algorithm \in {Hybrid, Classical}
    BY <1>2, <1>3 DEF Sealed
  <1>6. Validate(p.body) = "ok"
    BY <1>4, <1>5, ValidateOK, Markers DEF Malformed
  <1>7. FromDict(p.body) = "ok"
    <2>1. p.body.created \notin Malformed
      BY <1>5, Markers
    <2>2. ASSUME NEW f \in BodyFields \ {"kem"}
          PROVE  p.body[f] # Absent
      BY <1>4, <1>5, Markers DEF BodyFields
    <2> QED
      BY <2>1, <2>2, FromDictOK
  <1>8. IsSigned(p) => p.signer \notin Malformed
    BY <1>3, Markers DEF Signed, IsSigned
  <1>9. Sound(p)
    BY <1>4, <1>6, <1>7, <1>8, FromJsonOK DEF Sound
  <1>10. MadeOf(p, e, from, to, x, kem, spriv, spub)
    BY <1>2, <1>3, <1>9 DEF MadeOf
  <1> QED
    BY <1>10 DEF p

-----------------------------------------------------------------------------
(***************************************************************************)
(* What a step of one process leaves alone.                                *)
(***************************************************************************)
EncKeeps(e, fields) == \A f \in EncFields \ fields : enc'[e][f] = enc[e][f]

EncFrame(e) ==
    /\ DOMAIN enc' = Encs /\ DOMAIN enc'[e] = EncFields /\ DOMAIN box' = Encs
    /\ \A g \in Encs \ {e} : enc'[g] = enc[g] /\ box'[g] = box[g]
    /\ UNCHANGED <<vars, dec, out>>

\* A packet that was made stays, with the keys it was made of, and a packet file
\* that is whole stays whole.
Frozen(e) ==
    /\ enc[e].packet # Absent =>
          \A f \in {"packet", "x", "kem", "spriv", "spub", "from", "to"} :
             enc'[e][f] = enc[e][f]
    /\ box[e] # Absent => box'[e] # Absent
    /\ enc[e].packet # Absent /\ box[e] = enc[e].packet => box'[e] = box[e]

\* The steps of an encryption concern others only through its packet.
LEMMA EncMove ==
    ASSUME SInv, NEW e \in Encs, EncFrame(e), Frozen(e), EncInv(e)'
    PROVE  SInv'
  <1>1. IInv'
    BY StepIInv DEF SInv, EncFrame
  <1>2. UNCHANGED <<key, dec, out>>
    BY DEF EncFrame, vars, procVars
  <1>3. ASSUME NEW g \in Encs
        PROVE  EncInv(g)'
    <2>1. CASE g # e
      <3>1. enc'[g] = enc[g] /\ box'[g] = box[g] /\ key' = key /\ EncInv(g)
        BY <2>1, <1>2 DEF EncFrame, SInv
      <3> QED
        BY <3>1 DEF EncInv, EncTypes, EncKey, EncPacket, EncBox
    <2> QED
      BY <2>1
  <1>4. ASSUME NEW d \in Decs
        PROVE  DecInv(d)'
    <2> DEFINE g == dec[d].of
    <2>1. DecInv(d) /\ g \in Encs
      BY DEF SInv, DecInv, DecTypes
    <2>2. dec'[d] = dec[d] /\ out'[d] = out[d] /\ key' = key
      BY <1>2
    <2>3. /\ box[g] # Absent => box'[g] # Absent
          /\ enc[g].packet # Absent /\ box[g] = enc[g].packet => box'[g] = box[g]
          /\ enc[g].packet # Absent =>
                /\ enc'[g].packet = enc[g].packet
                /\ enc'[g].x = enc[g].x /\ enc'[g].kem = enc[g].kem
                /\ enc'[g].spriv = enc[g].spriv /\ enc'[g].spub = enc[g].spub
      BY <2>1 DEF EncFrame, Frozen
    <2>4. DecTypes(d)' /\ DecKeys(d)'
      BY <2>1, <2>2 DEF DecInv, DecTypes, DecKeys
    <2>5. DecPacketHeld(d)'
      BY <2>1, <2>2, <2>3 DEF DecInv, DecPacketHeld
    <2>6. Matching(d, g) => Matching(d, g)'
      BY <2>1, <2>2, <2>3 DEF DecInv, DecPacketHeld, Matching, IsHybrid, IsSigned
    <2>7. DecOut(d)'
      BY <2>1, <2>2, <2>6 DEF DecInv, DecOut
    <2> QED
      BY <2>4, <2>5, <2>7 DEF DecInv
  <1> QED
    BY <1>1, <1>2, <1>3, <1>4 DEF SInv, EncFrame

DecKeeps(d, fields) == \A f \in DecFields \ fields : dec'[d][f] = dec[d][f]

DecFrame(d) ==
    /\ DOMAIN dec' = Decs /\ DOMAIN dec'[d] = DecFields /\ DOMAIN out' = Decs
    /\ \A g \in Decs \ {d} : dec'[g] = dec[g] /\ out'[g] = out[g]
    /\ UNCHANGED <<vars, enc, box>>

\* The steps of a decryption concern nobody else.
LEMMA DecMove ==
    ASSUME SInv, NEW d \in Decs, DecFrame(d), DecInv(d)'
    PROVE  SInv'
  <1>1. IInv'
    BY StepIInv DEF SInv, DecFrame
  <1>2. UNCHANGED <<key, enc, box>>
    BY DEF DecFrame, vars, procVars
  <1>3. ASSUME NEW g \in Encs
        PROVE  EncInv(g)'
    <2>1. EncInv(g)
      BY DEF SInv
    <2> QED
      BY <2>1, <1>2 DEF EncInv, EncTypes, EncKey, EncPacket, EncBox
  <1>4. ASSUME NEW g \in Decs
        PROVE  DecInv(g)'
    <2>1. CASE g # d
      <3>1. dec'[g] = dec[g] /\ out'[g] = out[g] /\ DecInv(g)
        BY <2>1 DEF DecFrame, SInv
      <3> QED
        BY <3>1, <1>2 DEF DecInv, DecTypes, DecPacketHeld, DecKeys, DecOut, Matching
    <2> QED
      BY <2>1
  <1> QED
    BY <1>1, <1>2, <1>3, <1>4 DEF SInv, DecFrame

\* Neither do those of a keygen: the packet is held in memory, and a run that has
\* started keeps its key id.
LEMMA KeygenMove ==
    ASSUME SInv, Next, UNCHANGED sessionVars
    PROVE  SInv'
  <1>1. IInv'
    BY StepIInv DEF SInv
  <1>2. key' = key
    BY DEF Next, Step, Start, OpenFile, FillFile, ChmodFile, Fail, ToggleOqs, procVars
  <1>3. UNCHANGED <<enc, dec, box, out>>
    BY DEF sessionVars
  <1>4. ASSUME NEW g \in Encs
        PROVE  EncInv(g)'
    <2>1. EncInv(g)
      BY DEF SInv
    <2> QED
      BY <2>1, <1>2, <1>3 DEF EncInv, EncTypes, EncKey, EncPacket, EncBox
  <1>5. ASSUME NEW g \in Decs
        PROVE  DecInv(g)'
    <2>1. DecInv(g)
      BY DEF SInv
    <2> QED
      BY <2>1, <1>2, <1>3 DEF DecInv, DecTypes, DecPacketHeld, DecKeys, DecOut, Matching
  <1> QED
    BY <1>1, <1>3, <1>4, <1>5 DEF SInv

-----------------------------------------------------------------------------
(***************************************************************************)
(* Loads.                                                                  *)
(***************************************************************************)
LEMMA FileOfType ==
    ASSUME IInv, NEW n \in Spellings, NEW s \in Slots
    PROVE  /\ FileOf(n, s) \in File
           /\ FileOf(n, s).text = "full" => n \in KeyIds /\ FileOf(n, s) = files[n][s]
  <1>1. NoFile \in File /\ NoFile.text = "none"
    BY DEF NoFile, File, Texts, Modes, Locks
  <1>2. CASE n \in KeyIds
    BY <1>2 DEF FileOf, IInv, TypeOK
  <1>3. CASE n \notin KeyIds
    BY <1>1, <1>3 DEF FileOf
  <1> QED
    BY <1>2, <1>3

\* A load that succeeds returns a key of that key id.
LEMMA Loaded ==
    ASSUME IInv, NEW n \in Spellings, NEW s \in Slots, FileOf(n, s).text = "full"
    PROVE  /\ n \in KeyIds /\ FileOf(n, s) = files[n][s]
           /\ FileOf(n, s).by \in Runs /\ key[FileOf(n, s).by] = n
  BY FileOfType DEF IInv, Provenance

LEMMA LoadPlainOK ==
    ASSUME NEW f \in File
    PROVE  LoadPlain(f) = "ok" <=> f.text = "full"
  BY DEF LoadPlain, File, Texts, Exists

LEMMA LoadPrivateOK ==
    ASSUME NEW f \in File, NEW phrase, LoadPrivate(f, phrase) = "ok"
    PROVE  f.text = "full"
  <1>1. LoadPlain(f) = "ok"
    BY DEF LoadPrivate
  <1> QED
    BY <1>1, LoadPlainOK

\* A load of a public key, or of a signing key, by an encryption: the key is
\* kept, or the encryption fails.
EncLoads(e, f, field, next) ==
    /\ f.text = "full"
    /\ enc'[e][field] = f.by /\ enc'[e].pc = next
    /\ EncKeeps(e, {"pc", field})

EncFails(e, error) ==
    /\ error # "ok"
    /\ enc'[e].pc = "failed" /\ enc'[e].error = error
    /\ EncKeeps(e, {"pc", "error"})

EncShape(e) ==
    /\ DOMAIN enc' = Encs /\ DOMAIN enc'[e] = EncFields
    /\ \A g \in Encs \ {e} : enc'[g] = enc[g]

LEMMA EncLoadStep ==
    ASSUME SInv, NEW e \in Encs, NEW n \in Spellings, NEW s \in Slots, NEW next,
           NEW field \in {"x", "kem", "spriv", "spub"},
           EncLoad(e, FileOf(n, s), field, next)
    PROVE  /\ EncShape(e)
           /\ \/ EncLoads(e, FileOf(n, s), field, next)
              \/ EncFails(e, LoadPlain(FileOf(n, s)))
  <1>1. DOMAIN enc = Encs /\ DOMAIN enc[e] = EncFields
    BY DEF SInv, EncInv, EncTypes
  <1>2. LoadPlain(FileOf(n, s)) = "ok" <=> FileOf(n, s).text = "full"
    BY FileOfType, LoadPlainOK DEF SInv
  <1>3. CASE LoadPlain(FileOf(n, s)) = "ok"
    <2>1. enc' = [enc EXCEPT ![e][field] = FileOf(n, s).by, ![e].pc = next]
      BY <1>3 DEF EncLoad
    <2> QED
      BY <1>1, <1>2, <1>3, <2>1 DEF EncFields, EncKeeps, EncShape, EncLoads
  <1>4. CASE LoadPlain(FileOf(n, s)) # "ok"
    <2>1. enc' = [enc EXCEPT ![e].pc = "failed", ![e].error = LoadPlain(FileOf(n, s))]
      BY <1>4 DEF EncLoad, EncFail
    <2> QED
      BY <1>1, <1>2, <1>4, <2>1 DEF EncFields, EncKeeps, EncShape, EncFails
  <1> QED
    BY <1>3, <1>4

\* A step before the packet is made moves on, or fails, and may set one key.
EncEarly == {"new", "xpub", "kem", "spriv", "spub", "seal"}

LEMMA EarlyStep ==
    ASSUME SInv, NEW e \in Encs, EncFrame(e), box' = box,
           enc[e].pc \in EncEarly, enc'[e].pc \in {"xpub", "kem", "spriv", "spub", "seal", "failed"},
           EncKeeps(e, {"pc", "error", "x", "kem", "spriv", "spub", "alone", "last"}),
           enc'[e].x \in Runs \union {Absent}, enc'[e].kem \in Runs \union {Absent},
           enc'[e].spriv \in Runs \union {Absent}, enc'[e].spub \in Runs \union {Absent},
           enc'[e].x # Absent => enc[e].to \in KeyIds /\ key[enc'[e].x] = enc[e].to,
           enc'[e].pc \in {"kem", "spriv", "spub", "seal"} => enc'[e].x # Absent
    PROVE  SInv'
  <1>1. EncInv(e)
    BY DEF SInv
  <1>2. enc[e].packet = Absent /\ box[e] = Absent
    BY <1>1 DEF EncInv, EncPacket, EncBox, EncEarly
  <1>3. /\ enc'[e].packet = Absent /\ box'[e] = Absent /\ key' = key
        /\ enc'[e].from = enc[e].from /\ enc'[e].to = enc[e].to
        /\ DOMAIN enc'[e] = EncFields
    BY <1>2 DEF EncKeeps, EncFields, EncFrame, vars, procVars
  <1>4. Frozen(e)
    BY <1>2 DEF Frozen
  <1>5. EncTypes(e)'
    BY <1>1, <1>3 DEF EncInv, EncTypes, EncPcs, EncEnded
  <1>6. EncKey(e)'
    BY <1>3 DEF EncKey
  <1>7. EncPacket(e)' /\ EncBox(e)'
    BY <1>3 DEF EncPacket, EncBox, EncEnded
  <1>8. EncInv(e)'
    BY <1>5, <1>6, <1>7 DEF EncInv
  <1> QED
    BY <1>4, <1>8, EncMove

-----------------------------------------------------------------------------
(***************************************************************************)
(* The steps of an encryption.                                             *)
(***************************************************************************)
LEMMA EncStartStep ==
    ASSUME SInv, NEW e \in Encs, EncStart(e)
    PROVE  SInv'
  <1>1. EncTypes(e) /\ EncKey(e) /\ DOMAIN enc = Encs /\ DOMAIN box = Encs
    BY DEF SInv, EncInv
  <1>2. UNCHANGED <<vars, dec, box, out>> /\ enc[e].pc = "new"
    BY DEF EncStart
  <1>3. /\ DOMAIN enc' = Encs /\ DOMAIN enc'[e] = EncFields
        /\ \A g \in Encs \ {e} : enc'[g] = enc[g]
        /\ enc'[e].pc \in {"xpub", "failed"}
        /\ EncKeeps(e, {"pc", "error", "alone", "last"})
    <2>1. CASE EncFail(e, "ValidationError")
      BY <1>1, <2>1 DEF EncFail, EncTypes, EncFields, EncKeeps
    <2>2. CASE enc' = [enc EXCEPT ![e].pc = "xpub",
                             ![e].alone = Idle(Stripped(enc[e].from)) /\ Idle(Stripped(enc[e].to)),
                             ![e].last = LastOf(e)]
      BY <1>1, <2>2 DEF EncTypes, EncFields, EncKeeps
    <2> QED
      BY <2>1, <2>2 DEF EncStart
  <1>4. /\ enc'[e].x = enc[e].x /\ enc'[e].kem = enc[e].kem
        /\ enc'[e].spriv = enc[e].spriv /\ enc'[e].spub = enc[e].spub
    BY <1>3 DEF EncKeeps, EncFields
  <1>5. EncKeeps(e, {"pc", "error", "x", "kem", "spriv", "spub", "alone", "last"})
    BY <1>3 DEF EncKeeps
  <1>6. EncFrame(e)
    BY <1>1, <1>2, <1>3 DEF EncFrame
  <1> QED
    BY <1>1, <1>2, <1>3, <1>4, <1>5, <1>6, EarlyStep DEF EncTypes, EncKey, EncEarly

\* What the four loads have in common.
LEMMA EncLoadMove ==
    ASSUME SInv, NEW e \in Encs, NEW n \in Spellings, NEW s \in Slots, NEW next,
           NEW field \in {"x", "kem", "spriv", "spub"},
           EncLoad(e, FileOf(n, s), field, next), UNCHANGED <<vars, dec, box, out>>,
           enc[e].pc \in EncEarly, next \in {"kem", "spriv", "spub", "seal"},
           field # "x" => enc[e].x # Absent,
           field = "x" => n = enc[e].to
    PROVE  SInv'
  <1>1. EncTypes(e) /\ EncKey(e) /\ IInv /\ DOMAIN box = Encs
    BY DEF SInv, EncInv
  <1>2. EncShape(e) /\ (\/ EncLoads(e, FileOf(n, s), field, next)
                        \/ EncFails(e, LoadPlain(FileOf(n, s))))
    BY EncLoadStep
  <1>3. EncFrame(e)
    BY <1>1, <1>2 DEF EncFrame, EncShape
  <1>4. CASE EncLoads(e, FileOf(n, s), field, next)
    <2>1. /\ FileOf(n, s).text = "full" /\ enc'[e][field] = FileOf(n, s).by
          /\ enc'[e].pc = next /\ EncKeeps(e, {"pc", field})
      BY <1>4 DEF EncLoads
    <2>2. n \in KeyIds /\ enc'[e][field] \in Runs /\ key[enc'[e][field]] = n
      BY <1>1, <2>1, Loaded
    <2>3. EncKeeps(e, {"pc", "error", "x", "kem", "spriv", "spub", "alone", "last"})
      BY <2>1 DEF EncKeeps
    <2>4. \A f \in {"x", "kem", "spriv", "spub"} : enc'[e][f] \in Runs \union {Absent}
      BY <1>1, <2>1, <2>2 DEF EncKeeps, EncTypes, EncFields
    <2>5. /\ enc'[e].x # Absent
          /\ enc[e].to \in KeyIds /\ key[enc'[e].x] = enc[e].to
      BY <1>1, <2>1, <2>2, Markers DEF EncKeeps, EncKey, EncFields
    <2> QED
      BY <1>3, <2>1, <2>3, <2>4, <2>5, EarlyStep
  <1>5. CASE EncFails(e, LoadPlain(FileOf(n, s)))
    <2>1. enc'[e].pc = "failed" /\ EncKeeps(e, {"pc", "error"})
      BY <1>5 DEF EncFails
    <2>2. EncKeeps(e, {"pc", "error", "x", "kem", "spriv", "spub", "alone", "last"})
      BY <2>1 DEF EncKeeps
    <2>3. /\ enc'[e].x = enc[e].x /\ enc'[e].kem = enc[e].kem
          /\ enc'[e].spriv = enc[e].spriv /\ enc'[e].spub = enc[e].spub
      BY <2>1 DEF EncKeeps, EncFields
    <2> QED
      BY <1>1, <1>3, <2>1, <2>2, <2>3, EarlyStep DEF EncTypes, EncKey
  <1> QED
    BY <1>2, <1>4, <1>5

\* A key file that need not be there is passed over.
LEMMA EncSkipMove ==
    ASSUME SInv, NEW e \in Encs, NEW next \in {"spriv", "seal"},
           enc' = [enc EXCEPT ![e].pc = next], UNCHANGED <<vars, dec, box, out>>,
           enc[e].pc \in {"kem", "spriv"}
    PROVE  SInv'
  <1>1. EncTypes(e) /\ EncKey(e) /\ DOMAIN enc = Encs /\ DOMAIN box = Encs
    BY DEF SInv, EncInv
  <1>2. EncFrame(e) /\ EncKeeps(e, {"pc"}) /\ enc'[e].pc = next
    BY <1>1 DEF EncFrame, EncTypes, EncFields, EncKeeps
  <1>3. EncKeeps(e, {"pc", "error", "x", "kem", "spriv", "spub", "alone", "last"})
    BY <1>2 DEF EncKeeps
  <1>4. /\ enc'[e].x = enc[e].x /\ enc'[e].kem = enc[e].kem
        /\ enc'[e].spriv = enc[e].spriv /\ enc'[e].spub = enc[e].spub
    BY <1>2 DEF EncKeeps, EncFields
  <1> QED
    BY <1>1, <1>2, <1>3, <1>4, EarlyStep DEF EncTypes, EncKey, EncEarly

LEMMA EncReadSteps ==
    ASSUME SInv, NEW e \in Encs,
           EncRecipient(e) \/ EncRecipientKem(e) \/ EncSender(e) \/ EncSenderPub(e)
    PROVE  SInv'
  <1>1. enc[e].to \in Spellings /\ enc[e].from \in Spellings
    BY DEF SInv, EncInv, EncTypes
  <1>2. XPub \in Slots /\ MPub \in Slots /\ EPriv \in Slots /\ EPub \in Slots
    BY DEF Slots, XPriv, XPub, MPub, EPriv, EPub
  <1>3. enc[e].pc \in {"kem", "spriv", "spub", "seal"} => enc[e].x # Absent
    BY DEF SInv, EncInv, EncKey
  <1>4. CASE EncRecipient(e)
    <2>1. /\ enc[e].pc = "xpub" /\ UNCHANGED <<vars, dec, box, out>>
          /\ EncLoad(e, FileOf(enc[e].to, XPub), "x", "kem")
      BY <1>4 DEF EncRecipient
    <2> QED
      BY <1>1, <1>2, <2>1, EncLoadMove DEF EncEarly
  <1>5. CASE EncRecipientKem(e)
    <2>1. /\ enc[e].pc = "kem" /\ UNCHANGED <<vars, dec, box, out>>
          /\ \/ EncLoad(e, FileOf(enc[e].to, MPub), "kem", "spriv")
             \/ enc' = [enc EXCEPT ![e].pc = "spriv"]
      BY <1>5 DEF EncRecipientKem
    <2>2. CASE EncLoad(e, FileOf(enc[e].to, MPub), "kem", "spriv")
      BY <1>1, <1>2, <1>3, <2>1, <2>2, EncLoadMove DEF EncEarly
    <2>3. CASE enc' = [enc EXCEPT ![e].pc = "spriv"]
      BY <2>1, <2>3, EncSkipMove
    <2> QED
      BY <2>1, <2>2, <2>3
  <1>6. CASE EncSender(e)
    <2>1. /\ enc[e].pc = "spriv" /\ UNCHANGED <<vars, dec, box, out>>
          /\ \/ EncLoad(e, FileOf(enc[e].from, EPriv), "spriv", "spub")
             \/ enc' = [enc EXCEPT ![e].pc = "seal"]
      BY <1>6 DEF EncSender
    <2>2. CASE EncLoad(e, FileOf(enc[e].from, EPriv), "spriv", "spub")
      BY <1>1, <1>2, <1>3, <2>1, <2>2, EncLoadMove DEF EncEarly
    <2>3. CASE enc' = [enc EXCEPT ![e].pc = "seal"]
      BY <2>1, <2>3, EncSkipMove
    <2> QED
      BY <2>1, <2>2, <2>3
  <1>7. CASE EncSenderPub(e)
    <2>1. /\ enc[e].pc = "spub" /\ UNCHANGED <<vars, dec, box, out>>
          /\ EncLoad(e, FileOf(enc[e].from, EPub), "spub", "seal")
      BY <1>7 DEF EncSenderPub
    <2> QED
      BY <1>1, <1>2, <1>3, <2>1, EncLoadMove DEF EncEarly
  <1> QED
    BY <1>4, <1>5, <1>6, <1>7

\* The packet is made of the keys that were read.
LEMMA EncSealStep ==
    ASSUME SInv, NEW e \in Encs, EncSeal(e)
    PROVE  SInv'
  <1>1. EncInv(e) /\ EncTypes(e) /\ EncKey(e) /\ DOMAIN enc = Encs /\ DOMAIN box = Encs
    BY DEF SInv, EncInv
  <1>2. UNCHANGED <<vars, dec, box, out>> /\ enc[e].pc = "seal" /\ key' = key
    BY DEF EncSeal, vars, procVars
  <1>3. enc[e].packet = Absent /\ box[e] = Absent /\ enc[e].x \in Runs
    BY <1>1, <1>2 DEF EncInv, EncPacket, EncBox, EncKey, EncTypes
  <1>4. CASE EncFail(e, "ValidationError")
    <2>1. EncFrame(e) /\ EncKeeps(e, {"pc", "error"}) /\ enc'[e].pc = "failed"
      BY <1>1, <1>2, <1>4 DEF EncFail, EncFrame, EncTypes, EncFields, EncKeeps
    <2>2. EncKeeps(e, {"pc", "error", "x", "kem", "spriv", "spub", "alone", "last"})
      BY <2>1 DEF EncKeeps
    <2>3. /\ enc'[e].x = enc[e].x /\ enc'[e].kem = enc[e].kem
          /\ enc'[e].spriv = enc[e].spriv /\ enc'[e].spub = enc[e].spub
      BY <2>1 DEF EncKeeps, EncFields
    <2> QED
      BY <1>1, <1>2, <2>1, <2>2, <2>3, EarlyStep DEF EncTypes, EncKey, EncEarly
  <1>5. ASSUME NEW p,
               p = EncryptPacket(e, e, enc[e].from, enc[e].to, enc[e].x,
                                 enc[e].kem, enc[e].spriv, enc[e].spub, oqs),
               enc' = [enc EXCEPT ![e].pc = "open", ![e].packet = p]
        PROVE  SInv'
    <2>1. oqs \in BOOLEAN
      BY DEF SInv, IInv, TypeOK
    <2>2. MadeOf(p, e, enc[e].from, enc[e].to, enc[e].x, enc[e].kem, enc[e].spriv, enc[e].spub)
      <3>1. /\ enc[e].from \in Spellings /\ enc[e].to \in Spellings /\ enc[e].x \in Runs
            /\ enc[e].kem \in Runs \union {Absent} /\ enc[e].spriv \in Runs \union {Absent}
            /\ enc[e].spub \in Runs \union {Absent}
        BY <1>1, <1>3 DEF EncTypes
      <3>2. MadeOf(EncryptPacket(e, e, enc[e].from, enc[e].to, enc[e].x,
                                 enc[e].kem, enc[e].spriv, enc[e].spub, oqs),
                   e, enc[e].from, enc[e].to, enc[e].x, enc[e].kem, enc[e].spriv, enc[e].spub)
        BY <2>1, <3>1, SoundPacket
      <3> QED
        BY <1>5, <3>2
    <2>3. EncFrame(e) /\ EncKeeps(e, {"pc", "packet"})
          /\ enc'[e].pc = "open" /\ enc'[e].packet = p
      BY <1>1, <1>2, <1>5 DEF EncFrame, EncTypes, EncFields, EncKeeps
    <2>4. /\ enc'[e].from = enc[e].from /\ enc'[e].to = enc[e].to
          /\ enc'[e].x = enc[e].x /\ enc'[e].kem = enc[e].kem
          /\ enc'[e].spriv = enc[e].spriv /\ enc'[e].spub = enc[e].spub
          /\ DOMAIN enc'[e] = EncFields
      BY <2>3 DEF EncKeeps, EncFields, EncFrame
    <2>5. MadeFrom(p, e, enc'[e])
      BY <2>2, <2>4 DEF MadeFrom
    <2>6. EncTypes(e)' /\ EncKey(e)'
      BY <1>1, <1>2, <1>3, <2>3, <2>4 DEF EncTypes, EncKey, EncPcs
    <2>7. EncPacket(e)'
      BY <1>3, <2>2, <2>3, <2>4, <2>5, Markers DEF EncPacket, Sound, MadeOf
    <2>8. EncBox(e)'
      BY <1>2, <1>3, <2>3 DEF EncBox
    <2>9. Frozen(e)
      BY <1>2, <1>3 DEF Frozen
    <2>10. EncInv(e)'
      BY <2>6, <2>7, <2>8 DEF EncInv
    <2> QED
      BY <2>3, <2>9, <2>10, EncMove
  <1> QED
    BY <1>4, <1>5 DEF EncSeal

\* From then on only the packet file changes.
LEMMA LateStep ==
    ASSUME SInv, NEW e \in Encs, EncFrame(e), EncKeeps(e, {"pc", "error"}),
           enc'[e].pc \in {"fill", "chmod", "done", "failed", "dead"},
           enc'[e].pc \notin {"failed", "dead"} => enc[e].packet # Absent,
           EncBox(e)', box[e] # Absent => box'[e] # Absent,
           enc[e].packet # Absent /\ box[e] = enc[e].packet => box'[e] = box[e]
    PROVE  SInv'
  <1>1. EncTypes(e) /\ EncKey(e) /\ EncPacket(e) /\ key' = key
    BY DEF SInv, EncInv, EncFrame, vars, procVars
  <1>2. /\ enc'[e].from = enc[e].from /\ enc'[e].to = enc[e].to
        /\ enc'[e].x = enc[e].x /\ enc'[e].kem = enc[e].kem
        /\ enc'[e].spriv = enc[e].spriv /\ enc'[e].spub = enc[e].spub
        /\ enc'[e].packet = enc[e].packet /\ DOMAIN enc'[e] = EncFields
    BY DEF EncKeeps, EncFields, EncFrame
  <1>3. Frozen(e)
    BY <1>2 DEF Frozen
  <1>4. EncTypes(e)' /\ EncKey(e)'
    BY <1>1, <1>2 DEF EncTypes, EncKey, EncPcs, EncEnded
  <1>5. EncPacket(e)'
    BY <1>1, <1>2 DEF EncPacket, MadeFrom
  <1>6. EncInv(e)'
    BY <1>4, <1>5 DEF EncInv
  <1> QED
    BY <1>3, <1>6, EncMove

LEMMA EncLateSteps ==
    ASSUME SInv, NEW e \in Encs,
           EncOpen(e) \/ EncFill(e) \/ EncChmod(e) \/ EncIOError(e) \/ EncDie(e)
    PROVE  SInv'
  <1>1. /\ EncTypes(e) /\ EncPacket(e) /\ EncBox(e) /\ DOMAIN enc = Encs /\ DOMAIN box = Encs
        /\ enc[e].packet # Absent => enc[e].packet # Torn
    BY DEF SInv, EncInv, EncPacket, MadeFrom, MadeOf, Sound
  <1>2. CASE EncOpen(e)
    <2>1. /\ EncFrame(e) /\ EncKeeps(e, {"pc", "error"})
          /\ enc[e].pc = "open" /\ enc'[e].pc = "fill" /\ box'[e] = Torn
      BY <1>1, <1>2 DEF EncOpen, EncFrame, EncTypes, EncFields, EncKeeps
    <2>2. enc'[e].packet = enc[e].packet /\ enc[e].packet # Absent /\ box[e] = Absent
      BY <1>1, <2>1 DEF EncKeeps, EncFields, EncPacket, EncBox, EncEnded
    <2>3. EncBox(e)'
      BY <2>1, <2>2, Markers DEF EncBox, EncEnded
    <2> QED
      BY <2>1, <2>2, <2>3, LateStep
  <1>3. CASE EncFill(e)
    <2>1. /\ EncFrame(e) /\ EncKeeps(e, {"pc", "error"})
          /\ enc[e].pc = "fill" /\ enc'[e].pc = "chmod" /\ box'[e] = enc[e].packet
      BY <1>1, <1>3 DEF EncFill, EncFrame, EncTypes, EncFields, EncKeeps
    <2>2. enc'[e].packet = enc[e].packet /\ enc[e].packet # Absent /\ box[e] = Torn
      BY <1>1, <2>1 DEF EncKeeps, EncFields, EncPacket, EncBox, EncEnded
    <2>3. EncBox(e)'
      BY <2>1, <2>2 DEF EncBox, EncEnded
    <2> QED
      BY <1>1, <2>1, <2>2, <2>3, LateStep
  <1>4. CASE EncChmod(e)
    <2>1. /\ EncFrame(e) /\ EncKeeps(e, {"pc", "error"})
          /\ enc[e].pc = "chmod" /\ enc'[e].pc = "done" /\ box'[e] = box[e]
      BY <1>1, <1>4 DEF EncChmod, EncFrame, EncTypes, EncFields, EncKeeps
    <2>2. enc'[e].packet = enc[e].packet /\ enc[e].packet # Absent
      BY <1>1, <2>1 DEF EncKeeps, EncFields, EncPacket
    <2>3. EncBox(e)'
      BY <1>1, <2>1, <2>2 DEF EncBox, EncEnded
    <2> QED
      BY <2>1, <2>2, <2>3, LateStep
  <1>5. CASE EncIOError(e) \/ EncDie(e)
    <2>1. /\ EncFrame(e) /\ EncKeeps(e, {"pc", "error"})
          /\ enc'[e].pc \in {"failed", "dead"} /\ box'[e] = box[e]
      BY <1>1, <1>5 DEF EncIOError, EncFail, EncDie, EncFrame, EncTypes, EncFields, EncKeeps
    <2>2. enc'[e].packet = enc[e].packet
      BY <2>1 DEF EncKeeps, EncFields
    <2>3. EncBox(e)'
      BY <1>1, <2>1, <2>2 DEF EncBox, EncEnded
    <2> QED
      BY <2>1, <2>2, <2>3, LateStep
  <1> QED
    BY <1>2, <1>3, <1>4, <1>5

-----------------------------------------------------------------------------
(***************************************************************************)
(* The steps of a decryption.                                              *)
(***************************************************************************)
\* Before the packet has been decrypted there is no output.
LEMMA DecEarlyStep ==
    ASSUME SInv, NEW d \in Decs, DecFrame(d), out' = out,
           dec[d].pc \in {"new", "packet", "xpriv", "kpriv", "decrypt"},
           dec'[d].pc \in {"packet", "xpriv", "kpriv", "decrypt", "failed"},
           DecKeeps(d, {"pc", "error", "phrase", "packet", "x", "kem"}),
           dec'[d].phrase \in Locks,
           dec'[d].x \in Runs \union {Absent}, dec'[d].kem \in Runs \union {Absent},
           DecPacketHeld(d)', DecKeys(d)'
    PROVE  SInv'
  <1>1. DecTypes(d) /\ DecOut(d)
    BY DEF SInv, DecInv
  <1>2. dec'[d].of = dec[d].of /\ dec'[d].as = dec[d].as /\ DOMAIN dec'[d] = DecFields
    BY DEF DecKeeps, DecFields, DecFrame
  <1>3. DecTypes(d)'
    BY <1>1, <1>2 DEF DecTypes, DecPcs, DecEnded
  <1>4. out[d] = Absent
    BY <1>1 DEF DecOut, DecEnded
  <1>5. DecOut(d)'
    BY <1>2, <1>4 DEF DecOut, DecEnded
  <1>6. DecInv(d)'
    BY <1>3, <1>5 DEF DecInv
  <1> QED
    BY <1>6, DecMove

LEMMA DecFailMove ==
    ASSUME SInv, NEW d \in Decs, NEW error, DecFail(d, error),
           UNCHANGED <<vars, enc, box, out>>, box[dec[d].of] # Absent,
           dec[d].pc \in {"new", "packet", "xpriv", "kpriv", "decrypt"}
    PROVE  SInv'
  <1>1. /\ DecTypes(d) /\ DecPacketHeld(d) /\ DecKeys(d)
        /\ DOMAIN dec = Decs /\ DOMAIN out = Decs
    BY DEF SInv, DecInv
  <1>2. DecFrame(d) /\ DecKeeps(d, {"pc", "error"}) /\ dec'[d].pc = "failed"
    BY <1>1 DEF DecFail, DecFrame, DecTypes, DecFields, DecKeeps
  <1>3. /\ dec'[d].of = dec[d].of /\ dec'[d].as = dec[d].as /\ dec'[d].phrase = dec[d].phrase
        /\ dec'[d].packet = dec[d].packet
        /\ dec'[d].x = dec[d].x /\ dec'[d].kem = dec[d].kem
    BY <1>2 DEF DecKeeps, DecFields
  <1>4. DecKeeps(d, {"pc", "error", "phrase", "packet", "x", "kem"})
    BY <1>2 DEF DecKeeps
  <1>5. key' = key
    BY DEF vars, procVars
  <1>6. DecPacketHeld(d)'
    BY <1>1, <1>2, <1>3 DEF DecPacketHeld
  <1>7. DecKeys(d)'
    BY <1>1, <1>2, <1>3, <1>5 DEF DecKeys
  <1> QED
    BY <1>1, <1>2, <1>3, <1>4, <1>6, <1>7, DecEarlyStep DEF DecTypes

LEMMA DecAskStep ==
    ASSUME SInv, NEW d \in Decs, DecAsk(d)
    PROVE  SInv'
  <1>1. /\ DecTypes(d) /\ DecPacketHeld(d) /\ DecKeys(d)
        /\ DOMAIN dec = Decs /\ DOMAIN out = Decs
    BY DEF SInv, DecInv
  <1>2. /\ UNCHANGED <<vars, enc, box, out>> /\ dec[d].pc = "new"
        /\ box[dec[d].of] # Absent /\ key' = key
    BY DEF DecAsk, vars, procVars
  <1>3. ASSUME DecFrame(d), DecKeeps(d, {"pc", "phrase"}), dec'[d].pc = "packet",
               dec'[d].phrase \in Locks
        PROVE  SInv'
    <2>1. /\ dec'[d].of = dec[d].of /\ dec'[d].as = dec[d].as
          /\ dec'[d].packet = dec[d].packet
          /\ dec'[d].x = dec[d].x /\ dec'[d].kem = dec[d].kem
      BY <1>3 DEF DecKeeps, DecFields
    <2>2. DecKeeps(d, {"pc", "error", "phrase", "packet", "x", "kem"})
      BY <1>3 DEF DecKeeps
    <2>3. DecPacketHeld(d)'
      BY <1>1, <1>2, <1>3, <2>1 DEF DecPacketHeld
    <2>4. DecKeys(d)'
      BY <1>1, <1>2, <1>3, <2>1 DEF DecKeys
    <2> QED
      BY <1>1, <1>2, <1>3, <2>1, <2>2, <2>3, <2>4, DecEarlyStep DEF DecTypes
  <1>4. CASE dec' = [dec EXCEPT ![d].pc = "packet"]
    <2>1. DecFrame(d) /\ DecKeeps(d, {"pc", "phrase"}) /\ dec'[d].pc = "packet"
      BY <1>1, <1>2, <1>4 DEF DecFrame, DecTypes, DecFields, DecKeeps
    <2>2. dec'[d].phrase = dec[d].phrase
      BY <1>1, <1>4 DEF DecTypes, DecFields
    <2> QED
      BY <1>1, <1>3, <2>1, <2>2 DEF DecTypes
  <1>5. ASSUME NEW phrase \in Passphrases,
               dec' = [dec EXCEPT ![d].pc = "packet", ![d].phrase = phrase]
        PROVE  SInv'
    <2>1. DecFrame(d) /\ DecKeeps(d, {"pc", "phrase"}) /\ dec'[d].pc = "packet"
          /\ dec'[d].phrase = phrase
      BY <1>1, <1>2, <1>5 DEF DecFrame, DecTypes, DecFields, DecKeeps
    <2> QED
      BY <1>3, <2>1 DEF Locks
  <1>6. CASE DecFail(d, ProtectedAnswer(FileOf(dec[d].as, XPriv)))
    BY <1>2, <1>6, DecFailMove
  <1> QED
    BY <1>4, <1>5, <1>6 DEF DecAsk

\* What is loaded from a packet file is what an encryption wrote there.
LEMMA DecPacketStep ==
    ASSUME SInv, NEW d \in Decs, DecPacket(d)
    PROVE  SInv'
  <1> DEFINE e == dec[d].of
  <1>1. /\ DecTypes(d) /\ DecPacketHeld(d) /\ DecKeys(d)
        /\ DOMAIN dec = Decs /\ DOMAIN out = Decs /\ e \in Encs
    BY DEF SInv, DecInv, DecTypes
  <1>2. /\ UNCHANGED <<vars, enc, box, out>> /\ dec[d].pc = "packet" /\ key' = key
        /\ box[e] # Absent
    BY <1>1 DEF DecPacket, DecPacketHeld, vars, procVars
  <1>3. CASE \E error : DecFail(d, error)
    BY <1>2, <1>3, DecFailMove
  <1>4. CASE /\ box[e] # Torn
             /\ dec' = [dec EXCEPT ![d].pc = "xpriv", ![d].packet = box[e]]
    <2>1. box[e] = enc[e].packet
      BY <1>1, <1>2, <1>4 DEF SInv, EncInv, EncBox
    <2>2. /\ DecFrame(d) /\ DecKeeps(d, {"pc", "packet"}) /\ dec'[d].pc = "xpriv"
          /\ dec'[d].packet = box[e]
      BY <1>1, <1>2, <1>4 DEF DecFrame, DecTypes, DecFields, DecKeeps
    <2>3. /\ dec'[d].of = dec[d].of /\ dec'[d].as = dec[d].as
          /\ dec'[d].phrase = dec[d].phrase
          /\ dec'[d].x = dec[d].x /\ dec'[d].kem = dec[d].kem
      BY <2>2 DEF DecKeeps, DecFields
    <2>4. DecKeeps(d, {"pc", "error", "phrase", "packet", "x", "kem"})
      BY <2>2 DEF DecKeeps
    <2>5. DecPacketHeld(d)'
      BY <1>2, <2>1, <2>2, <2>3 DEF DecPacketHeld
    <2>6. DecKeys(d)'
      BY <1>1, <1>2, <2>2, <2>3 DEF DecKeys
    <2> QED
      BY <1>1, <1>2, <2>2, <2>3, <2>4, <2>5, <2>6, DecEarlyStep DEF DecTypes
  <1>5. DecPacket(d) => (\E error : DecFail(d, error))
                     \/ /\ box[e] # Torn
                        /\ dec' = [dec EXCEPT ![d].pc = "xpriv", ![d].packet = box[e]]
    <2>1. DecPacket(d) =>
             \/ DecFail(d, "ValidationError")
             \/ DecFail(d, "PacketValidationError")
             \/ DecFail(d, FromJson(box[e].body))
             \/ box[e] # Torn /\ dec' = [dec EXCEPT ![d].pc = "xpriv", ![d].packet = box[e]]
      BY DEF DecPacket
    <2> QED
      BY <2>1
  <1> QED
    BY <1>3, <1>4, <1>5

\* A load of a private key: the key is kept, or the decryption fails.
DecLoads(d, f, field, next) ==
    /\ f.text = "full"
    /\ dec'[d][field] = f.by /\ dec'[d].pc = next
    /\ DecKeeps(d, {"pc", field})

DecShape(d) ==
    /\ DOMAIN dec' = Decs /\ DOMAIN dec'[d] = DecFields
    /\ \A g \in Decs \ {d} : dec'[g] = dec[g]

LEMMA DecLoadStep ==
    ASSUME SInv, NEW d \in Decs, NEW n \in Spellings, NEW s \in Slots, NEW next,
           NEW field \in {"x", "kem"},
           DecLoad(d, FileOf(n, s), field, next)
    PROVE  \/ DecShape(d) /\ DecLoads(d, FileOf(n, s), field, next)
           \/ /\ LoadPrivate(FileOf(n, s), dec[d].phrase) # "ok"
              /\ DecFail(d, LoadPrivate(FileOf(n, s), dec[d].phrase))
  <1> DEFINE outcome == LoadPrivate(FileOf(n, s), dec[d].phrase)
  <1>1. DOMAIN dec = Decs /\ DOMAIN dec[d] = DecFields
    BY DEF SInv, DecInv, DecTypes
  <1>2. CASE outcome = "ok"
    <2>1. dec' = [dec EXCEPT ![d][field] = FileOf(n, s).by, ![d].pc = next]
      BY <1>2 DEF DecLoad
    <2>2. FileOf(n, s).text = "full"
      BY <1>2, FileOfType, LoadPrivateOK DEF SInv
    <2> QED
      BY <1>1, <2>1, <2>2 DEF DecFields, DecKeeps, DecShape, DecLoads
  <1>3. CASE outcome # "ok"
    BY <1>3 DEF DecLoad
  <1> QED
    BY <1>2, <1>3

LEMMA DecLoadMove ==
    ASSUME SInv, NEW d \in Decs, NEW s \in Slots, NEW field \in {"x", "kem"},
           NEW next \in {"kpriv", "decrypt"},
           DecLoad(d, FileOf(dec[d].as, s), field, next), UNCHANGED <<vars, enc, box, out>>,
           dec[d].pc \in {"xpriv", "kpriv"},
           dec[d].pc = "kpriv" => field = "kem" /\ next = "decrypt",
           dec[d].pc = "xpriv" => field = "x",
           next = "kpriv" => IsHybrid(dec[d].packet),
           dec[d].pc = "xpriv" /\ next = "decrypt" => ~IsHybrid(dec[d].packet)
    PROVE  SInv'
  <1>1. /\ DecTypes(d) /\ DecPacketHeld(d) /\ DecKeys(d) /\ IInv
        /\ DOMAIN dec = Decs /\ DOMAIN out = Decs
    BY DEF SInv, DecInv
  <1>2. key' = key /\ box[dec[d].of] # Absent
    BY <1>1 DEF vars, procVars, DecPacketHeld
  <1> DEFINE f == FileOf(dec[d].as, s)
  <1>3. CASE DecShape(d) /\ DecLoads(d, f, field, next)
    <2>1. /\ f.text = "full" /\ dec'[d][field] = f.by
          /\ dec'[d].pc = next /\ DecKeeps(d, {"pc", field}) /\ DecFrame(d)
      BY <1>1, <1>3 DEF DecLoads, DecShape, DecFrame
    <2>2. dec[d].as \in KeyIds /\ f.by \in Runs /\ key[f.by] = dec[d].as
      BY <1>1, <2>1, Loaded DEF DecTypes
    <2> HIDE DEF f
    <2>3. /\ dec'[d].of = dec[d].of /\ dec'[d].as = dec[d].as
          /\ dec'[d].phrase = dec[d].phrase /\ dec'[d].packet = dec[d].packet
      BY <2>1 DEF DecKeeps, DecFields
    <2>4. DecKeeps(d, {"pc", "error", "phrase", "packet", "x", "kem"})
      BY <2>1 DEF DecKeeps
    <2>5. DecPacketHeld(d)'
      BY <1>1, <1>2, <2>1, <2>3 DEF DecPacketHeld
    <2>6. /\ dec'[d].x \in Runs /\ key[dec'[d].x] = dec[d].as
          /\ dec'[d].kem \in Runs \union {Absent}
      <3>1. CASE field = "x"
        BY <1>1, <2>1, <2>2, <3>1 DEF DecKeeps, DecFields, DecTypes
      <3>2. CASE field = "kem"
        <4>1. dec'[d].x = dec[d].x /\ dec'[d].kem = f.by
          BY <2>1, <3>2 DEF DecKeeps, DecFields
        <4>2. dec[d].x \in Runs /\ key[dec[d].x] = dec[d].as
          BY <1>1, <3>2 DEF DecTypes, DecKeys
        <4> QED
          BY <2>2, <4>1, <4>2
      <3> QED
        BY <3>1, <3>2
    <2>7. dec[d].pc = "kpriv" => dec'[d].kem # Absent
      BY <2>1, <2>2, Markers
    <2>8. DecKeys(d)'
      BY <1>1, <1>2, <2>1, <2>2, <2>3, <2>6, <2>7, Markers DEF DecKeys
    <2> QED
      BY <1>1, <2>1, <2>3, <2>4, <2>5, <2>6, <2>8, DecEarlyStep DEF DecTypes
  <1>4. CASE \E error : DecFail(d, error)
    BY <1>2, <1>4, DecFailMove
  <1>5. dec[d].as \in Spellings
    BY <1>1 DEF DecTypes
  <1> QED
    BY <1>3, <1>4, <1>5, DecLoadStep

LEMMA DecReadSteps ==
    ASSUME SInv, NEW d \in Decs, DecKey(d) \/ DecKemKey(d)
    PROVE  SInv'
  <1>1. XPriv \in Slots /\ MPriv \in Slots
    BY DEF Slots, XPriv, MPriv, EPub
  <1>2. CASE DecKey(d)
    <2>1. dec[d].pc = "xpriv" /\ UNCHANGED <<vars, enc, box, out>>
      BY <1>2 DEF DecKey
    <2>2. CASE IsHybrid(dec[d].packet)
      <3>1. DecLoad(d, FileOf(dec[d].as, XPriv), "x", "kpriv")
        BY <1>2, <2>2 DEF DecKey
      <3> QED
        BY <1>1, <2>1, <2>2, <3>1, DecLoadMove
    <2>3. CASE ~IsHybrid(dec[d].packet)
      <3>1. DecLoad(d, FileOf(dec[d].as, XPriv), "x", "decrypt")
        BY <1>2, <2>3 DEF DecKey
      <3> QED
        BY <1>1, <2>1, <2>3, <3>1, DecLoadMove
    <2> QED
      BY <2>2, <2>3
  <1>3. CASE DecKemKey(d)
    <2>1. /\ dec[d].pc = "kpriv" /\ UNCHANGED <<vars, enc, box, out>>
          /\ DecLoad(d, FileOf(dec[d].as, MPriv), "kem", "decrypt")
      BY <1>3 DEF DecKemKey
    <2> QED
      BY <1>1, <2>1, DecLoadMove
  <1> QED
    BY <1>2, <1>3

\* The packet an encryption made opens with no keys but those it was made of.
LEMMA OpenedWith ==
    ASSUME NEW p, NEW e, NEW c, NEW xpriv, NEW kpriv, MadeFrom(p, e, c), Authentic(p, xpriv, kpriv)
    PROVE  xpriv = c.x /\ (IsHybrid(p) => kpriv = c.kem)
  <1> DEFINE x == c.x
             k == c.kem
             from == c.from
             to == c.to
  <1>1. Sealed(p.body, e, e, from, to, x, k)
    BY DEF MadeFrom, MadeOf
  <1> HIDE DEF x, k, from, to
  <1>2. xpriv = x /\ (IsHybrid(p) => kpriv = k)
    BY <1>1, OnlyMatchingKeys
  <1> QED
    BY <1>2 DEF x, k

\* decrypt accepts the packet of encryption e only with the keys it was made for,
\* and only if the two signing files were halves of one pair.
LEMMA OkMeansMatching ==
    ASSUME SInv, NEW d \in Decs, dec[d].pc = "decrypt",
           DecryptOutcome(dec[d].packet, dec[d].x, dec[d].kem, oqs) = "ok"
    PROVE  Matching(d, dec[d].of)
  <1> DEFINE e == dec[d].of
             p == dec[d].packet
  <1>1. /\ DecTypes(d) /\ DecPacketHeld(d) /\ DecKeys(d) /\ e \in Encs /\ oqs \in BOOLEAN
    BY DEF SInv, DecInv, DecTypes, IInv, TypeOK
  <1>2. p # Absent /\ dec[d].x # Absent /\ p = enc[e].packet
    BY <1>1 DEF DecPacketHeld, DecKeys
  <1>3. MadeFrom(p, e, enc[e])
    BY <1>1, <1>2 DEF SInv, EncInv, EncPacket
  <1>4. /\ Sealed(p.body, e, e, enc[e].from, enc[e].to, enc[e].x, enc[e].kem)
        /\ Signed(p, enc[e].spriv, enc[e].spub)
        /\ IsSigned(p) =>
              p.signature \notin Malformed \union {Empty} /\ p.signer \notin Malformed
    BY <1>3 DEF MadeFrom, MadeOf, Sound
  <1>5. Authentic(p, dec[d].x, dec[d].kem) /\ SignatureOutcome(p) = "ok"
    BY <1>1, DecryptOK
  <1>6. dec[d].x = enc[e].x /\ (IsHybrid(p) => dec[d].kem = enc[e].kem)
    BY <1>3, <1>5, OpenedWith
  <1>7. IsSigned(p) => enc[e].spriv = enc[e].spub
    BY <1>4, <1>5, SignedRoundTrip
  <1> QED
    BY <1>2, <1>6, <1>7 DEF Matching

\* The output is opened, and filled, once the packet has been decrypted.
LEMMA DecLateStep ==
    ASSUME SInv, NEW d \in Decs, DecFrame(d), DecKeeps(d, {"pc", "error"}),
           dec[d].pc # "new", dec'[d].pc \in {"open", "fill", "done", "failed", "dead"},
           dec'[d].pc \notin {"failed", "dead"} =>
              dec[d].packet # Absent /\ Matching(d, dec[d].of),
           out'[d] \in {Absent, Torn, dec[d].of}, dec'[d].pc = "open" => out'[d] = Absent,
           dec'[d].pc = "fill" => out'[d] = Torn,
           dec'[d].pc \in {"failed", "dead"} => out'[d] = out[d],
           dec'[d].pc = "failed" => out'[d] # dec[d].of /\ dec'[d].error = "OSError"
    PROVE  SInv'
  <1>1. DecTypes(d) /\ DecPacketHeld(d) /\ DecKeys(d) /\ DecOut(d)
    BY DEF SInv, DecInv
  <1>2. /\ dec'[d].of = dec[d].of /\ dec'[d].as = dec[d].as /\ dec'[d].phrase = dec[d].phrase
        /\ dec'[d].packet = dec[d].packet
        /\ dec'[d].x = dec[d].x /\ dec'[d].kem = dec[d].kem
        /\ DOMAIN dec'[d] = DecFields
    BY DEF DecKeeps, DecFields, DecFrame
  <1>3. UNCHANGED <<enc, box, key>>
    BY DEF DecFrame, vars, procVars
  <1>4. DecTypes(d)' /\ DecKeys(d)'
    BY <1>1, <1>2, <1>3 DEF DecTypes, DecKeys, DecPcs, DecEnded
  <1>5. DecPacketHeld(d)'
    BY <1>1, <1>2, <1>3 DEF DecPacketHeld
  <1>6. Matching(d, dec[d].of) => Matching(d, dec[d].of)'
    BY <1>2, <1>3 DEF Matching
  <1>7. DecOut(d)'
    BY <1>1, <1>2, <1>6 DEF DecOut, DecEnded
  <1>8. DecInv(d)'
    BY <1>4, <1>5, <1>7 DEF DecInv
  <1> QED
    BY <1>8, DecMove

LEMMA DecLateSteps ==
    ASSUME SInv, NEW d \in Decs,
           DecDecrypt(d) \/ DecOpen(d) \/ DecFill(d) \/ DecIOError(d) \/ DecDie(d)
    PROVE  SInv'
  <1> DEFINE e == dec[d].of
  <1>1. /\ DecTypes(d) /\ DecPacketHeld(d) /\ DecOut(d) /\ e \in Encs
        /\ DOMAIN dec = Decs /\ DOMAIN out = Decs
    BY DEF SInv, DecInv, DecTypes
  <1>2. CASE DecDecrypt(d)
    <2>1. dec[d].pc = "decrypt" /\ UNCHANGED <<vars, enc, box, out>>
      BY <1>2 DEF DecDecrypt
    <2>2. box[e] # Absent /\ dec[d].packet # Absent /\ out[d] = Absent
      BY <1>1, <2>1 DEF DecPacketHeld, DecOut, DecEnded
    <2>3. CASE DecryptOutcome(dec[d].packet, dec[d].x, dec[d].kem, oqs) = "ok"
      <3>1. dec' = [dec EXCEPT ![d].pc = "open"]
        BY <1>2, <2>3 DEF DecDecrypt
      <3>2. DecFrame(d) /\ DecKeeps(d, {"pc", "error"}) /\ dec'[d].pc = "open" /\ out'[d] = Absent
        BY <1>1, <2>1, <2>2, <3>1 DEF DecFrame, DecTypes, DecFields, DecKeeps
      <3> QED
        BY <2>1, <2>2, <2>3, <3>2, OkMeansMatching, DecLateStep
    <2>4. CASE DecryptOutcome(dec[d].packet, dec[d].x, dec[d].kem, oqs) # "ok"
      <3>1. \E error : DecFail(d, error)
        BY <1>2, <2>4 DEF DecDecrypt
      <3> QED
        BY <2>1, <2>2, <3>1, DecFailMove
    <2> QED
      BY <2>3, <2>4
  <1>3. CASE DecOpen(d)
    <2>1. /\ DecFrame(d) /\ DecKeeps(d, {"pc", "error"}) /\ dec[d].pc = "open"
          /\ dec'[d].pc = "fill" /\ out'[d] = Torn
      BY <1>1, <1>3 DEF DecOpen, DecFrame, DecTypes, DecFields, DecKeeps
    <2>2. dec[d].packet # Absent /\ Matching(d, e)
      BY <1>1, <2>1 DEF DecPacketHeld, DecOut
    <2> QED
      BY <2>1, <2>2, DecLateStep
  <1>4. CASE DecFill(d)
    <2>1. /\ DecFrame(d) /\ DecKeeps(d, {"pc", "error"}) /\ dec[d].pc = "fill"
          /\ dec'[d].pc = "done" /\ out'[d] = dec[d].packet.body.ciphertext.plaintext
      BY <1>1, <1>4 DEF DecFill, DecFrame, DecTypes, DecFields, DecKeeps
    <2>2. dec[d].packet # Absent /\ Matching(d, e) /\ dec[d].packet = enc[e].packet
      BY <1>1, <2>1 DEF DecPacketHeld, DecOut
    <2>3. MadeFrom(dec[d].packet, e, enc[e])
      BY <1>1, <2>2 DEF SInv, EncInv, EncPacket
    <2>4. out'[d] = e
      BY <2>1, <2>3 DEF MadeFrom, MadeOf, Sealed, Seal
    <2> QED
      BY <2>1, <2>2, <2>4, DecLateStep
  <1>5. CASE DecIOError(d)
    <2>1. /\ DecFrame(d) /\ DecKeeps(d, {"pc", "error"}) /\ dec[d].pc \notin {"new"} \union DecEnded
          /\ dec'[d].pc = "failed" /\ dec'[d].error = "OSError" /\ out'[d] = out[d]
      BY <1>1, <1>5 DEF DecIOError, DecFail, DecFrame, DecTypes, DecFields, DecKeeps
    <2>2. out[d] \in {Absent, Torn}
      BY <1>1, <2>1 DEF DecOut
    <2>3. out[d] # e
      BY <1>1, <2>2, Markers
    <2> QED
      BY <2>1, <2>2, <2>3, DecLateStep DEF DecEnded
  <1>6. CASE DecDie(d)
    <2>1. /\ DecFrame(d) /\ DecKeeps(d, {"pc", "error"}) /\ dec[d].pc # "new"
          /\ dec'[d].pc = "dead" /\ out'[d] = out[d]
      BY <1>1, <1>6 DEF DecDie, DecFrame, DecTypes, DecFields, DecKeeps
    <2> QED
      BY <1>1, <2>1, DecLateStep DEF DecOut
  <1> QED
    BY <1>2, <1>3, <1>4, <1>5, <1>6

-----------------------------------------------------------------------------
(***************************************************************************)
(* The invariant.                                                          *)
(***************************************************************************)
LEMMA InitSInv ==
    ASSUME SessionInit
    PROVE  SInv
  <1>1. IInv
    BY InitIInv DEF SessionInit
  <1>2. PICK from \in [Encs -> Spellings], to \in [Encs -> Spellings] :
           enc = [e \in Encs |-> NewEnc(from[e], to[e])]
    BY DEF SessionInit
  <1>3. PICK of \in [Decs -> Encs], as \in [Decs -> Spellings] :
           dec = [d \in Decs |-> NewDec(of[d], as[d])]
    BY DEF SessionInit
  <1>4. box = [e \in Encs |-> Absent] /\ out = [d \in Decs |-> Absent]
    BY DEF SessionInit
  <1>5. ASSUME NEW e \in Encs
        PROVE  EncInv(e)
    <2>1. enc[e] = NewEnc(from[e], to[e]) /\ box[e] = Absent
      BY <1>2, <1>4
    <2> QED
      BY <2>1 DEF NewEnc, EncInv, EncTypes, EncKey, EncPacket, EncBox, EncFields, EncPcs
  <1>6. ASSUME NEW d \in Decs
        PROVE  DecInv(d)
    <2>1. dec[d] = NewDec(of[d], as[d]) /\ out[d] = Absent
      BY <1>3, <1>4
    <2>2. NoPass \in Locks
      BY DEF Locks
    <2>3. of[d] \in Encs /\ as[d] \in Spellings
      BY <1>3
    <2>4. DecTypes(d)
      <3>1. /\ dec[d].pc = "new" /\ dec[d].of = of[d] /\ dec[d].as = as[d]
            /\ dec[d].phrase = NoPass /\ dec[d].x = Absent /\ dec[d].kem = Absent
        BY <2>1 DEF NewDec
      <3>2. DOMAIN dec[d] = DecFields
        BY <2>1 DEF NewDec, DecFields
      <3> QED
        BY <2>2, <2>3, <3>1, <3>2 DEF DecTypes, DecPcs
    <2>5. DecPacketHeld(d) /\ DecKeys(d) /\ DecOut(d)
      BY <2>1, Markers DEF NewDec, DecPacketHeld, DecKeys, DecOut
    <2> QED
      BY <2>4, <2>5 DEF DecInv
  <1> QED
    BY <1>1, <1>2, <1>3, <1>4, <1>5, <1>6 DEF SInv

LEMMA StepSInv ==
    ASSUME SInv, [SessionNext]_allVars
    PROVE  SInv'
  <1>1. CASE Next /\ UNCHANGED sessionVars
    BY <1>1, KeygenMove
  <1>2. ASSUME NEW e \in Encs, EncStep(e) \/ EncIOError(e) \/ EncDie(e)
        PROVE  SInv'
    <2>1. CASE EncStart(e)
      BY <2>1, EncStartStep
    <2>2. CASE EncRecipient(e) \/ EncRecipientKem(e) \/ EncSender(e) \/ EncSenderPub(e)
      BY <2>2, EncReadSteps
    <2>3. CASE EncSeal(e)
      BY <2>3, EncSealStep
    <2>4. CASE EncOpen(e) \/ EncFill(e) \/ EncChmod(e) \/ EncIOError(e) \/ EncDie(e)
      BY <2>4, EncLateSteps
    <2> QED
      BY <1>2, <2>1, <2>2, <2>3, <2>4 DEF EncStep, EncWork
  <1>3. ASSUME NEW d \in Decs, DecStep(d) \/ DecIOError(d) \/ DecDie(d)
        PROVE  SInv'
    <2>1. CASE DecAsk(d)
      BY <2>1, DecAskStep
    <2>2. CASE DecPacket(d)
      BY <2>2, DecPacketStep
    <2>3. CASE DecKey(d) \/ DecKemKey(d)
      BY <2>3, DecReadSteps
    <2>4. CASE DecDecrypt(d) \/ DecOpen(d) \/ DecFill(d) \/ DecIOError(d) \/ DecDie(d)
      BY <2>4, DecLateSteps
    <2> QED
      BY <1>3, <2>1, <2>2, <2>3, <2>4 DEF DecStep, DecWork
  <1>4. CASE UNCHANGED allVars
    <2>1. IInv'
      BY <1>4, StepIInv DEF SInv, allVars
    <2>2. UNCHANGED <<key, enc, dec, box, out>>
      BY <1>4 DEF allVars, vars, procVars, sessionVars
    <2>3. ASSUME NEW e \in Encs
          PROVE  EncInv(e)'
      <3>1. EncInv(e)
        BY DEF SInv
      <3> QED
        BY <3>1, <2>2 DEF EncInv, EncTypes, EncKey, EncPacket, EncBox
    <2>4. ASSUME NEW d \in Decs
          PROVE  DecInv(d)'
      <3>1. DecInv(d)
        BY DEF SInv
      <3> QED
        BY <3>1, <2>2 DEF DecInv, DecTypes, DecPacketHeld, DecKeys, DecOut, Matching
    <2> QED
      BY <2>1, <2>2, <2>3, <2>4 DEF SInv
  <1> QED
    BY <1>1, <1>2, <1>3, <1>4 DEF SessionNext

THEOREM SessionInvariant == SessionSpec => []SInv
  BY InitSInv, StepSInv, PTL DEF SessionSpec

-----------------------------------------------------------------------------
(***************************************************************************)
(* The theorems.                                                           *)
(***************************************************************************)
LEMMA SInvTypeOK ==
    ASSUME SInv
    PROVE  SessionTypeOK
  <1>1. ASSUME NEW e \in Encs
        PROVE  /\ enc[e].pc \in EncPcs
               /\ {enc[e].from, enc[e].to} \subseteq Spellings
               /\ {enc[e].x, enc[e].kem, enc[e].spriv, enc[e].spub} \subseteq Runs \union {Absent}
               /\ box[e] \in {Absent, Torn, enc[e].packet}
    BY DEF SInv, EncInv, EncTypes, EncBox
  <1>2. ASSUME NEW d \in Decs
        PROVE  /\ dec[d].pc \in DecPcs
               /\ dec[d].of \in Encs /\ dec[d].as \in Spellings /\ dec[d].phrase \in Locks
               /\ {dec[d].x, dec[d].kem} \subseteq Runs \union {Absent}
               /\ out[d] \in Encs \union {Absent, Torn}
    BY DEF SInv, DecInv, DecTypes, DecOut
  <1> QED
    BY <1>1, <1>2 DEF SessionTypeOK, SInv, IInv

LEMMA SInvMatching ==
    ASSUME SInv
    PROVE  OutputImpliesMatchingKeys
  BY DEF SInv, DecInv, DecOut, Matching, OutputImpliesMatchingKeys

LEMMA SInvRefusal ==
    ASSUME SInv
    PROVE  RefusalLeavesOutput
  BY DEF SInv, DecInv, DecOut, RefusalLeavesOutput

\* Processes, keys, packet files and output files hold values of their types,
\* however commands overlap and die.
THEOREM SessionTypeCorrect == SessionSpec => []SessionTypeOK
  BY SessionInvariant, SInvTypeOK, PTL

\* An output file is opened only by a process that holds the very keys the packet
\* was made for, and only if a signature was made by one pair: decrypt_file
\* writes last.
THEOREM NoMixedGenerations == SessionSpec => []OutputImpliesMatchingKeys
  BY SessionInvariant, SInvMatching, PTL

\* Whatever decrypt finds wrong with its arguments, the packet or a key, it has
\* not touched the output file when it says so; only a system call that fails may
\* be reported over an output that was opened for writing, and that is never a
\* whole plaintext.
THEOREM RefusalsWriteNothing == SessionSpec => []RefusalLeavesOutput
  BY SessionInvariant, SInvRefusal, PTL

-----------------------------------------------------------------------------
(***************************************************************************)
(* The refinement of Mail.                                                 *)
(***************************************************************************)
\* The command lines: what a process was asked to do does not change.
Asked ==
    /\ \A e \in Encs : enc'[e].to = enc[e].to
    /\ \A d \in Decs : dec'[d].of = dec[d].of /\ dec'[d].as = dec[d].as

LEMMA StepAsked ==
    ASSUME SInv, [SessionNext]_allVars
    PROVE  Asked
  <1>1. /\ \A e \in Encs : DOMAIN enc[e] = EncFields
        /\ \A d \in Decs : DOMAIN dec[d] = DecFields
        /\ DOMAIN enc = Encs /\ DOMAIN dec = Decs
    BY DEF SInv, EncInv, EncTypes, DecInv, DecTypes
  <1>2. CASE (Next /\ UNCHANGED sessionVars) \/ UNCHANGED allVars
    BY <1>2 DEF Asked, sessionVars, allVars
  <1>3. ASSUME NEW e \in Encs, EncStep(e) \/ EncIOError(e) \/ EncDie(e)
        PROVE  Asked
    <2>1. dec' = dec
      BY <1>3 DEF EncStep, EncWork, EncIOError, EncDie, EncStart, EncRecipient, EncRecipientKem, EncSender,
                  EncSenderPub, EncSeal, EncOpen, EncFill, EncChmod
    <2>2. \A g \in Encs : enc'[g].to = enc[g].to
      <3>1. CASE EncStart(e)
        BY <1>1, <3>1 DEF EncStart, EncFail, EncFields
      <3>2. CASE EncRecipient(e)
        BY <1>1, <3>2 DEF EncRecipient, EncLoad, EncFail, EncFields
      <3>3. CASE EncRecipientKem(e)
        BY <1>1, <3>3 DEF EncRecipientKem, EncLoad, EncFail, EncFields
      <3>4. CASE EncSender(e)
        BY <1>1, <3>4 DEF EncSender, EncLoad, EncFail, EncFields
      <3>5. CASE EncSenderPub(e)
        BY <1>1, <3>5 DEF EncSenderPub, EncLoad, EncFail, EncFields
      <3>6. CASE EncSeal(e)
        BY <1>1, <3>6 DEF EncSeal, EncFail, EncFields
      <3>7. CASE EncOpen(e) \/ EncFill(e) \/ EncChmod(e)
        BY <1>1, <3>7 DEF EncOpen, EncFill, EncChmod, EncFields
      <3>8. CASE EncIOError(e) \/ EncDie(e)
        BY <1>1, <3>8 DEF EncIOError, EncFail, EncDie, EncFields
      <3> QED
        BY <1>3, <3>1, <3>2, <3>3, <3>4, <3>5, <3>6, <3>7, <3>8 DEF EncStep, EncWork
    <2> QED
      BY <2>1, <2>2 DEF Asked
  <1>4. ASSUME NEW d \in Decs, DecStep(d) \/ DecIOError(d) \/ DecDie(d)
        PROVE  Asked
    <2>1. enc' = enc
      BY <1>4 DEF DecStep, DecWork, DecIOError, DecDie, DecAsk, DecPacket, DecKey, DecKemKey,
                  DecDecrypt, DecOpen, DecFill
    <2>2. \A g \in Decs : dec'[g].of = dec[g].of /\ dec'[g].as = dec[g].as
      <3>1. CASE DecAsk(d)
        BY <1>1, <3>1 DEF DecAsk, DecFail, DecFields
      <3>2. CASE DecPacket(d)
        BY <1>1, <3>2 DEF DecPacket, DecFail, DecFields
      <3>3. CASE DecKey(d)
        BY <1>1, <3>3 DEF DecKey, DecLoad, DecFail, DecFields
      <3>4. CASE DecKemKey(d)
        BY <1>1, <3>4 DEF DecKemKey, DecLoad, DecFail, DecFields
      <3>5. CASE DecDecrypt(d)
        BY <1>1, <3>5 DEF DecDecrypt, DecFail, DecFields
      <3>6. CASE DecOpen(d) \/ DecFill(d)
        BY <1>1, <3>6 DEF DecOpen, DecFill, DecFields
      <3>7. CASE DecIOError(d) \/ DecDie(d)
        BY <1>1, <3>7 DEF DecIOError, DecFail, DecDie, DecFields
      <3> QED
        BY <1>4, <3>1, <3>2, <3>3, <3>4, <3>5, <3>6, <3>7 DEF DecStep, DecWork
    <2> QED
      BY <2>1, <2>2 DEF Asked
  <1> QED
    BY <1>2, <1>3, <1>4 DEF SessionNext

\* What Mail sees of the files.
Sent == {e \in Encs : box[e] \notin {Absent, Torn}}
Got  == [d \in Decs |-> IF out[d] = Torn THEN Absent ELSE out[d]]

\* A process that writes neither a packet file nor an output file stutters.
LEMMA StutterMail ==
    ASSUME Asked, UNCHANGED <<Sent, Got>>
    PROVE  UNCHANGED AbstractMail!mailVars
  BY DEF Asked, Sent, Got, AbstractMail!mailVars

\* Writing into a file of a packet: open sends nothing, the write sends the message.
LEMMA MailSend ==
    ASSUME SInv, Asked, NEW e \in Encs, EncOpen(e) \/ EncFill(e)
    PROVE  AbstractMail!MailNext \/ UNCHANGED AbstractMail!mailVars
  <1>1. EncBox(e) /\ EncPacket(e) /\ DOMAIN box = Encs
    BY DEF SInv, EncInv
  <1>2. Got' = Got
    BY DEF EncOpen, EncFill, Got
  <1>3. CASE EncOpen(e)
    <2>1. box[e] = Absent /\ box'[e] = Torn /\ \A g \in Encs \ {e} : box'[g] = box[g]
      BY <1>1, <1>3 DEF EncOpen, EncBox, EncEnded
    <2>2. Sent' = Sent
      BY <2>1 DEF Sent
    <2> QED
      BY <1>2, <2>2, StutterMail
  <1>4. CASE EncFill(e)
    <2>1. box[e] = Torn /\ box'[e] = enc[e].packet /\ \A g \in Encs \ {e} : box'[g] = box[g]
      BY <1>1, <1>4 DEF EncFill, EncBox
    <2>2. enc[e].packet \notin {Absent, Torn}
      BY <1>1, <1>4 DEF EncFill, EncPacket, MadeFrom, MadeOf, Sound
    <2>3. e \notin Sent /\ Sent' = Sent \union {e}
      BY <2>1, <2>2 DEF Sent
    <2>4. AbstractMail!Send(e)
      BY <1>2, <2>3 DEF AbstractMail!Send, Sent, Got, Asked
    <2> QED
      BY <2>4 DEF AbstractMail!MailNext
  <1> QED
    BY <1>3, <1>4

\* Writing the output: open delivers nothing, the write delivers the message to
\* the one it was addressed to, whose X25519 key it takes to open the packet.
LEMMA MailReceive ==
    ASSUME SInv, Asked, NEW d \in Decs, DecOpen(d) \/ DecFill(d)
    PROVE  AbstractMail!MailNext \/ UNCHANGED AbstractMail!mailVars
  <1> DEFINE e == dec[d].of
  <1>1. /\ DecTypes(d) /\ DecPacketHeld(d) /\ DecKeys(d) /\ DecOut(d) /\ DOMAIN out = Decs
        /\ e \in Encs /\ EncInv(e)
    BY DEF SInv, DecInv, DecTypes
  <1>2. Sent' = Sent
    BY DEF DecOpen, DecFill, Sent
  <1>3. CASE DecOpen(d)
    <2>1. out[d] = Absent /\ out'[d] = Torn /\ \A g \in Decs \ {d} : out'[g] = out[g]
      BY <1>1, <1>3 DEF DecOpen, DecOut, DecEnded
    <2>2. Got' = Got
      BY <2>1 DEF Got
    <2> QED
      BY <1>2, <2>2, StutterMail
  <1>4. CASE DecFill(d)
    <2>1. out[d] = Torn /\ \A g \in Decs \ {d} : out'[g] = out[g]
      BY <1>1, <1>4 DEF DecFill, DecOut
    <2>2. Matching(d, e) /\ dec[d].packet = enc[e].packet /\ box[e] = enc[e].packet
      BY <1>1, <1>4 DEF DecFill, DecOut, DecPacketHeld, Matching
    <2>3. MadeFrom(dec[d].packet, e, enc[e]) /\ enc[e].x # Absent
      BY <1>1, <2>2 DEF EncInv, EncPacket, Matching
    <2>4. out'[d] = e
      BY <1>1, <1>4, <2>3 DEF DecFill, MadeFrom, MadeOf, Sealed, Seal
    <2>5. e \in Sent
      BY <1>1, <2>2, <2>3 DEF Sent, MadeFrom, MadeOf, Sound
    <2>6. enc[e].to = dec[d].as
      BY <1>1, <2>2, <2>3 DEF Matching, EncInv, EncKey, DecKeys
    <2>7. Got[d] = Absent /\ Got' = [Got EXCEPT ![d] = e]
      <3>1. e # Torn
        BY <1>1, Markers
      <3> QED
        BY <2>1, <2>4, <3>1 DEF Got
    <2>8. AbstractMail!Receive(d)
      BY <1>2, <2>5, <2>6, <2>7 DEF AbstractMail!Receive, Sent, Got, Asked
    <2> QED
      BY <2>8 DEF AbstractMail!MailNext
  <1> QED
    BY <1>3, <1>4

LEMMA MailStep ==
    ASSUME SInv, [SessionNext]_allVars
    PROVE  AbstractMail!MailNext \/ UNCHANGED AbstractMail!mailVars
  <1>1. Asked
    BY StepAsked
  <1>2. ASSUME UNCHANGED <<box, out>>
        PROVE  UNCHANGED AbstractMail!mailVars
    <2>1. UNCHANGED <<Sent, Got>>
      BY <1>2 DEF Sent, Got
    <2> QED
      BY <1>1, <2>1, StutterMail
  <1>3. CASE (Next /\ UNCHANGED sessionVars) \/ UNCHANGED allVars
    BY <1>2, <1>3 DEF sessionVars, allVars
  <1>4. ASSUME NEW e \in Encs, EncStep(e) \/ EncIOError(e) \/ EncDie(e), ~(EncOpen(e) \/ EncFill(e))
        PROVE  UNCHANGED <<box, out>>
    BY <1>4 DEF EncStep, EncWork, EncIOError, EncDie, EncStart, EncRecipient, EncRecipientKem, EncSender,
                EncSenderPub, EncSeal, EncChmod
  <1>5. ASSUME NEW d \in Decs, DecStep(d) \/ DecIOError(d) \/ DecDie(d), ~(DecOpen(d) \/ DecFill(d))
        PROVE  UNCHANGED <<box, out>>
    BY <1>5 DEF DecStep, DecWork, DecIOError, DecDie, DecAsk, DecPacket, DecKey, DecKemKey, DecDecrypt
  <1> QED
    BY <1>1, <1>2, <1>3, <1>4, <1>5, MailSend, MailReceive DEF SessionNext

\* The processes, their key files and what they leave on disk implement Mail: a
\* packet appears whole and once, and an output file receives nothing, or the
\* message of the packet it was asked for, addressed to the very reader.
THEOREM SessionImplementsMail == SessionSpec => ImplementsMail
  <1>1. SessionInit => AbstractMail!MailInit
    <2> SUFFICES ASSUME SessionInit PROVE AbstractMail!MailInit
      OBVIOUS
    <2>1. \A e \in Encs : box[e] = Absent
      BY DEF SessionInit
    <2>2. \A d \in Decs : out[d] = Absent
      BY DEF SessionInit
    <2> QED
      BY <2>1, <2>2, Markers DEF AbstractMail!MailInit
  <1>2. SInv /\ [SessionNext]_allVars => [AbstractMail!MailNext]_(AbstractMail!mailVars)
    BY MailStep
  <1> QED
    BY <1>1, <1>2, SessionInvariant, PTL
       DEF SessionSpec, ImplementsMail, AbstractMail!MailSpec
=============================================================================
