------------------------------- MODULE Session -------------------------------
(***************************************************************************)
(* pqhe keygen, encrypt and decrypt running as processes over one key      *)
(* directory: the controllers of pqhe/controllers and the commands of      *)
(* pqhe/views/cli_view.py.  Nothing is locked: encrypt and decrypt read the*)
(* key files one at a time, while a keygen may be rewriting them, and every*)
(* process may die between two calls.                                      *)
(***************************************************************************)
EXTENDS Keygen, HybridPacket

CONSTANTS
    Encs,   \* encrypt invocations; each writes its own packet file
    Decs,   \* decrypt invocations; each writes its own output file
    Torn,   \* the contents of a packet or output file cut short
    Padding \* may a key id have white space around it on the command line?

ASSUME PaddingAssumption == Padding \in BOOLEAN

VARIABLES
    enc,   \* [Encs -> record]: the state of an encrypt process
    dec,   \* [Decs -> record]: the state of a decrypt process
    box,   \* [Encs -> packet, Torn or Absent]: the packet files
    out    \* [Decs -> plaintext, Torn or Absent]: the decrypted files

sessionVars == <<enc, dec, box, out>>
allVars     == <<vars, sessionVars>>

(***************************************************************************)
(* Spellings of a key id.  validate_key_id accepts white space around it   *)
(* and returns it stripped; keygen goes on with what was returned, but the *)
(* path helpers drop it and name the file after the key id as it was       *)
(* spelled, so no file of a padded one is ever there.                      *)
(***************************************************************************)
Padded(k)   == <<k>>
Spellings   == KeyIds \union (IF Padding THEN {Padded(k) : k \in KeyIds} ELSE {})
Stripped(n) == IF n \in KeyIds THEN n ELSE n[1]

Intact(p) ==
    /\ p \notin {Absent, Torn} /\ p.body.ciphertext # Absent
    /\ {p.body.ciphertext, p.body.kem} \cap Malformed = {}
    /\ IsSigned(p) => p.signature \notin Malformed \union {Empty}

\* The values that stand for something missing, broken or cut short are no sound
\* packet and no sound value of a field of one.
ASSUME SessionAssumption ==
    /\ Absent # Torn
    /\ {Absent, Torn, LowOrder} \cap (Encs \union Runs) = {}
    /\ Malformed \cap (Encs \union Runs) = {}
    /\ {Absent, Blank, NotText} \cap Spellings = {}
    /\ {Absent, Blank} \cap {"1", Hybrid, Classical} = {}
    /\ \A e \in Encs, from, to \in Spellings, x \in Runs,
          kem, spriv, spub \in Runs \union {Absent}, available \in BOOLEAN :
             Intact(EncryptPacket(e, e, from, to, x, kem, spriv, spub, available))

FileOf(n, s) == IF n \in KeyIds THEN files[n][s] ELSE NoFile

\* Encs are the names of the plaintexts too: each invocation encrypts its own.
NewEnc(from, to) ==
    [pc |-> "new", from |-> from, to |-> to, error |-> "none",
     x |-> Absent, kem |-> Absent, spriv |-> Absent, spub |-> Absent,
     packet |-> Absent, alone |-> FALSE, last |-> Absent]

NewDec(of, as) ==
    [pc |-> "new", of |-> of, as |-> as, error |-> "none",
     phrase |-> NoPass, packet |-> Absent, x |-> Absent, kem |-> Absent]

EncEnded == {"done", "failed", "dead"}
DecEnded == {"done", "failed", "dead"}

-----------------------------------------------------------------------------
SessionInit ==
    /\ Init
    /\ \E from, to \in [Encs -> Spellings] :
          enc = [e \in Encs |-> NewEnc(from[e], to[e])]
    /\ \E of \in [Decs -> Encs], as \in [Decs -> Spellings] :
          dec = [d \in Decs |-> NewDec(of[d], as[d])]
    /\ box = [e \in Encs |-> Absent]
    /\ out = [d \in Decs |-> Absent]

(***************************************************************************)
(* encrypt                                                                 *)
(***************************************************************************)
LastOf(e) == [from |-> latest[Stripped(enc[e].from)], to |-> latest[Stripped(enc[e].to)]]

EncFail(e, error) == enc' = [enc EXCEPT ![e].pc = "failed", ![e].error = error]

\* Fault: a damaged key file is accepted.
EncLoadUnchecked(e, file, field, next) ==
    enc' = [enc EXCEPT ![e][field] = file.by, ![e].pc = next]

\* Fault: a file that cannot be parsed is read again until it can.
EncLoadPatiently(e, file, field, next) ==
    IF LoadPlain(file) = "ok"
    THEN enc' = [enc EXCEPT ![e][field] = file.by, ![e].pc = next]
    ELSE IF LoadPlain(file) = "JSONDecodeError" THEN enc' = enc
    ELSE EncFail(e, LoadPlain(file))

\* One load of a key file that must be there; field receives the key.
EncLoad(e, file, field, next) ==
    IF LoadPlain(file) = "ok"
    THEN enc' = [enc EXCEPT ![e][field] = file.by, ![e].pc = next]
    ELSE EncFail(e, LoadPlain(file))

\* The file is small enough and the output directory is writable, or not.
EncStart(e) ==
    /\ enc[e].pc = "new"
    /\ \/ EncFail(e, "ValidationError")
       \/ enc' = [enc EXCEPT ![e].pc = "xpub",
                             ![e].alone = Idle(Stripped(enc[e].from)) /\ Idle(Stripped(enc[e].to)),
                             ![e].last = LastOf(e)]
    /\ UNCHANGED <<vars, dec, box, out>>

EncRecipient(e) ==
    /\ enc[e].pc = "xpub"
    /\ EncLoad(e, FileOf(enc[e].to, XPub), "x", "kem")
    /\ UNCHANGED <<vars, dec, box, out>>

\* Fault: the recipient must have an ML-KEM key.
EncRequireKem(e) ==
    /\ enc[e].pc = "kem"
    /\ EncLoad(e, FileOf(enc[e].to, MPub), "kem", "spriv")
    /\ UNCHANGED <<vars, dec, box, out>>

EncRecipientKem(e) ==
    LET file == FileOf(enc[e].to, MPub)
    IN  /\ enc[e].pc = "kem"
        /\ IF Exists(file) THEN EncLoad(e, file, "kem", "spriv")
           ELSE enc' = [enc EXCEPT ![e].pc = "spriv"]
        /\ UNCHANGED <<vars, dec, box, out>>

\* The sender signs if there is a private signing key under the sender's name,
\* and then its public half must be there too.
EncSender(e) ==
    LET file == FileOf(enc[e].from, EPriv)
    IN  /\ enc[e].pc = "spriv"
        /\ IF Exists(file) THEN EncLoad(e, file, "spriv", "spub")
           ELSE enc' = [enc EXCEPT ![e].pc = "seal"]
        /\ UNCHANGED <<vars, dec, box, out>>

EncSenderPub(e) ==
    /\ enc[e].pc = "spub"
    /\ EncLoad(e, FileOf(enc[e].from, EPub), "spub", "seal")
    /\ UNCHANGED <<vars, dec, box, out>>

\* The plaintext is read and must not be empty; then orchestrator.encrypt.
EncSeal(e) ==
    /\ enc[e].pc = "seal"
    /\ \/ EncFail(e, "ValidationError")
       \/ enc' = [enc EXCEPT ![e].pc = "open",
                    ![e].packet = EncryptPacket(e, e, enc[e].from, enc[e].to, enc[e].x,
                                                enc[e].kem, enc[e].spriv, enc[e].spub, oqs)]
    /\ UNCHANGED <<vars, dec, box, out>>

\* save_to_file: open and truncate, write, chmod (its mode is not modelled).
EncOpen(e) ==
    /\ enc[e].pc = "open"
    /\ box' = [box EXCEPT ![e] = Torn]
    /\ enc' = [enc EXCEPT ![e].pc = "fill"]
    /\ UNCHANGED <<vars, dec, out>>

EncFill(e) ==
    /\ enc[e].pc = "fill"
    /\ box' = [box EXCEPT ![e] = enc[e].packet]
    /\ enc' = [enc EXCEPT ![e].pc = "chmod"]
    /\ UNCHANGED <<vars, dec, out>>

EncChmod(e) ==
    /\ enc[e].pc = "chmod"
    /\ enc' = [enc EXCEPT ![e].pc = "done"]
    /\ UNCHANGED <<vars, dec, box, out>>

\* A system call fails (no space, no permission) and the command reports it:
\* what was done to the packet file stays.
EncIOError(e) ==
    /\ enc[e].pc \notin {"new"} \union EncEnded
    /\ EncFail(e, "OSError")
    /\ UNCHANGED <<vars, dec, box, out>>

\* The process is killed.
EncDie(e) ==
    /\ enc[e].pc \notin {"new"} \union EncEnded
    /\ enc' = [enc EXCEPT ![e].pc = "dead"]
    /\ UNCHANGED <<vars, dec, box, out>>

(***************************************************************************)
(* decrypt                                                                 *)
(***************************************************************************)
DecFail(d, error) == dec' = [dec EXCEPT ![d].pc = "failed", ![d].error = error]

\* The command: the packet file must exist; the user is asked for a passphrase
\* if the X25519 key is protected, a question that raises on a damaged file.
DecAsk(d) ==
    LET answer == ProtectedAnswer(FileOf(dec[d].as, XPriv))
    IN  /\ dec[d].pc = "new"
        /\ box[dec[d].of] # Absent
        /\ \/ answer = "no" /\ dec' = [dec EXCEPT ![d].pc = "packet"]
           \/ /\ answer = "yes"
              /\ \E phrase \in Passphrases :
                    dec' = [dec EXCEPT ![d].pc = "packet", ![d].phrase = phrase]
           \/ answer = "JSONDecodeError" /\ DecFail(d, answer)
        /\ UNCHANGED <<vars, enc, box, out>>

\* The output directory is checked, then load_from_file.
DecPacket(d) ==
    LET packet == box[dec[d].of]
    IN  /\ dec[d].pc = "packet"
        /\ \/ DecFail(d, "ValidationError")
           \/ IF packet = Torn THEN DecFail(d, "PacketValidationError")
              ELSE IF FromJson(packet.body) # "ok" THEN DecFail(d, FromJson(packet.body))
              ELSE dec' = [dec EXCEPT ![d].pc = "xpriv", ![d].packet = packet]
        /\ UNCHANGED <<vars, enc, box, out>>

DecLoad(d, file, field, next) ==
    LET outcome == LoadPrivate(file, dec[d].phrase)
    IN  IF outcome = "ok"
        THEN dec' = [dec EXCEPT ![d][field] = file.by, ![d].pc = next]
        ELSE DecFail(d, outcome)

\* Fault: the ML-KEM key is never loaded.
DecKeyOnly(d) ==
    /\ dec[d].pc = "xpriv"
    /\ DecLoad(d, FileOf(dec[d].as, XPriv), "x", "decrypt")
    /\ UNCHANGED <<vars, enc, box, out>>

DecKey(d) ==
    /\ dec[d].pc = "xpriv"
    /\ DecLoad(d, FileOf(dec[d].as, XPriv), "x",
               IF IsHybrid(dec[d].packet) THEN "kpriv" ELSE "decrypt")
    /\ UNCHANGED <<vars, enc, box, out>>

\* Fault: the passphrase is not passed on to the second load.
DecKemKeyBare(d) ==
    LET file    == FileOf(dec[d].as, MPriv)
        outcome == LoadPrivate(file, NoPass)
    IN  /\ dec[d].pc = "kpriv"
        /\ IF outcome = "ok"
           THEN dec' = [dec EXCEPT ![d].kem = file.by, ![d].pc = "decrypt"]
           ELSE DecFail(d, outcome)
        /\ UNCHANGED <<vars, enc, box, out>>

DecKemKey(d) ==
    /\ dec[d].pc = "kpriv"
    /\ DecLoad(d, FileOf(dec[d].as, MPriv), "kem", "decrypt")
    /\ UNCHANGED <<vars, enc, box, out>>

\* Fault: the output file is opened before the packet is decrypted.
DecStream(d) ==
    LET outcome == DecryptOutcome(dec[d].packet, dec[d].x, dec[d].kem, oqs)
    IN  /\ dec[d].pc = "decrypt"
        /\ out' = [out EXCEPT ![d] = Torn]
        /\ IF outcome = "ok" THEN dec' = [dec EXCEPT ![d].pc = "fill"]
           ELSE DecFail(d, outcome)
        /\ UNCHANGED <<vars, enc, box>>

DecDecrypt(d) ==
    LET outcome == DecryptOutcome(dec[d].packet, dec[d].x, dec[d].kem, oqs)
    IN  /\ dec[d].pc = "decrypt"
        /\ IF outcome = "ok" THEN dec' = [dec EXCEPT ![d].pc = "open"]
           ELSE DecFail(d, outcome)
        /\ UNCHANGED <<vars, enc, box, out>>

\* write_bytes: open and truncate, then write.
DecOpen(d) ==
    /\ dec[d].pc = "open"
    /\ out' = [out EXCEPT ![d] = Torn]
    /\ dec' = [dec EXCEPT ![d].pc = "fill"]
    /\ UNCHANGED <<vars, enc, box>>

DecFill(d) ==
    /\ dec[d].pc = "fill"
    /\ out' = [out EXCEPT ![d] = dec[d].packet.body.ciphertext.plaintext]
    /\ dec' = [dec EXCEPT ![d].pc = "done"]
    /\ UNCHANGED <<vars, enc, box>>

\* A system call fails and the command reports it: an output file that was
\* opened for it stays truncated.
DecIOError(d) ==
    /\ dec[d].pc \notin {"new"} \union DecEnded
    /\ DecFail(d, "OSError")
    /\ UNCHANGED <<vars, enc, box, out>>

DecDie(d) ==
    /\ dec[d].pc \notin {"new"} \union DecEnded
    /\ dec' = [dec EXCEPT ![d].pc = "dead"]
    /\ UNCHANGED <<vars, enc, box, out>>

-----------------------------------------------------------------------------
EncWork(e) ==
    \/ EncRecipient(e) \/ EncRecipientKem(e) \/ EncSender(e) \/ EncSenderPub(e)
    \/ EncSeal(e) \/ EncOpen(e) \/ EncFill(e) \/ EncChmod(e)

DecWork(d) ==
    \/ DecPacket(d) \/ DecKey(d) \/ DecKemKey(d)
    \/ DecDecrypt(d) \/ DecOpen(d) \/ DecFill(d)

EncStep(e) == EncStart(e) \/ EncWork(e)
DecStep(d) == DecAsk(d) \/ DecWork(d)

SessionNext ==
    \/ Next /\ UNCHANGED sessionVars
    \/ \E e \in Encs : EncStep(e) \/ EncIOError(e) \/ EncDie(e)
    \/ \E d \in Decs : DecStep(d) \/ DecIOError(d) \/ DecDie(d)

SessionSpec == SessionInit /\ [][SessionNext]_allVars

\* A process that was started makes its next call in the end.  Nobody has to
\* start one or to answer a prompt, and nothing has to fail.
SessionFairness ==
    /\ \A r \in Runs : WF_allVars(Work(r) /\ UNCHANGED sessionVars)
    /\ \A e \in Encs : WF_allVars(EncWork(e))
    /\ \A d \in Decs : WF_allVars(DecWork(d))

-----------------------------------------------------------------------------
(***************************************************************************)
(* Properties.                                                             *)
(***************************************************************************)
EncPcs == {"new", "xpub", "kem", "spriv", "spub", "seal", "open", "fill", "chmod"}
            \union EncEnded
DecPcs == {"new", "packet", "xpriv", "kpriv", "decrypt", "open", "fill"} \union DecEnded

SessionTypeOK ==
    /\ TypeOK
    /\ \A e \in Encs :
          /\ enc[e].pc \in EncPcs
          /\ {enc[e].from, enc[e].to} \subseteq Spellings
          /\ {enc[e].x, enc[e].kem, enc[e].spriv, enc[e].spub} \subseteq Runs \union {Absent}
          /\ box[e] \in {Absent, Torn, enc[e].packet}
    /\ \A d \in Decs :
          /\ dec[d].pc \in DecPcs
          /\ dec[d].of \in Encs /\ dec[d].as \in Spellings /\ dec[d].phrase \in Locks
          /\ {dec[d].x, dec[d].kem} \subseteq Runs \union {Absent}
          /\ out[d] \in Encs \union {Absent, Torn}

\* No keygen of either key id has run since e started, and those before it took
\* turns and returned.
Undisturbed(e) ==
    /\ enc[e].alone
    /\ LastOf(e) = enc[e].last
    /\ Clean(Stripped(enc[e].to)) /\ Clean(Stripped(enc[e].from))

\* decrypt_file writes the output only with the very key pairs the packet was
\* made for, and, when it is signed, only if the sender's two signing files were
\* halves of one pair: keygens that rewrite the files under the feet of encrypt
\* and decrypt can make a decryption fail but never mix up generations.
OutputImpliesMatchingKeys ==
    \A d \in Decs :
        out[d] # Absent =>
            LET e == dec[d].of
            IN  /\ dec[d].x = enc[e].x
                /\ IsHybrid(enc[e].packet) => dec[d].kem = enc[e].kem
                /\ IsSigned(enc[e].packet) => enc[e].spriv = enc[e].spub

\* A decryption that reports something wrong with its arguments, the packet or a
\* key has not touched the output file: every check comes before write_bytes
\* opens it.  The one reported error that may leave it truncated is that of a
\* system call, the write itself among them.
RefusalLeavesOutput ==
    \A d \in Decs :
        dec[d].pc = "failed" =>
            \/ out[d] = Absent
            \/ out[d] = Torn /\ dec[d].error = "OSError"

\* encrypt over a quiet key directory succeeds: the one thing that can be missing
\* is a recipient nobody generated keys for, or one whose key id was spelled with
\* white space, although validate_key_id accepts that.
UndisturbedEncrypts ==
    \A e \in Encs :
        /\ enc[e].pc = "failed" /\ enc[e].error \notin {"ValidationError", "OSError"}
        /\ Undisturbed(e)
        =>
            /\ enc[e].error = "FileNotFoundError"
            /\ enc[e].to \in KeyIds => files[enc[e].to][XPub].text = "none"

\* The answer to the prompt opens every private key of the recipient.
RightPhrase(d) ==
    \A s \in LockableSlots : FileOf(dec[d].as, s).lock \in {NoPass, dec[d].phrase}

\* What was encrypted over a quiet key directory can be decrypted as long as it
\* stays quiet, in whatever sequence of hybrid and classical keygens it was
\* filled: only a passphrase that is not the right one, the absence of liboqs, the
\* output directory, a failing system call or a packet that is not yet whole can
\* stand in the way.
UndisturbedReadable ==
    \A d \in Decs :
        LET e == dec[d].of
        IN  dec[d].pc = "failed" /\ dec[d].as = enc[e].to /\ Undisturbed(e) =>
                \/ dec[d].error \in {"ValidationError", "OSError"}
                \/ /\ dec[d].error \in {"WrongPassphraseError", "KeyProtectedError"}
                   /\ ~RightPhrase(d)
                \/ dec[d].error = "PacketValidationError" /\ dec[d].packet = Absent
                \/ dec[d].error = "RuntimeError" /\ IsHybrid(enc[e].packet)

\* Nobody waits for anybody: a command that was started ends, whatever state the
\* key files, the packet file and the other commands are left in.
EveryCommandEnds ==
    /\ \A r \in Runs : pc[r] \in Working ~> pc[r] \notin Working
    /\ \A e \in Encs : enc[e].pc # "new" ~> enc[e].pc \in EncEnded
    /\ \A d \in Decs : dec[d].pc # "new" ~> dec[d].pc \in DecEnded

\* The end to end promise: once the recipient has answered the prompt rightly for
\* a whole packet that was encrypted over a key directory which stays quiet, the
\* message comes out, unless the process is killed, a system call fails, the output
\* directory is missing, or the packet is hybrid and liboqs is not there.
Delivers ==
    \A d \in Decs :
        LET e == dec[d].of
        IN  /\ dec[d].pc = "packet" /\ dec[d].as = enc[e].to
            /\ box[e] = enc[e].packet /\ Undisturbed(e) /\ RightPhrase(d)
            ~>
            \/ out[d] = e
            \/ ~Undisturbed(e)
            \/ dec[d].pc = "dead"
            \/ dec[d].error \in {"ValidationError", "OSError"}
            \/ dec[d].error = "RuntimeError" /\ IsHybrid(enc[e].packet)

\* encrypt_file's docstring: "FileNotFoundError : Recipient X25519 public key is
\* missing in keys_dir", the sender's id being a "Label bound into packet
\* metadata (no key lookup)".
NotFoundMeansRecipient ==
    \A e \in Encs :
        enc[e].error = "FileNotFoundError" => enc[e].x = Absent

\* The README: "If Alice's keys are passphrase-protected, the passphrase is
\* prompted interactively".  Stated over a quiet key directory.
PromptSuffices ==
    \A d \in Decs :
        LET e == dec[d].of
        IN  dec[d].as = enc[e].to /\ Undisturbed(e) => dec[d].error # "KeyProtectedError"

\* The processes and their files implement Mail: a packet file becomes readable
\* in one step and stays as it is, and an output file receives the message of
\* the packet it was asked for, or nothing.
AbstractMail ==
    INSTANCE Mail WITH
        Messages <- Encs, Readers <- Decs, Nothing <- Absent,
        sent <- {e \in Encs : box[e] \notin {Absent, Torn}},
        got  <- [d \in Decs |-> IF out[d] = Torn THEN Absent ELSE out[d]],
        to   <- [e \in Encs |-> enc[e].to],
        as   <- [d \in Decs |-> dec[d].as],
        of   <- [d \in Decs |-> dec[d].of]

ImplementsMail == AbstractMail!MailSpec
=============================================================================
