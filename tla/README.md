# pqhe: models, checks and proofs

`pqhe` (`src/pqhe`) is a command-line program that generates key pairs (X25519,
ML-KEM-768 when liboqs is installed, Ed25519), encrypts a file for a key id and
decrypts it. Every command is an operating-system process of its own. Processes
meet in files only: those of the key directory, the packets and the documents.
None of them is locked, and none is written through a temporary file and a rename.

## Inventory

| Part | State | Operations | Meets | What makes it correct |
|---|---|---|---|---|
| key storage (`storage/key_storage.py`, `models/key_models.py`) | six JSON files per key id: contents, passphrase, permissions | save, save protected, load, exists, is protected | all three commands | a load returns a whole document or raises; permissions stay as documented |
| keygen (`controllers/keygen_controller.py`, `keygen_cmd`) | none but its position | `generate`: four or six saves in a fixed order | key directory, liboqs | the pairs on disk match; a private half is there before its public half |
| encrypt (`controllers/encrypt_controller.py`, `encrypt_cmd`) | keys read so far, its input | name of the output, `encrypt_file` | key directory, document, packet file | it succeeds when the keys are there; the packet is for one generation of keys and holds the whole document |
| decrypt (`controllers/decrypt_controller.py`, `decrypt_cmd`) | passphrase, packet, keys read so far | prompt, name of the output, `decrypt_file` | key directory, packet and output file | it opens what was made for these keys, writes nothing when it refuses, and writes where that text belongs |
| orchestrator (`services/encryption_orchestrator.py`) | none | `encrypt`, `decrypt` | the services | round trip; whatever opens is genuine |
| packets (`models/packet_models.py`, `services/packet_service.py`) | one packet file | assemble, sign bytes, associated data, parse, validate, save, load | encrypt, decrypt | what is not a packet is refused with a documented exception |
| services and wrappers (`services/*`, `crypto/*`) | cached availability of liboqs | key agreement, encapsulation, derivation, sealing, signing | orchestrator | the two sides derive the same key, and only they do |
| validators (`utils/validators.py`) | none | key id, size, emptiness, output directory | the controllers | checked before anything is written; what was checked is what is used |
| status, settings, logging, `secure_bytes`, `main` | none | | | not modelled: no effect on keys, packets or outputs |

What is hard here: two keygens of one key id overlap; a process dies between
two of its twelve or eighteen calls; encrypt and decrypt read several files of
one generation while a keygen replaces them, and must end whatever they find; the
ML-KEM pair of an earlier generation stays when liboqs is gone; a key id is
checked in one spelling and used in another; a packet file is a bag of independent
text fields that may be damaged or mixed up on the way; commands choose the name
of their output from that of their input, so that a document, its packets and
what is decrypted from them share names, and the user goes on editing them; a file
is checked by its path and read later. `PROJECT.json` lists each hazard at its line.

## Modules

* **`KeyStore`**: one key file, pure operators. A key is abstracted to the keygen
  invocation that drew it. A file has a text (`none`, `empty`, `full`, `garbled`),
  the run whose key it holds, the passphrase it is sealed under and its permissions.
  `Truncated`, `Filled` and `Chmodded` are the three system calls of `_write`; the
  document reaches the file when it is closed, in one piece, and a shorter one over
  a longer one leaves the longer one's tail. `LoadPlain`, `LoadPrivate` and
  `ProtectedAnswer` are the loads and `is_x25519_private_key_protected`.
* **`Keygen`**: keygen processes over the key directory. `OpenFile`, `FillFile` and
  `ChmodFile` are the calls of a save; `ChmodFile` also goes on to the next save,
  asks `is_available` after the X25519 pair, and returns after the last. `Fail` is
  death, or a call that raises (nothing is undone), at any point. `ToggleOqs`
  installs or removes liboqs at any time; a process sees it once, because
  `_load_oqs` is cached. `solo` and `latest` are history variables that no action
  reads.
* **`HybridPacket`**: `encrypt`, `decrypt`, associated data, signed bytes, parsing
  and validation as operators over symbolic cryptography. A primitive is a
  constructor. ML-KEM decapsulation with the wrong key yields another secret and
  does not fail; the order of the checks, and which exception each of them raises,
  are those of the code. A field may be missing, null or a number (`NotText`), not
  base64, or of a wrong length, and each has its own exception: a signature with the
  empty text decodes to `None`, which the library refuses with `TypeError`; an
  X25519 key of low order ends the exchange with `ValueError`.
* **`PacketDelivery`**: a packet file on its way. Up to `MaxEdits` fields are
  changed one by one (dropped, damaged, replaced by the other packet's or
  rewritten), or any subset comes from a second packet, and anybody may sign what
  came of it (`Resign`), with their own key beside the signature; then any identity
  decrypts it with or without liboqs. The edits are external; `Deliver` is
  `load_from_file` followed by `decrypt`. `signers` is a history variable.
* **`Session`**: composes `Keygen` and `HybridPacket`: encrypt and decrypt
  processes, one action per file access or check, in the code's order. An existence
  test and the load that follows it are one step: no file is ever removed, so a file
  that passed the test is still there for the load, and the load sees the file as it
  is at that later moment. The checks of size, emptiness and output directory pass
  or fail freely. `EncIOError` and `DecIOError` are a system call that fails at any
  point: the command reports it and ends, with its output as it stands; `EncDie` and
  `DecDie` are a process that is killed and reports nothing. With `Padding`, a key
  id may be spelled with white space around it: the check accepts it, but the path
  helpers use it as it was spelled, so it names no file. `SessionFairness` says that
  a started process goes on.
* **`Mail`**: the abstract specification. A message is sent once, whole, to one
  identity; a reader gets nothing or that message, and only as that identity.
  `Session` implements it under the mapping `AbstractMail`: a packet file counts as
  sent once it is whole, an output file counts once it is whole.
* **`Workspace`**: encrypt and decrypt commands over the user's own files, any two
  of which may be given the same names. A name is the sequence of its parts between
  dots, and `EncryptName` and `DecryptName` are the two default names (`with_suffix`
  replaces the last part). A file holds a text under some layers of encryption.
  `Begin` is the command line, `EncCheck` the size of the input, `EncRead` and
  `DecRead` everything up to the last check, `OpenOutput`, `WriteSome` and
  `WriteRest` the write in place; `Save` is the user's editor, which replaces a
  document in one step; `WriteFails` is a call on the output that fails and is
  reported, `Die` a process that is killed. Whatever key files, passphrases and
  packets can do to a command here is that it fails before it opens its output, so
  `Fails` may happen at each check; `Session` says when it really does. `saved`,
  `met`, and the fields `mixed` and `stale` are histories; the actions read `mixed`
  alone, which says that somebody else wrote the file since it was opened, so that
  two texts may have run together.
* **`KeygenProofs`, `WorkspaceProofs`, `HybridPacketProofs`, `PacketProofs`,
  `SessionProofs`, `QuietProofs`**: theorems about `Keygen`, `Workspace`, the
  operators of `HybridPacket`, `PacketDelivery` and `Session`. `SessionProofs`
  builds on `KeygenProofs` and `HybridPacketProofs` as `Session` does on `Keygen`
  and `HybridPacket`; `QuietProofs` builds on `SessionProofs`.
* **`MCKeygen`, `MCPacketDelivery`, `MCSession`, `MCWorkspace`**: instances for TLC.

The operators marked `Fault:` stand next to the definition they distort. Each is
a bug somebody could make there, and breaks the property it is paired with
in `PROJECT.json`; no behaviour uses them.

## Runs and bounds

| Run | Instance | Shows |
|---|---|---|
| `keygen_overlap` | 2 runs, 1 key id, 1 passphrase or none | every interleaving of two keygens, in turns or overlapping, with deaths and liboqs: `CompletedRunInstalled`, `PrivateBeforePublic`, `MatchedPairs`, `ModeSettled`, `EmptyMeansUnfinished`, `GarbledMeansOverlap`, `UmaskMeansUnfinished` |
| `delivery` | 2 identities, 2 packets, 2 edits or any mixture, 1 of them signs on the way | `AcceptedIsGenuine`, `AcceptedByRecipient`, `SignatureCoversBody`, `UntouchedIsReadable` |
| `session_crash` | 2 keygens that may die, 1 encryption, 1 decryption, 1 key id, 1 passphrase or none | `OutputImpliesMatchingKeys`, `RefusalLeavesOutput`, `UndisturbedReadable` |
| `session_fair` | 1 keygen, 1 encryption, 1 decryption, 1 key id in two spellings, 2 passphrases | `UndisturbedEncrypts`, and under fairness `EveryCommandEnds` and `Delivers` |
| `session_two` | 2 keygens, 1 encryption, 1 decryption, 2 key ids | `UndisturbedEncrypts`, `ImplementsMail` |
| `workspace` | 2 commands, 2 documents one of which has the other's stem, a packet without a suffix, 1 name for `--output`, 1 save | `OwnTexts`, `QuietIsWhole`, `LimitKept` |

Six more runs check a sentence of the documentation that the code does not keep:
`keygen_overlap_pair` (two overlapping keygens leave halves that do not match),
`keygen_created` (a private key is created under the umask, and stays so when its
keygen dies), `delivery_signer` (the key a signature is verified with comes from the
packet, so it proves nothing about the sender the packet names),
`session_not_found` (`FileNotFoundError` for the sender's key), `session_prompt` (no
prompt although a key is protected) and `workspace_dec` (decrypting a packet named
`*.dec` by default replaces the packet). `PROJECT.json` quotes each under "findings".

Three more such disagreements take one step each and can be read off a definition, so
they have no run of their own. `MakeAad` leaves out the time stamp, which
`docs/ARCHITECTURE.md` lists as bound: `AcceptedIsGenuine` excepts it, and only
`SignatureCoversBody` includes it. `FromDict` and `Validate` raise `KeyError`,
`TypeError`, `ValueError` and `binascii.Error` for a damaged document, where the
docstring of `validate` names `PacketValidationError`. And `FileOf` is no file for a
padded key id, so that the keygen the message of encrypt recommends for one does not
help; `UndisturbedEncrypts` excepts it.

Every run but `session_fair`, `session_two` and the six also checks the type
invariant of its module.

Two keygens are enough for a conflict over one file, or for one generation to follow
another that died or had no liboqs; the theorems carry the invariants to any number.
Key ids share nothing, so `keygen_overlap` has one. One encryption and one
decryption are enough for `Session`: they never write a key file, and two of them
share nothing but the key directory; what they share beyond it is in `Workspace`.
Two edits let a field and the one that authenticates it change together; mixtures
cover every other combination of two packets. In `delivery` the first packet goes
from `alice` to `bob`: identities are interchangeable, and the other packet still
goes between any two, from an identity to itself included. A document that is
refused before any key is used is not changed further (`StillRead`), and one identity
signs on the way (`SignedOnce`); the theorems assume neither. Two commands are enough
for `Workspace` to have a reader and a writer, or two writers, of one file; the
theorems carry this to any number too.

Some instances leave out interleavings that no property of theirs can tell apart.

* `Looked`: liboqs changes only at a moment when some process is about to look: a
  change nobody can see until a later one commutes with every step in between.
* `OneAtATime`: in `MCSession`, keygens of one key id take turns; what overlapping
  ones leave is the business of `keygen_overlap` and of the finding
  `GeneratePersistsAPair`. A process may still die in the middle of its turn, and
  encrypt and decrypt overlap with it freely.
* `Seen`, in the safety runs of `MCSession`: a behaviour is followed while a
  decryption can still act (`Undelivered`), keygens act while some key is still to
  be read (`KeyToRead`), an encryption or a decryption that dies, or gives up over a
  failing system call, is one that takes no more steps, except that a failing write
  of the output is kept. The runs with fairness do without this.
* Runs, and key ids where that is sound, are declared symmetric in safety runs only.

Deadlock is not checked, because the processes end.

Fairness is assumed in `session_fair` alone: weak fairness of the next call of each
process that was started. The code justifies no more and needs no more: processes take
no locks and never wait for one another, so the operating system's scheduler runs each
of them in the end. No fairness is assumed of a user who
starts a command or answers a prompt, of anything that fails, or of liboqs
appearing. A process may still die at any point: the properties that say what
it achieves name this as the exception.

## Proofs

`KeygenProofs` proves every invariant of `Keygen` for any set of runs, key ids
and passphrases, from `KeyStoreAssumption` alone (the names for "no run" and "no
passphrase" are not themselves a run and a passphrase).

`IInv` is inductive, the properties are not. It adds to the type invariant:

* `Position`: where a run stands follows from its phase, and it stands only on
  files it is to save;
* `LatestStarted`, `SoloIsLatest`, `SoloIsAlone`: the last run of a key id that
  nobody overlapped is the only one at work there, so an action of another run
  leaves its files alone;
* `Provenance`: a whole document was put there by a run of that key id that got
  that far;
* `LastRunSoFar`: every file a run like that has passed holds its document, lock
  and permissions, and the one it is at is as far as its phase says; at the end
  this is `CompletedRunInstalled`;
* `PairedSoFar`: when every run so far was alone and none died, every pair matches
  but the one the current run is at; when it has ended this is `MatchedPairs`;
* `NoModeNoFile`, and the stated properties `ModeSettled`,
  `EmptyMeansUnfinished`, `GarbledMeansOverlap` and `UmaskMeansUnfinished`, which are
  inductive together with it.

The proof has one lemma per action (`StartStep`, `OpenStep`, `FillStep`,
`ChmodStep`, `FailStep`, `QuietStep`), each with a step per conjunct, over lemmas
about the file operators. `KeygenInvariant` puts them together; the eight theorems
after it each follow from it.

`WorkspaceProofs` proves the invariants of `Workspace` for any number of commands
and saves and any names and texts, from `WorkspaceAssumption`: names are not empty
and their parts include `""`, `enc` and `dec`, documents are not received packets,
and an empty or garbled file is not one of the texts. `NamesRoundTrip` says that the
two default names are inverse; `BasedOnInput`, that a default output is named after a
document only if the input is. The inductive invariant has three parts beside the
types:

* `LimitInv`: a command that has not read its input holds nothing, and what encrypt
  found small enough stays so until somebody replaces it; this gives `LimitKept`;
* `QuietInv`: as long as nobody met, was killed or failed to write, the output of a
  command is no file of another (`KeptApart`), what a command has read is whole
  (`ReadWhole`) and goes out unmixed (`WroteAlone`); nothing empty is ever
  encrypted; this gives `QuietIsWhole`, because an input that is not whole would be
  somebody's output;
* `OwnInv`: `OwnTexts`, together with the same of the text a command is about to
  write (`OwnTextsLoaded`).

There is one lemma for each kind of step: `BeginStep`, `SaveStep`, `PcStep` (a check
passes or fails, a write fails, a command is killed), `ReadStep` (both reads) and
`WriteStep` (the three steps of a write).

`HybridPacketProofs` states what the operators do for every argument: when each
check says "ok" (`ValidateOK`, `FromDictOK`, `SignatureOK`, `DecryptOK`), what
`encrypt` makes (`Sealed`, `Signed`), and the round trip in both directions:
`MatchingKeysOpen`, `OnlyMatchingKeys` and `SignedRoundTrip`. Only `PacketAssumption`
is needed (a missing field, one that is not base64 and one of the wrong length are
three different things).

`PacketProofs` proves every invariant of `PacketDelivery` for any identities and any
number of changes. It assumes `MarkersAssumption`: the values that stand for
something missing or broken are not identities, outcomes or anything encrypt or a
primitive returns. TLC evaluates it on the instance; in TLA+ at large a model value
could be one of those records, so it has to be said. The inductive invariant adds to
the types that each sent packet is an encryption (`Genuine`), that each field of the
packet file is that of a sent packet or one a change may put there (`Spliced`; a
sealed ciphertext can only be copied and a signature only be copied or made by one
of the `signers` with its own key, which is where the cryptography comes in), and
that the outcome is the one of the packet as it stands (`Decided`). `SignedIsWhole`
therefore says what a signature is worth in this code: it answers for every field on
behalf of the key in the packet, and of nobody else. The other properties follow
without another induction: the master key and the associated data in an accepted
ciphertext fix every field they were derived from.

`SessionProofs` proves `SessionTypeOK`, `OutputImpliesMatchingKeys` and
`RefusalLeavesOutput` for any number of keygens, encryptions and decryptions, where
keygens overlap and die freely. It assumes `SessionAssumption`, which says the same
of the markers of `Session`, and that the packet encrypt makes holds none of them.
`SInv` consists of `IInv` of `Keygen`, and:

* `EncInv`, for each encryption: the recipient's key it holds is one of the
  recipient's; its packet is made from the keys it holds (`MadeFrom`), and there is
  one exactly when the phase says so; the packet file is as far as the phase says;
* `DecInv`, for each decryption: the packet it holds is the one that was encrypted,
  and still on disk; its X25519 key is one of the identity it was started as; the
  output is opened only with the keys the packet was made for (`Matching`).

`OutputImpliesMatchingKeys` alone is not inductive: it says nothing of a process
that has decrypted but not yet written, nor of why the keys still match then. The
proof has one lemma per kind of step over two frames: what an encryption does
reaches others only through its packet (`EncMove`), what a decryption does reaches
nobody (`DecMove`). `SessionImplementsMail` is the refinement: under `SInv` and with
`to`, `as` and `of` fixed from the start (`StepAsked`), `EncFill` is a `Send`
(`MailSend`), `DecFill` is a `Receive` (`MailReceive`), and every other step stutters
(`MailStep`).

`QuietProofs` proves `UndisturbedEncrypts` and `UndisturbedReadable`, again for any
number of processes. These need to know that over a quiet key directory what a
process has read is still there, which `SInv` does not say. `QInv` adds:

* `Tracked`: an encryption that found nobody at work, and since when nobody has
  started, still has nobody at work. This needs that a run is never the last of its
  key id a second time (`LatestBack`), or a quiet moment could come back;
* `EncCurrent`, `DecCurrent`: while that lasts, each key a process holds is the one in
  the file it was read from;
* the two properties, one process at a time.

`QuietFiles` then gives, with `GarbledMeansOverlap`, that every file is whole or was
never written and that halves match, from which `KeysThere` gets the recipient's
private keys, and the round trip of `HybridPacketProofs` the acceptance of the
packet and its signature. A passphrase that opens both keys (`RightPhrase`) is never
refused, by `LoadPrivateFull`.

So every invariant that a passing run checks is proved too, and so is the
refinement. Only model-checked, because they are liveness under fairness and out of
the prover's reach: `EveryCommandEnds` and `Delivers`. The six
counterexamples are TLC's.

## Not modelled

Cryptographic strength, random number quality, and everything a symbolic primitive
hides; the layout of JSON and base64 (a field is no text, decodes, does not decode,
or decodes to a wrong length); documents that are not JSON objects and a list or
object as `version`, which raise `TypeError`; 0, false or an empty list as a
signature, which fare like the empty text; permissions of packet and output files;
directories, and which characters of a key id the validator accepts besides white
space around it; the unused ciphertext files of the key storage and `disassemble`. A
read or a write of one key file is one system call: a reader sees what the file
holds when it reads. Whether a packet is over the size limit follows from base64
lengths and is left open. The user's editor replaces a document in one step.

The status command reads versions and availability and prints a table; the settings
and configuration models are declarations (with nested `.env` groups) that no
command consults; logging configures a library, and the rotation of the log
file that the processes share is that library's code; `secure_bytes` is called on no
path of the commands; `main` calls the command group. None of them keeps state that
another part reads, so there is nothing to state about them here.

## Plan

1. *More of `Session`*: overlapping keygens around one encryption in a run of its
   own (the theorems cover them), two decryptions, damaged packet files inside a
   session.
2. *Proofs about that*: `SInv` with packet files that change on the way, from
   `Spliced`; the safety half of `Delivers`, that no step leads from its
   premise to a state outside premise, progress and conclusion.
