------------------------------ MODULE KeyStore ------------------------------
(***************************************************************************)
(* The key directory of pqhe/storage/key_storage.py: the six JSON files of *)
(* one key id, what a writer does to one of them and what a reader gets.   *)
(*                                                                         *)
(* A key is abstracted to the keygen invocation that drew it: every run    *)
(* draws fresh keys, so two files hold the halves of one pair exactly when *)
(* they were written by the same run.                                      *)
(***************************************************************************)
EXTENDS Integers

CONSTANTS
    Runs,         \* keygen invocations; each is one CLI process, run once
    NoRun,        \* no invocation
    KeyIds,       \* key ids, already accepted by validate_key_id
    Passphrases,  \* passphrases a user may choose
    NoPass        \* no passphrase: the key is stored unprotected

ASSUME KeyStoreAssumption ==
    /\ NoRun \notin Runs
    /\ NoPass \notin Passphrases

Locks == Passphrases \union {NoPass}

(***************************************************************************)
(* The files of a key id, numbered in the order in which keygen saves them.*)
(***************************************************************************)
XPriv == 1
XPub  == 2
MPriv == 3
MPub  == 4
EPriv == 5
EPub  == 6

Slots        == XPriv .. EPub
PrivateSlots == {XPriv, MPriv, EPriv}
PublicSlots  == {XPub, MPub, EPub}
MLKEMSlots   == {MPriv, MPub}
\* The private keys --protect encrypts: the Ed25519 key has no protected form.
LockableSlots == {XPriv, MPriv}

\* The private half of the pair whose public half is in slot s.
PrivateOf(s) == s - 1

(***************************************************************************)
(* A file.  text is "none" (no such file), "empty" (truncated, or cut      *)
(* short: a prefix of the document), "full" (one whole document) or        *)
(* "garbled" (a whole document followed by the tail of a longer one).  by  *)
(* is the run whose key a full document holds, lock the passphrase it is   *)
(* sealed under.                                                           *)
(***************************************************************************)
Texts == {"none", "empty", "full", "garbled"}
Modes == {"none", "umask", "0600", "0644"}

File == [text : Texts, by : Runs \union {NoRun}, lock : Locks, mode : Modes]

NoFile == [text |-> "none", by |-> NoRun, lock |-> NoPass, mode |-> "none"]

\* Fault: files nobody else may read or write become writable by all.
ModeOfOpen(s) == IF s \in PrivateSlots THEN "0600" ELSE "0666"

ModeOf(s) == IF s \in PrivateSlots THEN "0600" ELSE "0644"

\* A protected document carries a salt, a nonce and a tag: it is the longer one.
IsLong(f) == f.text = "garbled" \/ (f.text = "full" /\ f.lock # NoPass)

\* Fault: the file is replaced by a new one.
Replaced(f) == [text |-> "empty", by |-> NoRun, lock |-> NoPass, mode |-> "umask"]

\* Fault: the file is opened for update, its contents stay.
NotTruncated(f) ==
    [text |-> IF f.text = "none" THEN "empty" ELSE f.text, by |-> f.by, lock |-> f.lock,
     mode |-> IF f.text = "none" THEN "umask" ELSE f.mode]

(***************************************************************************)
(* The three system calls of _write: write_text opens the file, truncating *)
(* it or creating it under the process umask, then writes from offset 0;   *)
(* os.chmod comes last.  A shorter text written over a longer one that     *)
(* another process put there since the open leaves the longer one's tail.  *)
(***************************************************************************)
Truncated(f) ==
    [text |-> "empty", by |-> NoRun, lock |-> NoPass,
     mode |-> IF f.text = "none" THEN "umask" ELSE f.mode]

Filled(f, r, lock) ==
    IF IsLong(f) /\ lock = NoPass
    THEN [text |-> "garbled", by |-> NoRun, lock |-> NoPass, mode |-> f.mode]
    ELSE [text |-> "full", by |-> r, lock |-> lock, mode |-> f.mode]

Chmodded(f, s) ==
    [text |-> f.text, by |-> f.by, lock |-> f.lock, mode |-> ModeOf(s)]

(***************************************************************************)
(* Reading.  The outcome of a load is "ok", and then the key is f.by, or   *)
(* the name of the exception.                                              *)
(***************************************************************************)
Exists(f) == f.text # "none"

LoadPlain(f) ==
    CASE ~Exists(f)                 -> "FileNotFoundError"
      [] f.text \in {"empty", "garbled"} -> "JSONDecodeError"
      [] f.text = "full"            -> "ok"

LoadPrivate(f, pass) ==
    CASE LoadPlain(f) # "ok"       -> LoadPlain(f)
      [] LoadPlain(f) = "ok" /\ f.lock = NoPass -> "ok"
      [] LoadPlain(f) = "ok" /\ f.lock # NoPass ->
            CASE pass = NoPass -> "KeyProtectedError"
              [] pass = f.lock -> "ok"
              [] pass \notin {NoPass, f.lock} -> "WrongPassphraseError"

(***************************************************************************)
(* is_x25519_private_key_protected, the question the decrypt command asks  *)
(* before it prompts.  An unreadable file makes it raise.                  *)
(***************************************************************************)
ProtectedAnswer(f) ==
    CASE ~Exists(f)             -> "no"
      [] LoadPlain(f) = "JSONDecodeError" -> "JSONDecodeError"
      [] LoadPlain(f) = "ok"   -> IF f.lock # NoPass THEN "yes" ELSE "no"
=============================================================================
