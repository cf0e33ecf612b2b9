------------------------------- MODULE Keygen -------------------------------
(***************************************************************************)
(* pqhe keygen: pqhe/controllers/keygen_controller.py over the key         *)
(* directory of KeyStore.  Each run is an operating-system process that    *)
(* saves four or six files, one after the other and each with three system *)
(* calls, with no lock, no temporary file and no rename.  Runs of the same *)
(* key id may overlap, and a run may die between any two calls.            *)
(***************************************************************************)
EXTENDS KeyStore

VARIABLES
    files,    \* [KeyIds -> [Slots -> File]]: the key directory
    oqs,      \* is liboqs importable by the next process that asks?
    pc,       \* [Runs -> Phases]: the call a run makes next
    at,       \* [Runs -> Slots \cup {Past}]: the file it is working on
    key,      \* [Runs -> KeyIds]: --name
    pass,     \* [Runs -> Locks]: the passphrase of --protect, or NoPass
    hybrid,   \* [Runs -> BOOLEAN]: the availability of ML-KEM it sampled
    solo,     \* history: no other run of its key id has overlapped this run
    latest    \* history: [KeyIds -> Runs \cup {NoRun}]: the last run started

procVars == <<pc, at, key, pass, hybrid>>
histVars == <<solo, latest>>
vars     == <<files, oqs, procVars, histVars>>

Past    == EPub + 1
Phases  == {"new", "open", "fill", "chmod", "done", "failed"}
Working == {"open", "fill", "chmod"}

TypeOK ==
    /\ files \in [KeyIds -> [Slots -> File]]
    /\ oqs \in BOOLEAN
    /\ pc \in [Runs -> Phases]
    /\ at \in [Runs -> Slots \union {Past}]
    /\ key \in [Runs -> KeyIds]
    /\ pass \in [Runs -> Locks]
    /\ hybrid \in [Runs -> BOOLEAN]
    /\ solo \in [Runs -> BOOLEAN]
    /\ latest \in [KeyIds -> Runs \union {NoRun}]

(***************************************************************************)
(* Which files a run saves, in which order, and under which lock.          *)
(***************************************************************************)
Writes(r, s) == s \in MLKEMSlots => hybrid[r]

\* Fault: asks before each save of the ML-KEM pair, not once.
AfterAsking(s, available) ==
    IF s \in {XPub, MPriv} /\ ~available THEN EPriv ELSE s + 1

\* Fault: without liboqs, one file too many is skipped.
AfterSkipping(s, available) == IF s = XPub /\ ~available THEN EPub ELSE s + 1

\* After the X25519 pair the run asks is_available(); without liboqs it goes
\* straight to the Ed25519 pair.
After(s, available) == IF s = XPub /\ ~available THEN EPriv ELSE s + 1

LockOf(r, s) == IF s \in LockableSlots THEN pass[r] ELSE NoPass

Busy(k) == {r \in Runs : pc[r] \in Working /\ key[r] = k}

-----------------------------------------------------------------------------
Init ==
    /\ files = [k \in KeyIds |-> [s \in Slots |-> NoFile]]
    /\ oqs \in BOOLEAN
    /\ pc = [r \in Runs |-> "new"]
    /\ at = [r \in Runs |-> XPriv]
    /\ key \in [Runs -> KeyIds]
    /\ pass \in [Runs -> Locks]
    /\ hybrid = [r \in Runs |-> FALSE]
    /\ solo = [r \in Runs |-> FALSE]
    /\ latest = [k \in KeyIds |-> NoRun]

\* The process starts: its arguments are fixed, the directory is there.
Start(r) ==
    /\ pc[r] = "new"
    /\ pc' = [pc EXCEPT ![r] = "open"]
    /\ solo' = [q \in Runs |->
                  IF q = r THEN Busy(key[r]) = {}
                  ELSE solo[q] /\ q \notin Busy(key[r])]
    /\ latest' = [latest EXCEPT ![key[r]] = r]
    /\ UNCHANGED <<files, oqs, at, key, pass, hybrid>>

\* write_text, first half: open(path, "w").
OpenFile(r) ==
    /\ pc[r] = "open"
    /\ files' = [files EXCEPT ![key[r]][at[r]] = Truncated(@)]
    /\ pc' = [pc EXCEPT ![r] = "fill"]
    /\ UNCHANGED <<oqs, at, key, pass, hybrid, histVars>>

\* Fault: an error of the write is swallowed.
FillOrSkip(r) ==
    /\ pc[r] = "fill"
    /\ files' \in {files, [files EXCEPT ![key[r]][at[r]] = Filled(@, r, LockOf(r, at[r]))]}
    /\ pc' = [pc EXCEPT ![r] = "chmod"]
    /\ UNCHANGED <<oqs, at, key, pass, hybrid, histVars>>

\* write_text, second half: the document reaches the file when it is closed.
FillFile(r) ==
    /\ pc[r] = "fill"
    /\ files' = [files EXCEPT ![key[r]][at[r]] = Filled(@, r, LockOf(r, at[r]))]
    /\ pc' = [pc EXCEPT ![r] = "chmod"]
    /\ UNCHANGED <<oqs, at, key, pass, hybrid, histVars>>

\* Fault: only the private keys get their permissions.
ChmodPrivateOnly(r) ==
    /\ pc[r] = "chmod"
    /\ files' = [files EXCEPT ![key[r]][at[r]] =
                    IF at[r] \in PrivateSlots THEN Chmodded(@, at[r]) ELSE @]
    /\ hybrid' = [hybrid EXCEPT ![r] = IF at[r] = XPub THEN oqs ELSE @]
    /\ at' = [at EXCEPT ![r] = After(@, oqs)]
    /\ pc' = [pc EXCEPT ![r] = IF at[r] = EPub THEN "done" ELSE "open"]
    /\ UNCHANGED <<oqs, key, pass, histVars>>

\* os.chmod, and the controller goes on to the next save or returns.
ChmodFile(r) ==
    /\ pc[r] = "chmod"
    /\ files' = [files EXCEPT ![key[r]][at[r]] = Chmodded(@, at[r])]
    /\ hybrid' = [hybrid EXCEPT ![r] = IF at[r] = XPub THEN oqs ELSE @]
    /\ at' = [at EXCEPT ![r] = After(@, oqs)]
    /\ pc' = [pc EXCEPT ![r] = IF at[r] = EPub THEN "done" ELSE "open"]
    /\ UNCHANGED <<oqs, key, pass, histVars>>

\* The process is killed, or a call raises and nothing is undone.
Fail(r) ==
    /\ pc[r] \in Working
    /\ pc' = [pc EXCEPT ![r] = "failed"]
    /\ UNCHANGED <<files, oqs, at, key, pass, hybrid, histVars>>

\* liboqs is installed or removed; each process sees it once, through a cache.
ToggleOqs ==
    /\ oqs' = ~oqs
    /\ UNCHANGED <<files, procVars, histVars>>

Step(r) == Start(r) \/ OpenFile(r) \/ FillFile(r) \/ ChmodFile(r) \/ Fail(r)

Next == ToggleOqs \/ \E r \in Runs : Step(r)

Spec == Init /\ [][Next]_vars

\* A keygen that was started makes its next call in the end: it waits for
\* nobody.  Nobody has to start one, and nothing has to fail.
Work(r) == OpenFile(r) \/ FillFile(r) \/ ChmodFile(r)

-----------------------------------------------------------------------------
(***************************************************************************)
(* Properties.                                                             *)
(***************************************************************************)
RunsOf(k)  == {r \in Runs : key[r] = k /\ pc[r] # "new"}
Idle(k)    == Busy(k) = {}
Clean(k)   == \A r \in RunsOf(k) : solo[r] /\ pc[r] # "failed"

Saved(r, s) == pc[r] # "new" /\ s < at[r] /\ Writes(r, s)

InstalledFile(r, s) ==
    [text |-> "full", by |-> r, lock |-> LockOf(r, s), mode |-> ModeOf(s)]

SamePair(f, g) == f.text = g.text /\ f.by = g.by

Paired(k) == \A s \in PublicSlots : SamePair(files[k][PrivateOf(s)], files[k][s])

\* KeygenController.generate persists the key pair it reports: when the last
\* run of a key id has returned and no other run overlapped it, every file it
\* saves is a whole document of its own, under the requested passphrase and
\* with the documented permissions, whatever earlier runs left behind.
CompletedRunInstalled ==
    \A r \in Runs :
        pc[r] = "done" /\ solo[r] /\ latest[key[r]] = r =>
            \A s \in Slots : Writes(r, s) => files[key[r]][s] = InstalledFile(r, s)

\* The order of the saves in generate: even if the last run died half way, a
\* public key it put on disk has its private half on disk, so nothing can be
\* encrypted to (or signed under) a key that was never stored.
PrivateBeforePublic ==
    \A k \in KeyIds, s \in PublicSlots :
        LET f == files[k][s]
            g == files[k][PrivateOf(s)]
        IN  f.text = "full" /\ latest[k] = f.by /\ solo[f.by] =>
                g.text = "full" /\ g.by = f.by

\* When every run of a key id ran alone and returned, the two halves of each of
\* its three key pairs match, in any sequence of runs with and without liboqs
\* and with and without --protect.
MatchedPairs == \A k \in KeyIds : Clean(k) /\ Idle(k) => Paired(k)

\* _write's chmod is not undone: once a run has saved a file, the file has its
\* documented permissions for ever, however later or overlapping runs rewrite
\* it and wherever they die.
ModeSettled ==
    \A r \in Runs, s \in Slots :
        Saved(r, s) => files[key[r]][s].mode = ModeOf(s)

\* A key file is left truncated only by a run that is still writing it or that
\* died writing it: overlapping runs that return leave no empty file.
EmptyMeansUnfinished ==
    \A k \in KeyIds, s \in Slots :
        files[k][s].text = "empty" =>
            \E r \in RunsOf(k) : at[r] = s /\ pc[r] \in {"fill", "failed"}

\* No lock keeps two runs of a key id from writing one file: a longer document
\* put there between the truncation and the write of a shorter one sticks out
\* behind it.  That takes two runs at once: while the runs of a key id take
\* turns, wherever they die, no file of theirs is garbled.
GarbledMeansOverlap ==
    \A k \in KeyIds, s \in Slots :
        files[k][s].text = "garbled" => \E r \in RunsOf(k) : ~solo[r]

\* _write makes a file under the umask, fills it and only then sets its
\* permissions, so a private key stands in full under the umask for a moment,
\* and for ever if its run dies there.  That is as far as it goes: such a file
\* is one that a run is still saving, or died saving; a run that has gone on to
\* its next file leaves nothing under the umask.
UmaskMeansUnfinished ==
    \A k \in KeyIds, s \in Slots :
        files[k][s].mode = "umask" =>
            \E r \in RunsOf(k) : at[r] = s /\ pc[r] \in {"fill", "chmod", "failed"}

\* The header of key_storage.py, of a file that holds a private key: "Private key
\* files are created with 0o600 permissions".
PrivateCreatedClosed ==
    \A k \in KeyIds, s \in PrivateSlots :
        files[k][s].text = "full" => files[k][s].mode = "0600"

\* KeygenController's promise without the proviso that runs do not overlap:
\* "Generates and persists a hybrid key pair for a given identity."
GeneratePersistsAPair ==
    \A k \in KeyIds :
        Idle(k) /\ (\A r \in RunsOf(k) : pc[r] = "done") => Paired(k)
=============================================================================
