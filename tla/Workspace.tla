----------------------------- MODULE Workspace -----------------------------
(***************************************************************************)
(* The user's working directory: encrypt and decrypt commands that read one*)
(* file and write another, under the names cli_view.py chooses or under    *)
(* --output, while the user goes on saving documents there.  Any two       *)
(* commands may name the same file.  A command reads its whole input before*)
(* it opens its output, which it truncates and then writes in place.       *)
(*                                                                         *)
(* The keys of Session are left out: whatever a key file, a passphrase or  *)
(* a packet can do to a command is that it fails before it writes.         *)
(***************************************************************************)
EXTENDS Integers, Sequences

CONSTANTS
    Cmds,       \* command invocations
    Parts,      \* what may stand between two dots of a file name
    Documents,  \* the names under which the user saves plaintexts
    Received,   \* the names of the packets that came from elsewhere
    Outputs,    \* the names the user may give to --output
    Texts,      \* what a document may say
    Large,      \* the texts over the size limit of validate_file_size
    Empty,      \* the text of an empty file
    Garbage,    \* the text of a file with a part missing, or of two mixed up
    MaxSaves    \* bound on the number of times the user saves

ASSUME WorkspaceAssumption ==
    /\ {Empty, Garbage} \intersect Texts = {} /\ Empty # Garbage
    /\ Large \subseteq Texts
    /\ Documents \intersect Received = {}
    /\ {"", "enc", "dec"} \subseteq Parts
    /\ Documents \union Received \union Outputs \subseteq Seq(Parts) \ {<<>>}
    /\ MaxSaves \in Nat

-----------------------------------------------------------------------------
(***************************************************************************)
(* File names.  A name is the sequence of its parts between dots: "a.txt"  *)
(* is <<"a", "txt">>, ".enc" is <<"", "enc">>.  As in pathlib, a dot that  *)
(* begins or ends the name does not begin a suffix.                        *)
(***************************************************************************)
Front(n) == SubSeq(n, 1, Len(n) - 1)
Last(n)  == n[Len(n)]

HasSuffix(n) == Len(n) >= 2 /\ Last(n) # "" /\ ~ (Len(n) = 2 /\ n[1] = "")

Stem(n) == IF HasSuffix(n) THEN Front(n) ELSE n

EncryptName(n) == Append(n, "enc")

\* Fault: everything after the first dot is taken for the suffix.
DecryptFirstDot(n) == IF Last(n) = "enc" THEN SubSeq(n, 1, 1) ELSE Append(Stem(n), "dec")

DecryptName(n) ==
    IF HasSuffix(n) /\ Last(n) = "enc" THEN Front(n) ELSE Append(Stem(n), "dec")

(***************************************************************************)
(* Contents: a text under so many layers of encryption.                    *)
(***************************************************************************)
AllTexts == Texts \union {Empty, Garbage}

Plain(t)  == [text |-> t, layers |-> 0]
Sealed(f) == [text |-> f.text, layers |-> f.layers + 1]
Opened(f) == [text |-> f.text, layers |-> f.layers - 1]

IsPacket(f) == f.layers > 0

\* validate_file_size.  Whether a packet is too large is not modelled: it is larger
\* than its text, and the user may also have received one that is not.
MayFit(f) == f.text \notin Large \/ IsPacket(f)

-----------------------------------------------------------------------------
VARIABLES
    disk,     \* name -> contents, for the names of the files that are there
    cmd,      \* [Cmds -> record]: the state of a command
    saves,    \* how often the user has saved a document
    saved,    \* history: [Documents -> SUBSET (Texts \cup {Empty})]: what the user saved
    met       \* history: two writers, or a writer and a reader, met in a file

vars == <<disk, cmd, saves, saved, met>>

Put(n, f) == [m \in DOMAIN disk \union {n} |-> IF m = n THEN f ELSE disk[m]]

NoCmd == [pc |-> "new", op |-> "none", in |-> <<>>, out |-> <<>>, data |-> Plain(Empty),
          mixed |-> FALSE, stale |-> FALSE]

\* With the others as in cs, command c moves on.
Goes(cs, c, p) == [cs EXCEPT ![c].pc = p]

Writing == {"fill", "rest"}
Running == {"check", "read", "open"} \union Writing
Broken  == {"torn", "dead"}
Pcs     == {"new", "done", "failed"} \union Broken \union Running

-----------------------------------------------------------------------------
Init ==
    /\ saved \in [Documents -> {{t} : t \in Texts}]
    /\ \E text \in [Received -> Texts] :
          disk = [n \in Documents \union Received |->
                    IF n \in Documents THEN Plain(CHOOSE t \in Texts : saved[n] = {t})
                    ELSE Sealed(Plain(text[n]))]
    /\ cmd = [c \in Cmds |-> NoCmd]
    /\ saves = 0
    /\ met = FALSE

\* What the commands in others undergo when file n changes: one about to read it
\* has checked something else, one that is writing it is not alone.
Disturbed(n, others) ==
    [c \in Cmds |->
        [cmd[c] EXCEPT
            !.stale = @ \/ (c \in others /\ cmd[c].pc = "read" /\ cmd[c].in = n),
            !.mixed = @ \/ (c \in others /\ cmd[c].pc \in Writing /\ cmd[c].out = n)]]

\* The user saves a document: the one thing here that is not the program's.
Save(n) ==
    /\ saves < MaxSaves
    /\ saves' = saves + 1
    /\ \E t \in Texts \union {Empty} :
          /\ disk' = Put(n, Plain(t))
          /\ saved' = [saved EXCEPT ![n] = @ \union {t}]
    /\ cmd' = Disturbed(n, Cmds)
    /\ met' = (met \/ \E c \in Cmds : cmd[c].pc \in Running /\ cmd[c].out = n)

\* The command line: the input must be there; without --output the name of the
\* output follows from that of the input.
Begin(c) ==
    /\ cmd[c].pc = "new"
    /\ \E n \in DOMAIN disk, op \in {"encrypt", "decrypt"} :
          \E o \in Outputs \union {IF op = "encrypt" THEN EncryptName(n) ELSE DecryptName(n)} :
             /\ cmd' = [cmd EXCEPT ![c].pc = IF op = "encrypt" THEN "check" ELSE "read",
                                   ![c].op = op, ![c].in = n, ![c].out = o]
             /\ met' = (met \/ \E d \in Cmds : /\ cmd[d].pc \in Running
                                               /\ o \in {cmd[d].in, cmd[d].out} \/ n = cmd[d].out)
    /\ UNCHANGED <<disk, saves, saved>>

Fails(c) == cmd' = Goes(cmd, c, "failed")

\* Fault: the size of the file that will be overwritten is looked at.
CheckOutput(c) ==
    /\ cmd[c].pc = "check"
    /\ \/ Fails(c)
       \/ /\ cmd[c].out \in DOMAIN disk => MayFit(disk[cmd[c].out])
          /\ cmd' = Goes(cmd, c, "read")
    /\ UNCHANGED <<disk, saves, saved, met>>

\* encrypt: the size of the input, then the output directory.
EncCheck(c) ==
    /\ cmd[c].pc = "check"
    /\ \/ Fails(c)
       \/ /\ MayFit(disk[cmd[c].in])
          /\ cmd' = Goes(cmd, c, "read")
    /\ UNCHANGED <<disk, saves, saved, met>>

\* encrypt: the keys, the plaintext, which must not be empty, and the packet.
EncRead(c) ==
    /\ cmd[c].pc = "read" /\ cmd[c].op = "encrypt"
    /\ \/ Fails(c)
       \/ /\ disk[cmd[c].in].text # Empty
          /\ cmd' = [cmd EXCEPT ![c].pc = "open", ![c].data = Sealed(disk[cmd[c].in])]
    /\ UNCHANGED <<disk, saves, saved, met>>

\* Fault: what is not a packet is passed on.
DecReadAny(c) ==
    /\ cmd[c].pc = "read" /\ cmd[c].op = "decrypt"
    /\ \/ Fails(c)
       \/ cmd' = [cmd EXCEPT ![c].pc = "open", ![c].data = Opened(disk[cmd[c].in])]
    /\ UNCHANGED <<disk, saves, saved, met>>

\* decrypt: the output directory, the packet, the keys and the plaintext.
DecRead(c) ==
    /\ cmd[c].pc = "read" /\ cmd[c].op = "decrypt"
    /\ \/ Fails(c)
       \/ /\ IsPacket(disk[cmd[c].in])
          /\ cmd' = [cmd EXCEPT ![c].pc = "open", ![c].data = Opened(disk[cmd[c].in])]
    /\ UNCHANGED <<disk, saves, saved, met>>

\* write_text and write_bytes: open and truncate; what is written reaches the
\* file in one piece or in several.
OpenOutput(c) ==
    /\ cmd[c].pc = "open"
    /\ disk' = Put(cmd[c].out, Plain(Empty))
    /\ cmd' = Goes(Disturbed(cmd[c].out, Cmds \ {c}), c, "fill")
    /\ UNCHANGED <<saves, saved, met>>

WriteSome(c) ==
    /\ cmd[c].pc = "fill"
    /\ disk' = Put(cmd[c].out, Plain(Garbage))
    /\ cmd' = Goes(Disturbed(cmd[c].out, Cmds \ {c}), c, "rest")
    /\ UNCHANGED <<saves, saved, met>>

\* Fault: encrypt streams its input to its output.
StreamRest(c) ==
    /\ cmd[c].pc \in Writing
    /\ disk' = Put(cmd[c].out, IF cmd[c].op = "encrypt" THEN Sealed(disk[cmd[c].in])
                               ELSE cmd[c].data)
    /\ cmd' = Goes(Disturbed(cmd[c].out, Cmds \ {c}), c, "done")
    /\ UNCHANGED <<saves, saved, met>>

\* The last piece.  If anybody else has written the file since it was opened, the
\* two texts may be mixed up.
WriteRest(c) ==
    /\ cmd[c].pc \in Writing
    /\ \/ disk' = Put(cmd[c].out, cmd[c].data)
       \/ cmd[c].mixed /\ disk' = Put(cmd[c].out, Plain(Garbage))
    /\ cmd' = Goes(Disturbed(cmd[c].out, Cmds \ {c}), c, "done")
    /\ UNCHANGED <<saves, saved, met>>

\* A call on the output file fails (no space, no permission): the command reports
\* it, and leaves the file as it stands.
WriteFails(c) ==
    /\ cmd[c].pc \in {"open"} \union Writing
    /\ cmd' = Goes(cmd, c, "torn")
    /\ UNCHANGED <<disk, saves, saved, met>>

\* The process is killed.
Die(c) ==
    /\ cmd[c].pc \in Running
    /\ cmd' = Goes(cmd, c, "dead")
    /\ UNCHANGED <<disk, saves, saved, met>>

Next ==
    \/ \E n \in Documents : Save(n)
    \/ \E c \in Cmds :
          \/ Begin(c) \/ EncCheck(c) \/ EncRead(c) \/ DecRead(c)
          \/ OpenOutput(c) \/ WriteSome(c) \/ WriteRest(c) \/ WriteFails(c) \/ Die(c)

Spec == Init /\ [][Next]_vars

-----------------------------------------------------------------------------
(***************************************************************************)
(* Properties.                                                             *)
(***************************************************************************)
Contents == [text : AllTexts, layers : Nat]

TypeOK ==
    /\ Documents \union Received \subseteq DOMAIN disk
    /\ \A n \in DOMAIN disk : n \in Seq(Parts) /\ n # <<>> /\ disk[n] \in Contents
    /\ cmd \in [Cmds -> [pc : Pcs, op : {"none", "encrypt", "decrypt"},
                         in : Seq(Parts), out : Seq(Parts), data : Contents,
                         mixed : BOOLEAN, stale : BOOLEAN]]
    /\ \A c \in Cmds : cmd[c].pc # "new" => cmd[c].in \in DOMAIN disk /\ cmd[c].out # <<>>
    /\ saves \in 0 .. MaxSaves
    /\ saved \in [Documents -> SUBSET (Texts \union {Empty})]
    /\ met \in BOOLEAN

DefaultName(c) ==
    IF cmd[c].op = "encrypt" THEN EncryptName(cmd[c].in) ELSE DecryptName(cmd[c].in)

ByDefault(c) == cmd[c].pc # "new" => cmd[c].out = DefaultName(c)

\* m is n, encrypted by default any number of times.
Based(n, m) ==
    /\ Len(n) <= Len(m) /\ \A i \in 1 .. Len(n) : m[i] = n[i]
    /\ \A i \in Len(n) + 1 .. Len(m) : m[i] = "enc"

\* No other file the user has is a packet of document n by its name, nor is n one.
Apart(n) ==
    /\ Last(n) \notin {"enc", "dec"}
    /\ \A m \in (Documents \union Received) \ {n} : ~ Based(n, m)

\* The default names never mix up documents: in whatever order, and however often,
\* encrypt and decrypt run without --output, overlap, break off and die, a document and the
\* packets made from it hold what the user once saved under that very name, or
\* nothing readable.
OwnTexts ==
    (\A c \in Cmds : ByDefault(c)) =>
        \A n \in Documents :
            Apart(n) =>
                \A m \in DOMAIN disk :
                    Based(n, m) => disk[m].text \in saved[n] \union {Empty, Garbage}

\* As long as no command is killed or told that it cannot write, and no two of
\* them, or one and the user, meet in a file, every file is whole but the one a
\* command is writing, even when a command overwrites its own input.
QuietIsWhole ==
    ~met /\ (\A c \in Cmds : cmd[c].pc \notin Broken) =>
        \A n \in DOMAIN disk :
            \/ disk[n].text \in Texts
            \/ n \in Documents /\ disk[n].text \in saved[n]
            \/ \E c \in Cmds : cmd[c].pc \in Writing /\ cmd[c].out = n

\* validate_file_size: a document over the limit is encrypted only if it was
\* replaced between the check and the read.
LimitKept ==
    \A c \in Cmds :
        cmd[c].op = "encrypt" /\ cmd[c].data.layers = 1 /\ cmd[c].data.text \in Large =>
            cmd[c].stale

\* The help of decrypt: without --output, the name "strips .enc or adds .dec", so
\* that the packet stays.
DecryptKeepsPacket ==
    \A c \in Cmds :
        /\ cmd[c].op = "decrypt" /\ cmd[c].pc = "done" /\ ByDefault(c)
        /\ cmd[c].in \in Received /\ \A d \in Cmds \ {c} : cmd[d].pc = "new"
        => disk[cmd[c].in] = Sealed(cmd[c].data)
=============================================================================
