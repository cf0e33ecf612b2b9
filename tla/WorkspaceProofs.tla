-------------------------- MODULE WorkspaceProofs ---------------------------
(***************************************************************************)
(* The invariants of Workspace, proved for every number of commands, every *)
(* set of file names and texts and any number of saves.                    *)
(***************************************************************************)
EXTENDS Workspace, SequenceTheorems, TLAPS

-----------------------------------------------------------------------------
(***************************************************************************)
(* The inductive invariant.                                                *)
(***************************************************************************)
\* A command that holds the contents of its output.
Loaded == {"open"} \union Writing

\* A command that has not read its input holds nothing.
NothingRead == \A c \in Cmds : cmd[c].pc \in {"new", "check", "read"} => cmd[c].data = Plain(Empty)

\* What encrypt has found small enough is small enough until someone replaces it.
CheckedFits ==
    \A c \in Cmds :
        cmd[c].op = "encrypt" /\ cmd[c].pc = "read" /\ ~ cmd[c].stale => MayFit(disk[cmd[c].in])

\* Nothing empty is ever encrypted, and nothing empty is ever written out whole.
NoEmptyPacket == \A n \in DOMAIN disk : disk[n].text = Empty => disk[n].layers = 0
LoadedIsText  == \A c \in Cmds : cmd[c].pc \in Loaded => cmd[c].data.text # Empty

Quiet == ~met /\ \A c \in Cmds : cmd[c].pc \notin Broken

\* While the commands keep out of each other's way: nobody is to write a file that
\* another reads or writes ...
KeptApart ==
    Quiet => \A c, d \in Cmds :
                 c # d /\ cmd[c].pc \in Running /\ cmd[d].pc \in Running =>
                     cmd[c].out \notin {cmd[d].in, cmd[d].out}

\* ... so that what they have read is whole, and goes out in one piece.
ReadWhole  == Quiet => \A c \in Cmds : cmd[c].pc \in Loaded => cmd[c].data.text \in Texts
WroteAlone == Quiet => \A c \in Cmds : ~ cmd[c].mixed

\* What goes out to a packet of document n was read from one, or from n.
OwnTextsLoaded ==
    (\A c \in Cmds : ByDefault(c)) =>
        \A n \in Documents :
            Apart(n) =>
                \A c \in Cmds :
                    cmd[c].pc \in Loaded /\ Based(n, cmd[c].out) =>
                        cmd[c].data.text \in saved[n] \union {Empty, Garbage}

LimitInv == NothingRead /\ CheckedFits /\ LimitKept
QuietInv == NoEmptyPacket /\ LoadedIsText /\ KeptApart /\ ReadWhole /\ WroteAlone /\ QuietIsWhole
OwnInv   == OwnTexts /\ OwnTextsLoaded
IInv     == TypeOK /\ LimitInv /\ QuietInv /\ OwnInv

-----------------------------------------------------------------------------
(***************************************************************************)
(* Lemmas about names.                                                     *)
(***************************************************************************)
\* Appending a part to a name.
LEMMA Appended ==
    ASSUME NEW n \in Seq(Parts), NEW e \in Parts
    PROVE  /\ Append(n, e) \in Seq(Parts) /\ Append(n, e) # <<>>
           /\ Len(n) \in Nat /\ Len(Append(n, e)) = Len(n) + 1
           /\ Last(Append(n, e)) = e
           /\ \A i \in 1 .. Len(n) : Append(n, e)[i] = n[i]
  <1>1. Append(n, e) \in Seq(Parts) /\ Append(n, e) # <<>>
    BY AppendProperties
  <1>2. Len(n) \in Nat /\ Len(Append(n, e)) = Len(n) + 1
    BY AppendProperties, LenProperties
  <1>3. Append(n, e)[Len(n) + 1] = e
    BY AppendProperties
  <1>4. \A i \in 1 .. Len(n) : Append(n, e)[i] = n[i]
    BY AppendProperties
  <1> QED
    BY <1>1, <1>2, <1>3, <1>4 DEF Last

\* Dropping the last part of a name.
LEMMA Dropped ==
    ASSUME NEW n \in Seq(Parts), Len(n) >= 2
    PROVE  /\ Front(n) \in Seq(Parts) /\ Front(n) # <<>>
           /\ Len(n) \in Nat /\ Len(Front(n)) = Len(n) - 1
           /\ \A i \in 1 .. Len(n) - 1 : Front(n)[i] = n[i]
  <1>1. Len(n) \in Nat
    BY LenProperties
  <1>2. \A i \in 1 .. Len(n) - 1 : n[i] \in Parts
    BY <1>1, ElementOfSeq
  <1>3. Front(n) \in Seq(Parts)
    BY <1>1, <1>2, SubSeqProperties DEF Front
  <1>4. Len(Front(n)) = Len(n) - 1
    BY <1>1, <1>2, SubSeqProperties DEF Front
  <1>5. \A i \in 1 .. Len(n) - 1 : Front(n)[i] = n[i]
    BY <1>1, <1>2, SubSeqProperties DEF Front
  <1>6. Front(n) # <<>>
    BY <1>1, <1>4, EmptySeq
  <1> QED
    BY <1>1, <1>3, <1>4, <1>5, <1>6

\* A name without its suffix, and the names the suffixes make.
LEMMA Stems ==
    ASSUME NEW n \in Seq(Parts), n # <<>>
    PROVE  Stem(n) \in Seq(Parts)
  <1>1. Len(n) \in Nat
    BY LenProperties
  <1>2. HasSuffix(n) => Front(n) \in Seq(Parts)
    BY <1>1, Dropped DEF HasSuffix
  <1> QED
    BY <1>2 DEF Stem

\* The default names are names.
LEMMA DefaultNames ==
    ASSUME NEW n \in Seq(Parts), n # <<>>
    PROVE  /\ EncryptName(n) \in Seq(Parts) /\ EncryptName(n) # <<>>
           /\ DecryptName(n) \in Seq(Parts) /\ DecryptName(n) # <<>>
  <1>1. "enc" \in Parts /\ "dec" \in Parts
    BY WorkspaceAssumption
  <1>2. Append(n, "enc") \in Seq(Parts) /\ Append(n, "enc") # <<>>
    BY <1>1, Appended
  <1>3. Append(Stem(n), "dec") \in Seq(Parts) /\ Append(Stem(n), "dec") # <<>>
    BY <1>1, Stems, Appended
  <1>4. HasSuffix(n) => Front(n) \in Seq(Parts) /\ Front(n) # <<>>
    BY LenProperties, Dropped DEF HasSuffix
  <1> QED
    BY <1>2, <1>3, <1>4 DEF EncryptName, DecryptName

\* A name that is not made of one empty part.
Named(n) == ~ (Len(n) = 1 /\ n[1] = "")

\* Decrypting the packet that encrypt names by default restores the document under
\* its own name, whatever suffixes that has.
THEOREM NamesRoundTrip ==
    ASSUME NEW n \in Seq(Parts), n # <<>>, Named(n)
    PROVE  DecryptName(EncryptName(n)) = n
  <1>1. Len(n) \in Nat /\ Len(n) >= 1
    <2>1. Len(n) \in Nat \ {0}
      BY EmptySeq
    <2> QED
      BY <2>1
  <1>2. PICK m \in Seq(Parts) :
            /\ m = EncryptName(n)
            /\ Len(m) = Len(n) + 1
            /\ Last(m) = "enc"
            /\ \A i \in 1 .. Len(n) : m[i] = n[i]
    BY WorkspaceAssumption, Appended DEF EncryptName
  <1>3. Len(m) >= 2 /\ Len(m) - 1 = Len(n) /\ m[1] = n[1]
    BY <1>1, <1>2
  <1>4. HasSuffix(m)
    <2>1. Last(m) # ""
      BY <1>2
    <2>2. Len(m) = 2 => Len(n) = 1
      BY <1>1, <1>3
    <2>3. ~ (Len(m) = 2 /\ m[1] = "")
      BY <1>3, <2>2 DEF Named
    <2> QED
      BY <1>3, <2>1, <2>3 DEF HasSuffix
  <1>5. /\ Front(m) \in Seq(Parts)
        /\ Len(Front(m)) = Len(n)
        /\ \A i \in 1 .. Len(n) : Front(m)[i] = m[i]
    BY <1>3, Dropped
  <1>6. \A i \in 1 .. Len(Front(m)) : Front(m)[i] = n[i]
    BY <1>2, <1>5
  <1>7. Front(m) = n
    BY <1>5, <1>6, SeqEqual
  <1>8. DecryptName(m) = Front(m)
    BY <1>2, <1>4 DEF DecryptName
  <1> QED
    BY <1>2, <1>7, <1>8

\* The default output is a packet of document n only if the input was n or a packet
\* of it.
LEMMA BasedOnInput ==
    ASSUME NEW n \in Seq(Parts), Last(n) \notin {"enc", "dec"},
           NEW m \in Seq(Parts), m # <<>>,
           NEW o \in {EncryptName(m), DecryptName(m)}, Based(n, o)
    PROVE  Based(n, m)
  <1>1. Len(n) \in Nat /\ Len(m) \in Nat
    BY LenProperties
  <1>2. "enc" \in Parts /\ "dec" \in Parts
    BY WorkspaceAssumption
  <1>3. CASE o = Append(m, "enc")
    <2>1. Len(o) = Len(m) + 1 /\ o[Len(m) + 1] = "enc" /\ \A i \in 1 .. Len(m) : o[i] = m[i]
      BY <1>2, <1>3, Appended DEF Last
    <2> QED
      BY <1>1, <2>1 DEF Based, Last
  <1>4. CASE HasSuffix(m) /\ Last(m) = "enc" /\ o = Front(m)
    <2>1. Len(o) = Len(m) - 1 /\ \A i \in 1 .. Len(m) - 1 : o[i] = m[i]
      BY <1>1, <1>4, Dropped DEF HasSuffix
    <2>2. m[Len(m)] = "enc"
      BY <1>4 DEF Last
    <2> QED
      BY <1>1, <2>1, <2>2 DEF Based
  <1>5. o # Append(Stem(m), "dec")
    <2> SUFFICES ASSUME o = Append(Stem(m), "dec") PROVE FALSE
      OBVIOUS
    <2>1. Len(o) \in Nat /\ Len(o) >= 1 /\ o[Len(o)] = "dec"
      BY <1>2, Stems, Appended DEF Last
    <2> QED
      BY <1>1, <2>1 DEF Based, Last
  <1> QED
    BY <1>3, <1>4, <1>5 DEF EncryptName, DecryptName

-----------------------------------------------------------------------------
(***************************************************************************)
(* Lemmas about contents.                                                  *)
(***************************************************************************)
\* A text in the open.
LEMMA PlainContents ==
    ASSUME NEW t \in AllTexts
    PROVE  Plain(t) \in Contents /\ Plain(t).text = t /\ Plain(t).layers = 0
  BY DEF Plain, Contents

\* Encryption adds a layer and decryption takes one off: the text stays.
LEMMA SealedContents ==
    ASSUME NEW f \in Contents
    PROVE  /\ f.text \in AllTexts /\ f.layers \in Nat
           /\ Sealed(f) \in Contents /\ Sealed(f).text = f.text /\ Sealed(f).layers = f.layers + 1
  BY DEF Sealed, Contents

LEMMA OpenedContents ==
    ASSUME NEW f \in Contents, IsPacket(f)
    PROVE  Opened(f) \in Contents /\ Opened(f).text = f.text
  BY DEF Opened, Contents, IsPacket

-----------------------------------------------------------------------------
(***************************************************************************)
(* The initial states.                                                     *)
(***************************************************************************)
CmdType == [pc : Pcs, op : {"none", "encrypt", "decrypt"}, in : Seq(Parts), out : Seq(Parts),
            data : Contents, mixed : BOOLEAN, stale : BOOLEAN]

\* Every conjunct of the invariant holds before the first command starts.
LEMMA InitIInv == Init => IInv
  <1> SUFFICES ASSUME Init PROVE IInv
    OBVIOUS
  <1>1. /\ saved \in [Documents -> {{t} : t \in Texts}]
        /\ cmd = [c \in Cmds |-> NoCmd] /\ saves = 0 /\ met = FALSE
    BY DEF Init
  <1>2. /\ DOMAIN disk = Documents \union Received
        /\ \A n \in Documents : /\ disk[n].text \in Texts /\ disk[n].layers = 0
                                /\ saved[n] = {disk[n].text}
        /\ \A n \in DOMAIN disk : disk[n].text \in Texts /\ disk[n] \in Contents
    <2>1. PICK text \in [Received -> Texts] :
              disk = [n \in Documents \union Received |->
                        IF n \in Documents THEN Plain(CHOOSE t \in Texts : saved[n] = {t})
                        ELSE Sealed(Plain(text[n]))]
      BY DEF Init
    <2>2. \A n \in Documents :
              LET t == CHOOSE u \in Texts : saved[n] = {u} IN t \in Texts /\ saved[n] = {t}
      BY <1>1
    <2>3. ASSUME NEW n \in Documents
          PROVE  /\ disk[n] \in Contents /\ disk[n].layers = 0
                 /\ disk[n].text \in Texts /\ saved[n] = {disk[n].text}
      <3>1. PICK t \in Texts : disk[n] = Plain(t) /\ saved[n] = {t}
        BY <2>1, <2>2
      <3> QED
        BY <3>1, PlainContents DEF AllTexts
    <2>4. ASSUME NEW n \in Received \ Documents
          PROVE  disk[n] \in Contents /\ disk[n].text \in Texts
      <3>1. PICK t \in Texts : disk[n] = Sealed(Plain(t))
        BY <2>1
      <3> QED
        BY <3>1, PlainContents, SealedContents DEF AllTexts
    <2>5. DOMAIN disk = Documents \union Received
      BY <2>1
    <2> QED
      BY <2>3, <2>4, <2>5
  <1>3. \A c \in Cmds : /\ cmd[c] \in CmdType
                        /\ cmd[c].pc = "new" /\ cmd[c].op = "none"
                        /\ cmd[c].data = Plain(Empty) /\ ~ cmd[c].mixed
    <2>1. <<>> \in Seq(Parts)
      BY EmptySeq
    <2> QED
      BY <1>1, <2>1 DEF NoCmd, CmdType, Pcs, Plain, Contents, AllTexts
  <1>4. TypeOK
    <2>1. cmd \in [Cmds -> CmdType]
      BY <1>1, <1>3
    <2>2. \A n \in DOMAIN disk : n \in Seq(Parts) /\ n # <<>>
      BY <1>2, WorkspaceAssumption
    <2>3. saved \in [Documents -> SUBSET (Texts \union {Empty})]
      BY <1>1
    <2>4. saves \in 0 .. MaxSaves
      <3>1. MaxSaves \in Nat
        BY WorkspaceAssumption
      <3> QED
        BY <1>1, <3>1
    <2>5. met \in BOOLEAN
      BY <1>1
    <2> QED
      BY <1>2, <1>3, <2>1, <2>2, <2>3, <2>4, <2>5 DEF TypeOK, CmdType
  <1>5. LimitInv
    BY <1>3 DEF LimitInv, NothingRead, CheckedFits, LimitKept
  <1>6. QuietInv
    <2>1. NoEmptyPacket
      BY <1>2, WorkspaceAssumption DEF NoEmptyPacket
    <2>2. LoadedIsText /\ KeptApart /\ ReadWhole /\ WroteAlone
      BY <1>3 DEF LoadedIsText, KeptApart, ReadWhole, WroteAlone, Loaded, Writing, Running
    <2>3. QuietIsWhole
      BY <1>2 DEF QuietIsWhole
    <2> QED
      BY <2>1, <2>2, <2>3 DEF QuietInv
  <1>7. OwnInv
    <2>1. OwnTexts
      BY <1>2 DEF OwnTexts, Apart
    <2>2. OwnTextsLoaded
      BY <1>3 DEF OwnTextsLoaded, Loaded, Writing
    <2> QED
      BY <2>1, <2>2 DEF OwnInv
  <1> QED
    BY <1>4, <1>5, <1>6, <1>7 DEF IInv

-----------------------------------------------------------------------------
(***************************************************************************)
(* Steps that leave every file alone.                                      *)
(***************************************************************************)
\* A command moves on and is otherwise as it was.
LEMMA PcUpdated ==
    ASSUME NEW D \in [Cmds -> CmdType], NEW c \in Cmds, NEW p \in Pcs
    PROVE  /\ Goes(D, c, p) \in [Cmds -> CmdType]
           /\ Goes(D, c, p)[c].pc = p
           /\ \A d \in Cmds : d # c => Goes(D, c, p)[d] = D[d]
           /\ \A d \in Cmds : LET E == Goes(D, c, p) IN
                /\ E[d].op = D[d].op /\ E[d].in = D[d].in
                /\ E[d].out = D[d].out /\ E[d].data = D[d].data
                /\ E[d].mixed = D[d].mixed /\ E[d].stale = D[d].stale
  BY DEF Goes, CmdType

\* A command goes on to read its input, fails before it has, or breaks off.
LEMMA PcStep ==
    ASSUME IInv, NEW c \in Cmds, cmd[c].pc \in Running,
           NEW p \in {"read", "failed"} \union Broken,
           p = "read" => cmd[c].pc = "check" /\ MayFit(disk[cmd[c].in]),
           p = "failed" => cmd[c].pc \in {"check", "read"},
           cmd' = Goes(cmd, c, p), UNCHANGED <<disk, saves, saved, met>>
    PROVE  IInv'
  <1>1. cmd \in [Cmds -> CmdType] /\ p \in Pcs
    BY DEF IInv, TypeOK, CmdType, Pcs, Running
  <1>2. /\ cmd' \in [Cmds -> CmdType]
        /\ cmd'[c].pc = p
        /\ \A d \in Cmds : d # c => cmd'[d] = cmd[d]
        /\ \A d \in Cmds : /\ cmd'[d].op = cmd[d].op /\ cmd'[d].in = cmd[d].in
                           /\ cmd'[d].out = cmd[d].out /\ cmd'[d].data = cmd[d].data
                           /\ cmd'[d].mixed = cmd[d].mixed /\ cmd'[d].stale = cmd[d].stale
        /\ \A d \in Cmds : cmd'[d].pc = "new" <=> cmd[d].pc = "new"
        /\ \A d \in Cmds : cmd'[d].pc \in Running => cmd[d].pc \in Running
        /\ \A d \in Cmds : cmd'[d].pc \in Loaded => cmd[d].pc \in Loaded
        /\ \A d \in Cmds : cmd[d].pc \in Writing => cmd'[d].pc \in Writing \union Broken
    <2>1. /\ cmd' \in [Cmds -> CmdType] /\ cmd'[c].pc = p
          /\ \A d \in Cmds : d # c => cmd'[d] = cmd[d]
          /\ \A d \in Cmds : /\ cmd'[d].op = cmd[d].op /\ cmd'[d].in = cmd[d].in
                             /\ cmd'[d].out = cmd[d].out /\ cmd'[d].data = cmd[d].data
                             /\ cmd'[d].mixed = cmd[d].mixed /\ cmd'[d].stale = cmd[d].stale
      BY <1>1, PcUpdated
    <2> QED
      BY <2>1 DEF Running, Loaded, Writing, Broken
  <1>3. TypeOK'
    BY <1>2 DEF IInv, TypeOK, CmdType
  <1>4. LimitInv'
    <2>1. NothingRead'
      BY <1>2 DEF IInv, LimitInv, NothingRead, Running, Broken
    <2>2. CheckedFits'
      BY <1>2 DEF IInv, LimitInv, CheckedFits, MayFit, IsPacket
    <2>3. LimitKept'
      BY <1>2 DEF IInv, LimitInv, LimitKept
    <2> QED
      BY <2>1, <2>2, <2>3 DEF LimitInv
  <1>5. Quiet' => Quiet
    BY <1>2 DEF Quiet, Running, Broken
  <1>6. QuietInv'
    <2>1. NoEmptyPacket' /\ LoadedIsText'
      BY <1>2 DEF IInv, QuietInv, NoEmptyPacket, LoadedIsText
    <2>2. KeptApart'
      BY <1>2, <1>5 DEF IInv, QuietInv, KeptApart
    <2>3. ReadWhole' /\ WroteAlone'
      BY <1>2, <1>5 DEF IInv, QuietInv, ReadWhole, WroteAlone
    <2>4. QuietIsWhole'
      BY <1>2, <1>5 DEF IInv, QuietInv, QuietIsWhole, Quiet
    <2> QED
      BY <2>1, <2>2, <2>3, <2>4 DEF QuietInv
  <1>7. \A d \in Cmds : ByDefault(d)' <=> ByDefault(d)
    BY <1>2 DEF ByDefault, DefaultName
  <1>8. OwnInv'
    BY <1>2, <1>7 DEF IInv, OwnInv, OwnTexts, OwnTextsLoaded
  <1> QED
    BY <1>3, <1>4, <1>6, <1>8 DEF IInv

\* What a command may read, when nobody is in its way, is whole.
LEMMA InputIsWhole ==
    ASSUME IInv, Quiet, NEW c \in Cmds, cmd[c].pc = "read", disk[cmd[c].in].text # Empty
    PROVE  disk[cmd[c].in].text \in Texts
  <1> DEFINE n == cmd[c].in
  <1>1. n \in DOMAIN disk /\ cmd[c].pc \in Running /\ cmd[c].pc \notin Writing
    BY DEF IInv, TypeOK, Running, Writing
  <1>2. ASSUME NEW d \in Cmds, cmd[d].pc \in Writing, cmd[d].out = n PROVE FALSE
    <2>1. d # c /\ cmd[d].pc \in Running
      BY <1>1, <1>2 DEF Running
    <2> QED
      BY <1>1, <1>2, <2>1 DEF IInv, QuietInv, KeptApart
  <1>3. disk[n].text \in Texts \/ (n \in Documents /\ disk[n].text \in saved[n])
    BY <1>1, <1>2 DEF IInv, QuietInv, QuietIsWhole, Quiet
  <1>4. n \in Documents => saved[n] \subseteq Texts \union {Empty}
    BY DEF IInv, TypeOK
  <1> QED
    BY <1>3, <1>4

\* The input of a command that names its output by default is a packet of document n,
\* or n, if its output is.
LEMMA BasedOnDefault ==
    ASSUME IInv, NEW c \in Cmds, cmd[c].pc # "new", ByDefault(c),
           NEW n \in Documents, Apart(n), Based(n, cmd[c].out)
    PROVE  Based(n, cmd[c].in)
  <1>1. n \in Seq(Parts) /\ Last(n) \notin {"enc", "dec"}
    BY WorkspaceAssumption DEF Apart
  <1>2. cmd[c].in \in Seq(Parts) /\ cmd[c].in # <<>>
    BY DEF IInv, TypeOK
  <1>3. cmd[c].out \in {EncryptName(cmd[c].in), DecryptName(cmd[c].in)}
    BY DEF ByDefault, DefaultName
  <1> QED
    BY <1>1, <1>2, <1>3, BasedOnInput

\* A command takes in its input.
LEMMA ReadStep ==
    ASSUME IInv, NEW c \in Cmds, cmd[c].pc = "read", disk[cmd[c].in].text # Empty,
           NEW f \in Contents, f.text = disk[cmd[c].in].text,
           cmd[c].op = "encrypt" => f = Sealed(disk[cmd[c].in]),
           cmd' = [cmd EXCEPT ![c].pc = "open", ![c].data = f],
           UNCHANGED <<disk, saves, saved, met>>
    PROVE  IInv'
  <1>1. cmd \in [Cmds -> CmdType]
    BY DEF IInv, TypeOK, CmdType
  <1>2. /\ cmd' \in [Cmds -> CmdType]
        /\ cmd'[c].pc = "open" /\ cmd'[c].data = f
        /\ \A d \in Cmds : d # c => cmd'[d] = cmd[d]
        /\ \A d \in Cmds : /\ cmd'[d].op = cmd[d].op /\ cmd'[d].in = cmd[d].in
                           /\ cmd'[d].out = cmd[d].out
                           /\ cmd'[d].mixed = cmd[d].mixed /\ cmd'[d].stale = cmd[d].stale
    BY <1>1 DEF CmdType, Pcs, Running
  <1>3. /\ \A d \in Cmds : cmd'[d].pc = "new" <=> cmd[d].pc = "new"
        /\ \A d \in Cmds : cmd'[d].pc \in Running <=> cmd[d].pc \in Running
        /\ \A d \in Cmds : cmd'[d].pc \in Writing <=> cmd[d].pc \in Writing
    BY <1>2 DEF Running, Writing
  <1>4. TypeOK'
    BY <1>2, <1>3 DEF IInv, TypeOK, CmdType
  <1>5. cmd[c].in \in DOMAIN disk /\ disk[cmd[c].in] \in Contents
    BY DEF IInv, TypeOK
  <1>6. LimitInv'
    <2>1. NothingRead' /\ CheckedFits'
      BY <1>2 DEF IInv, LimitInv, NothingRead, CheckedFits, MayFit, IsPacket
    <2>2. cmd[c].op = "encrypt" /\ f.layers = 1 /\ f.text \in Large => cmd[c].stale
      <3>1. cmd[c].op = "encrypt" /\ f.layers = 1 => disk[cmd[c].in].layers = 0
        BY <1>5, SealedContents
      <3> QED
        BY <3>1 DEF IInv, LimitInv, CheckedFits, MayFit, IsPacket
    <2>3. LimitKept'
      BY <1>2, <2>2 DEF IInv, LimitInv, LimitKept
    <2> QED
      BY <2>1, <2>3 DEF LimitInv
  <1>7. Quiet' => Quiet
    BY <1>2 DEF Quiet, Broken
  <1>8. QuietInv'
    <2>1. NoEmptyPacket'
      BY DEF IInv, QuietInv, NoEmptyPacket
    <2>2. LoadedIsText'
      BY <1>2 DEF IInv, QuietInv, LoadedIsText
    <2>3. KeptApart'
      BY <1>2, <1>3, <1>7 DEF IInv, QuietInv, KeptApart
    <2>4. ReadWhole'
      BY <1>2, <1>7, InputIsWhole DEF IInv, QuietInv, ReadWhole
    <2>5. WroteAlone'
      BY <1>2, <1>7 DEF IInv, QuietInv, WroteAlone
    <2>6. QuietIsWhole'
      BY <1>2, <1>3, <1>7 DEF IInv, QuietInv, QuietIsWhole, Quiet
    <2> QED
      BY <2>1, <2>2, <2>3, <2>4, <2>5, <2>6 DEF QuietInv
  <1>9. \A d \in Cmds : ByDefault(d)' <=> ByDefault(d)
    BY <1>2, <1>3 DEF ByDefault, DefaultName
  <1>10. OwnInv'
    <2>1. OwnTexts'
      BY <1>9 DEF IInv, OwnInv, OwnTexts
    <2>2. ASSUME \A d \in Cmds : ByDefault(d), NEW n \in Documents, Apart(n), NEW d \in Cmds,
                 cmd'[d].pc \in Loaded, Based(n, cmd[d].out)
          PROVE  cmd'[d].data.text \in saved[n] \union {Empty, Garbage}
      <3>1. CASE d = c
        <4>1. Based(n, cmd[c].in)
          BY <2>2, <3>1, BasedOnDefault
        <4> QED
          BY <1>2, <1>5, <2>2, <3>1, <4>1 DEF IInv, OwnInv, OwnTexts
      <3>2. CASE d # c
        BY <1>2, <2>2, <3>2 DEF IInv, OwnInv, OwnTextsLoaded
      <3> QED
        BY <3>1, <3>2
    <2>3. OwnTextsLoaded'
      BY <1>2, <1>9, <2>2 DEF OwnTextsLoaded
    <2> QED
      BY <2>1, <2>3 DEF OwnInv
  <1> QED
    BY <1>4, <1>6, <1>8, <1>10 DEF IInv

\* A command that starts: its input is there, and its output has a name.
LEMMA BeginStep ==
    ASSUME IInv, NEW c \in Cmds, Begin(c)
    PROVE  IInv'
  <1>1. PICK n \in DOMAIN disk, op \in {"encrypt", "decrypt"} :
            \E o \in Outputs \union {IF op = "encrypt" THEN EncryptName(n) ELSE DecryptName(n)} :
               /\ cmd' = [cmd EXCEPT ![c].pc = IF op = "encrypt" THEN "check" ELSE "read",
                                     ![c].op = op, ![c].in = n, ![c].out = o]
               /\ met' = (met \/ \E d \in Cmds : /\ cmd[d].pc \in Running
                                                 /\ o \in {cmd[d].in, cmd[d].out} \/ n = cmd[d].out)
    BY DEF Begin
  <1>2. PICK o \in Outputs \union {IF op = "encrypt" THEN EncryptName(n) ELSE DecryptName(n)} :
               /\ cmd' = [cmd EXCEPT ![c].pc = IF op = "encrypt" THEN "check" ELSE "read",
                                     ![c].op = op, ![c].in = n, ![c].out = o]
               /\ met' = (met \/ \E d \in Cmds : /\ cmd[d].pc \in Running
                                                 /\ o \in {cmd[d].in, cmd[d].out} \/ n = cmd[d].out)
    BY <1>1
  <1>3. /\ cmd[c].pc = "new" /\ UNCHANGED <<disk, saves, saved>>
        /\ cmd \in [Cmds -> CmdType] /\ n \in Seq(Parts) /\ n # <<>>
    BY DEF Begin, IInv, TypeOK, CmdType
  <1>4. o \in Seq(Parts) /\ o # <<>>
    <2>1. Outputs \subseteq Seq(Parts) \ {<<>>}
      BY WorkspaceAssumption
    <2> QED
      BY <1>3, <2>1, DefaultNames
  <1>5. /\ cmd' \in [Cmds -> CmdType]
        /\ cmd'[c].pc \in {"check", "read"} /\ cmd'[c].in = n /\ cmd'[c].out = o
        /\ cmd'[c].op = "encrypt" => cmd'[c].pc = "check"
        /\ cmd'[c].data = cmd[c].data /\ cmd'[c].mixed = cmd[c].mixed
        /\ \A d \in Cmds : d # c => cmd'[d] = cmd[d]
    <2> DEFINE p == IF op = "encrypt" THEN "check" ELSE "read"
    <2>1. p \in {"check", "read"} /\ p \in Pcs /\ (op = "encrypt" => p = "check")
      BY DEF Pcs, Running
    <2>2. cmd' = [cmd EXCEPT ![c] = [@ EXCEPT !.pc = p, !.op = op, !.in = n, !.out = o]]
      BY <1>2
    <2> HIDE DEF p
    <2>3. [cmd[c] EXCEPT !.pc = p, !.op = op, !.in = n, !.out = o] \in CmdType
      BY <1>3, <1>4, <2>1 DEF CmdType
    <2> QED
      BY <1>3, <2>1, <2>2, <2>3 DEF CmdType
  <1>6. TypeOK'
    <2>1. met' \in BOOLEAN
      BY <1>2 DEF IInv, TypeOK
    <2> QED
      BY <1>3, <1>4, <1>5, <2>1 DEF IInv, TypeOK, CmdType
  <1>7. LimitInv'
    <2>1. NothingRead'
      BY <1>3, <1>5 DEF IInv, LimitInv, NothingRead
    <2>2. CheckedFits'
      BY <1>3, <1>5 DEF IInv, LimitInv, CheckedFits, MayFit, IsPacket
    <2>3. cmd'[c].data.layers = 0
      BY <1>3, <1>5 DEF IInv, LimitInv, NothingRead, Plain
    <2>4. LimitKept'
      BY <1>5, <2>3 DEF IInv, LimitInv, LimitKept
    <2> QED
      BY <2>1, <2>2, <2>4 DEF LimitInv
  <1>8. Quiet' => Quiet
    BY <1>2, <1>3, <1>5 DEF Quiet, Broken
  <1>9. QuietInv'
    <2>1. NoEmptyPacket'
      BY <1>3 DEF IInv, QuietInv, NoEmptyPacket
    <2>2. LoadedIsText' /\ ReadWhole' /\ WroteAlone'
      BY <1>5, <1>8 DEF IInv, QuietInv, LoadedIsText, ReadWhole, WroteAlone, Loaded, Writing
    <2>3. KeptApart'
      <3> SUFFICES ASSUME Quiet', NEW d \in Cmds, NEW e \in Cmds, d # e,
                          cmd'[d].pc \in Running, cmd'[e].pc \in Running
                   PROVE  cmd'[d].out \notin {cmd'[e].in, cmd'[e].out}
        BY DEF KeptApart
      <3>1. \A b \in Cmds : cmd[b].pc \in Running =>
                o \notin {cmd[b].in, cmd[b].out} /\ n # cmd[b].out
        BY <1>2 DEF Quiet
      <3>2. CASE d # c /\ e # c
        BY <1>5, <1>8, <3>2 DEF IInv, QuietInv, KeptApart
      <3>3. CASE d = c \/ e = c
        BY <1>5, <3>1, <3>3
      <3> QED
        BY <3>2, <3>3
    <2>4. QuietIsWhole'
      BY <1>3, <1>5, <1>8 DEF IInv, QuietInv, QuietIsWhole, Quiet, Writing
    <2> QED
      BY <2>1, <2>2, <2>3, <2>4 DEF QuietInv
  <1>10. OwnInv'
    <2>1. (\A d \in Cmds : ByDefault(d)') => (\A d \in Cmds : ByDefault(d))
      BY <1>3, <1>5 DEF ByDefault, DefaultName
    <2>2. OwnTexts'
      BY <1>3, <2>1 DEF IInv, OwnInv, OwnTexts
    <2>3. OwnTextsLoaded'
      BY <1>3, <1>5, <2>1 DEF IInv, OwnInv, OwnTextsLoaded, Loaded, Writing
    <2> QED
      BY <2>2, <2>3 DEF OwnInv
  <1> QED
    BY <1>6, <1>7, <1>9, <1>10 DEF IInv

-----------------------------------------------------------------------------
(***************************************************************************)
(* Steps that change a file.                                               *)
(***************************************************************************)
\* Everybody else's command stays where it is; who is about to read the file has
\* checked another, who is writing it is no longer alone.
LEMMA DisturbedCmds ==
    ASSUME TypeOK, NEW n, NEW others
    PROVE  /\ Disturbed(n, others) \in [Cmds -> CmdType]
           /\ \A d \in Cmds : LET D == Disturbed(n, others) IN
                /\ D[d].pc = cmd[d].pc /\ D[d].op = cmd[d].op
                /\ D[d].in = cmd[d].in /\ D[d].out = cmd[d].out
                /\ D[d].data = cmd[d].data
                /\ cmd[d].stale => D[d].stale
                /\ d \in others /\ cmd[d].pc = "read" /\ cmd[d].in = n => D[d].stale
                /\ D[d].mixed =>
                     cmd[d].mixed \/ (d \in others /\ cmd[d].pc \in Writing /\ cmd[d].out = n)
  <1>1. cmd \in [Cmds -> CmdType]
    BY DEF TypeOK, CmdType
  <1>2. Disturbed(n, others) \in [Cmds -> CmdType]
    BY <1>1 DEF Disturbed, CmdType
  <1>3. \A d \in Cmds : LET D == Disturbed(n, others) IN
          /\ D[d].pc = cmd[d].pc /\ D[d].op = cmd[d].op
          /\ D[d].in = cmd[d].in /\ D[d].out = cmd[d].out
          /\ D[d].data = cmd[d].data
    BY <1>1 DEF Disturbed, CmdType
  <1>4. \A d \in Cmds : LET D == Disturbed(n, others) IN
          /\ cmd[d].stale => D[d].stale
          /\ d \in others /\ cmd[d].pc = "read" /\ cmd[d].in = n => D[d].stale
    BY <1>1 DEF Disturbed, CmdType
  <1>5. \A d \in Cmds : LET D == Disturbed(n, others) IN
          D[d].mixed =>
             cmd[d].mixed \/ (d \in others /\ cmd[d].pc \in Writing /\ cmd[d].out = n)
    BY <1>1 DEF Disturbed, CmdType
  <1> QED
    BY <1>2, <1>3, <1>4, <1>5

\* A file is put in place, and no other.
LEMMA PutFile ==
    ASSUME NEW n, NEW f, disk' = Put(n, f)
    PROVE  /\ DOMAIN disk' = DOMAIN disk \union {n}
           /\ disk'[n] = f
           /\ \A m \in DOMAIN disk : m # n => disk'[m] = disk[m]
  BY DEF Put

\* Command c has written f to file n and gone on to p; what that means for the others.
Wrote(c, n, f, p) ==
    /\ DOMAIN disk' = DOMAIN disk \union {n} /\ disk'[n] = f
    /\ \A m \in DOMAIN disk : m # n => disk'[m] = disk[m]
    /\ cmd' \in [Cmds -> CmdType]
    /\ cmd'[c].pc = p
    /\ \A d \in Cmds : d # c => cmd'[d].pc = cmd[d].pc
    /\ \A d \in Cmds : /\ cmd'[d].op = cmd[d].op /\ cmd'[d].in = cmd[d].in
                       /\ cmd'[d].out = cmd[d].out /\ cmd'[d].data = cmd[d].data
    /\ \A d \in Cmds : cmd[d].stale => cmd'[d].stale
    /\ \A d \in Cmds : d # c /\ cmd[d].pc = "read" /\ cmd[d].in = n => cmd'[d].stale
    /\ \A d \in Cmds : cmd'[d].mixed =>
           cmd[d].mixed \/ (d # c /\ cmd[d].pc \in Writing /\ cmd[d].out = n)

LEMMA WriteEffect ==
    ASSUME TypeOK, NEW c \in Cmds, NEW n, NEW f, NEW p \in Pcs, disk' = Put(n, f),
           cmd' = Goes(Disturbed(n, Cmds \ {c}), c, p)
    PROVE  Wrote(c, n, f, p)
  <1>1. /\ DOMAIN disk' = DOMAIN disk \union {n} /\ disk'[n] = f
        /\ \A m \in DOMAIN disk : m # n => disk'[m] = disk[m]
    BY PutFile
  <1>2. cmd' \in [Cmds -> CmdType] /\ cmd'[c].pc = p
    <2>1. Disturbed(n, Cmds \ {c}) \in [Cmds -> CmdType]
      BY DisturbedCmds
    <2>2. Goes(Disturbed(n, Cmds \ {c}), c, p) \in [Cmds -> CmdType]
      BY <2>1, PcUpdated
    <2>3. Goes(Disturbed(n, Cmds \ {c}), c, p)[c].pc = p
      BY <2>1, PcUpdated
    <2> QED
      BY <2>2, <2>3
  <1>3. \A d \in Cmds : d # c => cmd'[d].pc = cmd[d].pc
    BY DisturbedCmds, PcUpdated
  <1>4. \A d \in Cmds : /\ cmd'[d].op = cmd[d].op /\ cmd'[d].in = cmd[d].in
                        /\ cmd'[d].out = cmd[d].out /\ cmd'[d].data = cmd[d].data
    BY DisturbedCmds, PcUpdated
  <1>5. /\ \A d \in Cmds : cmd[d].stale => cmd'[d].stale
        /\ \A d \in Cmds : d # c /\ cmd[d].pc = "read" /\ cmd[d].in = n => cmd'[d].stale
        /\ \A d \in Cmds : cmd'[d].mixed =>
               cmd[d].mixed \/ (d # c /\ cmd[d].pc \in Writing /\ cmd[d].out = n)
    <2>1. \A d \in Cmds : cmd[d].stale => cmd'[d].stale
      BY DisturbedCmds, PcUpdated
    <2>2. \A d \in Cmds : d # c /\ cmd[d].pc = "read" /\ cmd[d].in = n => cmd'[d].stale
      BY DisturbedCmds, PcUpdated
    <2>3. \A d \in Cmds : cmd'[d].mixed =>
               cmd[d].mixed \/ (d # c /\ cmd[d].pc \in Writing /\ cmd[d].out = n)
      BY DisturbedCmds, PcUpdated
    <2> QED
      BY <2>1, <2>2, <2>3
  <1> QED
    BY <1>1, <1>2, <1>3, <1>4, <1>5 DEF Wrote

\* A command truncates its output, or writes some of it, or the rest.
LEMMA WriteStep ==
    ASSUME IInv, NEW c \in Cmds, cmd[c].pc \in Loaded,
           NEW p \in Writing \union {"done"}, NEW f \in Contents,
           f.text \in {Empty, Garbage, cmd[c].data.text},
           f.text = Empty => f.layers = 0,
           p = "done" => f = cmd[c].data \/ cmd[c].mixed,
           NEW n, n = cmd[c].out, Wrote(c, n, f, p), UNCHANGED <<saves, saved, met>>
    PROVE  IInv'
  <1>1. n \in Seq(Parts) /\ n # <<>>
    BY DEF IInv, TypeOK, Loaded, Writing
  <1>2. /\ DOMAIN disk' = DOMAIN disk \union {n} /\ disk'[n] = f
        /\ \A m \in DOMAIN disk : m # n => disk'[m] = disk[m]
    BY DEF Wrote
  <1>3. /\ cmd' \in [Cmds -> CmdType]
        /\ cmd'[c].pc = p
        /\ \A d \in Cmds : d # c => cmd'[d].pc = cmd[d].pc
        /\ \A d \in Cmds : /\ cmd'[d].op = cmd[d].op /\ cmd'[d].in = cmd[d].in
                           /\ cmd'[d].out = cmd[d].out /\ cmd'[d].data = cmd[d].data
        /\ \A d \in Cmds : cmd[d].stale => cmd'[d].stale
        /\ \A d \in Cmds : d # c /\ cmd[d].pc = "read" /\ cmd[d].in = n => cmd'[d].stale
        /\ \A d \in Cmds : cmd'[d].mixed =>
               cmd[d].mixed \/ (d # c /\ cmd[d].pc \in Writing /\ cmd[d].out = n)
    BY DEF Wrote
  <1>4. /\ \A d \in Cmds : cmd'[d].pc = "new" <=> cmd[d].pc = "new"
        /\ \A d \in Cmds : cmd'[d].pc \in Running => cmd[d].pc \in Running
        /\ \A d \in Cmds : cmd'[d].pc \in Loaded => cmd[d].pc \in Loaded
        /\ \A d \in Cmds : d # c /\ cmd[d].pc \in Writing => cmd'[d].pc \in Writing
        /\ cmd[c].pc \in Running /\ cmd[c].pc \notin Broken /\ cmd[c].pc # "new"
    BY <1>3 DEF Running, Loaded, Writing, Broken
  <1>5. TypeOK'
    BY <1>1, <1>2, <1>3, <1>4 DEF IInv, TypeOK, CmdType
  <1>6. LimitInv'
    <2>1. NothingRead'
      BY <1>3, <1>4 DEF IInv, LimitInv, NothingRead, Loaded, Writing
    <2>2. CheckedFits'
      <3> SUFFICES ASSUME NEW d \in Cmds, cmd'[d].op = "encrypt",
                          cmd'[d].pc = "read", ~ cmd'[d].stale
                   PROVE  MayFit(disk'[cmd'[d].in])
        BY DEF CheckedFits, MayFit, IsPacket
      <3>1. d # c /\ cmd[d].op = "encrypt" /\ cmd[d].pc = "read" /\ ~ cmd[d].stale
        BY <1>3 DEF Writing
      <3>2. cmd'[d].in = cmd[d].in /\ cmd[d].in # n /\ cmd[d].in \in DOMAIN disk
        BY <1>3, <3>1 DEF IInv, TypeOK
      <3> QED
        BY <1>2, <3>1, <3>2 DEF IInv, LimitInv, CheckedFits
    <2>3. LimitKept'
      BY <1>3 DEF IInv, LimitInv, LimitKept
    <2> QED
      BY <2>1, <2>2, <2>3 DEF LimitInv
  <1>7. Quiet' => Quiet
    BY <1>3, <1>4 DEF Quiet
  <1>8. QuietInv'
    <2>1. NoEmptyPacket'
      BY <1>2 DEF IInv, QuietInv, NoEmptyPacket
    <2>2. LoadedIsText'
      BY <1>3, <1>4 DEF IInv, QuietInv, LoadedIsText
    <2>3. KeptApart'
      BY <1>3, <1>4, <1>7 DEF IInv, QuietInv, KeptApart
    <2>4. ReadWhole'
      BY <1>3, <1>4, <1>7 DEF IInv, QuietInv, ReadWhole
    <2>5. WroteAlone'
      <3> SUFFICES ASSUME Quiet, NEW d \in Cmds, cmd'[d].mixed PROVE FALSE
        BY <1>7 DEF WroteAlone
      <3>1. d # c /\ cmd[d].pc \in Running /\ cmd[d].out = n
        BY <1>3 DEF IInv, QuietInv, WroteAlone, Running
      <3> QED
        BY <1>4, <3>1 DEF IInv, QuietInv, KeptApart
    <2>6. QuietIsWhole'
      <3> SUFFICES ASSUME Quiet, NEW m \in DOMAIN disk'
                   PROVE  \/ disk'[m].text \in Texts
                          \/ m \in Documents /\ disk'[m].text \in saved[m]
                          \/ \E d \in Cmds : cmd'[d].pc \in Writing /\ cmd'[d].out = m
        BY <1>7 DEF QuietIsWhole, Quiet
      <3>1. CASE m = n /\ p = "done"
        BY <1>2, <3>1 DEF IInv, QuietInv, WroteAlone, ReadWhole
      <3>2. CASE m = n /\ p # "done"
        BY <1>3, <3>2
      <3>3. CASE m # n
        <4>1. m \in DOMAIN disk /\ disk'[m] = disk[m]
          BY <1>2, <3>3
        <4>2. \/ disk[m].text \in Texts
              \/ m \in Documents /\ disk[m].text \in saved[m]
              \/ \E d \in Cmds : cmd[d].pc \in Writing /\ cmd[d].out = m
          BY <4>1 DEF IInv, QuietInv, QuietIsWhole, Quiet
        <4> QED
          BY <1>3, <1>4, <3>3, <4>1, <4>2
      <3> QED
        BY <3>1, <3>2, <3>3
    <2> QED
      BY <2>1, <2>2, <2>3, <2>4, <2>5, <2>6 DEF QuietInv
  <1>9. \A d \in Cmds : ByDefault(d)' <=> ByDefault(d)
    BY <1>3, <1>4 DEF ByDefault, DefaultName
  <1>10. OwnInv'
    <2>1. OwnTextsLoaded'
      BY <1>3, <1>4, <1>9 DEF IInv, OwnInv, OwnTextsLoaded
    <2>2. OwnTexts'
      <3> SUFFICES ASSUME \A d \in Cmds : ByDefault(d), NEW q \in Documents, Apart(q),
                          NEW m \in DOMAIN disk', Based(q, m)
                   PROVE  disk'[m].text \in saved[q] \union {Empty, Garbage}
        BY <1>9 DEF OwnTexts
      <3>1. CASE m = n
        BY <1>2, <3>1 DEF IInv, OwnInv, OwnTextsLoaded
      <3>2. CASE m # n
        BY <1>2, <3>2 DEF IInv, OwnInv, OwnTexts
      <3> QED
        BY <3>1, <3>2
    <2> QED
      BY <2>1, <2>2 DEF OwnInv
  <1> QED
    BY <1>5, <1>6, <1>8, <1>10 DEF IInv

\* The user saves a document.
LEMMA SaveStep ==
    ASSUME IInv, NEW n \in Documents, Save(n)
    PROVE  IInv'
  <1>1. PICK t \in Texts \union {Empty} :
            disk' = Put(n, Plain(t)) /\ saved' = [saved EXCEPT ![n] = @ \union {t}]
    BY DEF Save
  <1>2. /\ DOMAIN disk' = DOMAIN disk \union {n}
        /\ disk'[n] \in Contents /\ disk'[n].text = t /\ disk'[n].layers = 0
        /\ \A m \in DOMAIN disk : m # n => disk'[m] = disk[m]
    <2>1. /\ DOMAIN disk' = DOMAIN disk \union {n} /\ disk'[n] = Plain(t)
          /\ \A m \in DOMAIN disk : m # n => disk'[m] = disk[m]
      BY <1>1, PutFile
    <2>2. t \in AllTexts
      BY DEF AllTexts
    <2> QED
      BY <2>1, <2>2, PlainContents
  <1>3. /\ cmd' \in [Cmds -> CmdType]
        /\ \A d \in Cmds : /\ cmd'[d].pc = cmd[d].pc /\ cmd'[d].op = cmd[d].op
                           /\ cmd'[d].in = cmd[d].in /\ cmd'[d].out = cmd[d].out
                           /\ cmd'[d].data = cmd[d].data
        /\ \A d \in Cmds : cmd[d].stale => cmd'[d].stale
        /\ \A d \in Cmds : cmd[d].pc = "read" /\ cmd[d].in = n => cmd'[d].stale
        /\ \A d \in Cmds : cmd'[d].mixed =>
               cmd[d].mixed \/ (cmd[d].pc \in Writing /\ cmd[d].out = n)
    BY DisturbedCmds DEF IInv, Save
  <1>4. /\ saved' \in [Documents -> SUBSET (Texts \union {Empty})]
        /\ t \in saved'[n] /\ \A m \in Documents : saved[m] \subseteq saved'[m]
    BY <1>1 DEF IInv, TypeOK
  <1>5. /\ met' \in BOOLEAN /\ (met => met')
        /\ ~met' => \A d \in Cmds : cmd[d].pc \in Running => cmd[d].out # n
    BY DEF IInv, TypeOK, Save
  <1>6. TypeOK'
    <2>1. saves' \in 0 .. MaxSaves
      <3>1. MaxSaves \in Nat
        BY WorkspaceAssumption
      <3> QED
        BY <3>1 DEF IInv, TypeOK, Save
    <2>2. n \in Seq(Parts) /\ n # <<>>
      BY WorkspaceAssumption
    <2> QED
      BY <1>2, <1>3, <1>4, <1>5, <2>1, <2>2 DEF IInv, TypeOK, CmdType
  <1>7. LimitInv'
    <2>1. NothingRead' /\ LimitKept'
      BY <1>3 DEF IInv, LimitInv, NothingRead, LimitKept
    <2>2. CheckedFits'
      <3> SUFFICES ASSUME NEW d \in Cmds, cmd'[d].op = "encrypt",
                          cmd'[d].pc = "read", ~ cmd'[d].stale
                   PROVE  MayFit(disk'[cmd'[d].in])
        BY DEF CheckedFits, MayFit, IsPacket
      <3>1. cmd[d].op = "encrypt" /\ cmd[d].pc = "read" /\ ~ cmd[d].stale
        BY <1>3
      <3>2. cmd'[d].in = cmd[d].in /\ cmd[d].in # n /\ cmd[d].in \in DOMAIN disk
        BY <1>3, <3>1 DEF IInv, TypeOK
      <3> QED
        BY <1>2, <3>1, <3>2 DEF IInv, LimitInv, CheckedFits
    <2> QED
      BY <2>1, <2>2 DEF LimitInv
  <1>8. Quiet' => Quiet
    BY <1>3, <1>5 DEF Quiet
  <1>9. QuietInv'
    <2>1. NoEmptyPacket' /\ LoadedIsText'
      BY <1>2, <1>3 DEF IInv, QuietInv, NoEmptyPacket, LoadedIsText
    <2>2. KeptApart'
      BY <1>3, <1>8 DEF IInv, QuietInv, KeptApart
    <2>3. ReadWhole'
      BY <1>3, <1>8 DEF IInv, QuietInv, ReadWhole
    <2>4. WroteAlone'
      BY <1>3, <1>5, <1>8 DEF IInv, QuietInv, WroteAlone, Quiet, Running
    <2>5. QuietIsWhole'
      <3> SUFFICES ASSUME Quiet, NEW m \in DOMAIN disk'
                   PROVE  \/ disk'[m].text \in Texts
                          \/ m \in Documents /\ disk'[m].text \in saved'[m]
                          \/ \E d \in Cmds : cmd'[d].pc \in Writing /\ cmd'[d].out = m
        BY <1>8 DEF QuietIsWhole, Quiet
      <3>1. CASE m = n
        BY <1>2, <1>4, <3>1
      <3>2. CASE m # n
        BY <1>2, <1>3, <1>4, <3>2 DEF IInv, QuietInv, QuietIsWhole, Quiet
      <3> QED
        BY <3>1, <3>2
    <2> QED
      BY <2>1, <2>2, <2>3, <2>4, <2>5 DEF QuietInv
  <1>10. \A d \in Cmds : ByDefault(d)' <=> ByDefault(d)
    BY <1>3 DEF ByDefault, DefaultName
  <1>11. OwnInv'
    <2>1. OwnTextsLoaded'
      BY <1>3, <1>4, <1>10 DEF IInv, OwnInv, OwnTextsLoaded
    <2>2. OwnTexts'
      <3> SUFFICES ASSUME \A d \in Cmds : ByDefault(d), NEW q \in Documents, Apart(q),
                          NEW m \in DOMAIN disk', Based(q, m)
                   PROVE  disk'[m].text \in saved'[q] \union {Empty, Garbage}
        BY <1>10 DEF OwnTexts
      <3>1. CASE m = n
        <4>1. q = n
          BY <3>1 DEF Apart
        <4> QED
          BY <1>2, <1>4, <3>1, <4>1
      <3>2. CASE m # n
        BY <1>2, <1>4, <3>2 DEF IInv, OwnInv, OwnTexts
      <3> QED
        BY <3>1, <3>2
    <2> QED
      BY <2>1, <2>2 DEF OwnInv
  <1> QED
    BY <1>6, <1>7, <1>9, <1>11 DEF IInv

-----------------------------------------------------------------------------
(***************************************************************************)
(* The theorems.                                                           *)
(***************************************************************************)
\* Every step of the commands and of the user preserves the invariant.
LEMMA StepIInv == IInv /\ [Next]_vars => IInv'
  <1> SUFFICES ASSUME IInv, [Next]_vars PROVE IInv'
    OBVIOUS
  <1>1. ASSUME NEW n \in Documents, Save(n) PROVE IInv'
    BY <1>1, SaveStep
  <1>2. ASSUME NEW c \in Cmds, Begin(c) PROVE IInv'
    BY <1>2, BeginStep
  <1>3. ASSUME NEW c \in Cmds, cmd[c].pc \in {"check", "read"}, Fails(c),
               UNCHANGED <<disk, saves, saved, met>>
        PROVE  IInv'
    BY <1>3, PcStep DEF Fails, Running
  <1>4. ASSUME NEW c \in Cmds, EncCheck(c) PROVE IInv'
    BY <1>3, <1>4, PcStep DEF EncCheck, Running
  <1>5. ASSUME NEW c \in Cmds, EncRead(c) PROVE IInv'
    <2>1. CASE Fails(c)
      BY <1>3, <1>5, <2>1 DEF EncRead
    <2>2. CASE /\ disk[cmd[c].in].text # Empty
               /\ cmd' = [cmd EXCEPT ![c].pc = "open", ![c].data = Sealed(disk[cmd[c].in])]
      <3>1. disk[cmd[c].in] \in Contents
        BY <1>5 DEF EncRead, IInv, TypeOK
      <3>2. /\ Sealed(disk[cmd[c].in]) \in Contents
            /\ Sealed(disk[cmd[c].in]).text = disk[cmd[c].in].text
        BY <3>1, SealedContents
      <3> QED
        BY <1>5, <2>2, <3>2, ReadStep DEF EncRead
    <2> QED
      BY <1>5, <2>1, <2>2 DEF EncRead
  <1>6. ASSUME NEW c \in Cmds, DecRead(c) PROVE IInv'
    <2>1. CASE Fails(c)
      BY <1>3, <1>6, <2>1 DEF DecRead
    <2>2. CASE /\ IsPacket(disk[cmd[c].in])
               /\ cmd' = [cmd EXCEPT ![c].pc = "open", ![c].data = Opened(disk[cmd[c].in])]
      <3>1. cmd[c].in \in DOMAIN disk /\ disk[cmd[c].in] \in Contents
        BY <1>6 DEF DecRead, IInv, TypeOK
      <3>2. disk[cmd[c].in].text # Empty
        BY <2>2, <3>1 DEF IInv, QuietInv, NoEmptyPacket, IsPacket
      <3>3. /\ Opened(disk[cmd[c].in]) \in Contents
            /\ Opened(disk[cmd[c].in]).text = disk[cmd[c].in].text
        BY <2>2, <3>1, OpenedContents
      <3> QED
        BY <1>6, <2>2, <3>2, <3>3, ReadStep DEF DecRead
    <2> QED
      BY <1>6, <2>1, <2>2 DEF DecRead
  <1>7. ASSUME NEW c \in Cmds, cmd[c].pc \in Loaded,
               NEW p \in Writing \union {"done"}, NEW f \in Contents,
               f.text \in {Empty, Garbage, cmd[c].data.text}, f.text = Empty => f.layers = 0,
               p = "done" => f = cmd[c].data \/ cmd[c].mixed,
               disk' = Put(cmd[c].out, f), cmd' = Goes(Disturbed(cmd[c].out, Cmds \ {c}), c, p),
               UNCHANGED <<saves, saved, met>>
        PROVE  IInv'
    <2>1. p \in Pcs
      BY DEF Pcs, Running
    <2>2. Wrote(c, cmd[c].out, f, p)
      BY <1>7, <2>1, WriteEffect DEF IInv
    <2> QED
      BY <1>7, <2>2, WriteStep
  <1>8. \A t \in {Empty, Garbage} :
            Plain(t) \in Contents /\ Plain(t).text = t /\ Plain(t).layers = 0
    BY PlainContents DEF AllTexts
  <1>9. ASSUME NEW c \in Cmds, OpenOutput(c) PROVE IInv'
    BY <1>7, <1>8, <1>9 DEF OpenOutput, Loaded, Writing
  <1>10. ASSUME NEW c \in Cmds, WriteSome(c) PROVE IInv'
    BY <1>7, <1>8, <1>10 DEF WriteSome, Loaded, Writing
  <1>11. ASSUME NEW c \in Cmds, WriteRest(c) PROVE IInv'
    <2>1. cmd[c].data \in Contents /\ (cmd[c].data.text = Empty => cmd[c].data.layers = 0)
      BY <1>11 DEF WriteRest, IInv, TypeOK, QuietInv, LoadedIsText, Loaded
    <2>2. CASE disk' = Put(cmd[c].out, cmd[c].data)
      BY <1>7, <1>11, <2>1, <2>2 DEF WriteRest, Loaded
    <2>3. CASE cmd[c].mixed /\ disk' = Put(cmd[c].out, Plain(Garbage))
      BY <1>7, <1>8, <1>11, <2>3 DEF WriteRest, Loaded
    <2> QED
      BY <1>11, <2>2, <2>3 DEF WriteRest
  <1>12. ASSUME NEW c \in Cmds, WriteFails(c) \/ Die(c) PROVE IInv'
    BY <1>12, PcStep DEF WriteFails, Die, Broken, Running
  <1>13. CASE UNCHANGED vars
    BY <1>13 DEF vars, IInv, TypeOK, LimitInv, NothingRead, CheckedFits, LimitKept, QuietInv,
        NoEmptyPacket, LoadedIsText, KeptApart, ReadWhole, WroteAlone, QuietIsWhole, Quiet,
        OwnInv, OwnTexts, OwnTextsLoaded, ByDefault, DefaultName, MayFit, IsPacket
  <1> QED
    BY <1>1, <1>2, <1>4, <1>5, <1>6, <1>9, <1>10, <1>11, <1>12, <1>13 DEF Next

\* The inductive invariant of the working directory.
THEOREM WorkspaceInvariant == Spec => []IInv
  BY InitIInv, StepIInv, PTL DEF Spec

\* Every variable keeps its type.
THEOREM TypeCorrect == Spec => []TypeOK
  <1>1. IInv => TypeOK
    BY DEF IInv
  <1> QED
    BY <1>1, WorkspaceInvariant, PTL

\* Default names never mix up documents (decrypt_cmd's choice of a name and the option
\* of encrypt_cmd), for any number of commands that overlap and die.
THEOREM NamesKeepTexts == Spec => []OwnTexts
  <1>1. IInv => OwnTexts
    BY DEF IInv, OwnInv
  <1> QED
    BY <1>1, WorkspaceInvariant, PTL

\* Commands that keep out of each other's way leave whole files, for any number of them
\* and whatever names the user gives.
THEOREM QuietLeavesWhole == Spec => []QuietIsWhole
  <1>1. IInv => QuietIsWhole
    BY DEF IInv, QuietInv
  <1> QED
    BY <1>1, WorkspaceInvariant, PTL

\* A document over the limit of validate_file_size is encrypted only when somebody
\* replaced it between the check and the read.
THEOREM LimitHolds == Spec => []LimitKept
  <1>1. IInv => LimitKept
    BY DEF IInv, LimitInv
  <1> QED
    BY <1>1, WorkspaceInvariant, PTL

=============================================================================
