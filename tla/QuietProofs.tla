----------------------------- MODULE QuietProofs -----------------------------
(***************************************************************************)
(* What encrypt and decrypt achieve over a key directory that is quiet     *)
(* while it matters: no keygen of the two key ids has run since the        *)
(* encryption started, and those before it took turns and returned.        *)
(***************************************************************************)
EXTENDS SessionProofs

-----------------------------------------------------------------------------
(***************************************************************************)
(* The inductive invariant.                                                *)
(***************************************************************************)
Parties(e) == {Stripped(enc[e].to), Stripped(enc[e].from)}

Started(r) == r # NoRun => r \in Runs /\ pc[r] # "new"

\* An encryption that found nobody at work, and after which nobody started, still
\* has nobody at work.
Tracked(e) ==
    /\ enc[e].pc = "new" => ~enc[e].alone
    /\ enc[e].alone =>
          /\ Started(enc[e].last.to) /\ Started(enc[e].last.from)
          /\ LastOf(e) = enc[e].last => \A k \in Parties(e) : Idle(k)

\* The key x that was loaded from file s of n is the one that is there.
Current(x, n, s) ==
    x # Absent => n \in KeyIds /\ files[n][s].text = "full" /\ files[n][s].by = x

\* Over a quiet key directory, what encrypt has read is what is there ...
EncCurrent(e) ==
    /\ enc[e].pc = "new" =>
          enc[e].x = Absent /\ enc[e].kem = Absent /\ enc[e].spriv = Absent /\ enc[e].spub = Absent
    /\ enc[e].pc = "spub" => enc[e].spriv # Absent
    /\ Undisturbed(e) =>
          /\ Current(enc[e].x, enc[e].to, XPub) /\ Current(enc[e].kem, enc[e].to, MPub)
          /\ Current(enc[e].spriv, enc[e].from, EPriv) /\ Current(enc[e].spub, enc[e].from, EPub)

\* ... and so is what the recipient reads.
DecCurrent(d) ==
    /\ dec[d].pc = "new" => dec[d].x = Absent /\ dec[d].kem = Absent
    /\ dec[d].pc # "new" /\ dec[d].as = enc[dec[d].of].to /\ Undisturbed(dec[d].of) =>
          Current(dec[d].x, dec[d].as, XPriv) /\ Current(dec[d].kem, dec[d].as, MPriv)

\* The two properties, for one process.
EncSucceeds(e) ==
    /\ enc[e].pc = "failed" /\ enc[e].error \notin {"ValidationError", "OSError"}
    /\ Undisturbed(e)
    =>
        /\ enc[e].error = "FileNotFoundError"
        /\ enc[e].to \in KeyIds => files[enc[e].to][XPub].text = "none"

DecSucceeds(d) ==
    LET e == dec[d].of
    IN  dec[d].pc = "failed" /\ dec[d].as = enc[e].to /\ Undisturbed(e) =>
            \/ dec[d].error \in {"ValidationError", "OSError"}
            \/ dec[d].error \in {"WrongPassphraseError", "KeyProtectedError"} /\ ~RightPhrase(d)
            \/ dec[d].error = "PacketValidationError" /\ dec[d].packet = Absent
            \/ dec[d].error = "RuntimeError" /\ IsHybrid(enc[e].packet)

EncQuiet(e) == Tracked(e) /\ EncCurrent(e) /\ EncSucceeds(e)
DecQuiet(d) == DecCurrent(d) /\ DecSucceeds(d)

QInv ==
    /\ SInv
    /\ \A e \in Encs : EncQuiet(e)
    /\ \A d \in Decs : DecQuiet(d)

-----------------------------------------------------------------------------
(***************************************************************************)
(* Keygens.                                                                *)
(***************************************************************************)
\* Neither an overlap nor a death is undone.
LEMMA CleanBack ==
    ASSUME IInv, Next, NEW k \in KeyIds, Clean(k)'
    PROVE  Clean(k)
  <1>1. pc \in [Runs -> Phases] /\ solo \in [Runs -> BOOLEAN]
    BY DEF IInv, TypeOK
  <1>2. ASSUME NEW r \in Runs, Start(r)
        PROVE  Clean(k)
    BY <1>1, <1>2 DEF Start, Clean, RunsOf
  <1>3. ASSUME NEW r \in Runs, OpenFile(r) \/ FillFile(r) \/ ChmodFile(r) \/ Fail(r)
        PROVE  Clean(k)
    <2>1. /\ UNCHANGED <<key, solo>> /\ pc[r] \in Working
          /\ pc' = [pc EXCEPT ![r] = pc'[r]] /\ pc'[r] # "new"
      BY <1>1, <1>3 DEF OpenFile, FillFile, ChmodFile, Fail, histVars, Working
    <2> QED
      BY <1>1, <2>1 DEF Clean, RunsOf, Working
  <1>4. CASE ToggleOqs
    BY <1>4 DEF ToggleOqs, procVars, histVars, Clean, RunsOf
  <1> QED
    BY <1>2, <1>3, <1>4 DEF Next, Step

\* When nobody is at work on a key id, its files stay until somebody starts.
LEMMA QuietId ==
    ASSUME IInv, Next, NEW k \in KeyIds, Idle(k), latest'[k] = latest[k]
    PROVE  Idle(k)' /\ files'[k] = files[k]
  <1>1. \A r \in Runs : key[r] = k => pc[r] \notin Working
    BY DEF Idle, Busy
  <1>2. ASSUME NEW r \in Runs, Start(r)
        PROVE  Idle(k)' /\ files'[k] = files[k]
    <2>1. key[r] # k
      BY <1>2, KeyStoreAssumption DEF Start, IInv, TypeOK, LatestStarted
    <2> QED
      BY <1>1, <1>2, <2>1 DEF Start, Idle, Busy, IInv, TypeOK
  <1>3. ASSUME NEW r \in Runs, OpenFile(r) \/ FillFile(r) \/ ChmodFile(r) \/ Fail(r)
        PROVE  Idle(k)' /\ files'[k] = files[k]
    <2>1. pc[r] \in Working /\ key' = key /\ pc' = [pc EXCEPT ![r] = pc'[r]]
      BY <1>3 DEF OpenFile, FillFile, ChmodFile, Fail, Working, IInv, TypeOK
    <2>2. key[r] # k /\ key[r] \in KeyIds
      BY <1>1, <2>1 DEF IInv, TypeOK
    <2>3. Idle(k)'
      BY <1>1, <2>1, <2>2 DEF Idle, Busy, IInv, TypeOK
    <2>4. files'[k] = files[k]
      BY <1>3, <2>2 DEF OpenFile, FillFile, ChmodFile, Fail, IInv, TypeOK
    <2> QED
      BY <2>3, <2>4
  <1>4. CASE ToggleOqs
    BY <1>4 DEF ToggleOqs, procVars, histVars, Idle, Busy
  <1> QED
    BY <1>2, <1>3, <1>4 DEF Next, Step

\* A run that was the last of its key id once, and is now, has been so in between.
LEMMA LatestBack ==
    ASSUME IInv, Next, NEW k \in KeyIds, Started(latest'[k])
    PROVE  latest[k] = latest'[k]
  <1>1. ASSUME NEW r \in Runs, Start(r)
        PROVE  latest[k] = latest'[k]
    BY <1>1, KeyStoreAssumption DEF Start, Started, IInv, TypeOK
  <1> QED
    BY <1>1 DEF Next, Step, OpenFile, FillFile, ChmodFile, Fail, ToggleOqs, histVars

LEMMA StartedStays ==
    ASSUME IInv, Next, NEW r, Started(r)
    PROVE  Started(r)'
  <1>1. ASSUME NEW q \in Runs, Step(q)
        PROVE  Started(r)'
    BY <1>1 DEF Started, IInv, TypeOK, Step, Start, OpenFile, FillFile, ChmodFile, Fail
  <1> QED
    BY <1>1 DEF Next, ToggleOqs, procVars, Started

\* Over a quiet key id there is no broken file, and the halves match.
LEMMA QuietFiles ==
    ASSUME IInv, NEW k \in KeyIds, Clean(k), Idle(k)
    PROVE  /\ \A s \in Slots : files[k][s].text \in {"none", "full"}
           /\ Paired(k)
  <1>1. ASSUME NEW s \in Slots
        PROVE  files[k][s].text \in {"none", "full"}
    <2>1. files[k][s].text \in Texts /\ files[k][s].text # "garbled"
      BY DEF IInv, TypeOK, File, GarbledMeansOverlap, Clean
    <2>2. files[k][s].text # "empty"
      BY DEF IInv, EmptyMeansUnfinished, Clean, RunsOf, Idle, Busy, Working
    <2> QED
      BY <2>1, <2>2 DEF Texts
  <1>2. Paired(k)
    BY DEF IInv, PairedSoFar, Paired, Idle
  <1> QED
    BY <1>1, <1>2

\* A quiet encryption was quiet before, and its key files are as they were.
Calm(e) ==
    Undisturbed(e)' =>
        /\ Undisturbed(e)
        /\ \A k \in Parties(e) : files'[k] = files[k]

LEMMA KeygenTracked ==
    ASSUME SInv, Next, UNCHANGED sessionVars, NEW e \in Encs, Tracked(e)
    PROVE  Tracked(e)' /\ Calm(e)
  <1> DEFINE to == Stripped(enc[e].to)
             from == Stripped(enc[e].from)
             last == enc[e].last
  <1>1. enc' = enc /\ IInv
    BY DEF sessionVars, SInv
  <1>2. to \in KeyIds /\ from \in KeyIds /\ Parties(e) = {to, from} /\ Parties(e)' = Parties(e)
    <2>1. enc[e].to \in Spellings /\ enc[e].from \in Spellings
      BY DEF SInv, EncInv, EncTypes
    <2> QED
      BY <1>1, <2>1, SpellingOf DEF Parties
  <1>3. ASSUME enc[e].alone
        PROVE  Started(last.to)' /\ Started(last.from)'
    <2>1. Started(last.to) /\ Started(last.from)
      BY <1>3 DEF Tracked
    <2> QED
      BY <1>1, <2>1, StartedStays
  <1>4. ASSUME enc[e].alone, LastOf(e)' = last
        PROVE  /\ LastOf(e) = last
               /\ \A k \in Parties(e) : Idle(k)' /\ files'[k] = files[k]
    <2>1. Started(last.to) /\ Started(last.from)
      BY <1>4 DEF Tracked
    <2>2. latest'[to] = last.to /\ latest'[from] = last.from
      BY <1>1, <1>4 DEF LastOf
    <2>3. latest[to] = latest'[to] /\ latest[from] = latest'[from]
      BY <1>1, <1>2, <2>1, <2>2, LatestBack
    <2>4. LastOf(e) = last
      BY <1>1, <1>4, <2>3 DEF LastOf
    <2>5. ASSUME NEW k \in Parties(e)
          PROVE  Idle(k)' /\ files'[k] = files[k]
      <3>1. Idle(k) /\ k \in KeyIds /\ latest'[k] = latest[k]
        BY <1>2, <1>4, <2>3, <2>4 DEF Tracked
      <3> QED
        BY <1>1, <3>1, QuietId
    <2> QED
      BY <2>4, <2>5
  <1>5. Tracked(e)'
    BY <1>1, <1>2, <1>3, <1>4 DEF Tracked
  <1>6. Calm(e)
    <2> SUFFICES ASSUME Undisturbed(e)'
                 PROVE  /\ Undisturbed(e)
                        /\ \A k \in Parties(e) : files'[k] = files[k]
      BY DEF Calm
    <2>1. enc[e].alone /\ LastOf(e)' = last /\ Clean(to)' /\ Clean(from)'
      BY <1>1 DEF Undisturbed
    <2>2. LastOf(e) = last /\ \A k \in Parties(e) : files'[k] = files[k]
      BY <1>4, <2>1
    <2>3. Clean(to) /\ Clean(from)
      BY <1>1, <1>2, <2>1, CleanBack
    <2> QED
      BY <2>1, <2>2, <2>3 DEF Undisturbed
  <1> QED
    BY <1>5, <1>6

LEMMA KeygenQuiet ==
    ASSUME QInv, Next, UNCHANGED sessionVars
    PROVE  QInv'
  <1>1. SInv'
    BY KeygenMove DEF QInv
  <1>2. UNCHANGED <<enc, dec>>
    BY DEF sessionVars
  <1>3. ASSUME NEW e \in Encs
        PROVE  Tracked(e)' /\ Calm(e)
    BY KeygenTracked DEF QInv, EncQuiet
  <1>4. ASSUME NEW e \in Encs, Undisturbed(e)', NEW n \in {enc[e].to, enc[e].from}
        PROVE  n \in KeyIds => files'[n] = files[n]
    <2>1. n \in KeyIds => n \in Parties(e)
      BY <1>4 DEF Parties, Stripped
    <2> QED
      BY <1>3, <1>4, <2>1 DEF Calm
  <1>5. ASSUME NEW e \in Encs
        PROVE  EncQuiet(e)'
    <2>1. EncCurrent(e) /\ EncSucceeds(e)
      BY DEF QInv, EncQuiet
    <2>2. Undisturbed(e)' => Undisturbed(e)
      BY <1>3 DEF Calm
    <2>3. EncCurrent(e)'
      BY <1>2, <1>4, <2>1, <2>2 DEF EncCurrent, Current
    <2>4. EncSucceeds(e)'
      BY <1>2, <1>4, <2>1, <2>2 DEF EncSucceeds
    <2> QED
      BY <1>3, <2>3, <2>4 DEF EncQuiet
  <1>6. ASSUME NEW d \in Decs
        PROVE  DecQuiet(d)'
    <2> DEFINE e == dec[d].of
    <2>1. DecCurrent(d) /\ DecSucceeds(d) /\ e \in Encs
      BY DEF QInv, DecQuiet, SInv, DecInv, DecTypes
    <2>2. Undisturbed(e)' => Undisturbed(e)
      BY <1>2, <1>3, <2>1 DEF Calm, Undisturbed, LastOf, Clean, RunsOf
    <2>3. DecCurrent(d)'
      BY <1>2, <1>4, <2>1, <2>2 DEF DecCurrent, Current
    <2>4. DecSucceeds(d)'
      <3>1. Undisturbed(e)' /\ dec[d].as = enc[e].to => (RightPhrase(d)' => RightPhrase(d))
        BY <1>2, <1>4, <2>1 DEF RightPhrase, FileOf
      <3> QED
        BY <1>2, <2>1, <2>2, <3>1 DEF DecSucceeds
    <2> QED
      BY <2>3, <2>4 DEF DecQuiet
  <1> QED
    BY <1>1, <1>5, <1>6 DEF QInv

-----------------------------------------------------------------------------
(***************************************************************************)
(* The steps of an encryption.                                             *)
(***************************************************************************)
EncSteady(e) == \A f \in {"from", "to", "alone", "last"} : enc'[e][f] = enc[e][f]

LEMMA SteadyTracked ==
    ASSUME NEW e \in Encs, UNCHANGED vars, EncSteady(e), Tracked(e), enc'[e].pc # "new"
    PROVE  Tracked(e)' /\ (Undisturbed(e)' => Undisturbed(e))
  <1>1. /\ enc'[e].from = enc[e].from /\ enc'[e].to = enc[e].to
        /\ enc'[e].alone = enc[e].alone /\ enc'[e].last = enc[e].last
    BY DEF EncSteady
  <1>2. UNCHANGED <<pc, key, solo, latest>>
    BY DEF vars, procVars, histVars
  <1>3. Parties(e)' = Parties(e) /\ LastOf(e)' = LastOf(e)
    BY <1>1, <1>2 DEF Parties, LastOf
  <1>4. Tracked(e)'
    BY <1>1, <1>2, <1>3 DEF Tracked, Started, Idle, Busy
  <1>5. Undisturbed(e)' => Undisturbed(e)
    BY <1>1, <1>2, <1>3 DEF Undisturbed, Clean, RunsOf
  <1> QED
    BY <1>4, <1>5

\* What a step of encryption e must do for everything to stay as quiet as it was.
LEMMA EncQuietMove ==
    ASSUME QInv, NEW e \in Encs, SInv', UNCHANGED <<vars, dec>>, EncShape(e), EncQuiet(e)',
           enc[e].packet # Absent =>
              /\ enc'[e].packet = enc[e].packet /\ enc'[e].to = enc[e].to
              /\ Undisturbed(e)' => Undisturbed(e)
    PROVE  QInv'
  <1>1. UNCHANGED <<files, pc, key, solo, latest, dec>>
    BY DEF vars, procVars, histVars
  <1>2. ASSUME NEW g \in Encs \ {e}
        PROVE  EncQuiet(g)' /\ (Undisturbed(g)' => Undisturbed(g))
    <2>1. enc'[g] = enc[g] /\ EncQuiet(g)
      BY DEF QInv, EncShape
    <2>2. EncSteady(g) /\ Tracked(g)
      BY <2>1 DEF EncSteady, EncQuiet
    <2>3. Undisturbed(g)' => Undisturbed(g)
      BY <1>1, <2>1 DEF Undisturbed, LastOf, Clean, RunsOf
    <2>4. Tracked(g)'
      BY <1>1, <2>1, <2>2 DEF Tracked, Started, Parties, LastOf, Idle, Busy
    <2>5. EncCurrent(g)' /\ EncSucceeds(g)'
      BY <1>1, <2>1, <2>3 DEF EncQuiet, EncCurrent, EncSucceeds, Current
    <2> QED
      BY <2>3, <2>4, <2>5 DEF EncQuiet
  <1>3. ASSUME NEW d \in Decs
        PROVE  DecQuiet(d)'
    <2>1. PICK g \in Encs : g = dec[d].of
      BY DEF QInv, SInv, DecInv, DecTypes
    <2>2. DecQuiet(d) /\ dec'[d] = dec[d]
      BY <1>1 DEF QInv
    <2>3. CASE dec[d].pc = "new"
      BY <2>2, <2>3 DEF DecQuiet, DecCurrent, DecSucceeds
    <2>4. CASE dec[d].pc # "new"
      <3>1. box[g] # Absent
        BY <2>1, <2>4 DEF QInv, SInv, DecInv, DecPacketHeld
      <3>2. enc[g].packet # Absent
        BY <3>1 DEF QInv, SInv, EncInv, EncBox
      <3>3. /\ enc'[g].packet = enc[g].packet /\ enc'[g].to = enc[g].to
            /\ Undisturbed(g)' => Undisturbed(g)
        BY <1>2, <3>2 DEF EncShape
      <3>4. DecCurrent(d)'
        <4>1. /\ dec'[d].as = enc'[g].to => dec[d].as = enc[g].to
              /\ dec'[d].of = g
          BY <2>1, <2>2, <3>3
        <4>2. dec'[d].as = enc'[g].to /\ Undisturbed(g)' =>
                 /\ Current(dec[d].x, dec[d].as, XPriv)
                 /\ Current(dec[d].kem, dec[d].as, MPriv)
          BY <2>1, <2>2, <2>4, <3>3, <4>1 DEF DecQuiet, DecCurrent
        <4> QED
          BY <1>1, <2>1, <2>2, <2>4, <4>1, <4>2 DEF DecCurrent, Current, Undisturbed
      <3>5. DecSucceeds(d)'
        BY <1>1, <2>1, <2>2, <3>3 DEF DecQuiet, DecSucceeds, Undisturbed, IsHybrid, RightPhrase, FileOf
      <3> QED
        BY <3>4, <3>5 DEF DecQuiet
    <2> QED
      BY <2>3, <2>4
  <1> QED
    BY <1>2, <1>3 DEF QInv

LEMMA EncStartQuiet ==
    ASSUME QInv, NEW e \in Encs, EncStart(e)
    PROVE  QInv'
  <1>1. SInv' /\ SInv /\ EncQuiet(e)
    BY EncStartStep DEF QInv
  <1>2. /\ enc[e].pc = "new" /\ UNCHANGED <<vars, dec, box, out>>
        /\ DOMAIN enc = Encs /\ DOMAIN enc[e] = EncFields /\ enc[e].packet = Absent
        /\ enc[e].to \in Spellings /\ enc[e].from \in Spellings
    BY <1>1 DEF EncStart, SInv, EncInv, EncTypes, EncPacket
  <1>3. ~enc[e].alone
    BY <1>1, <1>2 DEF EncQuiet, Tracked
  <1>4. /\ EncShape(e) /\ EncKeeps(e, {"pc", "error", "alone", "last"})
        /\ \/ /\ enc'[e].pc = "failed" /\ enc'[e].error = "ValidationError"
              /\ enc'[e].alone = enc[e].alone
           \/ /\ enc'[e].pc = "xpub" /\ enc'[e].last = LastOf(e)
              /\ enc'[e].alone = (Idle(Stripped(enc[e].from)) /\ Idle(Stripped(enc[e].to)))
    <2>1. CASE EncFail(e, "ValidationError")
      BY <1>2, <2>1 DEF EncFail, EncFields, EncKeeps, EncShape
    <2>2. CASE enc' = [enc EXCEPT ![e].pc = "xpub",
                             ![e].alone = Idle(Stripped(enc[e].from)) /\ Idle(Stripped(enc[e].to)),
                             ![e].last = LastOf(e)]
      BY <1>2, <2>2 DEF EncFields, EncKeeps, EncShape
    <2> QED
      BY <2>1, <2>2 DEF EncStart
  <1>5. /\ enc'[e].to = enc[e].to /\ enc'[e].from = enc[e].from
        /\ enc'[e].x = Absent /\ enc'[e].kem = Absent
        /\ enc'[e].spriv = Absent /\ enc'[e].spub = Absent
    BY <1>1, <1>2, <1>4 DEF EncKeeps, EncFields, EncQuiet, EncCurrent
  <1>6. EncCurrent(e)'
    BY <1>4, <1>5 DEF EncCurrent, Current
  <1>7. CASE enc'[e].pc = "failed" /\ enc'[e].error = "ValidationError" /\ enc'[e].alone = enc[e].alone
    <2>1. Tracked(e)' /\ EncSucceeds(e)'
      BY <1>3, <1>7 DEF Tracked, EncSucceeds
    <2> QED
      BY <1>1, <1>2, <1>4, <1>6, <2>1, EncQuietMove DEF EncQuiet
  <1>8. CASE /\ enc'[e].pc = "xpub" /\ enc'[e].last = LastOf(e)
             /\ enc'[e].alone = (Idle(Stripped(enc[e].from)) /\ Idle(Stripped(enc[e].to)))
    <2>1. Started(latest[Stripped(enc[e].to)]) /\ Started(latest[Stripped(enc[e].from)])
      BY <1>1, <1>2, SpellingOf DEF Started, SInv, IInv, TypeOK, LatestStarted
    <2>2. Started(enc[e].last.to)' /\ Started(enc[e].last.from)'
      BY <1>2, <1>8, <2>1 DEF LastOf, Started, vars, procVars
    <2>3. enc'[e].alone => \A k \in Parties(e)' : Idle(k)'
      BY <1>2, <1>5, <1>8 DEF Parties, Idle, Busy, vars, procVars
    <2>4. Tracked(e)'
      BY <1>8, <2>2, <2>3 DEF Tracked, Started
    <2>5. EncSucceeds(e)'
      BY <1>8 DEF EncSucceeds
    <2> QED
      BY <1>1, <1>2, <1>4, <1>6, <2>4, <2>5, EncQuietMove DEF EncQuiet
  <1> QED
    BY <1>4, <1>7, <1>8

\* The steps that load nothing.
LEMMA EncKeepQuiet ==
    ASSUME QInv, NEW e \in Encs, SInv', UNCHANGED <<vars, dec>>, EncShape(e),
           EncKeeps(e, {"pc", "error", "packet"}),
           enc[e].packet # Absent => enc'[e].packet = enc[e].packet,
           enc[e].pc # "new", enc'[e].pc \notin {"new", "spub"},
           enc'[e].pc = "failed" => enc'[e].error \in {"ValidationError", "OSError"}
    PROVE  QInv'
  <1>1. /\ enc'[e].to = enc[e].to /\ enc'[e].from = enc[e].from
        /\ enc'[e].x = enc[e].x /\ enc'[e].kem = enc[e].kem
        /\ enc'[e].spriv = enc[e].spriv /\ enc'[e].spub = enc[e].spub
        /\ EncSteady(e)
    BY DEF EncKeeps, EncFields, EncSteady
  <1>2. EncQuiet(e) /\ files' = files
    BY DEF QInv, vars
  <1>3. Tracked(e)' /\ (Undisturbed(e)' => Undisturbed(e))
    BY <1>1, <1>2, SteadyTracked DEF EncQuiet
  <1>4. EncCurrent(e)'
    BY <1>1, <1>2, <1>3 DEF EncQuiet, EncCurrent, Current
  <1>5. EncSucceeds(e)'
    BY DEF EncSucceeds
  <1>6. EncQuiet(e)'
    BY <1>3, <1>4, <1>5 DEF EncQuiet
  <1> QED
    BY <1>1, <1>3, <1>6, EncQuietMove

\* What a quiet encryption, or its recipient, finds in a key file.
LEMMA QuietRead ==
    ASSUME QInv, NEW e \in Encs, Undisturbed(e), NEW n \in {enc[e].to, enc[e].from}
    PROVE  /\ \A s \in Slots : FileOf(n, s).text \in {"none", "full"}
           /\ n \in KeyIds => Paired(n)
  <1>1. Clean(Stripped(n)) /\ Idle(Stripped(n)) /\ n \in Spellings
    BY DEF QInv, EncQuiet, Tracked, Undisturbed, Parties, SInv, EncInv, EncTypes
  <1>2. CASE n \in KeyIds
    <2>1. Stripped(n) = n
      BY <1>2 DEF Stripped
    <2> QED
      BY <1>1, <1>2, <2>1, QuietFiles DEF QInv, SInv, FileOf
  <1>3. CASE n \notin KeyIds
    BY <1>3 DEF FileOf, NoFile
  <1> QED
    BY <1>2, <1>3

\* The four key files of an encryption, and where they go.
Reads(e, field, n, s) ==
    \/ field = "x"     /\ n = enc[e].to   /\ s = XPub
    \/ field = "kem"   /\ n = enc[e].to   /\ s = MPub
    \/ field = "spriv" /\ n = enc[e].from /\ s = EPriv
    \/ field = "spub"  /\ n = enc[e].from /\ s = EPub

\* A load may fail over a quiet key directory only if the recipient has no key.
LoadsWell(e, field, n, s, next) ==
    /\ Reads(e, field, n, s)
    /\ enc[e].pc # "new" /\ enc[e].packet = Absent
    /\ next \notin {"new", "failed"} /\ (next = "spub" => field = "spriv")
    /\ Undisturbed(e) =>
          FileOf(n, s).text = "full" \/ (field = "x" /\ FileOf(n, s).text = "none")

LEMMA EncLoadQuiet ==
    ASSUME QInv, NEW e \in Encs, SInv', UNCHANGED <<vars, dec, box, out>>,
           NEW n \in Spellings, NEW s \in Slots, NEW next,
           NEW field \in {"x", "kem", "spriv", "spub"},
           LoadsWell(e, field, n, s, next), EncLoad(e, FileOf(n, s), field, next)
    PROVE  QInv'
  <1> USE DEF LoadsWell
  <1> DEFINE f == FileOf(n, s)
  <1>1. EncQuiet(e) /\ SInv /\ IInv /\ UNCHANGED <<files, dec>>
    BY DEF QInv, SInv, vars
  <1>2. EncShape(e) /\ (EncLoads(e, f, field, next) \/ EncFails(e, LoadPlain(f)))
    BY <1>1, EncLoadStep
  <1>3. CASE EncLoads(e, f, field, next)
    <2>1. /\ f.text = "full" /\ enc'[e][field] = f.by
          /\ enc'[e].pc = next /\ EncKeeps(e, {"pc", field})
      BY <1>3 DEF EncLoads
    <2>2. n \in KeyIds /\ f = files[n][s] /\ f.by \in Runs
      BY <1>1, <2>1, Loaded
    <2>3. Current(f.by, n, s)
      BY <2>1, <2>2 DEF Current
    <2> HIDE DEF f
    <2>4. /\ EncSteady(e) /\ enc'[e].to = enc[e].to /\ enc'[e].from = enc[e].from
      BY <2>1 DEF EncKeeps, EncFields, EncSteady
    <2>5. Tracked(e)' /\ (Undisturbed(e)' => Undisturbed(e))
      BY <1>1, <2>1, <2>4, SteadyTracked DEF EncQuiet
    <2>6. \A g \in {"x", "kem", "spriv", "spub"} :
             enc'[e][g] = IF g = field THEN f.by ELSE enc[e][g]
      BY <2>1 DEF EncKeeps, EncFields
    <2>7. ASSUME Undisturbed(e)'
          PROVE  /\ Current(enc'[e].x, enc[e].to, XPub) /\ Current(enc'[e].kem, enc[e].to, MPub)
                 /\ Current(enc'[e].spriv, enc[e].from, EPriv)
                 /\ Current(enc'[e].spub, enc[e].from, EPub)
      <3>1. /\ Current(enc[e].x, enc[e].to, XPub) /\ Current(enc[e].kem, enc[e].to, MPub)
            /\ Current(enc[e].spriv, enc[e].from, EPriv) /\ Current(enc[e].spub, enc[e].from, EPub)
        BY <1>1, <2>5, <2>7 DEF EncQuiet, EncCurrent
      <3> QED
        BY <2>3, <2>6, <3>1 DEF Reads
    <2>8. EncCurrent(e)'
      <3>1. next = "spub" => enc'[e].spriv # Absent
        BY <2>2, <2>6, Markers
      <3> QED
        BY <1>1, <2>1, <2>4, <2>7, <3>1 DEF EncCurrent, Current
    <2>9. EncSucceeds(e)'
      BY <2>1 DEF EncSucceeds
    <2>10. EncQuiet(e)'
      BY <2>5, <2>8, <2>9 DEF EncQuiet
    <2> QED
      BY <1>1, <1>2, <2>10, EncQuietMove
  <1>4. CASE EncFails(e, LoadPlain(f))
    <2>1. /\ LoadPlain(f) # "ok" /\ enc'[e].pc = "failed" /\ enc'[e].error = LoadPlain(f)
          /\ EncKeeps(e, {"pc", "error"})
      BY <1>4 DEF EncFails
    <2>2. /\ EncSteady(e) /\ enc'[e].to = enc[e].to /\ enc'[e].from = enc[e].from
          /\ enc'[e].x = enc[e].x /\ enc'[e].kem = enc[e].kem
          /\ enc'[e].spriv = enc[e].spriv /\ enc'[e].spub = enc[e].spub
      BY <2>1 DEF EncKeeps, EncFields, EncSteady
    <2>3. Tracked(e)' /\ (Undisturbed(e)' => Undisturbed(e))
      BY <1>1, <2>1, <2>2, SteadyTracked DEF EncQuiet
    <2>4. EncCurrent(e)'
      BY <1>1, <2>1, <2>2, <2>3 DEF EncQuiet, EncCurrent, Current
    <2>5. Undisturbed(e) => field = "x" /\ f.text = "none"
      BY <1>1, <2>1, FileOfType, LoadPlainOK
    <2>6. EncSucceeds(e)'
      <3> SUFFICES ASSUME Undisturbed(e)'
                   PROVE  /\ enc'[e].error = "FileNotFoundError"
                          /\ enc[e].to \in KeyIds => files[enc[e].to][XPub].text = "none"
        BY <1>1, <2>2 DEF EncSucceeds
      <3>1. field = "x" /\ f.text = "none"
        BY <2>3, <2>5
      <3>2. LoadPlain(f) = "FileNotFoundError"
        BY <3>1 DEF LoadPlain, Exists
      <3>3. n = enc[e].to /\ s = XPub
        BY <3>1 DEF Reads
      <3> QED
        BY <2>1, <3>1, <3>2, <3>3 DEF FileOf
    <2>7. EncQuiet(e)'
      BY <2>3, <2>4, <2>6 DEF EncQuiet
    <2> QED
      BY <1>1, <1>2, <2>7, EncQuietMove
  <1> QED
    BY <1>2, <1>3, <1>4

LEMMA EncReadQuiet ==
    ASSUME QInv, NEW e \in Encs,
           EncRecipient(e) \/ EncRecipientKem(e) \/ EncSender(e) \/ EncSenderPub(e)
    PROVE  QInv'
  <1>1. SInv /\ SInv' /\ EncCurrent(e)
    BY EncReadSteps DEF QInv, EncQuiet
  <1>2. /\ enc[e].to \in Spellings /\ enc[e].from \in Spellings
        /\ DOMAIN enc = Encs /\ DOMAIN enc[e] = EncFields
        /\ enc[e].pc \in {"xpub", "kem", "spriv", "spub"} => enc[e].packet = Absent
    BY <1>1 DEF SInv, EncInv, EncTypes, EncPacket
  <1>3. XPub \in Slots /\ MPub \in Slots /\ EPriv \in Slots /\ EPub \in Slots
    BY DEF Slots, XPriv, XPub, MPub, EPriv, EPub
  <1>4. ASSUME NEW next \in {"spriv", "seal"}, enc' = [enc EXCEPT ![e].pc = next],
               UNCHANGED <<vars, dec, box, out>>, enc[e].pc \in {"kem", "spriv"}
        PROVE  QInv'
    <2>1. EncShape(e) /\ EncKeeps(e, {"pc"}) /\ enc'[e].pc = next
      BY <1>2, <1>4 DEF EncShape, EncKeeps, EncFields
    <2>2. EncKeeps(e, {"pc", "error", "packet"}) /\ enc[e].packet = Absent
      BY <1>2, <1>4, <2>1 DEF EncKeeps
    <2> QED
      BY <1>1, <1>4, <2>1, <2>2, EncKeepQuiet
  <1>5. CASE EncRecipient(e)
    <2>1. /\ enc[e].pc = "xpub" /\ UNCHANGED <<vars, dec, box, out>>
          /\ EncLoad(e, FileOf(enc[e].to, XPub), "x", "kem")
      BY <1>5 DEF EncRecipient
    <2>2. Undisturbed(e) => FileOf(enc[e].to, XPub).text \in {"none", "full"}
      BY <1>3, QuietRead
    <2>3. LoadsWell(e, "x", enc[e].to, XPub, "kem")
      BY <1>2, <2>1, <2>2 DEF LoadsWell, Reads
    <2> QED
      BY <1>1, <1>2, <1>3, <2>1, <2>3, EncLoadQuiet
  <1>6. CASE EncRecipientKem(e)
    <2>1. /\ enc[e].pc = "kem" /\ UNCHANGED <<vars, dec, box, out>>
          /\ \/ /\ FileOf(enc[e].to, MPub).text # "none"
                /\ EncLoad(e, FileOf(enc[e].to, MPub), "kem", "spriv")
             \/ enc' = [enc EXCEPT ![e].pc = "spriv"]
      BY <1>6 DEF EncRecipientKem, Exists
    <2>2. Undisturbed(e) => FileOf(enc[e].to, MPub).text \in {"none", "full"}
      BY <1>3, QuietRead
    <2>3. CASE /\ FileOf(enc[e].to, MPub).text # "none"
               /\ EncLoad(e, FileOf(enc[e].to, MPub), "kem", "spriv")
      <3>1. LoadsWell(e, "kem", enc[e].to, MPub, "spriv")
        BY <1>2, <2>1, <2>2, <2>3 DEF LoadsWell, Reads
      <3> QED
        BY <1>1, <1>2, <1>3, <2>1, <2>3, <3>1, EncLoadQuiet
    <2>4. CASE enc' = [enc EXCEPT ![e].pc = "spriv"]
      BY <1>4, <2>1, <2>4
    <2> QED
      BY <2>1, <2>3, <2>4
  <1>7. CASE EncSender(e)
    <2>1. /\ enc[e].pc = "spriv" /\ UNCHANGED <<vars, dec, box, out>>
          /\ \/ /\ FileOf(enc[e].from, EPriv).text # "none"
                /\ EncLoad(e, FileOf(enc[e].from, EPriv), "spriv", "spub")
             \/ enc' = [enc EXCEPT ![e].pc = "seal"]
      BY <1>7 DEF EncSender, Exists
    <2>2. Undisturbed(e) => FileOf(enc[e].from, EPriv).text \in {"none", "full"}
      BY <1>3, QuietRead
    <2>3. CASE /\ FileOf(enc[e].from, EPriv).text # "none"
               /\ EncLoad(e, FileOf(enc[e].from, EPriv), "spriv", "spub")
      <3>1. LoadsWell(e, "spriv", enc[e].from, EPriv, "spub")
        BY <1>2, <2>1, <2>2, <2>3 DEF LoadsWell, Reads
      <3> QED
        BY <1>1, <1>2, <1>3, <2>1, <2>3, <3>1, EncLoadQuiet
    <2>4. CASE enc' = [enc EXCEPT ![e].pc = "seal"]
      BY <1>4, <2>1, <2>4
    <2> QED
      BY <2>1, <2>3, <2>4
  <1>8. CASE EncSenderPub(e)
    <2>1. /\ enc[e].pc = "spub" /\ UNCHANGED <<vars, dec, box, out>>
          /\ EncLoad(e, FileOf(enc[e].from, EPub), "spub", "seal")
      BY <1>8 DEF EncSenderPub
    <2>2. ASSUME Undisturbed(e)
          PROVE  FileOf(enc[e].from, EPub).text = "full"
      <3>1. enc[e].from \in KeyIds /\ files[enc[e].from][EPriv].text = "full"
        BY <1>1, <2>1, <2>2 DEF EncCurrent, Current
      <3>2. Paired(enc[e].from)
        BY <2>2, <3>1, QuietRead
      <3>3. EPub \in PublicSlots /\ PrivateOf(EPub) = EPriv
        BY DEF PublicSlots, PrivateOf, EPub, EPriv
      <3> QED
        BY <3>1, <3>2, <3>3 DEF Paired, SamePair, FileOf
    <2>3. LoadsWell(e, "spub", enc[e].from, EPub, "seal")
      BY <1>2, <2>1, <2>2 DEF LoadsWell, Reads
    <2> QED
      BY <1>1, <1>2, <1>3, <2>1, <2>3, EncLoadQuiet
  <1> QED
    BY <1>5, <1>6, <1>7, <1>8

LEMMA EncLateQuiet ==
    ASSUME QInv, NEW e \in Encs,
           EncSeal(e) \/ EncOpen(e) \/ EncFill(e) \/ EncChmod(e) \/ EncIOError(e) \/ EncDie(e)
    PROVE  QInv'
  <1>1. SInv /\ SInv'
    BY EncSealStep, EncLateSteps DEF QInv
  <1>2. /\ DOMAIN enc = Encs /\ DOMAIN enc[e] = EncFields
        /\ enc[e].pc = "seal" => enc[e].packet = Absent
    BY <1>1 DEF SInv, EncInv, EncTypes, EncPacket
  <1>3. UNCHANGED <<vars, dec>> /\ enc[e].pc # "new"
    BY DEF EncSeal, EncOpen, EncFill, EncChmod, EncIOError, EncDie
  <1>4. CASE EncSeal(e)
    <2>1. CASE EncFail(e, "ValidationError")
      <3>1. /\ EncShape(e) /\ EncKeeps(e, {"pc", "error", "packet"})
            /\ enc'[e].pc = "failed" /\ enc'[e].error = "ValidationError"
            /\ enc'[e].packet = enc[e].packet
        BY <1>2, <2>1 DEF EncFail, EncShape, EncKeeps, EncFields
      <3> QED
        BY <1>1, <1>3, <3>1, EncKeepQuiet
    <2>2. CASE ~EncFail(e, "ValidationError")
      <3> DEFINE p == EncryptPacket(e, e, enc[e].from, enc[e].to, enc[e].x, enc[e].kem,
                                    enc[e].spriv, enc[e].spub, oqs)
      <3>1. enc' = [enc EXCEPT ![e].pc = "open", ![e].packet = p] /\ enc[e].pc = "seal"
        BY <1>4, <2>2 DEF EncSeal
      <3> HIDE DEF p
      <3>2. EncShape(e) /\ EncKeeps(e, {"pc", "error", "packet"}) /\ enc'[e].pc = "open"
        BY <1>2, <3>1 DEF EncShape, EncKeeps, EncFields
      <3> QED
        BY <1>1, <1>2, <1>3, <3>1, <3>2, EncKeepQuiet
    <2> QED
      BY <2>1, <2>2
  <1>5. CASE EncOpen(e) \/ EncFill(e) \/ EncChmod(e) \/ EncDie(e)
    <2>1. /\ EncShape(e) /\ EncKeeps(e, {"pc", "error", "packet"})
          /\ enc'[e].packet = enc[e].packet
          /\ enc'[e].pc \in {"fill", "chmod", "done", "dead"}
      BY <1>2, <1>5 DEF EncOpen, EncFill, EncChmod, EncDie, EncShape, EncKeeps, EncFields
    <2> QED
      BY <1>1, <1>3, <2>1, EncKeepQuiet
  <1>6. CASE EncIOError(e)
    <2>1. /\ EncShape(e) /\ EncKeeps(e, {"pc", "error", "packet"})
          /\ enc'[e].packet = enc[e].packet
          /\ enc'[e].pc = "failed" /\ enc'[e].error = "OSError"
      BY <1>2, <1>6 DEF EncIOError, EncFail, EncShape, EncKeeps, EncFields
    <2> QED
      BY <1>1, <1>3, <2>1, EncKeepQuiet
  <1> QED
    BY <1>4, <1>5, <1>6

-----------------------------------------------------------------------------
(***************************************************************************)
(* The steps of a decryption.                                              *)
(***************************************************************************)
\* A decryption of a quiet encryption by its recipient.
Fitting(d) == dec[d].as = enc[dec[d].of].to /\ Undisturbed(dec[d].of)

\* The errors such a decryption may still end with.
Excused(d, error) ==
    \/ error \in {"ValidationError", "OSError"}
    \/ error \in {"WrongPassphraseError", "KeyProtectedError"} /\ ~RightPhrase(d)
    \/ error = "PacketValidationError" /\ dec[d].packet = Absent
    \/ error = "RuntimeError" /\ IsHybrid(enc[dec[d].of].packet)

LEMMA DecQuietMove ==
    ASSUME QInv, NEW d \in Decs, SInv', UNCHANGED <<vars, enc>>, DecShape(d), DecQuiet(d)'
    PROVE  QInv'
  <1>1. UNCHANGED <<files, pc, key, solo, latest, enc>>
    BY DEF vars, procVars, histVars
  <1>2. ASSUME NEW e \in Encs
        PROVE  EncQuiet(e)'
    <2>1. EncQuiet(e)
      BY DEF QInv
    <2> QED
      BY <1>1, <2>1 DEF EncQuiet, Tracked, Started, Parties, LastOf, Idle, Busy, EncCurrent,
                        Current, EncSucceeds, Undisturbed, Clean, RunsOf
  <1>3. ASSUME NEW c \in Decs \ {d}
        PROVE  DecQuiet(c)'
    <2>1. DecQuiet(c) /\ dec'[c] = dec[c]
      BY DEF QInv, DecShape
    <2> QED
      BY <1>1, <2>1 DEF DecQuiet, DecCurrent, Current, DecSucceeds, Undisturbed, LastOf,
                        Clean, RunsOf, RightPhrase, FileOf
  <1> QED
    BY <1>2, <1>3 DEF QInv

\* A step that keeps the keys and fails, if it does, with an excuse.
LEMMA DecKeepQuiet ==
    ASSUME QInv, NEW d \in Decs, SInv', UNCHANGED <<vars, enc>>, DecShape(d),
           DecKeeps(d, {"pc", "error", "phrase", "packet"}), dec'[d].pc # "new",
           dec'[d].pc = "failed" /\ Fitting(d) =>
              /\ Excused(d, dec'[d].error)
              /\ dec'[d].packet = dec[d].packet /\ dec'[d].phrase = dec[d].phrase
    PROVE  QInv'
  <1>1. /\ dec'[d].of = dec[d].of /\ dec'[d].as = dec[d].as
        /\ dec'[d].x = dec[d].x /\ dec'[d].kem = dec[d].kem
    BY DEF DecKeeps, DecFields
  <1>2. UNCHANGED <<files, pc, key, solo, latest, enc>>
    BY DEF vars, procVars, histVars
  <1>3. Fitting(d)' => Fitting(d)
    BY <1>1, <1>2 DEF Fitting, Undisturbed, LastOf, Clean, RunsOf
  <1>4. Fitting(d) => Current(dec[d].x, dec[d].as, XPriv) /\ Current(dec[d].kem, dec[d].as, MPriv)
    BY DEF QInv, DecQuiet, DecCurrent, Fitting, Current
  <1>5. DecCurrent(d)'
    <2>1. Fitting(d)' => /\ Current(dec[d].x, dec[d].as, XPriv)'
                         /\ Current(dec[d].kem, dec[d].as, MPriv)'
      BY <1>1, <1>2, <1>3, <1>4 DEF Current
    <2> QED
      BY <2>1 DEF DecCurrent, Fitting
  <1>6. DecSucceeds(d)'
    <2>1. dec'[d].pc = "failed" /\ Fitting(d)' =>
             /\ Excused(d, dec'[d].error) /\ dec'[d].packet = dec[d].packet
             /\ RightPhrase(d)' => RightPhrase(d)
      BY <1>1, <1>2, <1>3 DEF RightPhrase, FileOf
    <2> QED
      BY <1>1, <1>2, <2>1 DEF DecSucceeds, Fitting, Excused
  <1>7. DecQuiet(d)'
    BY <1>5, <1>6 DEF DecQuiet
  <1> QED
    BY <1>7, DecQuietMove

LEMMA DecFailQuiet ==
    ASSUME QInv, NEW d \in Decs, NEW error, DecFail(d, error), SInv', UNCHANGED <<vars, enc>>,
           Fitting(d) => Excused(d, error)
    PROVE  QInv'
  <1>1. DOMAIN dec = Decs /\ DOMAIN dec[d] = DecFields
    BY DEF QInv, SInv, DecInv, DecTypes
  <1>2. /\ DecShape(d) /\ DecKeeps(d, {"pc", "error", "phrase", "packet"})
        /\ dec'[d].pc = "failed" /\ dec'[d].error = error
        /\ dec'[d].packet = dec[d].packet /\ dec'[d].phrase = dec[d].phrase
    BY <1>1 DEF DecFail, DecShape, DecKeeps, DecFields
  <1> QED
    BY <1>2, DecKeepQuiet

\* What the recipient of a quiet encryption finds in a key file.
LEMMA FittingRead ==
    ASSUME QInv, NEW d \in Decs, Fitting(d)
    PROVE  /\ \A s \in Slots : FileOf(dec[d].as, s).text \in {"none", "full"}
           /\ dec[d].as \in KeyIds => Paired(dec[d].as)
  <1>1. dec[d].of \in Encs
    BY DEF QInv, SInv, DecInv, DecTypes
  <1> QED
    BY <1>1, QuietRead DEF Fitting

LEMMA LoadPrivateFull ==
    ASSUME NEW f, f.text = "full", NEW phrase
    PROVE  \/ LoadPrivate(f, phrase) = "ok"
           \/ /\ LoadPrivate(f, phrase) \in {"KeyProtectedError", "WrongPassphraseError"}
              /\ f.lock \notin {NoPass, phrase}
  <1>1. LoadPlain(f) = "ok"
    BY DEF LoadPlain, Exists
  <1> QED
    BY <1>1 DEF LoadPrivate

\* The recipient's private keys are there, and they are those the packet was made
\* for; the sender's two signing files were halves of one pair.
LEMMA KeysThere ==
    ASSUME QInv, NEW d \in Decs, Fitting(d), dec[d].packet # Absent,
           NEW e \in Encs, e = dec[d].of
    PROVE  /\ dec[d].as \in KeyIds
           /\ files[dec[d].as][XPriv].text = "full" /\ files[dec[d].as][XPriv].by = enc[e].x
           /\ IsHybrid(dec[d].packet) =>
                 /\ files[dec[d].as][MPriv].text = "full"
                 /\ files[dec[d].as][MPriv].by = enc[e].kem
           /\ IsSigned(dec[d].packet) => enc[e].spriv = enc[e].spub
           /\ MadeFrom(dec[d].packet, e, enc[e])
  <1> DEFINE p == dec[d].packet
             as == dec[d].as
  <1>1. SInv /\ EncQuiet(e) /\ EncInv(e) /\ DecInv(d)
    BY DEF QInv, SInv
  <1>2. p = enc[e].packet /\ MadeFrom(p, e, enc[e]) /\ enc[e].x # Absent
    BY <1>1 DEF DecInv, DecPacketHeld, EncInv, EncPacket
  <1>3. /\ as = enc[e].to
        /\ Current(enc[e].x, as, XPub) /\ Current(enc[e].kem, as, MPub)
        /\ Current(enc[e].spriv, enc[e].from, EPriv) /\ Current(enc[e].spub, enc[e].from, EPub)
    BY <1>1 DEF Fitting, EncQuiet, EncCurrent
  <1>4. as \in KeyIds /\ Paired(as)
    BY <1>2, <1>3, FittingRead DEF Current
  <1>5. /\ SamePair(files[as][XPriv], files[as][XPub]) /\ SamePair(files[as][MPriv], files[as][MPub])
    <2>1. XPub \in PublicSlots /\ MPub \in PublicSlots
      BY DEF PublicSlots
    <2>2. PrivateOf(XPub) = XPriv /\ PrivateOf(MPub) = MPriv
      BY DEF PrivateOf, XPriv, XPub, MPriv, MPub
    <2> QED
      BY <1>4, <2>1, <2>2 DEF Paired
  <1>6. IsHybrid(p) => enc[e].kem # Absent
    BY <1>2 DEF MadeFrom, MadeOf, Sealed, IsHybrid
  <1>7. ASSUME IsSigned(p)
        PROVE  enc[e].spriv = enc[e].spub
    <2>1. enc[e].spriv # Absent /\ enc[e].spub # Absent
      BY <1>2, <1>7 DEF MadeFrom, MadeOf, Signed, IsSigned
    <2>2. enc[e].from \in KeyIds /\ Paired(enc[e].from)
      BY <1>3, <2>1, QuietRead DEF Current, Fitting
    <2>3. EPub \in PublicSlots /\ PrivateOf(EPub) = EPriv
      BY DEF PublicSlots, PrivateOf, EPub, EPriv
    <2> QED
      BY <1>3, <2>1, <2>2, <2>3 DEF Paired, SamePair, Current
  <1> QED
    BY <1>2, <1>3, <1>4, <1>5, <1>6, <1>7 DEF Current, SamePair

LEMMA DecAskQuiet ==
    ASSUME QInv, NEW d \in Decs, DecAsk(d)
    PROVE  QInv'
  <1>1. SInv' /\ UNCHANGED <<vars, enc>>
    BY DecAskStep DEF QInv, DecAsk
  <1>2. DOMAIN dec = Decs /\ DOMAIN dec[d] = DecFields
    BY DEF QInv, SInv, DecInv, DecTypes
  <1> DEFINE f == FileOf(dec[d].as, XPriv)
  <1>3. ASSUME ProtectedAnswer(f) = "JSONDecodeError", Fitting(d)
        PROVE  FALSE
    <2>1. f.text \in {"none", "full"}
      BY <1>3, FittingRead DEF Slots, XPriv, EPub
    <2> QED
      BY <1>3, <2>1 DEF ProtectedAnswer, LoadPlain, Exists
  <1>4. CASE DecFail(d, "JSONDecodeError") /\ ProtectedAnswer(f) = "JSONDecodeError"
    BY <1>1, <1>3, <1>4, DecFailQuiet
  <1>5. CASE dec' = [dec EXCEPT ![d].pc = "packet"]
    <2>1. /\ DecShape(d) /\ DecKeeps(d, {"pc", "error", "phrase", "packet"})
          /\ dec'[d].pc = "packet"
      BY <1>2, <1>5 DEF DecShape, DecKeeps, DecFields
    <2> QED
      BY <1>1, <2>1, DecKeepQuiet
  <1>6. ASSUME NEW phrase \in Passphrases,
               dec' = [dec EXCEPT ![d].pc = "packet", ![d].phrase = phrase]
        PROVE  QInv'
    <2>1. /\ DecShape(d) /\ DecKeeps(d, {"pc", "error", "phrase", "packet"})
          /\ dec'[d].pc = "packet"
      BY <1>2, <1>6 DEF DecShape, DecKeeps, DecFields
    <2> QED
      BY <1>1, <2>1, DecKeepQuiet
  <1> QED
    BY <1>4, <1>5, <1>6 DEF DecAsk

LEMMA DecPacketQuiet ==
    ASSUME QInv, NEW d \in Decs, DecPacket(d)
    PROVE  QInv'
  <1> DEFINE e == dec[d].of
  <1>1. SInv' /\ UNCHANGED <<vars, enc>> /\ dec[d].pc = "packet"
    BY DecPacketStep DEF QInv, DecPacket
  <1>2. /\ DOMAIN dec = Decs /\ DOMAIN dec[d] = DecFields /\ e \in Encs
        /\ dec[d].packet = Absent /\ box[e] # Absent /\ EncInv(e)
    BY <1>1 DEF QInv, SInv, DecInv, DecTypes, DecPacketHeld
  <1>3. box[e] # Torn => FromJson(box[e].body) = "ok"
    BY <1>2 DEF EncInv, EncBox, EncPacket, MadeFrom, MadeOf, Sound
  <1>4. CASE DecFail(d, "ValidationError") \/ DecFail(d, "PacketValidationError")
    BY <1>1, <1>2, <1>4, DecFailQuiet DEF Excused
  <1>5. CASE dec' = [dec EXCEPT ![d].pc = "xpriv", ![d].packet = box[e]]
    <2>1. /\ DecShape(d) /\ DecKeeps(d, {"pc", "error", "phrase", "packet"})
          /\ dec'[d].pc = "xpriv"
      BY <1>2, <1>5 DEF DecShape, DecKeeps, DecFields
    <2> QED
      BY <1>1, <2>1, DecKeepQuiet
  <1> QED
    BY <1>3, <1>4, <1>5 DEF DecPacket

\* A load of a private key by a decryption whose keys, Fitting, are there.
LEMMA DecLoadQuiet ==
    ASSUME QInv, NEW d \in Decs, SInv', UNCHANGED <<vars, enc>>, dec[d].pc # "new",
           NEW next, next \notin {"new", "failed"},
           NEW field, NEW s, <<field, s>> \in {<<"x", XPriv>>, <<"kem", MPriv>>},
           DecLoad(d, FileOf(dec[d].as, s), field, next),
           Fitting(d) => FileOf(dec[d].as, s).text = "full"
    PROVE  QInv'
  <1>1. SInv /\ IInv /\ dec[d].as \in Spellings
    BY DEF QInv, SInv, DecInv, DecTypes
  <1>2. s \in Slots /\ field \in {"x", "kem"}
    BY DEF Slots, XPriv, MPriv, EPub
  <1> DEFINE f == FileOf(dec[d].as, s)
  <1>3. CASE DecShape(d) /\ DecLoads(d, f, field, next)
    <2>1. f.text = "full" /\ dec'[d][field] = f.by /\ dec'[d].pc = next /\ DecKeeps(d, {"pc", field})
      BY <1>3 DEF DecLoads
    <2>2. dec[d].as \in KeyIds /\ f = files[dec[d].as][s]
      BY <1>1, <1>2, <2>1, Loaded
    <2> HIDE DEF f
    <2>3. dec'[d].of = dec[d].of /\ dec'[d].as = dec[d].as
      BY <1>2, <2>1 DEF DecKeeps, DecFields
    <2>4. UNCHANGED <<files, pc, key, solo, latest, enc>>
      BY DEF vars, procVars, histVars
    <2>5. Fitting(d)' => Fitting(d)
      BY <2>3, <2>4 DEF Fitting, Undisturbed, LastOf, Clean, RunsOf
    <2>6. Fitting(d) => /\ Current(dec[d].x, dec[d].as, XPriv)
                        /\ Current(dec[d].kem, dec[d].as, MPriv)
      BY DEF QInv, DecQuiet, DecCurrent, Fitting, Current
    <2>7. Fitting(d)' => /\ Current(dec[d].x, dec[d].as, XPriv)'
                         /\ Current(dec[d].kem, dec[d].as, MPriv)'
      <3>1. CASE field = "x" /\ s = XPriv
        <4>1. dec'[d].x = f.by /\ dec'[d].kem = dec[d].kem
          BY <2>1, <3>1 DEF DecKeeps, DecFields
        <4> QED
          BY <2>1, <2>2, <2>3, <2>4, <2>5, <2>6, <3>1, <4>1 DEF Current
      <3>2. CASE field = "kem" /\ s = MPriv
        <4>1. dec'[d].kem = f.by /\ dec'[d].x = dec[d].x
          BY <2>1, <3>2 DEF DecKeeps, DecFields
        <4> QED
          BY <2>1, <2>2, <2>3, <2>4, <2>5, <2>6, <3>2, <4>1 DEF Current
      <3> QED
        BY <3>1, <3>2
    <2>8. DecCurrent(d)'
      BY <2>1, <2>7 DEF DecCurrent, Fitting
    <2>9. DecSucceeds(d)'
      BY <2>1 DEF DecSucceeds
    <2>10. DecQuiet(d)'
      BY <2>8, <2>9 DEF DecQuiet
    <2> QED
      BY <1>3, <2>10, DecQuietMove
  <1>4. CASE /\ LoadPrivate(f, dec[d].phrase) # "ok"
             /\ DecFail(d, LoadPrivate(f, dec[d].phrase))
    <2>1. Fitting(d) => Excused(d, LoadPrivate(f, dec[d].phrase))
      BY <1>2, <1>4, LoadPrivateFull DEF Excused, RightPhrase, LockableSlots
    <2> QED
      BY <1>4, <2>1, DecFailQuiet
  <1>5. \/ DecShape(d) /\ DecLoads(d, f, field, next)
        \/ /\ LoadPrivate(f, dec[d].phrase) # "ok"
           /\ DecFail(d, LoadPrivate(f, dec[d].phrase))
    BY <1>1, <1>2, DecLoadStep
  <1> QED
    BY <1>3, <1>4, <1>5

LEMMA DecReadQuiet ==
    ASSUME QInv, NEW d \in Decs, DecKey(d) \/ DecKemKey(d)
    PROVE  QInv'
  <1>1. SInv' /\ DecInv(d)
    BY DecReadSteps DEF QInv, SInv
  <1>2. CASE DecKey(d)
    <2>1. dec[d].pc = "xpriv" /\ UNCHANGED <<vars, enc>>
      BY <1>2 DEF DecKey
    <2>2. PICK next \in {"kpriv", "decrypt"} : DecLoad(d, FileOf(dec[d].as, XPriv), "x", next)
      BY <1>2 DEF DecKey
    <2>3. ASSUME Fitting(d)
          PROVE  FileOf(dec[d].as, XPriv).text = "full"
      <3>1. dec[d].packet # Absent /\ dec[d].of \in Encs
        BY <1>1, <2>1 DEF DecInv, DecTypes, DecPacketHeld
      <3> QED
        BY <2>3, <3>1, KeysThere DEF FileOf
    <2> QED
      BY <1>1, <2>1, <2>2, <2>3, DecLoadQuiet
  <1>3. CASE DecKemKey(d)
    <2>1. /\ dec[d].pc = "kpriv" /\ UNCHANGED <<vars, enc>>
          /\ DecLoad(d, FileOf(dec[d].as, MPriv), "kem", "decrypt")
      BY <1>3 DEF DecKemKey
    <2>2. ASSUME Fitting(d)
          PROVE  FileOf(dec[d].as, MPriv).text = "full"
      <3>1. dec[d].packet # Absent /\ dec[d].of \in Encs /\ IsHybrid(dec[d].packet)
        BY <1>1, <2>1 DEF DecInv, DecTypes, DecPacketHeld, DecKeys
      <3> QED
        BY <2>2, <3>1, KeysThere DEF FileOf
    <2> QED
      BY <1>1, <2>1, <2>2, DecLoadQuiet
  <1> QED
    BY <1>2, <1>3

\* The packet an encryption made opens with the keys it was made of.
LEMMA MadeFromOpens ==
    ASSUME NEW p, NEW e, NEW c, NEW x, NEW kem, MadeFrom(p, e, c),
           x = c.x, IsHybrid(p) => kem = c.kem
    PROVE  Authentic(p, x, kem)
  <1> DEFINE k == c.kem
             from == c.from
             to == c.to
  <1>1. Sealed(p.body, e, e, from, to, x, k) /\ p.body.ciphertext \notin Malformed
    BY DEF MadeFrom, MadeOf, Sound
  <1>2. IsHybrid(p) => kem = k
    OBVIOUS
  <1> HIDE DEF k, from, to
  <1>3. Authentic(p, x, k)
    BY <1>1, MatchingKeysOpen
  <1>4. MasterKey(p, x, kem) = MasterKey(p, x, k)
    BY <1>2 DEF MasterKey
  <1> QED
    BY <1>3, <1>4 DEF Authentic

LEMMA DecDecryptQuiet ==
    ASSUME QInv, NEW d \in Decs, DecDecrypt(d)
    PROVE  QInv'
  <1> DEFINE p == dec[d].packet
             outcome == DecryptOutcome(p, dec[d].x, dec[d].kem, oqs)
  <1>1. SInv' /\ SInv /\ DecInv(d) /\ dec[d].pc = "decrypt" /\ UNCHANGED <<vars, enc>>
    BY DecLateSteps DEF QInv, SInv, DecDecrypt
  <1>2. PICK e \in Encs : e = dec[d].of
    BY <1>1 DEF DecInv, DecTypes
  <1>3. /\ DOMAIN dec = Decs /\ DOMAIN dec[d] = DecFields
        /\ p # Absent /\ p = enc[e].packet /\ dec[d].x # Absent
        /\ IsHybrid(p) => dec[d].kem # Absent
    BY <1>1, <1>2 DEF SInv, DecInv, DecTypes, DecPacketHeld, DecKeys
  <1>4. ASSUME Fitting(d), outcome # "ok"
        PROVE  Excused(d, outcome)
    <2>1. /\ files[dec[d].as][XPriv].by = enc[e].x
          /\ IsHybrid(p) => files[dec[d].as][MPriv].by = enc[e].kem
          /\ IsSigned(p) => enc[e].spriv = enc[e].spub
          /\ MadeFrom(p, e, enc[e])
      BY <1>2, <1>3, <1>4, KeysThere
    <2>2. Current(dec[d].x, dec[d].as, XPriv) /\ Current(dec[d].kem, dec[d].as, MPriv)
      BY <1>1, <1>4 DEF QInv, DecQuiet, DecCurrent, Fitting
    <2>3. dec[d].x = enc[e].x /\ (IsHybrid(p) => dec[d].kem = enc[e].kem)
      BY <1>3, <2>1, <2>2 DEF Current
    <2>4. Authentic(p, dec[d].x, dec[d].kem)
      BY <2>1, <2>3, MadeFromOpens
    <2>5. /\ Validate(p.body) = "ok" /\ Signed(p, enc[e].spriv, enc[e].spub)
          /\ p.body.ephemeral # LowOrder
          /\ IsSigned(p) =>
                p.signature \notin Malformed \union {Empty} /\ p.signer \notin Malformed
      BY <2>1, Markers DEF MadeFrom, MadeOf, Sound, Sealed
    <2>6. SignatureOutcome(p) = "ok"
      BY <2>1, <2>5, SignedRoundTrip
    <2>7. outcome = "RuntimeError" /\ IsHybrid(p)
      BY <1>3, <1>4, <2>4, <2>5, <2>6 DEF DecryptOutcome, Then, Require
    <2> QED
      BY <1>2, <1>3, <2>7 DEF Excused
  <1>5. CASE outcome = "ok"
    <2>1. dec' = [dec EXCEPT ![d].pc = "open"]
      BY <1>5 DEF DecDecrypt
    <2>2. /\ DecShape(d) /\ DecKeeps(d, {"pc", "error", "phrase", "packet"})
          /\ dec'[d].pc = "open"
      BY <1>3, <2>1 DEF DecShape, DecKeeps, DecFields
    <2> QED
      BY <1>1, <2>2, DecKeepQuiet
  <1>6. CASE outcome # "ok"
    <2>1. DecFail(d, outcome)
      BY <1>6 DEF DecDecrypt
    <2> QED
      BY <1>1, <1>4, <1>6, <2>1, DecFailQuiet
  <1> QED
    BY <1>5, <1>6

LEMMA DecLateQuiet ==
    ASSUME QInv, NEW d \in Decs, DecOpen(d) \/ DecFill(d) \/ DecIOError(d) \/ DecDie(d)
    PROVE  QInv'
  <1>1. SInv' /\ UNCHANGED <<vars, enc>>
    BY DecLateSteps DEF QInv, DecOpen, DecFill, DecIOError, DecDie
  <1>2. DOMAIN dec = Decs /\ DOMAIN dec[d] = DecFields
    BY DEF QInv, SInv, DecInv, DecTypes
  <1>3. CASE DecOpen(d) \/ DecFill(d) \/ DecDie(d)
    <2>1. /\ DecShape(d) /\ DecKeeps(d, {"pc", "error", "phrase", "packet"})
          /\ dec'[d].pc \in {"fill", "done", "dead"}
      BY <1>2, <1>3 DEF DecOpen, DecFill, DecDie, DecShape, DecKeeps, DecFields
    <2> QED
      BY <1>1, <2>1, DecKeepQuiet
  <1>4. CASE DecIOError(d)
    BY <1>1, <1>4, DecFailQuiet DEF DecIOError, Excused
  <1> QED
    BY <1>3, <1>4

-----------------------------------------------------------------------------
(***************************************************************************)
(* The invariant and the two properties.                                   *)
(***************************************************************************)
LEMMA InitQInv ==
    ASSUME SessionInit
    PROVE  QInv
  <1>1. SInv
    BY InitSInv
  <1>2. PICK from \in [Encs -> Spellings], to \in [Encs -> Spellings] :
           enc = [e \in Encs |-> NewEnc(from[e], to[e])]
    BY DEF SessionInit
  <1>3. PICK of \in [Decs -> Encs], as \in [Decs -> Spellings] :
           dec = [d \in Decs |-> NewDec(of[d], as[d])]
    BY DEF SessionInit
  <1>4. ASSUME NEW e \in Encs
        PROVE  EncQuiet(e)
    <2>1. /\ enc[e].pc = "new" /\ enc[e].alone = FALSE
          /\ enc[e].x = Absent /\ enc[e].kem = Absent
          /\ enc[e].spriv = Absent /\ enc[e].spub = Absent
      BY <1>2 DEF NewEnc
    <2> QED
      BY <2>1 DEF EncQuiet, Tracked, EncCurrent, EncSucceeds, Current
  <1>5. ASSUME NEW d \in Decs
        PROVE  DecQuiet(d)
    <2>1. dec[d].pc = "new" /\ dec[d].x = Absent /\ dec[d].kem = Absent
      BY <1>3 DEF NewDec
    <2> QED
      BY <2>1 DEF DecQuiet, DecCurrent, DecSucceeds
  <1> QED
    BY <1>1, <1>4, <1>5 DEF QInv

LEMMA StepQInv ==
    ASSUME QInv, [SessionNext]_allVars
    PROVE  QInv'
  <1>1. CASE Next /\ UNCHANGED sessionVars
    BY <1>1, KeygenQuiet
  <1>2. ASSUME NEW e \in Encs, EncStep(e) \/ EncIOError(e) \/ EncDie(e)
        PROVE  QInv'
    BY <1>2, EncStartQuiet, EncReadQuiet, EncLateQuiet DEF EncStep, EncWork
  <1>3. ASSUME NEW d \in Decs, DecStep(d) \/ DecIOError(d) \/ DecDie(d)
        PROVE  QInv'
    BY <1>3, DecAskQuiet, DecPacketQuiet, DecReadQuiet, DecDecryptQuiet, DecLateQuiet
       DEF DecStep, DecWork
  <1>4. CASE UNCHANGED allVars
    <2>1. SInv'
      BY <1>4, StepSInv DEF QInv
    <2>2. UNCHANGED <<files, pc, key, solo, latest, enc, dec>>
      BY <1>4 DEF allVars, vars, procVars, histVars, sessionVars
    <2>3. ASSUME NEW e \in Encs
          PROVE  EncQuiet(e)'
      <3>1. EncQuiet(e)
        BY DEF QInv
      <3> QED
        BY <2>2, <3>1 DEF EncQuiet, Tracked, Started, Parties, LastOf, Idle, Busy, EncCurrent,
                          Current, EncSucceeds, Undisturbed, Clean, RunsOf
    <2>4. ASSUME NEW d \in Decs
          PROVE  DecQuiet(d)'
      <3>1. DecQuiet(d)
        BY DEF QInv
      <3> QED
        BY <2>2, <3>1 DEF DecQuiet, DecCurrent, Current, DecSucceeds, Undisturbed, LastOf,
                          Clean, RunsOf, RightPhrase, FileOf
    <2> QED
      BY <2>1, <2>3, <2>4 DEF QInv
  <1> QED
    BY <1>1, <1>2, <1>3, <1>4 DEF SessionNext

\* QInv is an invariant of any number of keygen, encrypt and decrypt commands, run
\* in any order and interrupted anywhere.
THEOREM QuietInvariant == SessionSpec => []QInv
  BY InitQInv, StepQInv, PTL DEF SessionSpec

\* encrypt over a quiet key directory fails only for want of a recipient: the
\* loads of EncryptController.encrypt_file find every other key they ask for.
THEOREM QuietEncryptsSucceed == SessionSpec => []UndisturbedEncrypts
  <1>1. QInv => UndisturbedEncrypts
    BY DEF QInv, EncQuiet, EncSucceeds, UndisturbedEncrypts
  <1> QED
    BY QuietInvariant, <1>1, PTL

\* What was encrypted over a quiet key directory opens: decrypt finds the private
\* keys the packet was made for, and rejects neither packet nor signature.
THEOREM QuietPacketsOpen == SessionSpec => []UndisturbedReadable
  <1>1. QInv => UndisturbedReadable
    BY DEF QInv, DecQuiet, DecSucceeds, UndisturbedReadable
  <1> QED
    BY QuietInvariant, <1>1, PTL
=============================================================================
