---------------------------- MODULE KeygenProofs ----------------------------
(***************************************************************************)
(* The safety invariants of Keygen, proved for every set of runs, key ids  *)
(* and passphrases.                                                        *)
(***************************************************************************)
EXTENDS Keygen, TLAPS

-----------------------------------------------------------------------------
(***************************************************************************)
(* The inductive invariant.                                                *)
(***************************************************************************)
\* latest names a run of that key id that has started.
LatestStarted ==
    \A k \in KeyIds :
        latest[k] # NoRun => key[latest[k]] = k /\ pc[latest[k]] # "new"

\* A run that no other has overlapped so far is the last of its key id ...
SoloIsLatest ==
    \A r \in Runs : pc[r] \in Working /\ solo[r] => latest[key[r]] = r

\* ... and for as long as it is the last, nobody else writes its files.
SoloIsAlone ==
    \A r, q \in Runs :
        solo[r] /\ latest[key[r]] = r /\ q # r /\ key[q] = key[r] => pc[q] \notin Working

\* Where each phase leaves the position of a run.
Position ==
    \A r \in Runs :
        /\ pc[r] = "new" => at[r] = XPriv
        /\ pc[r] \in Working => at[r] \in Slots /\ Writes(r, at[r])
        /\ pc[r] = "done" => at[r] = Past

\* A whole document was put there by a run of that key id that reached it.
Provenance ==
    \A k \in KeyIds, s \in Slots :
        files[k][s].text = "full" =>
            /\ files[k][s].by \in Runs
            /\ key[files[k][s].by] = k
            /\ s <= at[files[k][s].by]
            /\ Writes(files[k][s].by, s)

\* A file without permissions is a file that is not there.
NoModeNoFile ==
    /\ \A k \in KeyIds, s \in Slots : files[k][s].text = "none" => files[k][s].mode = "none"
    /\ \A r \in Runs :
          pc[r] \in {"fill", "chmod"} => files[key[r]][at[r]].text # "none"

\* What the last run has done so far, when it was never overlapped.
LastRunSoFar ==
    \A r \in Runs :
        solo[r] /\ latest[key[r]] = r =>
            /\ \A s \in Slots :
                  s < at[r] /\ Writes(r, s) => files[key[r]][s] = InstalledFile(r, s)
            /\ pc[r] = "fill" => files[key[r]][at[r]].text = "empty"
            /\ pc[r] = "chmod" =>
                  /\ files[key[r]][at[r]].text = "full"
                  /\ files[key[r]][at[r]].by = r
                  /\ files[key[r]][at[r]].lock = LockOf(r, at[r])

\* Pairs match, but for the one being replaced.
PairedSoFar ==
    \A k \in KeyIds :
        Clean(k) =>
            \A s \in PublicSlots :
                \/ \E r \in Busy(k) : at[r] \in {PrivateOf(s), s}
                \/ SamePair(files[k][PrivateOf(s)], files[k][s])

IInv ==
    /\ TypeOK
    /\ LatestStarted
    /\ SoloIsLatest
    /\ SoloIsAlone
    /\ Position
    /\ Provenance
    /\ NoModeNoFile
    /\ ModeSettled
    /\ LastRunSoFar
    /\ PairedSoFar
    /\ EmptyMeansUnfinished
    /\ GarbledMeansOverlap
    /\ UmaskMeansUnfinished

-----------------------------------------------------------------------------
(***************************************************************************)
(* Lemmas about the storage operators.                                     *)
(***************************************************************************)
\* Each of the three system calls of _write yields a file.
LEMMA FileOps ==
    ASSUME NEW f \in File
    PROVE  /\ Truncated(f) \in File
           /\ \A r \in Runs, lock \in Locks : Filled(f, r, lock) \in File
           /\ \A s \in Slots : Chmodded(f, s) \in File
  BY DEF File, Truncated, Filled, Chmodded, Texts, Modes, Locks, ModeOf

\* open(path, "w"): the file is there, it is empty, and it keeps its mode if
\* it was there before.
LEMMA TruncatedFile ==
    ASSUME NEW f \in File
    PROVE  /\ Truncated(f).text = "empty"
           /\ f.text # "none" => Truncated(f).mode = f.mode
  BY DEF File, Truncated

\* A write into a file nobody has refilled since the open leaves a whole
\* document; no write touches the mode or removes the file.
LEMMA FilledFile ==
    ASSUME NEW f \in File, NEW r \in Runs, NEW lock \in Locks
    PROVE  /\ Filled(f, r, lock).mode = f.mode
           /\ Filled(f, r, lock).text \in {"full", "garbled"}
           /\ Filled(f, r, lock).text = "full" => Filled(f, r, lock).by = r
           /\ f.text = "empty" =>
                 /\ Filled(f, r, lock).text = "full"
                 /\ Filled(f, r, lock).lock = lock
  BY DEF File, Filled, IsLong

\* chmod sets the mode and nothing else.
LEMMA ChmoddedFile ==
    ASSUME NEW f \in File, NEW s \in Slots
    PROVE  /\ Chmodded(f, s).text = f.text
           /\ Chmodded(f, s).by = f.by
           /\ Chmodded(f, s).lock = f.lock
           /\ Chmodded(f, s).mode = ModeOf(s)
  BY DEF File, Chmodded

\* No file has permissions that mean it does not exist.
LEMMA SomeMode == \A s \in Slots : ModeOf(s) \in {"0600", "0644"}
  BY DEF ModeOf

\* A step that changes one file of one key id.
LEMMA OneFile ==
    ASSUME NEW fs \in [KeyIds -> [Slots -> File]],
           NEW k \in KeyIds, NEW s \in Slots, NEW f \in File,
           NEW gs, gs = [fs EXCEPT ![k][s] = f]
    PROVE  /\ gs \in [KeyIds -> [Slots -> File]]
           /\ gs[k][s] = f
           /\ \A j \in KeyIds, t \in Slots : j # k \/ t # s => gs[j][t] = fs[j][t]
  OBVIOUS

\* The lock of a file, and the slots on the two sides of a pair.
LEMMA LockType ==
    ASSUME NEW r \in Runs, NEW s \in Slots, pass \in [Runs -> Locks]
    PROVE  LockOf(r, s) \in Locks
  BY DEF LockOf, Locks

LEMMA SlotPairs ==
    /\ PublicSlots \subseteq Slots
    /\ \A s \in PublicSlots :
          /\ PrivateOf(s) \in Slots
          /\ PrivateOf(s) < s
          /\ PrivateOf(s) \notin PublicSlots
          /\ PrivateOf(s) \in MLKEMSlots <=> s \in MLKEMSlots
  BY DEF PublicSlots, PrivateOf, Slots, MLKEMSlots, XPriv, XPub, MPriv, MPub, EPriv, EPub

-----------------------------------------------------------------------------
(***************************************************************************)
(* The initial states, and one lemma per action.                           *)
(***************************************************************************)
\* Every conjunct of the invariant holds before the first run starts.
LEMMA InitIInv == Init => IInv
  <1> SUFFICES ASSUME Init PROVE IInv
    OBVIOUS
  <1> USE KeyStoreAssumption DEF Init
  <1>1. TypeOK
    BY DEF TypeOK, NoFile, File, Texts, Modes, Locks, Phases, Slots, XPriv, EPub, Past
  <1>2. LatestStarted /\ SoloIsLatest /\ SoloIsAlone
    BY DEF LatestStarted, SoloIsLatest, SoloIsAlone, Working
  <1>3. Position
    BY DEF Position, Working
  <1>4. Provenance /\ NoModeNoFile /\ EmptyMeansUnfinished
    BY DEF Provenance, NoModeNoFile, EmptyMeansUnfinished, NoFile
  <1>7. GarbledMeansOverlap /\ UmaskMeansUnfinished
    BY DEF GarbledMeansOverlap, UmaskMeansUnfinished, NoFile
  <1>5. ModeSettled /\ LastRunSoFar
    BY DEF ModeSettled, LastRunSoFar, Saved
  <1>6. PairedSoFar
    BY SlotPairs DEF PairedSoFar, SamePair, NoFile
  <1> QED
    BY <1>1, <1>2, <1>3, <1>4, <1>5, <1>6, <1>7 DEF IInv

\* A run that starts becomes the last of its key id; it is on its own, or the
\* runs it finds at work stop being so.
LEMMA StartStep ==
    ASSUME IInv, NEW r \in Runs, Start(r)
    PROVE  IInv'
  <1> USE KeyStoreAssumption DEF Start
  <1>1. TypeOK'
    BY DEF IInv, TypeOK, Phases, Busy
  <1>2. /\ pc[r] = "new" /\ pc'[r] = "open"
        /\ \A q \in Runs : q # r => pc'[q] = pc[q]
        /\ at[r] = XPriv
        /\ latest'[key[r]] = r
        /\ \A k \in KeyIds : k # key[r] => latest'[k] = latest[k]
        /\ \A q \in Runs : q # r /\ solo'[q] => solo[q] /\ q \notin Busy(key[r])
        /\ solo'[r] => Busy(key[r]) = {}
        /\ key[r] \in KeyIds /\ \A q \in Runs : key[q] \in KeyIds
    BY DEF IInv, TypeOK, Position
  <1>3. LatestStarted'
    BY <1>2 DEF IInv, TypeOK, LatestStarted
  <1>4. SoloIsLatest'
    BY <1>2 DEF IInv, TypeOK, SoloIsLatest, Busy, Working
  <1>5. SoloIsAlone'
    BY <1>2 DEF IInv, TypeOK, SoloIsAlone, Busy, Working
  <1>6. Position'
    BY <1>2 DEF IInv, TypeOK, Position, Working, Slots, XPriv, EPub, Writes, MLKEMSlots, MPriv, MPub
  <1>7. Provenance'
    BY <1>2 DEF IInv, Provenance, Writes
  <1>8. NoModeNoFile'
    BY <1>2 DEF IInv, NoModeNoFile
  <1>9. ModeSettled'
    BY <1>2 DEF IInv, ModeSettled, Saved, Writes, Slots, XPriv, EPub
  <1>10. LastRunSoFar'
    <2> SUFFICES ASSUME NEW q \in Runs, solo'[q], latest'[key[q]] = q
                 PROVE  /\ \A s \in Slots :
                              s < at[q] /\ Writes(q, s) => files[key[q]][s] = InstalledFile(q, s)
                        /\ pc'[q] = "fill" => files[key[q]][at[q]].text = "empty"
                        /\ pc'[q] = "chmod" =>
                              /\ files[key[q]][at[q]].text = "full"
                              /\ files[key[q]][at[q]].by = q
                              /\ files[key[q]][at[q]].lock = LockOf(q, at[q])
      BY DEF LastRunSoFar, Writes, InstalledFile, LockOf
    <2>1. CASE q = r
      BY <2>1, <1>2 DEF Slots, XPriv, EPub
    <2>2. CASE q # r
      <3>1. solo[q] /\ latest[key[q]] = q /\ pc'[q] = pc[q]
        BY <2>2, <1>2
      <3> QED
        BY <3>1 DEF IInv, LastRunSoFar
    <2> QED
      BY <2>1, <2>2
  <1>11. PairedSoFar'
    <2> SUFFICES ASSUME NEW k \in KeyIds, Clean(k)', NEW s \in PublicSlots
                 PROVE  \/ (\E q \in Busy(k) : at[q] \in {PrivateOf(s), s})'
                        \/ SamePair(files[k][PrivateOf(s)], files[k][s])'
      BY DEF PairedSoFar
    <2>1. Clean(k)
      BY <1>2 DEF Clean, RunsOf, IInv, TypeOK
    <2>2. Busy(k) \subseteq Busy(k)'
      BY <1>2 DEF Busy, Working
    <2> QED
      BY <2>1, <2>2 DEF IInv, PairedSoFar
  <1>12. EmptyMeansUnfinished'
    BY <1>2 DEF IInv, EmptyMeansUnfinished, RunsOf
  <1>13. GarbledMeansOverlap'
    <2> SUFFICES ASSUME NEW k \in KeyIds, NEW s \in Slots, files[k][s].text = "garbled"
                 PROVE  \E q \in RunsOf(k)' : ~solo'[q]
      BY DEF GarbledMeansOverlap
    <2>1. PICK q \in RunsOf(k) : ~solo[q]
      BY DEF IInv, GarbledMeansOverlap
    <2> QED
      BY <2>1, <1>2 DEF RunsOf
  <1>14. UmaskMeansUnfinished'
    BY <1>2 DEF IInv, UmaskMeansUnfinished, RunsOf
  <1> QED
    BY <1>1, <1>3, <1>4, <1>5, <1>6, <1>7, <1>8, <1>9, <1>10, <1>11, <1>12, <1>13, <1>14 DEF IInv

\* The truncation of the file a run is about to save.
LEMMA OpenStep ==
    ASSUME IInv, NEW r \in Runs, OpenFile(r)
    PROVE  IInv'
  <1> USE KeyStoreAssumption DEF OpenFile, histVars
  <1> DEFINE k == key[r]
             s == at[r]
  <1>1. k \in KeyIds /\ s \in Slots /\ Writes(r, s) /\ files[k][s] \in File
    BY DEF IInv, TypeOK, Position, Working
  <1>2. /\ files' \in [KeyIds -> [Slots -> File]]
        /\ files'[k][s] = Truncated(files[k][s])
        /\ \A j \in KeyIds, t \in Slots : j # k \/ t # s => files'[j][t] = files[j][t]
    <2>1. files' = [files EXCEPT ![k][s] = Truncated(files[k][s])]
      BY <1>1 DEF IInv, TypeOK
    <2> QED
      BY <1>1, <2>1, FileOps, OneFile DEF IInv, TypeOK
  <1>3. /\ files'[k][s].text = "empty"
        /\ files[k][s].text # "none" => files'[k][s].mode = files[k][s].mode
    BY <1>1, <1>2, TruncatedFile
  <1>4. /\ pc[r] = "open" /\ pc'[r] = "fill"
        /\ \A q \in Runs : q # r => pc'[q] = pc[q]
        /\ \A q \in Runs : pc'[q] \in Working <=> pc[q] \in Working
        /\ \A q \in Runs : pc'[q] = "new" <=> pc[q] = "new"
        /\ \A q \in Runs : pc'[q] = "failed" <=> pc[q] = "failed"
    BY DEF IInv, TypeOK, Working
  <1>5. \A q \in Runs : solo[q] /\ latest[key[q]] = q /\ q # r => key[q] # k
    BY <1>4 DEF IInv, SoloIsAlone, Working
  <1> HIDE DEF k, s
  <1>6. TypeOK'
    BY <1>2 DEF IInv, TypeOK, Phases
  <1>7. LatestStarted' /\ SoloIsLatest' /\ SoloIsAlone'
    BY <1>4 DEF IInv, LatestStarted, SoloIsLatest, SoloIsAlone
  <1>8. Position'
    BY <1>1, <1>4 DEF IInv, Position, Writes, Working, s
  <1>9. Provenance'
    BY <1>2, <1>3 DEF IInv, TypeOK, Provenance, Writes
  <1>10. NoModeNoFile'
    BY <1>1, <1>2, <1>3, <1>4 DEF IInv, TypeOK, NoModeNoFile, k, s
  <1>11. ModeSettled'
    <2> SUFFICES ASSUME NEW q \in Runs, NEW t \in Slots, Saved(q, t)
                 PROVE  files'[key[q]][t].mode = ModeOf(t)
      BY <1>4 DEF ModeSettled, Saved, Writes
    <2>1. key[q] \in KeyIds /\ files[key[q]][t].mode = ModeOf(t)
      BY DEF IInv, TypeOK, ModeSettled
    <2>2. files[key[q]][t].text # "none"
      BY <2>1, SomeMode DEF IInv, NoModeNoFile
    <2> QED
      BY <1>2, <1>3, <2>1, <2>2
  <1>12. LastRunSoFar'
    <2> SUFFICES ASSUME NEW q \in Runs, solo[q], latest[key[q]] = q
                 PROVE  /\ \A t \in Slots :
                              t < at[q] /\ Writes(q, t) => files'[key[q]][t] = InstalledFile(q, t)
                        /\ pc'[q] = "fill" => files'[key[q]][at[q]].text = "empty"
                        /\ pc'[q] = "chmod" =>
                              /\ files'[key[q]][at[q]].text = "full"
                              /\ files'[key[q]][at[q]].by = q
                              /\ files'[key[q]][at[q]].lock = LockOf(q, at[q])
      BY DEF LastRunSoFar, Writes, InstalledFile, LockOf
    <2>1. CASE q = r
      <3>1. \A t \in Slots : t < at[q] => files'[k][t] = files[k][t]
        BY <2>1, <1>1, <1>2 DEF Slots, XPriv, EPub, s
      <3> QED
        BY <2>1, <1>3, <1>4, <3>1 DEF IInv, LastRunSoFar, k, s
    <2>2. CASE q # r
      <3>1. key[q] # k /\ key[q] \in KeyIds /\ pc'[q] = pc[q]
        BY <2>2, <1>4, <1>5 DEF IInv, TypeOK
      <3>2. \A t \in Slots : files'[key[q]][t] = files[key[q]][t]
        BY <3>1, <1>2
      <3>3. pc[q] \in {"fill", "chmod"} => at[q] \in Slots
        BY DEF IInv, Position, Working
      <3> QED
        BY <3>1, <3>2, <3>3 DEF IInv, LastRunSoFar
    <2> QED
      BY <2>1, <2>2
  <1>13. PairedSoFar'
    <2> SUFFICES ASSUME NEW j \in KeyIds, Clean(j)', NEW t \in PublicSlots
                 PROVE  \/ (\E q \in Busy(j) : at[q] \in {PrivateOf(t), t})'
                        \/ SamePair(files[j][PrivateOf(t)], files[j][t])'
      BY DEF PairedSoFar
    <2>1. Clean(j) /\ Busy(j)' = Busy(j)
      BY <1>4 DEF Clean, RunsOf, Busy
    <2>2. CASE j = k /\ s \in {PrivateOf(t), t}
      BY <2>1, <2>2, <1>4 DEF Busy, Working, k, s
    <2>3. CASE ~(j = k /\ s \in {PrivateOf(t), t})
      BY <2>1, <2>3, <1>2, SlotPairs DEF IInv, PairedSoFar
    <2> QED
      BY <2>2, <2>3
  <1>14. EmptyMeansUnfinished'
    <2> SUFFICES ASSUME NEW j \in KeyIds, NEW t \in Slots, files'[j][t].text = "empty"
                 PROVE  \E q \in RunsOf(j)' : at[q] = t /\ pc'[q] \in {"fill", "failed"}
      BY DEF EmptyMeansUnfinished
    <2>1. CASE j = k /\ t = s
      BY <2>1, <1>4 DEF RunsOf, k, s
    <2>2. CASE ~(j = k /\ t = s)
      BY <2>2, <1>2, <1>4 DEF IInv, EmptyMeansUnfinished, RunsOf
    <2> QED
      BY <2>1, <2>2
  <1>15. GarbledMeansOverlap'
    <2> SUFFICES ASSUME NEW j \in KeyIds, NEW t \in Slots, files'[j][t].text = "garbled"
                 PROVE  \E q \in RunsOf(j)' : ~solo[q]
      BY DEF GarbledMeansOverlap
    <2>1. files[j][t].text = "garbled"
      BY <1>2, <1>3
    <2>2. PICK q \in RunsOf(j) : ~solo[q]
      BY <2>1 DEF IInv, GarbledMeansOverlap
    <2> QED
      BY <2>2, <1>4 DEF RunsOf
  <1>16. UmaskMeansUnfinished'
    <2> SUFFICES ASSUME NEW j \in KeyIds, NEW t \in Slots, files'[j][t].mode = "umask"
                 PROVE  \E q \in RunsOf(j)' : at'[q] = t /\ pc'[q] \in {"fill", "chmod", "failed"}
      BY DEF UmaskMeansUnfinished
    <2>1. CASE j = k /\ t = s
      BY <2>1, <1>4 DEF RunsOf, k, s
    <2>2. CASE ~(j = k /\ t = s)
      <3>1. PICK q \in RunsOf(j) : at[q] = t /\ pc[q] \in {"fill", "chmod", "failed"}
        BY <2>2, <1>2 DEF IInv, UmaskMeansUnfinished
      <3> QED
        BY <3>1, <1>4 DEF RunsOf
    <2> QED
      BY <2>1, <2>2
  <1> QED
    BY <1>6, <1>7, <1>8, <1>9, <1>10, <1>11, <1>12, <1>13, <1>14, <1>15, <1>16 DEF IInv

\* The write of the document.
LEMMA FillStep ==
    ASSUME IInv, NEW r \in Runs, FillFile(r)
    PROVE  IInv'
  <1> USE KeyStoreAssumption DEF FillFile, histVars
  <1> DEFINE k == key[r]
             s == at[r]
             lock == LockOf(r, s)
  <1>1. /\ k \in KeyIds /\ s \in Slots /\ Writes(r, s) /\ files[k][s] \in File
        /\ lock \in Locks
    BY LockType DEF IInv, TypeOK, Position, Working
  <1>2. /\ files' \in [KeyIds -> [Slots -> File]]
        /\ files'[k][s] = Filled(files[k][s], r, lock)
        /\ \A j \in KeyIds, t \in Slots : j # k \/ t # s => files'[j][t] = files[j][t]
    <2>1. files' = [files EXCEPT ![k][s] = Filled(files[k][s], r, lock)]
      BY <1>1 DEF IInv, TypeOK
    <2>2. Filled(files[k][s], r, lock) \in File
      BY <1>1, FileOps
    <2>3. files \in [KeyIds -> [Slots -> File]]
      BY DEF IInv, TypeOK
    <2> HIDE DEF FillFile, k, s, lock
    <2> QED
      BY <1>1, <2>1, <2>2, <2>3, OneFile
  <1>3. /\ files'[k][s].mode = files[k][s].mode
        /\ files'[k][s].text \in {"full", "garbled"}
        /\ files'[k][s].text = "full" => files'[k][s].by = r
        /\ files[k][s].text = "empty" =>
              files'[k][s].text = "full" /\ files'[k][s].lock = lock
    BY <1>1, <1>2, FilledFile
  <1>4. /\ pc[r] = "fill" /\ pc'[r] = "chmod"
        /\ \A q \in Runs : q # r => pc'[q] = pc[q]
        /\ \A q \in Runs : pc'[q] \in Working <=> pc[q] \in Working
        /\ \A q \in Runs : pc'[q] = "new" <=> pc[q] = "new"
        /\ \A q \in Runs : pc'[q] = "failed" <=> pc[q] = "failed"
    BY DEF IInv, TypeOK, Working
  <1>5. \A q \in Runs : solo[q] /\ latest[key[q]] = q /\ q # r => key[q] # k
    BY <1>4 DEF IInv, SoloIsAlone, Working
  <1> HIDE DEF k, s, lock
  <1>6. TypeOK'
    BY <1>2 DEF IInv, TypeOK, Phases
  <1>7. LatestStarted' /\ SoloIsLatest' /\ SoloIsAlone'
    BY <1>4 DEF IInv, LatestStarted, SoloIsLatest, SoloIsAlone
  <1>8. Position'
    BY <1>1, <1>4 DEF IInv, Position, Writes, Working, s
  <1>9. Provenance'
    <2> SUFFICES ASSUME NEW j \in KeyIds, NEW t \in Slots, files'[j][t].text = "full"
                 PROVE  /\ files'[j][t].by \in Runs
                        /\ key[files'[j][t].by] = j
                        /\ t <= at[files'[j][t].by]
                        /\ Writes(files'[j][t].by, t)
      BY DEF Provenance, Writes
    <2>1. CASE j = k /\ t = s
      BY <2>1, <1>1, <1>3 DEF Slots, XPriv, EPub, k, s
    <2>2. CASE ~(j = k /\ t = s)
      BY <2>2, <1>2 DEF IInv, Provenance
    <2> QED
      BY <2>1, <2>2
  <1>10. NoModeNoFile'
    BY <1>1, <1>2, <1>3, <1>4 DEF IInv, TypeOK, NoModeNoFile, k, s
  <1>11. ModeSettled'
    <2> SUFFICES ASSUME NEW q \in Runs, NEW t \in Slots, Saved(q, t)
                 PROVE  files'[key[q]][t].mode = ModeOf(t)
      BY <1>4 DEF ModeSettled, Saved, Writes
    <2>1. key[q] \in KeyIds /\ files[key[q]][t].mode = ModeOf(t)
      BY DEF IInv, TypeOK, ModeSettled
    <2> QED
      BY <1>2, <1>3, <2>1
  <1>12. LastRunSoFar'
    <2> SUFFICES ASSUME NEW q \in Runs, solo[q], latest[key[q]] = q
                 PROVE  /\ \A t \in Slots :
                              t < at[q] /\ Writes(q, t) => files'[key[q]][t] = InstalledFile(q, t)
                        /\ pc'[q] = "fill" => files'[key[q]][at[q]].text = "empty"
                        /\ pc'[q] = "chmod" =>
                              /\ files'[key[q]][at[q]].text = "full"
                              /\ files'[key[q]][at[q]].by = q
                              /\ files'[key[q]][at[q]].lock = LockOf(q, at[q])
      BY DEF LastRunSoFar, Writes, InstalledFile, LockOf
    <2>1. CASE q = r
      <3>1. \A t \in Slots : t < at[q] => files'[k][t] = files[k][t]
        BY <2>1, <1>1, <1>2 DEF Slots, XPriv, EPub, s
      <3>2. files[k][s].text = "empty"
        BY <2>1, <1>4 DEF IInv, LastRunSoFar, k, s
      <3> QED
        BY <2>1, <1>3, <1>4, <3>1, <3>2 DEF IInv, LastRunSoFar, k, s, lock
    <2>2. CASE q # r
      <3>1. key[q] # k /\ key[q] \in KeyIds /\ pc'[q] = pc[q]
        BY <2>2, <1>4, <1>5 DEF IInv, TypeOK
      <3>2. \A t \in Slots : files'[key[q]][t] = files[key[q]][t]
        BY <3>1, <1>2
      <3>3. pc[q] \in {"fill", "chmod"} => at[q] \in Slots
        BY DEF IInv, Position, Working
      <3> QED
        BY <3>1, <3>2, <3>3 DEF IInv, LastRunSoFar
    <2> QED
      BY <2>1, <2>2
  <1>13. PairedSoFar'
    <2> SUFFICES ASSUME NEW j \in KeyIds, Clean(j)', NEW t \in PublicSlots
                 PROVE  \/ (\E q \in Busy(j) : at[q] \in {PrivateOf(t), t})'
                        \/ SamePair(files[j][PrivateOf(t)], files[j][t])'
      BY DEF PairedSoFar
    <2>1. Clean(j) /\ Busy(j)' = Busy(j)
      BY <1>4 DEF Clean, RunsOf, Busy
    <2>2. CASE j = k /\ s \in {PrivateOf(t), t}
      BY <2>1, <2>2, <1>4 DEF Busy, Working, k, s
    <2>3. CASE ~(j = k /\ s \in {PrivateOf(t), t})
      BY <2>1, <2>3, <1>2, SlotPairs DEF IInv, PairedSoFar
    <2> QED
      BY <2>2, <2>3
  <1>14. EmptyMeansUnfinished'
    <2> SUFFICES ASSUME NEW j \in KeyIds, NEW t \in Slots, files'[j][t].text = "empty"
                 PROVE  \E q \in RunsOf(j)' : at[q] = t /\ pc'[q] \in {"fill", "failed"}
      BY DEF EmptyMeansUnfinished
    <2>1. ~(j = k /\ t = s)
      BY <1>3
    <2>2. PICK q \in RunsOf(j) : at[q] = t /\ pc[q] \in {"fill", "failed"}
      BY <2>1, <1>2 DEF IInv, EmptyMeansUnfinished
    <2>3. q # r
      BY <2>1, <2>2 DEF RunsOf, k, s
    <2> QED
      BY <2>2, <2>3, <1>4 DEF RunsOf
  <1>15. GarbledMeansOverlap'
    <2> SUFFICES ASSUME NEW j \in KeyIds, NEW t \in Slots, files'[j][t].text = "garbled"
                 PROVE  \E q \in RunsOf(j)' : ~solo[q]
      BY DEF GarbledMeansOverlap
    <2>1. CASE j = k /\ t = s
      <3>1. files[k][s].text # "empty"
        BY <2>1, <1>3
      <3>2. ~solo[r]
        BY <3>1, <1>4 DEF IInv, LastRunSoFar, SoloIsLatest, Working, k, s
      <3> QED
        BY <2>1, <3>2, <1>4 DEF RunsOf, k
    <2>2. CASE ~(j = k /\ t = s)
      <3>1. PICK q \in RunsOf(j) : ~solo[q]
        BY <2>2, <1>2 DEF IInv, GarbledMeansOverlap
      <3> QED
        BY <3>1, <1>4 DEF RunsOf
    <2> QED
      BY <2>1, <2>2
  <1>16. UmaskMeansUnfinished'
    <2> SUFFICES ASSUME NEW j \in KeyIds, NEW t \in Slots, files'[j][t].mode = "umask"
                 PROVE  \E q \in RunsOf(j)' : at'[q] = t /\ pc'[q] \in {"fill", "chmod", "failed"}
      BY DEF UmaskMeansUnfinished
    <2>1. files[j][t].mode = "umask"
      BY <1>2, <1>3
    <2>2. PICK q \in RunsOf(j) : at[q] = t /\ pc[q] \in {"fill", "chmod", "failed"}
      BY <2>1 DEF IInv, UmaskMeansUnfinished
    <2> QED
      BY <2>2, <1>4 DEF RunsOf
  <1> QED
    BY <1>6, <1>7, <1>8, <1>9, <1>10, <1>11, <1>12, <1>13, <1>14, <1>15, <1>16 DEF IInv

\* chmod ends the save of a file: after a public one its pair is complete, and
\* after the X25519 pair the run learns whether it has ML-KEM keys to save.
LEMMA ChmodStep ==
    ASSUME IInv, NEW r \in Runs, ChmodFile(r)
    PROVE  IInv'
  <1> USE KeyStoreAssumption DEF ChmodFile, histVars
  <1> DEFINE k == key[r]
             s == at[r]
  <1>1. k \in KeyIds /\ s \in Slots /\ Writes(r, s) /\ files[k][s] \in File
    BY DEF IInv, TypeOK, Position, Working
  <1>2. /\ files' \in [KeyIds -> [Slots -> File]]
        /\ files'[k][s] = Chmodded(files[k][s], s)
        /\ \A j \in KeyIds, t \in Slots : j # k \/ t # s => files'[j][t] = files[j][t]
    <2>1. files' = [files EXCEPT ![k][s] = Chmodded(files[k][s], s)]
      BY <1>1 DEF IInv, TypeOK
    <2>2. Chmodded(files[k][s], s) \in File
      BY <1>1, FileOps
    <2>3. files \in [KeyIds -> [Slots -> File]]
      BY DEF IInv, TypeOK
    <2> HIDE DEF ChmodFile, k, s
    <2> QED
      BY <1>1, <2>1, <2>2, <2>3, OneFile
  <1>3. /\ files'[k][s].text = files[k][s].text
        /\ files'[k][s].by = files[k][s].by
        /\ files'[k][s].lock = files[k][s].lock
        /\ files'[k][s].mode = ModeOf(s)
    BY <1>1, <1>2, ChmoddedFile
  <1>4. /\ pc[r] = "chmod" /\ pc'[r] \in {"open", "done"}
        /\ pc'[r] = "done" <=> s = EPub
        /\ \A q \in Runs : q # r => pc'[q] = pc[q] /\ at'[q] = at[q] /\ hybrid'[q] = hybrid[q]
        /\ at'[r] = After(s, oqs)
        /\ hybrid'[r] = IF s = XPub THEN oqs ELSE hybrid[r]
    BY DEF IInv, TypeOK
  <1>5. \A q \in Runs : solo[q] /\ latest[key[q]] = q /\ q # r => key[q] # k
    BY <1>4 DEF IInv, SoloIsAlone, Working
  <1> HIDE DEF k, s
  <1>6. /\ s < at'[r] /\ at'[r] \in Slots \union {Past}
        /\ pc'[r] = "open" => at'[r] \in Slots
        /\ pc'[r] = "done" => at'[r] = Past
        /\ at'[r] \in MLKEMSlots => hybrid'[r]
        /\ s \notin PublicSlots => PrivateOf(at'[r]) = s
        /\ \A t \in Slots :
              t < at'[r] /\ (t \in MLKEMSlots => hybrid'[r]) => t <= s /\ Writes(r, t)
        /\ \A t \in Slots : t <= s /\ Writes(r, t) => (t \in MLKEMSlots => hybrid'[r])
    BY <1>1, <1>4 DEF IInv, TypeOK, After, Writes, MLKEMSlots, PublicSlots, PrivateOf, Past,
                      Slots, XPriv, XPub, MPriv, MPub, EPriv, EPub
  <1>7. TypeOK'
    BY <1>2, <1>4, <1>6 DEF IInv, TypeOK, Phases
  <1>8. LatestStarted' /\ SoloIsLatest' /\ SoloIsAlone'
    BY <1>4 DEF IInv, TypeOK, LatestStarted, SoloIsLatest, SoloIsAlone, Working
  <1>9. Position'
    <2> SUFFICES ASSUME NEW q \in Runs
                 PROVE  /\ pc'[q] = "new" => at'[q] = XPriv
                        /\ pc'[q] \in Working =>
                              at'[q] \in Slots /\ (at'[q] \in MLKEMSlots => hybrid'[q])
                        /\ pc'[q] = "done" => at'[q] = Past
      BY DEF Position, Writes
    <2>1. CASE q = r
      BY <2>1, <1>4, <1>6 DEF Working
    <2>2. CASE q # r
      BY <2>2, <1>4 DEF IInv, Position, Writes
    <2> QED
      BY <2>1, <2>2
  <1>10. Provenance'
    <2> SUFFICES ASSUME NEW j \in KeyIds, NEW t \in Slots, files'[j][t].text = "full"
                 PROVE  /\ files'[j][t].by \in Runs
                        /\ key[files'[j][t].by] = j
                        /\ t <= at'[files'[j][t].by]
                        /\ t \in MLKEMSlots => hybrid'[files'[j][t].by]
      BY DEF Provenance, Writes
    <2>1. files[j][t].text = "full" /\ files'[j][t].by = files[j][t].by
      BY <1>2, <1>3
    <2> DEFINE q == files[j][t].by
    <2>2. q \in Runs /\ key[q] = j /\ t <= at[q] /\ Writes(q, t)
      BY <2>1 DEF IInv, Provenance
    <2> HIDE DEF q
    <2>3. CASE q = r
      BY <2>1, <2>2, <2>3, <1>1, <1>6 DEF IInv, TypeOK, Slots, XPriv, EPub, Past, s, q
    <2>4. CASE q # r
      BY <2>1, <2>2, <2>4, <1>4 DEF Writes, q
    <2> QED
      BY <2>3, <2>4
  <1>11. NoModeNoFile'
    <2>1. files[k][s].text # "none"
      BY <1>4 DEF IInv, NoModeNoFile, k, s
    <2>2. \A j \in KeyIds, t \in Slots :
             /\ files'[j][t].text = files[j][t].text
             /\ files'[j][t].text = "none" => files'[j][t].mode = "none"
      BY <2>1, <1>2, <1>3 DEF IInv, NoModeNoFile
    <2>3. ASSUME NEW q \in Runs, pc'[q] \in {"fill", "chmod"}
          PROVE  files'[key[q]][at'[q]].text # "none"
      <3>1. q # r
        BY <2>3, <1>4
      <3>2. pc[q] \in {"fill", "chmod"} /\ at'[q] = at[q]
        BY <2>3, <3>1, <1>4
      <3>3. key[q] \in KeyIds /\ at[q] \in Slots
        BY <3>2 DEF IInv, TypeOK, Position, Working
      <3> QED
        BY <3>2, <3>3, <2>2 DEF IInv, NoModeNoFile
    <2> QED
      BY <2>2, <2>3 DEF NoModeNoFile
  <1>12. ModeSettled'
    <2> SUFFICES ASSUME NEW q \in Runs, NEW t \in Slots, Saved(q, t)'
                 PROVE  files'[key[q]][t].mode = ModeOf(t)
      BY DEF ModeSettled
    <2>1. key[q] \in KeyIds
      BY DEF IInv, TypeOK
    <2>2. CASE key[q] = k /\ t = s
      BY <2>2, <1>3
    <2>3. CASE ~(key[q] = k /\ t = s)
      <3>1. Saved(q, t)
        <4>1. CASE q = r
          BY <2>3, <4>1, <1>1, <1>4, <1>6 DEF Saved, Writes, Slots, XPriv, EPub, k, s
        <4>2. CASE q # r
          BY <4>2, <1>4 DEF Saved, Writes
        <4> QED
          BY <4>1, <4>2
      <3> QED
        BY <2>1, <2>3, <3>1, <1>2 DEF IInv, ModeSettled
    <2> QED
      BY <2>2, <2>3
  <1>13. LastRunSoFar'
    <2> SUFFICES ASSUME NEW q \in Runs, solo[q], latest[key[q]] = q
                 PROVE  /\ \A t \in Slots :
                              t < at'[q] /\ (t \in MLKEMSlots => hybrid'[q]) =>
                                 files'[key[q]][t] = InstalledFile(q, t)
                        /\ pc'[q] = "fill" => files'[key[q]][at'[q]].text = "empty"
                        /\ pc'[q] = "chmod" =>
                              /\ files'[key[q]][at'[q]].text = "full"
                              /\ files'[key[q]][at'[q]].by = q
                              /\ files'[key[q]][at'[q]].lock = LockOf(q, at'[q])
      BY DEF LastRunSoFar, Writes, InstalledFile, LockOf
    <2>1. CASE q = r
      <3>1. files'[k][s] = InstalledFile(r, s)
        BY <2>1, <1>1, <1>2, <1>4 DEF IInv, LastRunSoFar, InstalledFile, Chmodded, k, s
      <3>2. ASSUME NEW t \in Slots, t < at'[r], t \in MLKEMSlots => hybrid'[r], t # s
            PROVE  files'[k][t] = InstalledFile(r, t)
        <4>1. t < at[r] /\ Writes(r, t)
          BY <3>2, <1>1, <1>6 DEF Slots, XPriv, EPub, s
        <4> QED
          BY <2>1, <3>2, <4>1, <1>1, <1>2 DEF IInv, LastRunSoFar, k
      <3> QED
        BY <2>1, <3>1, <3>2, <1>4 DEF k
    <2>2. CASE q # r
      <3>1. /\ key[q] # k /\ key[q] \in KeyIds
            /\ pc'[q] = pc[q] /\ at'[q] = at[q] /\ hybrid'[q] = hybrid[q]
        BY <2>2, <1>4, <1>5 DEF IInv, TypeOK
      <3>2. \A t \in Slots : files'[key[q]][t] = files[key[q]][t]
        BY <3>1, <1>2
      <3>3. pc[q] \in {"fill", "chmod"} => at[q] \in Slots
        BY DEF IInv, Position, Working
      <3> QED
        BY <3>1, <3>2, <3>3 DEF IInv, LastRunSoFar, Writes
    <2> QED
      BY <2>1, <2>2
  <1>14. PairedSoFar'
    <2> SUFFICES ASSUME NEW j \in KeyIds, Clean(j)', NEW t \in PublicSlots
                 PROVE  \/ (\E q \in Busy(j) : at[q] \in {PrivateOf(t), t})'
                        \/ SamePair(files[j][PrivateOf(t)], files[j][t])'
      BY DEF PairedSoFar
    <2>1. Clean(j)
      BY <1>4 DEF Clean, RunsOf
    <2>2. \A i \in Slots : files'[j][i].text = files[j][i].text /\ files'[j][i].by = files[j][i].by
      BY <1>2, <1>3
    <2>3. CASE SamePair(files[j][PrivateOf(t)], files[j][t])
      BY <2>2, <2>3, SlotPairs DEF SamePair
    <2>4. CASE \E q \in Busy(j) : at[q] \in {PrivateOf(t), t}
      <3> PICK q \in Busy(j) : at[q] \in {PrivateOf(t), t}
        BY <2>4
      <3>1. CASE q # r
        BY <3>1, <1>4 DEF Busy, Working
      <3>2. CASE q = r /\ at[q] = PrivateOf(t)
        <4>1. at'[r] = t /\ pc'[r] = "open" /\ r \in Busy(j)
          BY <3>2, <1>4, <1>6, SlotPairs
             DEF s, PublicSlots, PrivateOf, XPriv, XPub, MPriv, MPub, EPriv, EPub, After
        <4> QED
          BY <4>1 DEF Busy, Working
      <3>3. CASE q = r /\ at[q] = t
        <4>1. j = k /\ t = s /\ solo[r] /\ latest[k] = r
          BY <3>3, <2>1, <1>4 DEF IInv, SoloIsLatest, Clean, RunsOf, Busy, Working, k, s
        <4>2. files[k][s].text = "full" /\ files[k][s].by = r
          BY <4>1, <1>4 DEF IInv, LastRunSoFar, k, s
        <4>3. PrivateOf(s) \in Slots /\ PrivateOf(s) < at[r] /\ Writes(r, PrivateOf(s))
          BY <4>1, <1>1, SlotPairs DEF s, Writes
        <4>4. files[k][PrivateOf(s)] = InstalledFile(r, PrivateOf(s))
          BY <4>1, <4>3 DEF IInv, LastRunSoFar, k
        <4>5. SamePair(files[j][PrivateOf(t)], files[j][t])
          BY <4>1, <4>2, <4>4 DEF SamePair, InstalledFile
        <4> QED
          BY <4>5, <2>3
      <3> QED
        BY <3>1, <3>2, <3>3
    <2> QED
      BY <2>1, <2>3, <2>4 DEF IInv, PairedSoFar
  <1>15. EmptyMeansUnfinished'
    <2> SUFFICES ASSUME NEW j \in KeyIds, NEW t \in Slots, files'[j][t].text = "empty"
                 PROVE  \E q \in RunsOf(j)' : at'[q] = t /\ pc'[q] \in {"fill", "failed"}
      BY DEF EmptyMeansUnfinished
    <2>1. files[j][t].text = "empty"
      BY <1>2, <1>3
    <2>2. PICK q \in RunsOf(j) : at[q] = t /\ pc[q] \in {"fill", "failed"}
      BY <2>1 DEF IInv, EmptyMeansUnfinished
    <2> QED
      BY <2>2, <1>4 DEF RunsOf
  <1>16. GarbledMeansOverlap'
    <2> SUFFICES ASSUME NEW j \in KeyIds, NEW t \in Slots, files'[j][t].text = "garbled"
                 PROVE  \E q \in RunsOf(j)' : ~solo[q]
      BY DEF GarbledMeansOverlap
    <2>1. files[j][t].text = "garbled"
      BY <1>2, <1>3
    <2>2. PICK q \in RunsOf(j) : ~solo[q]
      BY <2>1 DEF IInv, GarbledMeansOverlap
    <2> QED
      BY <2>2, <1>4 DEF RunsOf
  <1>17. UmaskMeansUnfinished'
    <2> SUFFICES ASSUME NEW j \in KeyIds, NEW t \in Slots, files'[j][t].mode = "umask"
                 PROVE  \E q \in RunsOf(j)' : at'[q] = t /\ pc'[q] \in {"fill", "chmod", "failed"}
      BY DEF UmaskMeansUnfinished
    <2>1. ~(j = k /\ t = s) /\ files[j][t].mode = "umask"
      BY <1>1, <1>2, <1>3, SomeMode
    <2>2. PICK q \in RunsOf(j) : at[q] = t /\ pc[q] \in {"fill", "chmod", "failed"}
      BY <2>1 DEF IInv, UmaskMeansUnfinished
    <2>3. q # r
      BY <2>1, <2>2 DEF RunsOf, k, s
    <2> QED
      BY <2>2, <2>3, <1>4 DEF RunsOf
  <1> QED
    BY <1>7, <1>8, <1>9, <1>10, <1>11, <1>12, <1>13, <1>14, <1>15, <1>16, <1>17 DEF IInv

\* A run that dies keeps its place and its files, and is no longer at work.
LEMMA FailStep ==
    ASSUME IInv, NEW r \in Runs, Fail(r)
    PROVE  IInv'
  <1> USE KeyStoreAssumption DEF Fail, histVars
  <1>1. /\ pc[r] \in Working /\ pc'[r] = "failed" /\ pc[r] # "new"
        /\ \A q \in Runs : q # r => pc'[q] = pc[q]
        /\ \A q \in Runs : pc'[q] \in Working => pc[q] \in Working /\ q # r
    BY DEF IInv, TypeOK, Working
  <1>2. TypeOK'
    BY DEF IInv, TypeOK, Phases
  <1>3. LatestStarted' /\ SoloIsLatest' /\ SoloIsAlone'
    BY <1>1 DEF IInv, TypeOK, LatestStarted, SoloIsLatest, SoloIsAlone
  <1>4. Position' /\ Provenance'
    BY <1>1 DEF IInv, Position, Provenance, Writes, Working
  <1>5. NoModeNoFile' /\ ModeSettled'
    BY <1>1 DEF IInv, NoModeNoFile, ModeSettled, Saved, Writes
  <1>6. LastRunSoFar'
    <2> SUFFICES ASSUME NEW q \in Runs, solo[q], latest[key[q]] = q
                 PROVE  /\ \A t \in Slots :
                              t < at[q] /\ Writes(q, t) => files[key[q]][t] = InstalledFile(q, t)
                        /\ pc'[q] = "fill" => files[key[q]][at[q]].text = "empty"
                        /\ pc'[q] = "chmod" =>
                              /\ files[key[q]][at[q]].text = "full"
                              /\ files[key[q]][at[q]].by = q
                              /\ files[key[q]][at[q]].lock = LockOf(q, at[q])
      BY DEF LastRunSoFar, Writes, InstalledFile, LockOf
    <2> QED
      BY <1>1 DEF IInv, LastRunSoFar
  <1>7. PairedSoFar'
    <2> SUFFICES ASSUME NEW k \in KeyIds, Clean(k)', NEW s \in PublicSlots
                 PROVE  \/ (\E q \in Busy(k) : at[q] \in {PrivateOf(s), s})'
                        \/ SamePair(files[k][PrivateOf(s)], files[k][s])'
      BY DEF PairedSoFar
    <2>1. Clean(k) /\ k # key[r]
      BY <1>1 DEF Clean, RunsOf
    <2>2. Busy(k)' = Busy(k)
      BY <1>1, <2>1 DEF Busy
    <2> QED
      BY <2>1, <2>2 DEF IInv, PairedSoFar
  <1>8. EmptyMeansUnfinished'
    BY <1>1 DEF IInv, EmptyMeansUnfinished, RunsOf
  <1>9. GarbledMeansOverlap' /\ UmaskMeansUnfinished'
    BY <1>1 DEF IInv, GarbledMeansOverlap, UmaskMeansUnfinished, RunsOf
  <1> QED
    BY <1>2, <1>3, <1>4, <1>5, <1>6, <1>7, <1>8, <1>9 DEF IInv

\* Installing or removing liboqs, and any step outside keygen, leave everything
\* the invariant speaks of as it is.
LEMMA QuietStep ==
    ASSUME IInv, oqs' \in BOOLEAN, UNCHANGED <<files, procVars, histVars>>
    PROVE  IInv'
  <1> USE DEF procVars, histVars
  <1>1. TypeOK' /\ LatestStarted' /\ SoloIsLatest' /\ SoloIsAlone'
    BY DEF IInv, TypeOK, LatestStarted, SoloIsLatest, SoloIsAlone
  <1>2. Position' /\ Provenance' /\ NoModeNoFile' /\ ModeSettled'
    BY DEF IInv, Position, Provenance, NoModeNoFile, ModeSettled, Saved, Writes
  <1>3. LastRunSoFar'
    BY DEF IInv, LastRunSoFar, Writes, InstalledFile, LockOf
  <1>4. PairedSoFar' /\ EmptyMeansUnfinished'
    BY DEF IInv, PairedSoFar, Clean, RunsOf, Busy, SamePair, EmptyMeansUnfinished
  <1>5. GarbledMeansOverlap' /\ UmaskMeansUnfinished'
    BY DEF IInv, GarbledMeansOverlap, UmaskMeansUnfinished, RunsOf
  <1> QED
    BY <1>1, <1>2, <1>3, <1>4, <1>5 DEF IInv

-----------------------------------------------------------------------------
(***************************************************************************)
(* The theorems.                                                           *)
(***************************************************************************)
\* Every step keeps the inductive invariant.
LEMMA StepIInv ==
    ASSUME IInv, [Next]_vars
    PROVE  IInv'
  <1>1. ASSUME NEW r \in Runs, Step(r)
        PROVE  IInv'
    BY <1>1, StartStep, OpenStep, FillStep, ChmodStep, FailStep DEF Step
  <1>2. CASE ToggleOqs
    BY <1>2, QuietStep DEF ToggleOqs, IInv, TypeOK
  <1>3. CASE UNCHANGED vars
    BY <1>3, QuietStep DEF vars, IInv, TypeOK
  <1> QED
    BY <1>1, <1>2, <1>3 DEF Next

\* IInv is an invariant of keygen runs that overlap, die and see liboqs come
\* and go, for any number of runs, key ids and passphrases.
THEOREM KeygenInvariant == Spec => []IInv
  BY InitIInv, StepIInv, PTL DEF Spec

\* The variables keep their types.
THEOREM TypeCorrect == Spec => []TypeOK
  <1>1. IInv => TypeOK
    BY DEF IInv
  <1> QED
    BY KeygenInvariant, <1>1, PTL

\* KeygenController.generate installs the key set it reports: a last run that
\* was alone and returned has every file it saves on disk, its own, whole, with
\* the requested protection and the documented permissions.
THEOREM GenerateInstalls == Spec => []CompletedRunInstalled
  <1>1. IInv => CompletedRunInstalled
    BY DEF IInv, CompletedRunInstalled, LastRunSoFar, Position, Past, Slots, XPriv, EPub
  <1> QED
    BY KeygenInvariant, <1>1, PTL

\* generate never leaves a public key without its private half, wherever the
\* last run of the key id stopped.
THEOREM PublishAfterPrivate == Spec => []PrivateBeforePublic
  <1>1. ASSUME IInv, NEW k \in KeyIds, NEW s \in PublicSlots,
               files[k][s].text = "full", latest[k] = files[k][s].by, solo[files[k][s].by]
        PROVE  files[k][PrivateOf(s)].text = "full" /\ files[k][PrivateOf(s)].by = files[k][s].by
    <2> DEFINE r == files[k][s].by
               p == PrivateOf(s)
    <2>1. r \in Runs /\ key[r] = k /\ s <= at[r] /\ Writes(r, s)
      BY <1>1, SlotPairs DEF IInv, Provenance
    <2>2. p \in Slots /\ p < s /\ Writes(r, p)
      BY <1>1, <2>1, SlotPairs DEF Writes
    <2>3. p < at[r]
      <3>1. at[r] \in Int /\ p \in Int /\ s \in Int
        BY <1>1, <2>1, <2>2, SlotPairs DEF IInv, TypeOK, Slots, XPriv, EPub, Past
      <3> HIDE DEF r, p
      <3> QED
        BY <2>1, <2>2, <3>1
    <2>4. files[k][p] = InstalledFile(r, p)
      BY <1>1, <2>1, <2>2, <2>3 DEF IInv, LastRunSoFar
    <2> QED
      BY <2>4 DEF InstalledFile
  <1>2. IInv => PrivateBeforePublic
    BY <1>1 DEF PrivateBeforePublic
  <1> QED
    BY KeygenInvariant, <1>2, PTL

\* Runs that take turns and return leave, for each of the three algorithms, a
\* private and a public half that belong together.
THEOREM TurnsLeavePairs == Spec => []MatchedPairs
  <1>1. IInv => MatchedPairs
    BY DEF IInv, MatchedPairs, PairedSoFar, Paired, Idle
  <1> QED
    BY KeygenInvariant, <1>1, PTL

\* The permissions a run sets survive every later and every overlapping run.
THEOREM PermissionsStay == Spec => []ModeSettled
  <1>1. IInv => ModeSettled
    BY DEF IInv
  <1> QED
    BY KeygenInvariant, <1>1, PTL

\* Only a run at work, or one that died, leaves a key file truncated.
THEOREM NoStrayTruncation == Spec => []EmptyMeansUnfinished
  <1>1. IInv => EmptyMeansUnfinished
    BY DEF IInv
  <1> QED
    BY KeygenInvariant, <1>1, PTL

\* While the runs of a key id take turns, wherever they die, none of its files
\* has the tail of another document behind its own.
THEOREM TurnsLeaveNoTail == Spec => []GarbledMeansOverlap
  <1>1. IInv => GarbledMeansOverlap
    BY DEF IInv
  <1> QED
    BY KeygenInvariant, <1>1, PTL

\* Only a file that a run is still saving, or died saving, is under the umask.
THEOREM NoStrayPermissions == Spec => []UmaskMeansUnfinished
  <1>1. IInv => UmaskMeansUnfinished
    BY DEF IInv
  <1> QED
    BY KeygenInvariant, <1>1, PTL
=============================================================================
