----------------------------- MODULE MCSession ------------------------------
(* Instances of Session for TLC. *)
EXTENDS Session, TLC

Symmetry    == Permutations(Runs)
KeySymmetry == Permutations(Runs) \union Permutations(KeyIds)

\* Keygens of one key id take turns; encrypt and decrypt run at any time.
OneAtATime == \A k \in KeyIds : \A q, r \in Busy(k) : q = r

\* liboqs comes and goes only when somebody is about to look for it.
Looked ==
    \/ \E r \in Runs : pc[r] = "chmod" /\ at[r] = XPub
    \/ \E e \in Encs : enc[e].pc = "seal"
    \/ \E d \in Decs : dec[d].pc = "decrypt"

InTurns ==
    /\ SessionNext
    /\ oqs' # oqs => Looked
    /\ OneAtATime'

(***************************************************************************)
(* Safety runs leave out what no property of theirs can see.  A decryption *)
(* can still act; keygens act while some key is still to be read; and of   *)
(* the encryptions and decryptions that die, or give up over a system call *)
(* that fails, which are those that take no more steps, they keep the one  *)
(* that fails in the middle of its output.                                 *)
(***************************************************************************)
Undelivered ==
    \E d \in Decs : dec[d].pc \notin DecEnded
                  /\ (enc[dec[d].of].pc \in {"failed", "dead"} => box[dec[d].of] # Absent)

KeyToRead ==
    \/ \E e \in Encs : enc[e].pc \in {"new", "xpub", "kem", "spriv", "spub"}
    \/ \E d \in Decs : dec[d].pc \in {"new", "packet", "xpriv", "kpriv"}

Seen ==
    /\ Undelivered
    /\ pc' # pc => KeyToRead
    /\ \A e \in Encs : enc'[e].pc # "dead" /\ enc'[e].error # "OSError"
    /\ \A d \in Decs : dec'[d].pc # "dead" /\ (dec'[d].error = "OSError" => dec[d].pc = "fill")

\* Keygens may die.
CrashSpec == SessionInit /\ [][InTurns /\ Seen]_allVars

\* Keygens return.
TurnsSpec ==
    SessionInit /\ [][InTurns /\ Seen /\ \A r \in Runs : pc'[r] # "failed"]_allVars

\* Every process that was started goes on, or dies.
FairSessionSpec == SessionInit /\ [][InTurns]_allVars /\ SessionFairness
=============================================================================
