-------------------------------- MODULE Mail --------------------------------
(***************************************************************************)
(* What pqhe promises of a message, with no files, keys or processes: it   *)
(* is sent once, whole, to one identity; whoever reads a packet gets       *)
(* nothing, or the message in it, once, and only as the identity it was    *)
(* addressed to.                                                           *)
(***************************************************************************)
CONSTANTS
    Messages,
    Readers,
    Nothing    \* what a reader has before it gets a message

VARIABLES
    sent,      \* the messages whose packet is on disk
    got,       \* [Readers -> Messages or Nothing]
    to,        \* whom a message is addressed to
    as,        \* the identity of a reader
    of         \* the packet a reader opens

mailVars == <<sent, got, to, as, of>>

MailInit ==
    /\ sent = {}
    /\ got = [d \in Readers |-> Nothing]

Send(m) ==
    /\ m \notin sent
    /\ sent' = sent \union {m}
    /\ UNCHANGED <<got, to, as, of>>

Receive(d) ==
    /\ got[d] = Nothing
    /\ of[d] \in sent /\ to[of[d]] = as[d]
    /\ got' = [got EXCEPT ![d] = of[d]]
    /\ UNCHANGED <<sent, to, as, of>>

MailNext ==
    \/ \E m \in Messages : Send(m)
    \/ \E d \in Readers : Receive(d)

MailSpec == MailInit /\ [][MailNext]_mailVars
=============================================================================
