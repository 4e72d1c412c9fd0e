--------------------------- MODULE NewsletterPromise ---------------------------
(***************************************************************************)
(* What the newsletter promises its readers: an article reaches a mailbox  *)
(* at most once, and only when the mailbox had consented at the moment the *)
(* message was committed to.  Consent may end while a message is under way,*)
(* and a message may never arrive.                                         *)
(***************************************************************************)
EXTENDS Naturals

CONSTANTS Mailboxes, Articles

VARIABLES
  consent,    (* mailboxes that asked for the newsletter and confirmed it    *)
  committed,  (* <<article, mailbox>>: messages that may still arrive        *)
  received    (* messages of the article the mailbox was sent                *)

vars == <<consent, committed, received>>

Messages == Articles \X Mailboxes

Init ==
  /\ consent = {} /\ committed = {}
  /\ received = [x \in Messages |-> 0]

Join(m) ==
  /\ m \notin consent
  /\ consent' = consent \cup {m}
  /\ UNCHANGED <<committed, received>>

Leave ==
  /\ consent' \subseteq consent
  /\ UNCHANGED <<committed, received>>

Commit(x) ==
  /\ x[2] \in consent
  /\ x \notin committed /\ received[x] = 0
  /\ committed' = committed \cup {x}
  /\ UNCHANGED <<consent, received>>

Withdraw(x) ==
  /\ x \in committed
  /\ committed' = committed \ {x}
  /\ UNCHANGED <<consent, received>>

Receive(x) ==
  /\ x \in committed
  /\ committed' = committed \ {x}
  /\ received' = [received EXCEPT ![x] = @ + 1]
  /\ UNCHANGED consent

Next ==
  \/ \E m \in Mailboxes : Join(m)
  \/ Leave
  \/ \E x \in Messages : Commit(x) \/ Withdraw(x) \/ Receive(x)

Spec == Init /\ [][Next]_vars
=============================================================================
