--------------------------- MODULE MCMailDelivery ---------------------------
(***************************************************************************)
(* Small instances of MailDelivery.                                        *)
(***************************************************************************)
EXTENDS MailDelivery

CONSTANTS m1, note, letter, b1, b2

OneMailbox == {m1}
NoteOnly == {note}
Both     == {note, letter}
OneBinding == {b1}
TwoBindings == {b1, b2}
=============================================================================
