------------------------- MODULE AtMostOnceDelivery -------------------------
(***************************************************************************)
(* What ReportDelivery promises, without callers, rows or attempt numbers: *)
(* a report is sent only while its absence from the chat is known or       *)
(* vouched for, one send at a time, and what is settled as delivered       *)
(* stays delivered.                                                        *)
(***************************************************************************)
EXTENDS Naturals

VARIABLES
    known,      \* what the platform knows of the report in the chat
    chat,       \* how many copies the chat shows
    waived      \* an operator vouched for an absence that was not so

dvars == <<known, chat, waived>>

Knowledge == {"absent", "sending", "delivered", "unknown"}

DInit == known = "absent" /\ chat = 0 /\ waived = FALSE

\* A send starts from known absence ...
Begin == known = "absent" /\ known' = "sending" /\ UNCHANGED <<chat, waived>>

\* ... or from an unknown outcome an operator vouches for, rightly or not.
BeginVouched ==
    /\ known = "unknown"
    /\ known' = "sending"
    /\ waived' = (waived \/ chat > 0)
    /\ UNCHANGED chat

\* While a send is on its way the chat may show one more copy.
Post == known = "sending" /\ chat' = chat + 1 /\ UNCHANGED <<known, waived>>

\* A send settles; absence is claimed only where no copy arrived, and
\* delivery only where one did.
Settle ==
    /\ known = "sending"
    /\ \/ known' = "absent" /\ (chat = 0 \/ waived)
       \/ known' = "delivered" /\ chat > 0
       \/ known' = "unknown"
    /\ UNCHANGED <<chat, waived>>

DNext == Begin \/ BeginVouched \/ Post \/ Settle

DSpec == DInit /\ [][DNext]_dvars
=============================================================================
