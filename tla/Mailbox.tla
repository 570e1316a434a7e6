------------------------------ MODULE Mailbox ------------------------------
(***************************************************************************)
(* What a multi-bit clock-domain crossing promises: at most one bundle is  *)
(* in transit, the destination receives exactly the bundles the source was *)
(* able to send, once each, unchanged and in order.                        *)
(***************************************************************************)
CONSTANTS Data, NoMail, Reset

VARIABLES mail, received

Init == mail = NoMail /\ received = Reset

Put ==
  /\ mail = NoMail
  /\ mail' \in Data
  /\ UNCHANGED received

Take ==
  /\ mail # NoMail
  /\ received' = mail
  /\ mail' = NoMail

Spec == Init /\ [][Put \/ Take]_<<mail, received>>
=============================================================================
