------------------------- MODULE MCIdentityResolver -------------------------
(* IdentityResolver on two people, one of them in both systems. Two workers *)
(* may sync the same user, or two rows of the same person, at once.         *)
EXTENDS IdentityResolver, TLC

CONSTANTS ada, bob, adaDeal, adaChat, bobDeal, w1, w2

MCHumanOf == (adaDeal :> ada) @@ (adaChat :> ada) @@ (bobDeal :> bob)

MCDuty == (w1 :> {adaChat}) @@ (w2 :> {adaDeal, adaChat, bobDeal})

\* One worker and one person in both systems: no race at all.
MCHumanOfAda == (adaDeal :> ada) @@ (adaChat :> ada)

MCDutyAda == (w1 :> {adaDeal, adaChat})
=============================================================================
