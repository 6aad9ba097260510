------------------------ MODULE MCSubscriptionBilling ------------------------
(* One Stripe subscription that is there from the beginning or comes, and two *)
(* anchors.                                                                   *)
EXTENDS SubscriptionBilling

CONSTANTS s1
==============================================================================
