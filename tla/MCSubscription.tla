--------------------------- MODULE MCSubscription ---------------------------
(* The instances of Subscription that TLC explores: the .cfg files give    *)
(* the sets of mints and tasks.                                            *)
EXTENDS Subscription
=============================================================================
