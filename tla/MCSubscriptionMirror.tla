------------------------ MODULE MCSubscriptionMirror ------------------------
(* The instances of SubscriptionMirror that TLC checks. *)
EXTENDS SubscriptionMirror

CONSTANT u1

OneUser == {u1}
Nobody == {}

NoSideEvents == {}
Cards == {"payment_method.attached"}

NoCron == {}
ExpiryCron == {"expiry"}
BothCrons == {"expiry", "purge"}

=============================================================================
