---------------------------- MODULE MCFeedReconcile ----------------------------
(* Instances of FeedReconcile for TLC. *)
EXTENDS FeedReconcile, TLC

TwoLayers == ("a" :> "l1") @@ ("b" :> "l2")
=============================================================================
