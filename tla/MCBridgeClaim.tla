--------------------------- MODULE MCBridgeClaim ---------------------------
(* Instances of BridgeClaim for TLC. *)
EXTENDS BridgeClaim

CONSTANTS ann, bob, nobody   \* model values: Telegram users, and no user
=============================================================================
