---------------------------- MODULE MCLiveFeed ----------------------------
(* One connection thread of the device, and a page with two sockets.       *)
EXTENDS LiveFeed
=============================================================================
