----------------------------- MODULE SourceFeed -----------------------------
(***************************************************************************)
(* What node pools see of the Talos installer release: whether there is a  *)
(* default release, and whether its data source exists.  The release may   *)
(* come and go; a data source, once there, stays.                          *)
(***************************************************************************)
VARIABLES released, sourced

feed == <<released, sourced>>

FeedInit == released = FALSE /\ sourced = FALSE

Appear == ~released /\ released' = TRUE /\ UNCHANGED sourced

Vanish == released /\ released' = FALSE /\ UNCHANGED sourced

Provide == ~sourced /\ sourced' = TRUE /\ UNCHANGED released

FeedNext == Appear \/ Vanish \/ Provide

FeedSpec == FeedInit /\ [][FeedNext]_feed
=============================================================================
