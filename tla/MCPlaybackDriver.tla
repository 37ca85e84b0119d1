-------------------------- MODULE MCPlaybackDriver --------------------------
(* Values for model checking PlaybackDriver.                               *)
EXTENDS PlaybackDriver

Both == {Driver, User}
==============================================================================
