-------------------------- MODULE MCLegacyDaemons --------------------------
(* Small instances of LegacyDaemons for TLC. *)
EXTENDS LegacyDaemons

AllEntitled == Epoch \X Streams
============================================================================
