---------------------- MODULE MCStreamNotification ----------------------
(***************************************************************************)
(* Small instances of the notification of streams.                         *)
(***************************************************************************)
EXTENDS StreamNotification

TwoScopes == {"minute", "day"}
=============================================================================
