---------------------------- MODULE MCSshSession ----------------------------
(***************************************************************************)
(* SshSession for TLC, with the keys and the configurations of             *)
(* MCSshClientAuth.                                                        *)
(***************************************************************************)
EXTENDS SshSession, MCSshClientAuth

=============================================================================
