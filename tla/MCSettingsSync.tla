---------------------------- MODULE MCSettingsSync ----------------------------
(* Two Characters on one device.                                            *)
EXTENDS SettingsSync
=============================================================================
