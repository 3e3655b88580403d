----------------------------- MODULE MCUpdater -----------------------------
(* Updater on a small instance.                                            *)
EXTENDS Updater
=============================================================================
