--------------------------- MODULE MCHookManager ---------------------------
(* Small instances of HookManager for TLC. *)
EXTENDS HookManager

CONSTANTS w1, w2, waiting, notifier, auditor

MCThreads == {w1, w2}
MCHandlers == {notifier, auditor}
MCRaising == {notifier}
=============================================================================
