---------------------------- MODULE MCLifecycle ----------------------------
(***************************************************************************)
(* Lifecycle with one detached request, one restore and two messages, one  *)
(* of them malformed.                                                      *)
(***************************************************************************)
EXTENDS Lifecycle

CONSTANTS push, restore, event, garbage

OneDetached == {push}
OneRestore == {restore}
TwoMessages == {event, garbage}
OneMalformed == {garbage}
=============================================================================
