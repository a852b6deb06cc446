----------------------------- MODULE AlutLoadCall -----------------------------
(***************************************************************************)
(* What a call of a loader promises the rest of the library, as one step:  *)
(* it succeeds and records nothing, or it fails; an AL buffer stays behind *)
(* only when its data could not be passed.  AlutLifecycle treats the       *)
(* loaders this way (alutLoadMemory, alutCreateBuffer); AlutLoader, where  *)
(* a call is many steps, implements it.                                    *)
(***************************************************************************)
EXTENDS AlutErrors

VARIABLES
  lastError,
  result,     \* "pending", then "ok" or "fail"
  lost        \* has the call left an AL buffer nobody knows of?

vars == <<lastError, result, lost>>

Init ==
  /\ lastError \in ErrorCodes \cup {NoError}
  /\ result = "pending"
  /\ lost = FALSE

Succeed ==
  /\ result = "pending"
  /\ result' = "ok"
  /\ UNCHANGED <<lastError, lost>>

\* One way to fail records nothing.
Fail ==
  /\ result = "pending"
  /\ result' = "fail"
  /\ \E err \in ErrorCodes \cup {NoError} :
       /\ lastError' = SetError(lastError, err)
       /\ lost' => err \in {"UNSUPPORTED_FILE_SUBTYPE", "BUFFER_DATA"}
  /\ lost' \in BOOLEAN

Spec == Init /\ [][Succeed \/ Fail]_vars

=============================================================================
