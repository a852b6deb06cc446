-------------------------------- MODULE AlutApi --------------------------------
(***************************************************************************)
(* What initialisation and exit promise, without OpenAL: at most one of    *)
(* ALUT's devices is held at any time, it is acquired and given up in a    *)
(* single step, a call that fails changes nothing but the error state, and *)
(* the one exception, an alutExit that fails halfway, is for ever.         *)
(* AlutLifecycle implements it.                                            *)
(***************************************************************************)
EXTENDS AlutErrors

VARIABLES
  mode,      \* "closed"; "own", "external" after alutInit,
             \* alutInitWithoutContext; "half" after a failure in alutExit
  lastError

vars == <<mode, lastError>>

Init == mode = "closed" /\ lastError = NoError

Open ==
  /\ mode = "closed"
  /\ mode' \in {"own", "external"}
  /\ UNCHANGED lastError

Close ==
  /\ mode \in {"own", "external"}
  /\ mode' = "closed"
  /\ UNCHANGED lastError

HalfClose ==
  /\ mode = "own"
  /\ mode' = "half"
  /\ \E err \in {"DESTROY_CONTEXT", "CLOSE_DEVICE"} :
       lastError' = SetError(lastError, err)

Fail ==
  /\ \E err \in ErrorCodes : lastError' = SetError(lastError, err)
  /\ UNCHANGED mode

GetError == lastError' = NoError /\ UNCHANGED mode

Next == Open \/ Close \/ HalfClose \/ Fail \/ GetError

Spec == Init /\ [][Next]_vars

=============================================================================
