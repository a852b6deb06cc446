---------------------------- MODULE AlutApi_proofs ----------------------------
(***************************************************************************)
(* AlutLifecycle implements AlutApi, for every number of devices, contexts *)
(* and buffers; and what a checked call does to the errors on entry.       *)
(***************************************************************************)
EXTENDS AlutLifecycle_proofs

-----------------------------------------------------------------------------
(* The mode, as ALUT remembers it *)

HeldMode ==
  CASE initialisationState = "Unintialized"             -> "closed"
    [] initialisationState = "ExternalDeviceAndContext" -> "external"
    [] OTHER -> IF Live(alutContext) THEN "own" ELSE "half"

\* What ALUT holds is what it remembers to hold: in the state after alutInit
\* there is one device, and its one context is the one in alutContext.
LEMMA ModeIsHeld == IInv => Mode = HeldMode
<1> SUFFICES ASSUME IInv
             PROVE  Mode = HeldMode
  OBVIOUS
<1> USE DEF IInv, TypeOK, OpenALTypeOK
<1>1. CASE initialisationState # "ALUTDeviceAndContext"
  BY <1>1 DEF Mode, HeldMode, Ownership, OwnershipMatchesState, States
<1>2. CASE initialisationState = "ALUTDeviceAndContext"
  <2>1. AlutDevices # {} /\ AlutContexts \subseteq {alutContext}
    BY <1>2 DEF Ownership, OwnershipMatchesState
  <2>2. alutContext \in Contexts
    BY <1>2
  <2>3. Live(alutContext) => AlutContexts # {}
    BY <1>2, <2>2, HeldContextOnAlutDevice
  <2>4. ~Live(alutContext) => AlutContexts = {}
    BY <2>1 DEF Live, AlutContexts
  <2> QED BY <1>2, <2>1, <2>3, <2>4 DEF Mode, HeldMode
<1> QED BY <1>1, <1>2

LEMMA ModeIsHeldNext == (IInv => Mode = HeldMode)'
BY ModeIsHeld, PTL

-----------------------------------------------------------------------------
(* Steps *)

\* The calls that change what ALUT holds.
AlutInitHoldsSomething ==
  \/ \E d \in Devices, c \in Contexts : AlutInitSucceeds(d, c)
  \/ AlutInitWithoutContextSucceeds

AlutExitReleasesSomething ==
  AlutExitExternal \/ AlutExitSucceeds \/ AlutExitStaleError \/ AlutExitCloseFails

\* Every other call leaves it alone.
LEMMA OtherCallsKeepMode ==
  ASSUME IInv, AlutCall, ~AlutInitHoldsSomething, ~AlutExitReleasesSomething
  PROVE  HeldMode' = HeldMode
<1>1. UNCHANGED <<initialisationState, alutContext>>
  BY DEF AlutCall, AlutInitHoldsSomething, AlutExitReleasesSomething, AlutInit,
         InitRefused, AlutInitOpenFails, AlutInitCreateFails,
         AlutInitMakeCurrentFails, AlutInitWithoutContext, AlutExit,
         AlutExitRefused, SanityCheckFails, AlutExitReleaseFails,
         AlutExitDangling, AlutGetError, AlutGetMIMETypes, AlutLoadMemory,
         AlutCreateBuffer, LoadFails, AlutCreateBufferGenFails,
         AlutCreateBufferPassFails, AlutCreateBufferSucceeds, GenerateBuffer
<1>2. UNCHANGED <<device, ctx>>
  BY CallsThatTouchObjects
  DEF AlutInitHoldsSomething, AlutExitReleasesSomething
<1> QED BY <1>1, <1>2 DEF HeldMode, Live

\* A call that leaves the mode alone records an error, or none, or fetches it.
LEMMA ErrorStep ==
  ASSUME IInv, AlutCall, Mode' = Mode
  PROVE  [Api!Next]_(Api!vars)
<1>1. CASE AlutGetError
  BY <1>1 DEF AlutGetError, Api!Next, Api!GetError, Api!NoError, NoError
<1>2. CASE ~AlutGetError
  <2>1. \/ lastError' = lastError
        \/ \E err \in ErrorCodes \cup {NoError} : lastError' = SetError(lastError, err)
    BY <1>2, CallEnds DEF Succeeds, Fails
  <2>2. SetError(lastError, NoError) = lastError
    BY DEF SetError
  <2>3. CASE lastError' = lastError
    BY <2>3 DEF Api!vars
  <2>4. ASSUME NEW err \in ErrorCodes, lastError' = SetError(lastError, err)
        PROVE  Api!Next
    <3>1. Api!SetError(lastError, err) = SetError(lastError, err)
      BY DEF Api!SetError, SetError, Api!NoError, NoError
    <3> QED BY <2>4, <3>1 DEF Api!Next, Api!Fail, Api!ErrorCodes, ErrorCodes
  <2> QED BY <2>1, <2>2, <2>3, <2>4
<1> QED BY <1>1, <1>2

\* What alutInit and alutInitWithoutContext acquire, they acquire in one step.
LEMMA InitOpens ==
  ASSUME IInv, IInv', AlutInitHoldsSomething
  PROVE  Api!Open
<1>1. initialisationState = "Unintialized" /\ lastError' = lastError
  BY DEF AlutInitHoldsSomething, AlutInitSucceeds, AlutInitWithoutContextSucceeds,
         Succeeds
<1>2. HeldMode' \in {"own", "external"}
  <2>1. CASE AlutInitWithoutContextSucceeds
    BY <2>1 DEF AlutInitWithoutContextSucceeds, HeldMode
  <2>2. ASSUME NEW d \in Devices, NEW c \in Contexts, AlutInitSucceeds(d, c)
        PROVE  HeldMode' = "own"
    BY <2>2 DEF AlutInitSucceeds, alcCreateContext, HeldMode, Live, IInv, TypeOK,
                OpenALTypeOK
  <2> QED BY <2>1, <2>2 DEF AlutInitHoldsSomething
<1>3. Mode = "closed" /\ Mode' = HeldMode'
  BY <1>1, ModeIsHeld, ModeIsHeldNext DEF HeldMode
<1> QED BY <1>1, <1>2, <1>3 DEF Api!Open

\* An exit gives up everything, or fails halfway with one of two errors.
LEMMA ExitCloses ==
  ASSUME IInv, IInv', AlutExitReleasesSomething
  PROVE  Api!Close \/ Api!HalfClose
<1>0. Mode = HeldMode /\ Mode' = HeldMode'
  BY ModeIsHeld, ModeIsHeldNext
<1>1. CASE AlutExitExternal
  <2>1. HeldMode = "external" /\ HeldMode' = "closed"
    BY <1>1 DEF AlutExitExternal, HeldMode
  <2> QED BY <1>0, <1>1, <2>1 DEF AlutExitExternal, Succeeds, Api!Close
<1>2. CASE AlutExitSucceeds
  <2>1. HeldMode = "own" /\ HeldMode' = "closed"
    BY <1>2 DEF AlutExitSucceeds, DestroyAlutContext, AlutExitChecked, HeldMode
  <2> QED BY <1>0, <1>2, <2>1 DEF AlutExitSucceeds, Succeeds, Api!Close
<1>3. CASE AlutExitStaleError \/ AlutExitCloseFails
  <2>1. HeldMode = "own"
    BY <1>3 DEF AlutExitStaleError, AlutExitCloseFails, DestroyAlutContext,
                AlutExitChecked, HeldMode
  <2>2. HeldMode' = "half"
    <3>1. alutContext \in Contexts /\ ctx \in [Contexts -> ContextRecord]
      BY <1>3 DEF AlutExitStaleError, AlutExitCloseFails, DestroyAlutContext,
                  AlutExitChecked, IInv, TypeOK, OpenALTypeOK
    <3> QED BY <1>3, <3>1
            DEF AlutExitStaleError, AlutExitCloseFails, DestroyAlutContext,
                AlutExitChecked, alcDestroyContext, NoContext, Live, HeldMode
  <2>3. \E err \in {"DESTROY_CONTEXT", "CLOSE_DEVICE"} :
          lastError' = SetError(lastError, err)
    BY <1>3 DEF AlutExitStaleError, AlutExitCloseFails, Fails
  <2> QED BY <1>0, <2>1, <2>2, <2>3
          DEF Api!HalfClose, Api!SetError, SetError, Api!NoError, NoError
<1> QED BY <1>1, <1>2, <1>3 DEF AlutExitReleasesSomething

\* The application cannot change what ALUT holds.
LEMMA AppStepStutters ==
  ASSUME IInv, IInv', HandleReuse = FALSE, AppStep
  PROVE  UNCHANGED Api!vars
<1>1. /\ UNCHANGED <<initialisationState, alutContext>>
      /\ HalfExited' <=> HalfExited
  BY AppStepKeepsAlut
<1>2. initialisationState = "ALUTDeviceAndContext" =>
        (Live(alutContext)' <=> Live(alutContext))
  BY <1>1 DEF HalfExited
<1>3. HeldMode' = HeldMode
  BY <1>1, <1>2 DEF HeldMode, IInv, TypeOK, States
<1>4. lastError' = lastError
  BY DEF AppStep, alutVars
<1> QED BY <1>3, <1>4, ModeIsHeld, ModeIsHeldNext DEF Api!vars

\* Unless the address of a destroyed context is handed out again, the library
\* on top of OpenAL implements the two variables of AlutApi: what ALUT holds
\* changes only as the calls of the interface say.
THEOREM LibraryImplementsApi == HandleReuse = FALSE => (Spec => ImplementsApi)
<1> SUFFICES ASSUME HandleReuse = FALSE
             PROVE  Spec => ImplementsApi
  OBVIOUS
<1>1. Init => Api!Init
  BY DEF Init, OpenALInit, Api!Init, Mode, AlutDevices, Api!NoError, NoError
<1>2. IInv /\ IInv' /\ [Next]_vars => [Api!Next]_(Api!vars)
  <2> SUFFICES ASSUME IInv, IInv', [Next]_vars
               PROVE  [Api!Next]_(Api!vars)
    OBVIOUS
  <2>1. CASE UNCHANGED vars
    BY <2>1 DEF vars, alVars, alutVars, Api!vars, Mode, AlutDevices, AlutContexts
  <2>2. CASE AppStep
    BY <2>2, AppStepStutters
  <2>3. CASE AlutCall
    <3>1. CASE AlutInitHoldsSomething
      BY <3>1, InitOpens DEF Api!Next
    <3>2. CASE AlutExitReleasesSomething
      BY <3>2, ExitCloses DEF Api!Next
    <3>3. CASE ~AlutInitHoldsSomething /\ ~AlutExitReleasesSomething
      BY <2>3, <3>3, OtherCallsKeepMode, ModeIsHeld, ModeIsHeldNext,
         ErrorStep
    <3> QED BY <3>1, <3>2, <3>3
  <2> QED BY <2>1, <2>2, <2>3 DEF Next
<1> QED BY Inductive, <1>1, <1>2, PTL DEF Spec, ImplementsApi, Api!Spec

-----------------------------------------------------------------------------
(* Errors on entry *)

\* A checked call either fails its sanity check or has passed it.
LEMMA CheckedCall ==
  ASSUME AlutCall, Checked(ret'.op)
  PROVE  SanityError = NoError \/ \E op \in Ops : SanityCheckFails(op)
<1> USE DEF Checked, Ops
<1>1. CASE AlutInit
  BY <1>1 DEF AlutInit, InitRefused, AlutInitOpenFails, AlutInitCreateFails,
              AlutInitMakeCurrentFails, AlutInitSucceeds, Fails, Succeeds
<1>2. CASE AlutInitWithoutContext \/ AlutGetError
  BY <1>2 DEF AlutInitWithoutContext, InitRefused,
              AlutInitWithoutContextSucceeds, AlutGetError, Fails, Succeeds
<1>3. CASE AlutExit
  BY <1>3 DEF AlutExit, AlutExitRefused, AlutExitExternal, AlutExitReleaseFails,
              AlutExitDangling, AlutExitStaleError, AlutExitCloseFails,
              AlutExitSucceeds, DestroyAlutContext, AlutExitChecked, Fails,
              Succeeds
<1>4. CASE AlutGetMIMETypes \/ AlutLoadMemory
  BY <1>4 DEF AlutGetMIMETypes, AlutLoadMemory, LoadFails
<1>5. CASE AlutCreateBuffer
  BY <1>5 DEF AlutCreateBuffer, LoadFails, AlutCreateBufferGenFails,
              AlutCreateBufferPassFails, AlutCreateBufferSucceeds, GenerateBuffer
<1> QED BY <1>1, <1>2, <1>3, <1>4, <1>5 DEF AlutCall

\* What a checked call finds on entry, it reports and does not go on; so a call
\* that goes on started without an error of the application.
THEOREM CheckedCallsAreClean == Spec => CheckedCallsStartClean
<1>1. ASSUME Next, Checked(ret'.op),
             ret'.err \notin {"AL_ERROR_ON_ENTRY", "ALC_ERROR_ON_ENTRY"},
             current # None, initialisationState # "Unintialized"
      PROVE  current \notin alError /\ ctx[current].device \notin alcError
  <2>1. AlutCall
    BY <1>1 DEF Next, AppStep, NoCall, Checked
  <2>2. SanityError = NoError
    BY <1>1, <2>1, CheckedCall DEF SanityCheckFails, SanityError, Fails, NoError
  <2> QED BY <1>1, <2>2 DEF SanityError, NoError
<1> QED BY <1>1, PTL DEF Spec, CheckedCallsStartClean

\* Only the sanity check records one of the two errors.
LEMMA EntryErrorOnlyFromCheck ==
  ASSUME Next, ret'.err \in {"AL_ERROR_ON_ENTRY", "ALC_ERROR_ON_ENTRY"}
  PROVE  \E op \in Ops : SanityCheckFails(op)
<1> USE LoadErrorsAssumption DEF Ops, NoError, Fails, Succeeds
<1>1. CASE AppStep
  BY <1>1 DEF AppStep, NoCall
<1>2. CASE AlutInit
  BY <1>2 DEF AlutInit, InitRefused, AlutInitOpenFails, AlutInitCreateFails,
              AlutInitMakeCurrentFails, AlutInitSucceeds
<1>3. CASE AlutInitWithoutContext \/ AlutGetError
  BY <1>3 DEF AlutInitWithoutContext, InitRefused,
              AlutInitWithoutContextSucceeds, AlutGetError
<1>4. CASE AlutExit
  BY <1>4 DEF AlutExit, AlutExitRefused, AlutExitExternal, AlutExitReleaseFails,
              AlutExitDangling, AlutExitStaleError, AlutExitCloseFails,
              AlutExitSucceeds
<1>5. CASE AlutGetMIMETypes \/ AlutLoadMemory
  BY <1>5 DEF AlutGetMIMETypes, AlutLoadMemory, LoadFails
<1>6. CASE AlutCreateBuffer
  BY <1>6 DEF AlutCreateBuffer, LoadFails, AlutCreateBufferGenFails,
              AlutCreateBufferPassFails, AlutCreateBufferSucceeds
<1> QED BY <1>1, <1>2, <1>3, <1>4, <1>5, <1>6 DEF Next, AlutCall

\* An error on entry is gone after the call that reports it, so that the same
\* call can be made again.
THEOREM EntryErrorsAreConsumed == Spec => EntryErrorIsConsumed
<1>1. ASSUME NEW op \in Ops, SanityCheckFails(op)
      PROVE  /\ ret'.err = "AL_ERROR_ON_ENTRY" =>
                  /\ current \in alError /\ current \notin alError'
                  /\ UNCHANGED alcError
             /\ ret'.err = "ALC_ERROR_ON_ENTRY" =>
                  /\ ctx[current].device \in alcError
                  /\ ctx[current].device \notin alcError'
  <2>1. ret'.err = SanityError
    BY <1>1 DEF SanityCheckFails, Fails
  <2>2. ASSUME SanityError = "AL_ERROR_ON_ENTRY"
        PROVE  /\ current \in alError /\ current \notin alError'
               /\ UNCHANGED alcError
    BY <1>1, <2>2
       DEF SanityCheckFails, SanityError, DrainedAL, DrainedALC, NoError
  <2>3. ASSUME SanityError = "ALC_ERROR_ON_ENTRY"
        PROVE  /\ ctx[current].device \in alcError
               /\ ctx[current].device \notin alcError'
    BY <1>1, <2>3 DEF SanityCheckFails, SanityError, DrainedALC, NoError
  <2> QED BY <2>1, <2>2, <2>3
<1>2. Next => /\ ret'.err = "AL_ERROR_ON_ENTRY" =>
                   /\ current \in alError /\ current \notin alError'
                   /\ UNCHANGED alcError
              /\ ret'.err = "ALC_ERROR_ON_ENTRY" =>
                   /\ ctx[current].device \in alcError
                   /\ ctx[current].device \notin alcError'
  BY <1>1, EntryErrorOnlyFromCheck
<1> QED BY <1>2, PTL DEF Spec, EntryErrorIsConsumed

=============================================================================
