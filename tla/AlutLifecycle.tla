---------------------------- MODULE AlutLifecycle ----------------------------
(***************************************************************************)
(* Initialisation, exit and the error state of ALUT (src/alutInit.c,       *)
(* src/alutError.c), run against an OpenAL implementation and an           *)
(* application that uses OpenAL at the same time.                          *)
(*                                                                         *)
(* An ALUT call runs to completion before anything else happens: the       *)
(* library keeps its state in static variables and is used from one        *)
(* thread.  So a call is one step, with one disjunct per way out of its    *)
(* handler; what an OpenAL call answers on the way is nondeterministic.    *)
(* Between two calls the application does what it likes with OpenAL.       *)
(*                                                                         *)
(* The loaders appear by their outcome only (see AlutLoader): they matter  *)
(* here for the errors they record and the AL buffers they leave on a      *)
(* device.                                                                 *)
(***************************************************************************)
EXTENDS OpenAL, AlutErrors

CONSTANTS
  HandleReuse,  \* may the address of a destroyed context be handed out again
                \* while ALUT still holds it in alutContext?
  LoadErrors    \* the errors reading, decoding or generating sound can record

ASSUME HandleReuseAssumption == HandleReuse \in BOOLEAN
ASSUME LoadErrorsAssumption ==
  LoadErrors \subseteq ErrorCodes \ {"AL_ERROR_ON_ENTRY", "ALC_ERROR_ON_ENTRY"}

VARIABLES
  initialisationState,
  alutContext,
  lastError,
  lost,         \* AL buffers ALUT generated and never handed to the application
  ret           \* what the last step was: an ALUT call with its result and the
                \* error it recorded, or NoCall

alutVars == <<initialisationState, alutContext, lastError, lost>>
vars == <<alVars, alutVars, ret>>

States == {"Unintialized", "ALUTDeviceAndContext", "ExternalDeviceAndContext"}

Ops == { "alutInit", "alutInitWithoutContext", "alutExit", "alutGetError",
         "alutGetMIMETypes", "alutCreateBuffer", "alutLoadMemory" }

NoCall == [op |-> "none", ok |-> TRUE, err |-> NoError]

TypeOK ==
  /\ OpenALTypeOK
  /\ initialisationState \in States
  /\ alutContext \in Contexts \cup {None}
  /\ initialisationState = "ALUTDeviceAndContext" => alutContext # None
  /\ lastError \in ErrorCodes \cup {NoError}
  /\ lost \subseteq Buffers
  /\ ret \in [op : Ops \cup {"none"}, ok : BOOLEAN,
              err : ErrorCodes \cup {NoError}]

Init ==
  /\ OpenALInit
  /\ initialisationState = "Unintialized"
  /\ alutContext = None
  /\ lastError = NoError
  /\ lost = {}
  /\ ret = NoCall

-----------------------------------------------------------------------------
(* How a call ends *)

Succeeds(op) ==
  /\ ret' = [op |-> op, ok |-> TRUE, err |-> NoError]
  /\ UNCHANGED lastError

Fails(op, err) ==
  /\ ret' = [op |-> op, ok |-> FALSE, err |-> err]
  /\ lastError' = SetError(lastError, err)

-----------------------------------------------------------------------------
(* _alutSanityCheck *)

\* The check without the question for a pending ALC error.
SanityError_OnlyAL ==
  IF initialisationState = "Unintialized" THEN "INVALID_OPERATION"
  ELSE IF current = None THEN "NO_CURRENT_CONTEXT"
  ELSE IF current \in alError THEN "AL_ERROR_ON_ENTRY"
  ELSE NoError

\* What the sanity check records; NoError when it passes.
SanityError ==
  IF initialisationState = "Unintialized" THEN "INVALID_OPERATION"
  ELSE IF current = None THEN "NO_CURRENT_CONTEXT"
  ELSE IF current \in alError THEN "AL_ERROR_ON_ENTRY"
  ELSE IF ctx[current].device \in alcError THEN "ALC_ERROR_ON_ENTRY"
  ELSE NoError

\* alGetError and alcGetError clear what they report; the second is asked only
\* when the first had nothing to report.
DrainedAL ==
  IF SanityError = "AL_ERROR_ON_ENTRY" THEN alError \ {current} ELSE alError

\* The ALC error is looked at and not cleared.
DrainedALC_Peek == alcError

DrainedALC ==
  IF SanityError = "ALC_ERROR_ON_ENTRY"
  THEN alcError \ {ctx[current].device}
  ELSE alcError

\* The way out of every checked call whose check fails.
SanityCheckFails(op) ==
  /\ SanityError # NoError
  /\ Fails(op, SanityError)
  /\ alError' = DrainedAL
  /\ alcError' = DrainedALC
  /\ UNCHANGED <<device, ctx, current, bufDevice, initialisationState,
                 alutContext, lost>>

-----------------------------------------------------------------------------
(* alutInit and alutInitWithoutContext *)

\* While ALUT holds a destroyed context in alutContext, the allocator gives
\* that address to a new context only under HandleReuse.
CanAllocate(c) ==
  /\ ~Live(c)
  /\ c = alutContext /\ initialisationState = "ALUTDeviceAndContext"
       => HandleReuse

\* The state is checked first, then the arguments: one NULL of the two.
InitRefused(op) ==
  /\ \/ /\ initialisationState # "Unintialized"
        /\ Fails(op, "INVALID_OPERATION")
     \/ /\ initialisationState = "Unintialized"
        /\ Fails(op, "INVALID_VALUE")
  /\ UNCHANGED <<alVars, initialisationState, alutContext, lost>>

AlutInitOpenFails ==
  /\ initialisationState = "Unintialized"
  /\ Fails("alutInit", "OPEN_DEVICE")
  /\ UNCHANGED <<alVars, initialisationState, alutContext, lost>>

\* The device is not closed when no context can be created on it.
AlutInitCreateFails_Leak(d) ==
  /\ initialisationState = "Unintialized"
  /\ ~IsOpen(d)
  /\ device' = alcOpenDevice(device, d, "alut")
  /\ Fails("alutInit", "CREATE_CONTEXT")
  /\ UNCHANGED <<ctx, current, alError, alcError, bufDevice,
                 initialisationState, alutContext, lost>>

AlutInitCreateFails(d) ==
  /\ initialisationState = "Unintialized"
  /\ ~IsOpen(d)
  /\ device' = alcCloseDevice(alcOpenDevice(device, d, "alut"), d)
  /\ Fails("alutInit", "CREATE_CONTEXT")
  /\ UNCHANGED <<ctx, current, alError, alcError, bufDevice,
                 initialisationState, alutContext, lost>>

AlutInitMakeCurrentFails(d, c) ==
  /\ initialisationState = "Unintialized"
  /\ ~IsOpen(d)
  /\ CanAllocate(c)
  /\ ctx' = alcDestroyContext(alcCreateContext(ctx, c, d, "alut"), c)
  /\ device' = alcCloseDevice(alcOpenDevice(device, d, "alut"), d)
  /\ Fails("alutInit", "MAKE_CONTEXT_CURRENT")
  /\ UNCHANGED <<current, alError, alcError, bufDevice,
                 initialisationState, alutContext, lost>>

\* The context is not stored.
AlutInitSucceeds_NotStored(d, c) ==
  /\ initialisationState = "Unintialized"
  /\ ~IsOpen(d)
  /\ CanAllocate(c)
  /\ device' = alcOpenDevice(device, d, "alut")
  /\ ctx' = alcCreateContext(ctx, c, d, "alut")
  /\ current' = c
  /\ initialisationState' = "ALUTDeviceAndContext"
  /\ Succeeds("alutInit")
  /\ UNCHANGED <<alError, alcError, bufDevice, lost, alutContext>>

AlutInitSucceeds(d, c) ==
  /\ initialisationState = "Unintialized"
  /\ ~IsOpen(d)
  /\ CanAllocate(c)
  /\ device' = alcOpenDevice(device, d, "alut")
  /\ ctx' = alcCreateContext(ctx, c, d, "alut")
  /\ current' = c
  /\ initialisationState' = "ALUTDeviceAndContext"
  /\ alutContext' = c
  /\ Succeeds("alutInit")
  /\ UNCHANGED <<alError, alcError, bufDevice, lost>>

AlutInit ==
  \/ InitRefused("alutInit")
  \/ AlutInitOpenFails
  \/ \E d \in Devices :
       \/ AlutInitCreateFails(d)
       \/ \E c \in Contexts :
            AlutInitMakeCurrentFails(d, c) \/ AlutInitSucceeds(d, c)

AlutInitWithoutContextSucceeds ==
  /\ initialisationState = "Unintialized"
  /\ initialisationState' = "ExternalDeviceAndContext"
  /\ Succeeds("alutInitWithoutContext")
  /\ UNCHANGED <<alVars, alutContext, lost>>

AlutInitWithoutContext ==
  \/ InitRefused("alutInitWithoutContext")
  \/ AlutInitWithoutContextSucceeds

-----------------------------------------------------------------------------
(* alutExit *)

AlutExitRefused ==
  /\ initialisationState = "Unintialized"
  /\ Fails("alutExit", "INVALID_OPERATION")
  /\ UNCHANGED <<alVars, initialisationState, alutContext, lost>>

\* The application owns the OpenAL objects: nothing is checked or released.
AlutExitExternal ==
  /\ initialisationState = "ExternalDeviceAndContext"
  /\ initialisationState' = "Unintialized"
  /\ Succeeds("alutExit")
  /\ UNCHANGED <<alVars, alutContext, lost>>

\* Past the sanity check.
AlutExitChecked ==
  /\ initialisationState = "ALUTDeviceAndContext"
  /\ SanityError = NoError

AlutExitReleaseFails ==
  /\ AlutExitChecked
  /\ Fails("alutExit", "MAKE_CONTEXT_CURRENT")
  /\ UNCHANGED <<alVars, initialisationState, alutContext, lost>>

\* As below, but ALUT forgets about the device.
AlutExitDangling_Reset ==
  /\ AlutExitChecked
  /\ ~Live(alutContext)
  /\ current' = None
  /\ initialisationState' = "Unintialized"
  /\ Fails("alutExit", "DESTROY_CONTEXT")
  /\ UNCHANGED <<device, ctx, alError, alcError, bufDevice, alutContext, lost>>

\* alutContext names no context any more: no context is destroyed, and the
\* error of that call is found on the NULL device it was asked for.
AlutExitDangling ==
  /\ AlutExitChecked
  /\ ~Live(alutContext)
  /\ current' = None
  /\ Fails("alutExit", "DESTROY_CONTEXT")
  /\ UNCHANGED <<device, ctx, alError, alcError, bufDevice,
                 initialisationState, alutContext, lost>>

\* The context is destroyed while it is still current.
DestroyAlutContext_StillCurrent ==
  /\ AlutExitChecked
  /\ Live(alutContext)
  /\ alcError' = alcError \ {ctx[alutContext].device}
  /\ UNCHANGED <<alutContext, current>>

\* The context ALUT holds is destroyed and the error state of its device is
\* asked for (and thereby cleared).
DestroyAlutContext ==
  /\ AlutExitChecked
  /\ Live(alutContext)
  /\ current' = None
  /\ alcError' = alcError \ {ctx[alutContext].device}
  /\ UNCHANGED alutContext

\* The error that is found may be an older one: the sanity check asked for the
\* errors of the device of the context that was current.
AlutExitStaleError ==
  /\ DestroyAlutContext
  /\ ctx[alutContext].device \in alcError
  /\ ctx' = alcDestroyContext(ctx, alutContext)
  /\ alError' = alError \ {alutContext}
  /\ Fails("alutExit", "DESTROY_CONTEXT")
  /\ UNCHANGED <<device, bufDevice, initialisationState, lost>>

\* Other contexts or buffers are on the device: an implementation may refuse
\* to close it, and then it stays open.
AlutExitCloseFails ==
  LET d == ctx[alutContext].device IN
  /\ DestroyAlutContext
  /\ d \notin alcError
  /\ ContextsOn(d) # {alutContext} \/ BuffersOn(d) # {}
  /\ ctx' = alcDestroyContext(ctx, alutContext)
  /\ alError' = alError \ {alutContext}
  /\ Fails("alutExit", "CLOSE_DEVICE")
  /\ UNCHANGED <<device, bufDevice, initialisationState, lost>>

\* The device is not closed.
AlutExitSucceeds_Leak ==
  /\ DestroyAlutContext
  /\ ctx[alutContext].device \notin alcError
  /\ ctx' = alcDestroyContext(ctx, alutContext)
  /\ alError' = alError \ {alutContext}
  /\ initialisationState' = "Unintialized"
  /\ Succeeds("alutExit")
  /\ UNCHANGED <<device, bufDevice, lost>>

\* The device of the context that was current is closed.
AlutExitSucceeds_CurrentDevice ==
  LET d == ctx[current].device IN
  /\ DestroyAlutContext
  /\ ctx[alutContext].device \notin alcError
  /\ ctx' = alcDestroyContext(ContextsAfterClose(ctx, d), alutContext)
  /\ alError' = alError \ (ContextsOn(d) \cup {alutContext})
  /\ device' = alcCloseDevice(device, d)
  /\ bufDevice' = BuffersAfterClose(d)
  /\ initialisationState' = "Unintialized"
  /\ Succeeds("alutExit")
  /\ UNCHANGED lost

AlutExitSucceeds ==
  LET d == ctx[alutContext].device IN
  /\ DestroyAlutContext
  /\ d \notin alcError
  /\ device' = alcCloseDevice(device, d)
  /\ ctx' = ContextsAfterClose(ctx, d)
  /\ alError' = alError \ ContextsOn(d)
  /\ bufDevice' = BuffersAfterClose(d)
  /\ lost' = lost \ BuffersOn(d)
  /\ initialisationState' = "Unintialized"
  /\ Succeeds("alutExit")

AlutExit ==
  \/ AlutExitRefused
  \/ AlutExitExternal
  \/ initialisationState = "ALUTDeviceAndContext" /\ SanityCheckFails("alutExit")
  \/ AlutExitReleaseFails
  \/ AlutExitDangling
  \/ AlutExitStaleError
  \/ AlutExitCloseFails
  \/ AlutExitSucceeds

-----------------------------------------------------------------------------
(* The other calls *)

AlutGetError ==
  /\ lastError' = NoError
  /\ ret' = [op |-> "alutGetError", ok |-> TRUE, err |-> NoError]
  /\ UNCHANGED <<alVars, initialisationState, alutContext, lost>>

AlutGetMIMETypes ==
  \/ SanityCheckFails("alutGetMIMETypes")
  \/ /\ SanityError = NoError
     /\ Succeeds("alutGetMIMETypes") \/ Fails("alutGetMIMETypes", "INVALID_ENUM")
     /\ UNCHANGED <<alVars, initialisationState, alutContext, lost>>

\* The sound cannot be read, decoded or generated.  One way to fail records
\* nothing (an IMA4 sample with more than two channels, see AlutLoader).
LoadFails(op) ==
  /\ SanityError = NoError
  /\ \E err \in LoadErrors \cup {NoError} : Fails(op, err)
  /\ UNCHANGED <<alVars, initialisationState, alutContext, lost>>

\* alutLoadMemoryFromFile, ...FromFileImage, ...HelloWorld, ...Waveform
AlutLoadMemory ==
  \/ SanityCheckFails("alutLoadMemory")
  \/ LoadFails("alutLoadMemory")
  \/ /\ SanityError = NoError
     /\ Succeeds("alutLoadMemory")
     /\ UNCHANGED <<alVars, initialisationState, alutContext, lost>>

\* The AL buffer is generated on the device of the current context before its
\* format is known.
GenerateBuffer(b) ==
  /\ SanityError = NoError
  /\ bufDevice[b] = None
  /\ bufDevice' = [bufDevice EXCEPT ![b] = ctx[current].device]
  /\ UNCHANGED <<device, ctx, current, alError, alcError,
                 initialisationState, alutContext>>

AlutCreateBufferGenFails ==
  /\ SanityError = NoError
  /\ Fails("alutCreateBuffer", "GEN_BUFFERS")
  /\ UNCHANGED <<alVars, initialisationState, alutContext, lost>>

\* The format is unsupported, or alBufferData fails: the buffer stays.
AlutCreateBufferPassFails(b) ==
  /\ GenerateBuffer(b)
  /\ lost' = lost \cup {b}
  /\ \E err \in {"UNSUPPORTED_FILE_SUBTYPE", "BUFFER_DATA"} :
       Fails("alutCreateBuffer", err)

AlutCreateBufferSucceeds(b) ==
  /\ GenerateBuffer(b)
  /\ Succeeds("alutCreateBuffer")
  /\ UNCHANGED lost

\* alutCreateBufferFromFile, ...FromFileImage, ...HelloWorld, ...Waveform
AlutCreateBuffer ==
  \/ SanityCheckFails("alutCreateBuffer")
  \/ LoadFails("alutCreateBuffer")
  \/ AlutCreateBufferGenFails
  \/ \E b \in Buffers :
       AlutCreateBufferPassFails(b) \/ AlutCreateBufferSucceeds(b)

-----------------------------------------------------------------------------

AlutCall ==
  \/ AlutInit
  \/ AlutInitWithoutContext
  \/ AlutExit
  \/ AlutGetError
  \/ AlutGetMIMETypes
  \/ AlutLoadMemory
  \/ AlutCreateBuffer

AppStep ==
  /\ \/ \E d \in Devices :
          \/ AppOpenDevice(d)
          \/ AppCloseDevice(d)
          \/ AppALCError(d)
          \/ \E c \in Contexts : CanAllocate(c) /\ AppCreateContext(c, d)
     \/ \E c \in Contexts : AppDestroyContext(c)
     \/ \E c \in Contexts \cup {None} : AppMakeCurrent(c)
     \/ AppALError
     \/ \E b \in Buffers \ lost : AppDeleteBuffer(b)
  /\ ret' = NoCall
  /\ UNCHANGED alutVars

Next == AlutCall \/ AppStep

Spec == Init /\ [][Next]_vars

-----------------------------------------------------------------------------
(* Properties *)

AlutDevices == {d \in Devices : device[d] = "alut"}

AlutContexts == {c \in Contexts : ctx[c].owner = "alut"}

\* The handles of the OpenAL world name what exists: the current context is
\* live, every live context is on an open device, a destroyed one on none, and
\* errors are pending, and buffers exist, only where there is something to hold
\* them.  ALUT destroys contexts and closes devices under the application's
\* feet; it must leave none of these dangling.
NoDanglingHandles ==
  /\ current # None => Live(current)
  /\ \A c \in Contexts :
       IF Live(c) THEN ctx[c].device \in Devices /\ IsOpen(ctx[c].device)
       ELSE ctx[c] = NoContext /\ c \notin alError
  /\ \A d \in alcError : IsOpen(d)
  /\ \A b \in Buffers : bufDevice[b] # None => IsOpen(bufDevice[b])
  /\ \A b \in lost : bufDevice[b] # None

\* A call that starts with _alutSanityCheck.
Checked(op) ==
  \/ op \in {"alutGetMIMETypes", "alutCreateBuffer", "alutLoadMemory"}
  \/ op = "alutExit" /\ initialisationState = "ALUTDeviceAndContext"

\* What ALUT opened and created is exactly what it will release: no device and
\* no context of ALUT's exists unless alutInit has succeeded, and then there
\* is one device, and no context but the one in alutContext, on that device.
\* A way out of alutInit or alutExit that forgets a clean-up, or cleans up what
\* it still needs, breaks this in some later state.
OwnershipMatchesState ==
  IF initialisationState = "ALUTDeviceAndContext"
  THEN \E d \in Devices :
         /\ AlutDevices = {d}
         /\ \A c \in AlutContexts : c = alutContext /\ ctx[c].device = d
  ELSE AlutDevices = {} /\ AlutContexts = {}

\* No ALUT call closes a device the application opened, or destroys a context
\* on one ("but not any that the application created using ALC",
\* doc/alut.html:570).
AppSpared ==
  ret' # NoCall =>
    /\ \A d \in Devices : device[d] = "app" => device'[d] = "app"
    /\ \A c \in Contexts :
         ctx[c].owner = "app" /\ device[ctx[c].device] = "app"
           => ctx'[c] = ctx[c]

AlutSparesApp == [][AppSpared]_vars

\* alutExit has destroyed the context and not closed the device.
HalfExited ==
  initialisationState = "ALUTDeviceAndContext" /\ ~Live(alutContext)

\* An alutExit that fails halfway is never made good: the device of ALUT stays
\* open, and every later alutInit is refused, whatever the application does.
\* Only an alutExit that reports DESTROY_CONTEXT or CLOSE_DEVICE gets there.
HalfExitStays ==
  /\ HalfExited => HalfExited' /\ AlutDevices' = AlutDevices
  /\ HalfExited' /\ ~HalfExited =>
       /\ ret'.op = "alutExit"
       /\ ret'.err \in {"DESTROY_CONTEXT", "CLOSE_DEVICE"}

HalfExitIsPermanent == [][HalfExitStays]_vars

\* ALUT lets go of its device only in an alutExit that reports success, and an
\* alutExit that reports success has let go of everything.
ReleaseMeansSuccess ==
  /\ AlutDevices # {} /\ AlutDevices' = {} => ret'.op = "alutExit" /\ ret'.ok
  /\ ret'.op = "alutExit" /\ ret'.ok => AlutDevices' = {} /\ AlutContexts' = {}

ReleasedOnlyBySuccess == [][ReleaseMeansSuccess]_vars

\* A checked call that succeeds, and one that fails for a reason of its own,
\* started with no error pending on the current context or its device: an AL
\* error found later was raised by the call itself (generateBuffer and
\* passBufferData rely on it).
CheckedCallsStartClean ==
  [][Checked(ret'.op)
       /\ ret'.err \notin {"AL_ERROR_ON_ENTRY", "ALC_ERROR_ON_ENTRY"}
       /\ current # None
       /\ initialisationState # "Unintialized"
     => current \notin alError /\ ctx[current].device \notin alcError]_vars

\* A call that fails for an error on entry has consumed that error, so the same
\* call made again cannot fail for it again; an ALC error that is hidden by an AL
\* error stays pending (doc/alut.html:433 says that both are cleared).
EntryErrorIsConsumed ==
  [][/\ ret'.err = "AL_ERROR_ON_ENTRY" =>
          /\ current \in alError /\ current \notin alError'
          /\ UNCHANGED alcError
     /\ ret'.err = "ALC_ERROR_ON_ENTRY" =>
          /\ ctx[current].device \in alcError
          /\ ctx[current].device \notin alcError']_vars

\* The first failure since the error state was last fetched is the one that is
\* remembered: an error once recorded survives every later call and every step
\* of the application until alutGetError, which always clears it.
FirstErrorKept ==
  /\ lastError # NoError /\ lastError' # lastError => ret'.op = "alutGetError"
  /\ ret'.op = "alutGetError" => lastError' = NoError
  /\ lastError = NoError /\ lastError' # NoError =>
       ~ret'.ok /\ lastError' = ret'.err

FirstErrorSticks == [][FirstErrorKept]_vars

\* What ALUT holds, as the OpenAL objects show it and not as ALUT remembers it.
Mode ==
  IF AlutDevices = {}
  THEN IF initialisationState = "ExternalDeviceAndContext" THEN "external"
       ELSE "closed"
  ELSE IF AlutContexts = {} THEN "half" ELSE "own"

Api == INSTANCE AlutApi WITH mode <- Mode

\* Seen from outside, a call acquires all of it or nothing, gives up all of it
\* or nothing but for the half exit, and the application changes none of this.
ImplementsApi == Api!Spec

-----------------------------------------------------------------------------
(* Claims of the reference that the code does not keep *)

\* doc/alut.html:606: DESTROY_CONTEXT means that "there was an error destroying
\* the ALC context created by alutInit"; then that context is not destroyed by
\* the call that reports it.
DestroyErrorMeansNotDestroyed ==
  [][ret'.err = "DESTROY_CONTEXT" => ctx'[alutContext] = ctx[alutContext]]_vars

=============================================================================
