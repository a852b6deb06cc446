------------------------ MODULE AlutLifecycle_proofs ------------------------
(***************************************************************************)
(* Theorems about AlutLifecycle, for every number of devices, contexts and *)
(* buffers.                                                                *)
(***************************************************************************)
EXTENDS AlutLifecycle, TLAPS

-----------------------------------------------------------------------------
(* Type correctness *)

\* Recording an error keeps lastError an error code.
LEMMA SetErrorType ==
  ASSUME NEW cur \in ErrorCodes \cup {NoError},
         NEW err \in ErrorCodes \cup {NoError}
  PROVE  SetError(cur, err) \in ErrorCodes \cup {NoError}
BY DEF SetError

\* The sanity check records one of its four codes.
LEMMA SanityErrorType == SanityError \in ErrorCodes \cup {NoError}
BY DEF SanityError, ErrorCodes

\* What a call that ends well, or fails, leaves in ret and lastError.
LEMMA OutcomeType ==
  ASSUME TypeOK,
         NEW op \in Ops,
         \/ Succeeds(op)
         \/ \E err \in ErrorCodes \cup {NoError} : Fails(op, err)
  PROVE  /\ lastError' \in ErrorCodes \cup {NoError}
         /\ ret' \in [op : Ops \cup {"none"}, ok : BOOLEAN,
                      err : ErrorCodes \cup {NoError}]
<1>1. CASE Succeeds(op)
  BY <1>1 DEF Succeeds, TypeOK
<1>2. CASE \E err \in ErrorCodes \cup {NoError} : Fails(op, err)
  <2>1. PICK err \in ErrorCodes \cup {NoError} : Fails(op, err)
    BY <1>2
  <2> QED BY <2>1, SetErrorType DEF Fails, TypeOK
<1> QED BY <1>1, <1>2

\* Steps that change nothing but lastError and ret.
Quiet == UNCHANGED <<alVars, initialisationState, alutContext, lost>>

LEMMA InitType == Init => TypeOK
BY DEF Init, TypeOK, OpenALInit, OpenALTypeOK, NoContext, ContextRecord,
       Owners, States, NoCall, Ops

\* alutInit and alutInitWithoutContext keep the types.
LEMMA AlutInitType ==
  ASSUME TypeOK, AlutInit \/ AlutInitWithoutContext
  PROVE  TypeOK'
<1> USE DEF Ops, ErrorCodes
<1>1. ASSUME NEW op \in {"alutInit", "alutInitWithoutContext"}, InitRefused(op)
      PROVE  TypeOK'
  <2>1. \E err \in ErrorCodes \cup {NoError} : Fails(op, err)
    BY <1>1 DEF InitRefused
  <2> QED BY <1>1, <2>1, OutcomeType
          DEF InitRefused, TypeOK, OpenALTypeOK, alVars
<1>2. ASSUME AlutInitOpenFails
      PROVE  TypeOK'
  BY <1>2, OutcomeType
  DEF AlutInitOpenFails, TypeOK, OpenALTypeOK, alVars
<1>3. ASSUME NEW d \in Devices, AlutInitCreateFails(d)
      PROVE  TypeOK'
  <2>1. device' \in [Devices -> Owners \cup {"closed"}]
    BY <1>3 DEF AlutInitCreateFails, alcOpenDevice, alcCloseDevice, Owners,
                TypeOK, OpenALTypeOK
  <2> QED BY <1>3, <2>1, OutcomeType
          DEF AlutInitCreateFails, TypeOK, OpenALTypeOK
<1>4. ASSUME NEW d \in Devices, NEW c \in Contexts, AlutInitMakeCurrentFails(d, c)
      PROVE  TypeOK'
  <2>1. device' \in [Devices -> Owners \cup {"closed"}]
    BY <1>4 DEF AlutInitMakeCurrentFails, alcOpenDevice, alcCloseDevice, Owners,
                TypeOK, OpenALTypeOK
  <2>2. ctx' \in [Contexts -> ContextRecord]
    BY <1>4 DEF AlutInitMakeCurrentFails, alcCreateContext, alcDestroyContext,
                NoContext, ContextRecord, Owners, TypeOK, OpenALTypeOK
  <2> QED BY <1>4, <2>1, <2>2, OutcomeType
          DEF AlutInitMakeCurrentFails, TypeOK, OpenALTypeOK
<1>5. ASSUME NEW d \in Devices, NEW c \in Contexts, AlutInitSucceeds(d, c)
      PROVE  TypeOK'
  <2>1. device' \in [Devices -> Owners \cup {"closed"}]
    BY <1>5 DEF AlutInitSucceeds, alcOpenDevice, Owners, TypeOK, OpenALTypeOK
  <2>2. ctx' \in [Contexts -> ContextRecord]
    BY <1>5 DEF AlutInitSucceeds, alcCreateContext, ContextRecord, Owners,
                TypeOK, OpenALTypeOK
  <2>3. alutContext' # None
    BY <1>5, NoneAssumption DEF AlutInitSucceeds
  <2> QED BY <1>5, <2>1, <2>2, <2>3, OutcomeType
          DEF AlutInitSucceeds, TypeOK, OpenALTypeOK, States
<1>6. ASSUME AlutInitWithoutContextSucceeds
      PROVE  TypeOK'
  BY <1>6, OutcomeType
  DEF AlutInitWithoutContextSucceeds, TypeOK, OpenALTypeOK, alVars, States
<1> QED
  BY <1>1, <1>2, <1>3, <1>4, <1>5, <1>6 DEF AlutInit, AlutInitWithoutContext

\* A failed sanity check keeps the types.
LEMMA SanityCheckFailsType ==
  ASSUME TypeOK, NEW op \in Ops, SanityCheckFails(op)
  PROVE  TypeOK'
<1>1. /\ alError' \subseteq Contexts
      /\ alcError' \subseteq Devices
  BY DEF SanityCheckFails, DrainedAL, DrainedALC, TypeOK, OpenALTypeOK
<1>2. \E err \in ErrorCodes \cup {NoError} : Fails(op, err)
  BY SanityErrorType DEF SanityCheckFails
<1> QED BY <1>1, <1>2, OutcomeType DEF SanityCheckFails, TypeOK, OpenALTypeOK

\* alutExit keeps the types.
LEMMA AlutExitType ==
  ASSUME TypeOK, AlutExit
  PROVE  TypeOK'
<1> USE DEF Ops, ErrorCodes
<1>1. CASE AlutExitRefused
  BY <1>1, OutcomeType
  DEF AlutExitRefused, TypeOK, OpenALTypeOK, alVars
<1>2. CASE AlutExitExternal
  BY <1>2, OutcomeType
  DEF AlutExitExternal, TypeOK, OpenALTypeOK, alVars, States
<1>3. CASE SanityCheckFails("alutExit")
  BY <1>3, SanityCheckFailsType
<1>4. CASE AlutExitReleaseFails
  BY <1>4, OutcomeType
  DEF AlutExitReleaseFails, TypeOK, OpenALTypeOK, alVars
<1>5. CASE AlutExitDangling
  BY <1>5, OutcomeType
  DEF AlutExitDangling, TypeOK, OpenALTypeOK
<1>6. ASSUME ctx' = alcDestroyContext(ctx, alutContext)
      PROVE  ctx' \in [Contexts -> ContextRecord]
  BY <1>6 DEF alcDestroyContext, NoContext, ContextRecord, TypeOK, OpenALTypeOK
<1>7. CASE AlutExitStaleError
  BY <1>6, <1>7, OutcomeType
  DEF AlutExitStaleError, DestroyAlutContext, TypeOK, OpenALTypeOK
<1>8. CASE AlutExitCloseFails
  BY <1>6, <1>8, OutcomeType
  DEF AlutExitCloseFails, DestroyAlutContext, TypeOK, OpenALTypeOK
<1>9. CASE AlutExitSucceeds
  <2>1. device' \in [Devices -> Owners \cup {"closed"}]
    BY <1>9 DEF AlutExitSucceeds, alcCloseDevice, TypeOK, OpenALTypeOK
  <2>2. ctx' \in [Contexts -> ContextRecord]
    BY <1>9 DEF AlutExitSucceeds, ContextsAfterClose, NoContext, ContextRecord,
                TypeOK, OpenALTypeOK
  <2>3. bufDevice' \in [Buffers -> Devices \cup {None}]
    BY <1>9 DEF AlutExitSucceeds, BuffersAfterClose, TypeOK, OpenALTypeOK
  <2> QED BY <1>9, <2>1, <2>2, <2>3, OutcomeType
          DEF AlutExitSucceeds, DestroyAlutContext, TypeOK, OpenALTypeOK, States
<1> QED
  BY <1>1, <1>2, <1>3, <1>4, <1>5, <1>7, <1>8, <1>9 DEF AlutExit

\* The calls that only record an error, and those that make a buffer.
LEMMA OtherCallsType ==
  ASSUME TypeOK,
         AlutGetError \/ AlutGetMIMETypes \/ AlutLoadMemory \/ AlutCreateBuffer
  PROVE  TypeOK'
<1> USE DEF Ops, ErrorCodes
<1>1. CASE AlutGetError
  BY <1>1 DEF AlutGetError, TypeOK, OpenALTypeOK, alVars
<1>2. ASSUME NEW op \in Ops, SanityCheckFails(op)
      PROVE  TypeOK'
  BY <1>2, SanityCheckFailsType
<1>3. ASSUME NEW op \in Ops,
             \/ Succeeds(op)
             \/ \E err \in ErrorCodes \cup {NoError} : Fails(op, err),
             Quiet
      PROVE  TypeOK'
  BY <1>3, OutcomeType DEF Quiet, TypeOK, OpenALTypeOK, alVars
<1>4. CASE AlutGetMIMETypes
  BY <1>2, <1>3, <1>4 DEF AlutGetMIMETypes, Quiet
<1>5. ASSUME NEW op \in Ops, LoadFails(op)
      PROVE  TypeOK'
  BY <1>3, <1>5, LoadErrorsAssumption DEF LoadFails, Quiet
<1>6. CASE AlutLoadMemory
  BY <1>2, <1>3, <1>5, <1>6 DEF AlutLoadMemory, Quiet
<1>7. ASSUME NEW b \in Buffers, GenerateBuffer(b)
      PROVE  bufDevice' \in [Buffers -> Devices \cup {None}]
  <2>1. current \in Contexts
    BY <1>7 DEF GenerateBuffer, SanityError, NoError, TypeOK, OpenALTypeOK
  <2> QED BY <1>7, <2>1
          DEF GenerateBuffer, ContextRecord, TypeOK, OpenALTypeOK
<1>8. ASSUME NEW b \in Buffers, AlutCreateBufferPassFails(b)
      PROVE  TypeOK'
  <2>1. \E err \in ErrorCodes \cup {NoError} : Fails("alutCreateBuffer", err)
    BY <1>8 DEF AlutCreateBufferPassFails
  <2> QED BY <1>7, <1>8, <2>1, OutcomeType
          DEF AlutCreateBufferPassFails, GenerateBuffer, TypeOK, OpenALTypeOK
<1>9. ASSUME NEW b \in Buffers, AlutCreateBufferSucceeds(b)
      PROVE  TypeOK'
  BY <1>7, <1>9, OutcomeType
  DEF AlutCreateBufferSucceeds, GenerateBuffer, TypeOK, OpenALTypeOK
<1>10. CASE AlutCreateBufferGenFails
  BY <1>3, <1>10 DEF AlutCreateBufferGenFails, Quiet
<1>11. CASE AlutCreateBuffer
  BY <1>2, <1>5, <1>8, <1>9, <1>10, <1>11 DEF AlutCreateBuffer
<1> QED BY <1>1, <1>4, <1>6, <1>11

\* What the application does with OpenAL keeps the types.
LEMMA AppStepType ==
  ASSUME TypeOK, AppStep
  PROVE  TypeOK'
<1> SUFFICES OpenALTypeOK'
  BY DEF AppStep, TypeOK, alutVars, NoCall
<1> USE DEF TypeOK, OpenALTypeOK
<1>1. ASSUME NEW d \in Devices,
             AppOpenDevice(d) \/ AppCloseDevice(d) \/ AppALCError(d)
      PROVE  OpenALTypeOK'
  BY <1>1 DEF AppOpenDevice, AppCloseDevice, AppALCError, alcOpenDevice,
              alcCloseDevice, Owners
<1>2. ASSUME NEW d \in Devices, NEW c \in Contexts, AppCreateContext(c, d)
      PROVE  OpenALTypeOK'
  BY <1>2 DEF AppCreateContext, alcCreateContext, ContextRecord, Owners
<1>3. ASSUME NEW c \in Contexts, AppDestroyContext(c)
      PROVE  OpenALTypeOK'
  BY <1>3 DEF AppDestroyContext, alcDestroyContext, NoContext, ContextRecord
<1>4. ASSUME NEW c \in Contexts \cup {None}, AppMakeCurrent(c)
      PROVE  OpenALTypeOK'
  BY <1>4 DEF AppMakeCurrent
<1>5. CASE AppALError
  BY <1>5 DEF AppALError
<1>6. ASSUME NEW b \in Buffers, AppDeleteBuffer(b)
      PROVE  OpenALTypeOK'
  BY <1>6 DEF AppDeleteBuffer
<1> QED BY <1>1, <1>2, <1>3, <1>4, <1>5, <1>6 DEF AppStep

LEMMA StutterType == TypeOK /\ UNCHANGED vars => TypeOK'
BY DEF TypeOK, OpenALTypeOK, vars, alVars, alutVars

\* Every reachable state is type-correct.
THEOREM TypeCorrect == Spec => []TypeOK
<1>1. TypeOK /\ [Next]_vars => TypeOK'
  BY AlutInitType, AlutExitType, OtherCallsType, AppStepType, StutterType
  DEF Next, AlutCall
<1> QED BY InitType, <1>1, PTL DEF Spec

-----------------------------------------------------------------------------
(* No handle dangles *)

LEMMA InitHandles == Init => NoDanglingHandles
BY DEF Init, OpenALInit, NoDanglingHandles, Live, NoContext

\* A step that touches no OpenAL object.
LEMMA QuietHandles ==
  ASSUME NoDanglingHandles, UNCHANGED <<alVars, lost>>
  PROVE  NoDanglingHandles'
BY DEF NoDanglingHandles, Live, IsOpen, alVars

\* A failed sanity check only takes errors away.
LEMMA SanityCheckFailsHandles ==
  ASSUME NoDanglingHandles, NEW op, SanityCheckFails(op)
  PROVE  NoDanglingHandles'
BY DEF SanityCheckFails, DrainedAL, DrainedALC, NoDanglingHandles, Live, IsOpen

LEMMA AlutInitHandles ==
  ASSUME TypeOK, NoDanglingHandles, AlutInit \/ AlutInitWithoutContext
  PROVE  NoDanglingHandles'
<1> USE DEF TypeOK, OpenALTypeOK
<1>1. ASSUME NEW d \in Devices, AlutInitCreateFails(d)
      PROVE  NoDanglingHandles'
  <2>1. device' = device
    BY <1>1 DEF AlutInitCreateFails, alcOpenDevice, alcCloseDevice, IsOpen
  <2> QED BY <1>1, <2>1, QuietHandles DEF AlutInitCreateFails, alVars
<1>2. ASSUME NEW d \in Devices, NEW c \in Contexts, AlutInitMakeCurrentFails(d, c)
      PROVE  NoDanglingHandles'
  <2>1. device' = device
    BY <1>2 DEF AlutInitMakeCurrentFails, alcOpenDevice, alcCloseDevice, IsOpen
  <2>2. ctx' = ctx
    BY <1>2 DEF AlutInitMakeCurrentFails, alcCreateContext, alcDestroyContext,
                CanAllocate, NoDanglingHandles
  <2> QED BY <1>2, <2>1, <2>2, QuietHandles DEF AlutInitMakeCurrentFails, alVars
<1>3. ASSUME NEW d \in Devices, NEW c \in Contexts, AlutInitSucceeds(d, c)
      PROVE  NoDanglingHandles'
  BY <1>3 DEF AlutInitSucceeds, alcOpenDevice, alcCreateContext,
              NoDanglingHandles, Live, IsOpen, CanAllocate, Owners
<1> QED
  BY <1>1, <1>2, <1>3, QuietHandles
  DEF AlutInit, AlutInitWithoutContext, InitRefused, AlutInitOpenFails,
      AlutInitWithoutContextSucceeds, alVars

LEMMA AlutExitHandles ==
  ASSUME TypeOK, NoDanglingHandles, AlutExit
  PROVE  NoDanglingHandles'
<1> USE DEF TypeOK, OpenALTypeOK
<1>1. CASE AlutExitDangling
  BY <1>1 DEF AlutExitDangling, NoDanglingHandles, Live, IsOpen
<1>2. CASE AlutExitStaleError \/ AlutExitCloseFails
  BY <1>2 DEF AlutExitStaleError, AlutExitCloseFails, DestroyAlutContext,
              alcDestroyContext, NoContext, NoDanglingHandles, Live, IsOpen
<1>3. CASE AlutExitSucceeds
  <2> DEFINE d == ctx[alutContext].device
  <2>1. /\ current' = None
        /\ device' = [device EXCEPT ![d] = "closed"]
        /\ ctx' = ContextsAfterClose(ctx, d)
        /\ bufDevice' = BuffersAfterClose(d)
        /\ lost' = lost \ BuffersOn(d)
        /\ alError' = alError \ ContextsOn(d)
        /\ alcError' = alcError \ {d}
    BY <1>3 DEF AlutExitSucceeds, DestroyAlutContext, alcCloseDevice
  <2> HIDE DEF d
  <2>2. ASSUME NEW c \in Contexts
        PROVE  IF ctx'[c].owner # "none"
               THEN ctx'[c].device \in Devices /\ device'[ctx'[c].device] # "closed"
               ELSE ctx'[c] = NoContext /\ c \notin alError'
    <3>1. ctx'[c] = IF ctx[c].device = d THEN NoContext ELSE ctx[c]
      BY <2>1 DEF ContextsAfterClose
    <3>2. c \in alError' <=> c \in alError /\ ctx[c].device # d
      BY <2>1 DEF ContextsOn
    <3> QED BY <2>1, <3>1, <3>2 DEF NoDanglingHandles, Live, IsOpen, NoContext
  <2>3. \A e \in alcError' : device'[e] # "closed"
    BY <2>1 DEF NoDanglingHandles, IsOpen
  <2>4. \A b \in Buffers : 
                            bufDevice'[b] # None => device'[bufDevice'[b]] # "closed"
    BY <2>1 DEF NoDanglingHandles, IsOpen, BuffersAfterClose
  <2>5. \A b \in lost' : bufDevice'[b] # None
    BY <2>1 DEF NoDanglingHandles, BuffersAfterClose, BuffersOn
  <2> QED BY <2>1, <2>2, <2>3, <2>4, <2>5 DEF NoDanglingHandles, Live, IsOpen
<1> QED
  BY <1>1, <1>2, <1>3, QuietHandles, SanityCheckFailsHandles
  DEF AlutExit, AlutExitRefused, AlutExitExternal, AlutExitReleaseFails, alVars

LEMMA OtherCallsHandles ==
  ASSUME TypeOK, NoDanglingHandles,
         AlutGetError \/ AlutGetMIMETypes \/ AlutLoadMemory \/ AlutCreateBuffer
  PROVE  NoDanglingHandles'
<1>1. ASSUME NEW b \in Buffers, GenerateBuffer(b), lost' \subseteq lost \cup {b}
      PROVE  NoDanglingHandles'
  <2>1. current \in Contexts /\ Live(current)
    BY <1>1 DEF GenerateBuffer, SanityError, NoError, NoDanglingHandles,
                TypeOK, OpenALTypeOK
  <2>2. ctx[current].device \in Devices /\ IsOpen(ctx[current].device)
    BY <2>1 DEF NoDanglingHandles
  <2> QED BY <1>1, <2>2, NoneAssumption
          DEF GenerateBuffer, NoDanglingHandles, Live, IsOpen, TypeOK, OpenALTypeOK
<1>2. ASSUME NEW op, LoadFails(op)
      PROVE  NoDanglingHandles'
  BY <1>2, QuietHandles DEF LoadFails
<1> QED
  BY <1>1, <1>2, QuietHandles, SanityCheckFailsHandles
  DEF AlutGetError, AlutGetMIMETypes, AlutLoadMemory, AlutCreateBuffer,
      AlutCreateBufferGenFails, AlutCreateBufferPassFails,
      AlutCreateBufferSucceeds

LEMMA AppStepHandles ==
  ASSUME TypeOK, NoDanglingHandles, AppStep
  PROVE  NoDanglingHandles'
<1> USE DEF TypeOK, OpenALTypeOK
<1>0. lost' = lost
  BY DEF AppStep, alutVars
<1>1. ASSUME NEW d \in Devices, AppOpenDevice(d) \/ AppALCError(d)
      PROVE  NoDanglingHandles'
  BY <1>0, <1>1 DEF AppOpenDevice, AppALCError, alcOpenDevice,
                    NoDanglingHandles, Live, IsOpen
<1>2. ASSUME NEW d \in Devices, AppCloseDevice(d)
      PROVE  NoDanglingHandles'
  BY <1>0, <1>2 DEF AppCloseDevice, alcCloseDevice, ContextsOn, BuffersOn,
                    NoDanglingHandles, Live, IsOpen
<1>3. ASSUME NEW d \in Devices, NEW c \in Contexts, AppCreateContext(c, d)
      PROVE  NoDanglingHandles'
  BY <1>0, <1>3 DEF AppCreateContext, alcCreateContext,
                    NoDanglingHandles, Live, IsOpen
<1>4. ASSUME NEW c \in Contexts, AppDestroyContext(c)
      PROVE  NoDanglingHandles'
  BY <1>0, <1>4 DEF AppDestroyContext, alcDestroyContext, NoContext,
                    NoDanglingHandles, Live, IsOpen
<1>5. ASSUME NEW c \in Contexts \cup {None}, AppMakeCurrent(c)
      PROVE  NoDanglingHandles'
  BY <1>0, <1>5 DEF AppMakeCurrent, NoDanglingHandles, Live, IsOpen
<1>6. CASE AppALError
  BY <1>0, <1>6 DEF AppALError, NoDanglingHandles, Live, IsOpen
<1>7. ASSUME NEW b \in Buffers \ lost, AppDeleteBuffer(b)
      PROVE  NoDanglingHandles'
  BY <1>0, <1>7 DEF AppDeleteBuffer, NoDanglingHandles, Live, IsOpen
<1> QED BY <1>1, <1>2, <1>3, <1>4, <1>5, <1>6, <1>7 DEF AppStep

\* ALUT leaves no destroyed context current, no context or buffer on a closed
\* device, and no error pending where there is nothing to hold it.
THEOREM HandlesValid == Spec => []NoDanglingHandles
<1>1. TypeOK /\ NoDanglingHandles /\ [Next]_vars => NoDanglingHandles'
  BY AlutInitHandles, AlutExitHandles, OtherCallsHandles, AppStepHandles,
     QuietHandles
  DEF Next, AlutCall, vars, alutVars
<1> QED BY InitHandles, TypeCorrect, <1>1, PTL DEF Spec

-----------------------------------------------------------------------------
(* ALUT owns what it will release, and nothing else *)

\* OwnershipMatchesState is not inductive by itself: alutExit closes the device
\* of the context in alutContext, so that context, while it lives, must be the
\* one ALUT created.  This is where an address that is handed out again would
\* do harm.
HeldContextIsAluts ==
  initialisationState = "ALUTDeviceAndContext" /\ Live(alutContext)
    => ctx[alutContext].owner = "alut"

Ownership == OwnershipMatchesState /\ HeldContextIsAluts

IInv == TypeOK /\ NoDanglingHandles /\ Ownership

LEMMA InitOwnership == Init => Ownership
BY DEF Init, OpenALInit, Ownership, OwnershipMatchesState, HeldContextIsAluts,
       AlutDevices, AlutContexts, NoContext

\* A step that opens and creates nothing and stays in the same state.
LEMMA QuietOwnership ==
  ASSUME Ownership, UNCHANGED <<device, ctx, initialisationState, alutContext>>
  PROVE  Ownership'
BY DEF Ownership, OwnershipMatchesState, HeldContextIsAluts, AlutDevices,
       AlutContexts, Live

LEMMA AlutInitOwnership ==
  ASSUME IInv, AlutInit \/ AlutInitWithoutContext
  PROVE  Ownership'
<1> USE DEF IInv, TypeOK, OpenALTypeOK
<1>1. ASSUME NEW d \in Devices, AlutInitCreateFails(d)
      PROVE  Ownership'
  <2>1. device' = device
    BY <1>1 DEF AlutInitCreateFails, alcOpenDevice, alcCloseDevice, IsOpen
  <2> QED BY <1>1, <2>1, QuietOwnership DEF AlutInitCreateFails
<1>2. ASSUME NEW d \in Devices, NEW c \in Contexts, AlutInitMakeCurrentFails(d, c)
      PROVE  Ownership'
  <2>1. device' = device
    BY <1>2 DEF AlutInitMakeCurrentFails, alcOpenDevice, alcCloseDevice, IsOpen
  <2>2. ctx' = ctx
    BY <1>2 DEF AlutInitMakeCurrentFails, alcCreateContext, alcDestroyContext,
                CanAllocate, NoDanglingHandles
  <2> QED BY <1>2, <2>1, <2>2, QuietOwnership DEF AlutInitMakeCurrentFails
<1>3. ASSUME NEW d \in Devices, NEW c \in Contexts, AlutInitSucceeds(d, c)
      PROVE  Ownership'
  <2>1. AlutDevices = {} /\ AlutContexts = {}
    BY <1>3 DEF AlutInitSucceeds, Ownership, OwnershipMatchesState
  <2>2. AlutDevices' = {d}
    BY <1>3, <2>1 DEF AlutInitSucceeds, alcOpenDevice, AlutDevices
  <2>3. AlutContexts' = {c} /\ ctx'[c] = [owner |-> "alut", device |-> d]
    BY <1>3, <2>1 DEF AlutInitSucceeds, alcCreateContext, AlutContexts
  <2> QED BY <1>3, <2>2, <2>3
          DEF AlutInitSucceeds, Ownership, OwnershipMatchesState,
              HeldContextIsAluts
<1>4. CASE AlutInitWithoutContextSucceeds
  BY <1>4 DEF AlutInitWithoutContextSucceeds, alVars, Ownership,
              OwnershipMatchesState, HeldContextIsAluts, AlutDevices, AlutContexts
<1> QED
  BY <1>1, <1>2, <1>3, <1>4, QuietOwnership
  DEF AlutInit, AlutInitWithoutContext, InitRefused, AlutInitOpenFails, alVars

\* In the checked part of alutExit, a live context in alutContext is on the
\* one device of ALUT's.
LEMMA HeldContextOnAlutDevice ==
  ASSUME IInv, initialisationState = "ALUTDeviceAndContext", Live(alutContext)
  PROVE  /\ AlutDevices = {ctx[alutContext].device}
         /\ AlutContexts = {alutContext}
         /\ ctx[alutContext].device \in Devices
         /\ alutContext \in Contexts
BY DEF IInv, TypeOK, OpenALTypeOK, Ownership, OwnershipMatchesState,
       HeldContextIsAluts, AlutDevices, AlutContexts

LEMMA AlutExitOwnership ==
  ASSUME IInv, AlutExit
  PROVE  Ownership'
<1> USE DEF IInv, TypeOK, OpenALTypeOK
<1>1. CASE AlutExitExternal
  BY <1>1 DEF AlutExitExternal, alVars, Ownership, OwnershipMatchesState,
              HeldContextIsAluts, AlutDevices, AlutContexts
<1>2. CASE AlutExitStaleError \/ AlutExitCloseFails
  <2>1. /\ initialisationState = "ALUTDeviceAndContext"
        /\ Live(alutContext)
        /\ UNCHANGED <<device, initialisationState, alutContext>>
        /\ ctx' = [ctx EXCEPT ![alutContext] = NoContext]
    BY <1>2 DEF AlutExitStaleError, AlutExitCloseFails, DestroyAlutContext,
                AlutExitChecked, alcDestroyContext
  <2>2. AlutContexts' = {}
    BY <2>1, HeldContextOnAlutDevice DEF AlutContexts, NoContext
  <2>3. ~Live(alutContext)'
    BY <2>1, HeldContextOnAlutDevice DEF Live, NoContext
  <2>4. AlutDevices' = {ctx[alutContext].device}
    BY <2>1, HeldContextOnAlutDevice DEF AlutDevices
  <2> QED BY <2>1, <2>2, <2>3, <2>4, HeldContextOnAlutDevice
          DEF Ownership, OwnershipMatchesState, HeldContextIsAluts
<1>3. CASE AlutExitSucceeds
  <2>1. /\ initialisationState = "ALUTDeviceAndContext"
        /\ Live(alutContext)
        /\ initialisationState' = "Unintialized"
        /\ device' = [device EXCEPT ![ctx[alutContext].device] = "closed"]
        /\ ctx' = ContextsAfterClose(ctx, ctx[alutContext].device)
    BY <1>3 DEF AlutExitSucceeds, DestroyAlutContext, AlutExitChecked,
                alcCloseDevice
  <2>2. AlutDevices' = {}
    BY <2>1, HeldContextOnAlutDevice DEF AlutDevices
  <2>3. AlutContexts' = {}
    BY <2>1, HeldContextOnAlutDevice
    DEF AlutContexts, ContextsAfterClose, NoContext
  <2> QED BY <2>1, <2>2, <2>3
          DEF Ownership, OwnershipMatchesState, HeldContextIsAluts
<1> QED
  BY <1>1, <1>2, <1>3, QuietOwnership
  DEF AlutExit, AlutExitRefused, AlutExitReleaseFails, AlutExitDangling,
      SanityCheckFails, alVars

LEMMA OtherCallsOwnership ==
  ASSUME IInv,
         AlutGetError \/ AlutGetMIMETypes \/ AlutLoadMemory \/ AlutCreateBuffer
  PROVE  Ownership'
<1>1. UNCHANGED <<device, ctx, initialisationState, alutContext>>
  BY DEF AlutGetError, AlutGetMIMETypes, AlutLoadMemory, AlutCreateBuffer,
         LoadFails, SanityCheckFails, AlutCreateBufferGenFails,
         AlutCreateBufferPassFails, AlutCreateBufferSucceeds, GenerateBuffer,
         alVars
<1> QED BY <1>1, QuietOwnership DEF IInv

\* An address can be handed out again while ALUT holds it only when alutExit has
\* failed halfway.
LEMMA AppStepOwnership ==
  ASSUME IInv, HandleReuse = FALSE \/ ~HalfExited, AppStep
  PROVE  Ownership'
<1> USE DEF IInv, TypeOK, OpenALTypeOK
<1>0. UNCHANGED <<initialisationState, alutContext>>
  BY DEF AppStep, alutVars
<1>1. ASSUME AlutDevices' = AlutDevices, AlutContexts' = AlutContexts,
             \A c \in AlutContexts : ctx'[c] = ctx[c],
             Live(alutContext)' => Live(alutContext) \/ initialisationState # "ALUTDeviceAndContext"
      PROVE  Ownership'
  BY <1>0, <1>1, HeldContextOnAlutDevice
  DEF Ownership, OwnershipMatchesState, HeldContextIsAluts, AlutContexts
<1>2. ASSUME NEW d \in Devices,
             AppOpenDevice(d) \/ AppCloseDevice(d)
      PROVE  Ownership'
  <2>1. AlutDevices' = AlutDevices
    BY <1>2 DEF AppOpenDevice, AppCloseDevice, alcOpenDevice, alcCloseDevice,
                AlutDevices, IsOpen
  <2>2. ctx' = ctx
    BY <1>2 DEF AppOpenDevice, AppCloseDevice
  <2> QED BY <1>0, <1>1, <2>1, <2>2 DEF AlutContexts, Live
<1>3. ASSUME NEW d \in Devices, NEW c \in Contexts,
             CanAllocate(c), AppCreateContext(c, d)
      PROVE  Ownership'
  <2>1. device' = device /\ ctx' = [ctx EXCEPT ![c] = [owner |-> "app", device |-> d]]
    BY <1>3 DEF AppCreateContext, alcCreateContext
  <2>2. ~Live(c) /\ (c = alutContext => initialisationState # "ALUTDeviceAndContext")
    BY <1>3 DEF CanAllocate, HalfExited
  <2>3. AlutContexts' = AlutContexts /\ c \notin AlutContexts
    BY <2>1, <2>2 DEF AlutContexts, Live
  <2> QED BY <1>0, <1>1, <2>1, <2>2, <2>3 DEF AlutDevices, AlutContexts, Live
<1>4. ASSUME NEW c \in Contexts, AppDestroyContext(c)
      PROVE  Ownership'
  <2>1. /\ device' = device
        /\ ctx' = [ctx EXCEPT ![c] = NoContext]
        /\ ctx[c].owner = "app"
    BY <1>4 DEF AppDestroyContext, alcDestroyContext
  <2>2. AlutContexts' = AlutContexts /\ c \notin AlutContexts
    BY <2>1 DEF AlutContexts, NoContext
  <2>3. Live(alutContext)' =>
           Live(alutContext) \/ initialisationState # "ALUTDeviceAndContext"
    BY <1>0, <2>1 DEF Live, NoContext
  <2> QED BY <1>1, <2>1, <2>2, <2>3 DEF AlutDevices, AlutContexts
<1>5. ASSUME \/ \E d \in Devices : AppALCError(d)
             \/ \E c \in Contexts \cup {None} : AppMakeCurrent(c)
             \/ AppALError
             \/ \E b \in Buffers : AppDeleteBuffer(b)
      PROVE  Ownership'
  BY <1>0, <1>5, QuietOwnership
  DEF AppALCError, AppMakeCurrent, AppALError, AppDeleteBuffer
<1> QED BY <1>2, <1>3, <1>4, <1>5 DEF AppStep

LEMMA OwnershipStep ==
  (HandleReuse = FALSE \/ ~HalfExited) /\ IInv /\ [Next]_vars => Ownership'
<1> SUFFICES ASSUME HandleReuse = FALSE \/ ~HalfExited, IInv, [Next]_vars
             PROVE  Ownership'
  OBVIOUS
<1>1. CASE UNCHANGED vars
  BY <1>1, QuietOwnership DEF vars, alVars, alutVars, IInv
<1>2. CASE Next
  BY <1>2, AlutInitOwnership, AlutExitOwnership, OtherCallsOwnership,
     AppStepOwnership
  DEF Next, AlutCall
<1> QED BY <1>1, <1>2

\* The inductive invariant.
THEOREM Inductive == HandleReuse = FALSE => (Spec => []IInv)
<1> SUFFICES ASSUME HandleReuse = FALSE
             PROVE  Spec => []IInv
  OBVIOUS
<1>1. IInv /\ [Next]_vars => Ownership'
  BY OwnershipStep
<1> QED BY InitOwnership, TypeCorrect, HandlesValid, <1>1, PTL DEF Spec, IInv

\* Unless the address of a destroyed context is handed out again, ALUT holds
\* exactly the device and the context it will release, and after an exit, or a
\* failed initialisation, nothing.
THEOREM OwnershipHolds == HandleReuse = FALSE => (Spec => []OwnershipMatchesState)
BY Inductive, PTL DEF IInv, Ownership

-----------------------------------------------------------------------------
(* What a step may do to devices and contexts *)

\* The only calls that change a device or a context.
LEMMA CallsThatTouchObjects ==
  ASSUME IInv, AlutCall
  PROVE  \/ UNCHANGED <<device, ctx>>
         \/ \E d \in Devices, c \in Contexts : AlutInitSucceeds(d, c)
         \/ AlutExitStaleError \/ AlutExitCloseFails \/ AlutExitSucceeds
<1> USE DEF IInv, TypeOK, OpenALTypeOK
<1>1. ASSUME NEW d \in Devices, AlutInitCreateFails(d)
      PROVE  UNCHANGED <<device, ctx>>
  BY <1>1 DEF AlutInitCreateFails, alcOpenDevice, alcCloseDevice, IsOpen
<1>2. ASSUME NEW d \in Devices, NEW c \in Contexts, AlutInitMakeCurrentFails(d, c)
      PROVE  UNCHANGED <<device, ctx>>
  BY <1>2 DEF AlutInitMakeCurrentFails, alcOpenDevice, alcCloseDevice, IsOpen,
              alcCreateContext, alcDestroyContext, CanAllocate, NoDanglingHandles
<1>3. CASE AlutInit
  BY <1>1, <1>2, <1>3 DEF AlutInit, InitRefused, AlutInitOpenFails, alVars
<1>4. CASE AlutInitWithoutContext
  BY <1>4 DEF AlutInitWithoutContext, InitRefused,
              AlutInitWithoutContextSucceeds, alVars
<1>5. CASE AlutExit
  BY <1>5 DEF AlutExit, AlutExitRefused, AlutExitExternal, SanityCheckFails,
              AlutExitReleaseFails, AlutExitDangling, alVars
<1>6. CASE AlutGetError \/ AlutGetMIMETypes \/ AlutLoadMemory \/ AlutCreateBuffer
  BY <1>6 DEF AlutGetError, AlutGetMIMETypes, AlutLoadMemory, AlutCreateBuffer,
              LoadFails, SanityCheckFails, AlutCreateBufferGenFails,
              AlutCreateBufferPassFails, AlutCreateBufferSucceeds,
              GenerateBuffer, alVars
<1> QED BY <1>3, <1>4, <1>5, <1>6 DEF AlutCall

\* What alutExit does once its checks have passed, as changes of the two
\* functions.
LEMMA AlutExitEffect ==
  ASSUME IInv, AlutExitStaleError \/ AlutExitCloseFails \/ AlutExitSucceeds
  PROVE  /\ initialisationState = "ALUTDeviceAndContext"
         /\ Live(alutContext)
         /\ ret'.op = "alutExit"
         /\ \/ /\ device' = device
               /\ ctx' = [ctx EXCEPT ![alutContext] = NoContext]
               /\ initialisationState' = initialisationState
               /\ alutContext' = alutContext
               /\ ~ret'.ok
               /\ ret'.err \in {"DESTROY_CONTEXT", "CLOSE_DEVICE"}
            \/ /\ device' = [device EXCEPT ![ctx[alutContext].device] = "closed"]
               /\ ctx' = ContextsAfterClose(ctx, ctx[alutContext].device)
               /\ initialisationState' = "Unintialized"
               /\ ret'.ok
<1>1. CASE AlutExitStaleError \/ AlutExitCloseFails
  BY <1>1 DEF AlutExitStaleError, AlutExitCloseFails, DestroyAlutContext,
              AlutExitChecked, alcDestroyContext, Fails
<1>2. CASE AlutExitSucceeds
  BY <1>2 DEF AlutExitSucceeds, DestroyAlutContext, AlutExitChecked,
              alcCloseDevice, Succeeds
<1> QED BY <1>1, <1>2

\* One ALUT call leaves the application's devices, and the contexts on them,
\* alone.
LEMMA CallSparesApp ==
  ASSUME IInv, AlutCall
  PROVE  AppSpared
<1> USE DEF IInv, TypeOK, OpenALTypeOK
<1>1. CASE UNCHANGED <<device, ctx>>
  BY <1>1 DEF AppSpared
<1>2. ASSUME NEW d \in Devices, NEW c \in Contexts, AlutInitSucceeds(d, c)
      PROVE  AppSpared
  BY <1>2 DEF AlutInitSucceeds, alcOpenDevice, alcCreateContext, CanAllocate,
              IsOpen, Live, AppSpared
<1>3. CASE AlutExitStaleError \/ AlutExitCloseFails \/ AlutExitSucceeds
  <2> DEFINE d == ctx[alutContext].device
  <2>1. device[d] = "alut" /\ ctx[alutContext].owner = "alut"
    BY <1>3, AlutExitEffect, HeldContextOnAlutDevice DEF AlutDevices, AlutContexts
  <2>2. \A e \in Devices : device[e] = "app" => device'[e] = "app"
    BY <1>3, <2>1, AlutExitEffect
  <2>3. ASSUME NEW c \in Contexts, ctx[c].owner = "app",
               device[ctx[c].device] = "app"
        PROVE  ctx'[c] = ctx[c]
    BY <1>3, <2>1, <2>3, AlutExitEffect DEF ContextsAfterClose
  <2> QED BY <2>2, <2>3 DEF AppSpared
<1> QED BY <1>1, <1>2, <1>3, CallsThatTouchObjects

\* No ALUT call closes a device the application opened or destroys a context on
\* one, in any order of calls, failed exits included.
THEOREM AppIsSpared == HandleReuse = FALSE => (Spec => AlutSparesApp)
<1>1. IInv /\ [Next]_vars => [AppSpared]_vars
  BY CallSparesApp DEF Next, AppStep, AppSpared
<1> QED BY Inductive, <1>1, PTL DEF Spec, AlutSparesApp

\* Wherever addresses come from: as long as no alutExit has failed halfway, ALUT
\* owns what its state says, and nothing of the application's is touched.  The
\* half exit, in which alutContext is kept although its context is destroyed
\* (alutInit.c:143-148), is the only way in which a new context at an old address
\* can mislead ALUT.
THEOREM OnlyTheHalfExitMisleads ==
  Spec /\ []~HalfExited => []OwnershipMatchesState /\ AlutSparesApp
<1>1. ~HalfExited /\ IInv /\ [Next]_vars => Ownership'
  BY OwnershipStep
<1>2. IInv /\ [Next]_vars => [AppSpared]_vars
  BY CallSparesApp DEF Next, AppStep, AppSpared
<1>3. IInv => OwnershipMatchesState
  BY DEF IInv, Ownership
<1>4. Spec /\ []~HalfExited => []IInv
  BY InitOwnership, TypeCorrect, HandlesValid, <1>1, PTL DEF Spec, IInv
<1> QED BY <1>2, <1>3, <1>4, PTL DEF Spec, AlutSparesApp

LEMMA AppStepKeepsAlut ==
  ASSUME IInv, HandleReuse = FALSE, AppStep
  PROVE  /\ UNCHANGED <<initialisationState, alutContext>>
         /\ AlutDevices' = AlutDevices
         /\ HalfExited' <=> HalfExited
         /\ ret' = NoCall
<1> USE DEF IInv, TypeOK, OpenALTypeOK
<1>1. UNCHANGED <<initialisationState, alutContext>> /\ ret' = NoCall
  BY DEF AppStep, alutVars
<1>2. AlutDevices' = AlutDevices
  BY DEF AppStep, AppOpenDevice, AppCloseDevice, AppALCError, AppCreateContext,
         AppDestroyContext, AppMakeCurrent, AppALError, AppDeleteBuffer,
         alcOpenDevice, alcCloseDevice, IsOpen, AlutDevices
<1>3. ASSUME initialisationState = "ALUTDeviceAndContext"
      PROVE  ctx'[alutContext].owner # "none" <=> ctx[alutContext].owner # "none"
  <2>1. alutContext \in Contexts
    BY <1>3
  <2>2. ASSUME NEW c \in Contexts, NEW d \in Devices,
               CanAllocate(c), AppCreateContext(c, d)
        PROVE  ctx'[alutContext].owner # "none" <=> ctx[alutContext].owner # "none"
    BY <1>3, <2>1, <2>2 DEF CanAllocate, AppCreateContext, alcCreateContext
  <2>3. ASSUME NEW c \in Contexts, AppDestroyContext(c)
        PROVE  ctx'[alutContext] = ctx[alutContext]
    <3>1. c # alutContext
      BY <1>3, <2>3
      DEF AppDestroyContext, Ownership, HeldContextIsAluts, Live
    <3> QED BY <2>1, <2>3, <3>1 DEF AppDestroyContext, alcDestroyContext
  <2> QED BY <2>2, <2>3
          DEF AppStep, AppOpenDevice, AppCloseDevice, AppALCError,
              AppMakeCurrent, AppALError, AppDeleteBuffer
<1> QED BY <1>1, <1>2, <1>3 DEF HalfExited, Live

LEMMA CallHalfExit ==
  ASSUME IInv, AlutCall
  PROVE  HalfExitStays
<1> USE DEF IInv, TypeOK, OpenALTypeOK
<1>1. ASSUME UNCHANGED <<device, ctx>>
      PROVE  HalfExitStays
  <2>1. ASSUME initialisationState = "ALUTDeviceAndContext",
               ~AlutExitSucceeds
        PROVE  UNCHANGED <<initialisationState, alutContext>>
    BY <2>1
    DEF AlutCall, AlutInit, InitRefused, AlutInitOpenFails, AlutInitCreateFails,
        AlutInitMakeCurrentFails, AlutInitSucceeds, AlutInitWithoutContext,
        AlutInitWithoutContextSucceeds, AlutExit, AlutExitRefused,
        AlutExitExternal, SanityCheckFails, AlutExitReleaseFails,
        AlutExitDangling, AlutExitStaleError, AlutExitCloseFails,
        DestroyAlutContext, AlutGetError, AlutGetMIMETypes, AlutLoadMemory,
        AlutCreateBuffer, LoadFails, AlutCreateBufferGenFails,
        AlutCreateBufferPassFails, AlutCreateBufferSucceeds, GenerateBuffer,
        alVars
  <2>2. ~AlutExitSucceeds
    <3> SUFFICES ASSUME AlutExitSucceeds
                 PROVE  FALSE
      OBVIOUS
    <3>1. device' = [device EXCEPT ![ctx[alutContext].device] = "closed"]
      BY DEF AlutExitSucceeds, alcCloseDevice
    <3>2. initialisationState = "ALUTDeviceAndContext" /\ Live(alutContext)
      BY AlutExitEffect
    <3> QED BY <1>1, <3>1, <3>2, HeldContextOnAlutDevice DEF AlutDevices
  <2>3. HalfExited' => HalfExited
    <3>1. ASSUME initialisationState # "ALUTDeviceAndContext",
                 initialisationState' = "ALUTDeviceAndContext"
          PROVE  FALSE
      <4>1. \E d \in Devices, c \in Contexts : AlutInitSucceeds(d, c)
        BY <3>1
        DEF AlutCall, AlutInit, InitRefused, AlutInitOpenFails,
            AlutInitCreateFails, AlutInitMakeCurrentFails,
            AlutInitWithoutContext, AlutInitWithoutContextSucceeds, AlutExit,
            AlutExitRefused, AlutExitExternal, AlutExitChecked,
            SanityCheckFails, AlutExitReleaseFails, AlutExitDangling,
            AlutExitStaleError, AlutExitCloseFails, AlutExitSucceeds,
            DestroyAlutContext, AlutGetError, AlutGetMIMETypes, AlutLoadMemory,
            AlutCreateBuffer, LoadFails, AlutCreateBufferGenFails,
            AlutCreateBufferPassFails, AlutCreateBufferSucceeds,
            GenerateBuffer, alVars
      <4> QED BY <1>1, <4>1 DEF AlutInitSucceeds, alcOpenDevice, IsOpen
    <3> QED BY <1>1, <2>1, <2>2, <3>1 DEF HalfExited, Live
  <2> QED BY <1>1, <2>1, <2>2, <2>3
          DEF HalfExitStays, HalfExited, Live, AlutDevices
<1>2. ASSUME NEW d \in Devices, NEW c \in Contexts, AlutInitSucceeds(d, c)
      PROVE  HalfExitStays
  BY <1>2 DEF AlutInitSucceeds, alcCreateContext, HalfExitStays, HalfExited, Live
<1>3. CASE AlutExitStaleError \/ AlutExitCloseFails \/ AlutExitSucceeds
  BY <1>3, AlutExitEffect DEF HalfExitStays, HalfExited, Live, NoContext
<1> QED BY <1>1, <1>2, <1>3, CallsThatTouchObjects

\* An alutExit that fails halfway is never made good, and only DESTROY_CONTEXT
\* and CLOSE_DEVICE leave ALUT there.
THEOREM HalfExitLasts == HandleReuse = FALSE => (Spec => HalfExitIsPermanent)
<1> SUFFICES ASSUME HandleReuse = FALSE
             PROVE  Spec => HalfExitIsPermanent
  OBVIOUS
<1>1. IInv /\ [Next]_vars => [HalfExitStays]_vars
  BY CallHalfExit, AppStepKeepsAlut DEF Next, HalfExitStays
<1> QED BY Inductive, <1>1, PTL DEF Spec, HalfExitIsPermanent

-----------------------------------------------------------------------------
(* Exits that succeed, and the error state *)

\* Only an exit that succeeds takes ALUT out of an initialised state, and it
\* always does.
LEMMA CallThatLeaves ==
  ASSUME AlutCall
  PROVE  /\ ret'.op = "alutExit" /\ ret'.ok =>
              initialisationState' = "Unintialized"
         /\ initialisationState = "ALUTDeviceAndContext"
            /\ initialisationState' # "ALUTDeviceAndContext" =>
              ret'.op = "alutExit" /\ ret'.ok
<1>1. CASE AlutInit
  BY <1>1 DEF AlutInit, InitRefused, AlutInitOpenFails, AlutInitCreateFails,
              AlutInitMakeCurrentFails, AlutInitSucceeds, Fails, Succeeds
<1>2. CASE AlutInitWithoutContext
  BY <1>2 DEF AlutInitWithoutContext, InitRefused,
              AlutInitWithoutContextSucceeds, Fails, Succeeds
<1>3. CASE AlutExit
  BY <1>3 DEF AlutExit, AlutExitRefused, AlutExitExternal, SanityCheckFails,
              AlutExitReleaseFails, AlutExitDangling, AlutExitStaleError,
              AlutExitCloseFails, AlutExitSucceeds, Fails, Succeeds
<1>4. CASE AlutGetError
  BY <1>4 DEF AlutGetError
<1>5. CASE AlutGetMIMETypes \/ AlutLoadMemory
  BY <1>5 DEF AlutGetMIMETypes, AlutLoadMemory, SanityCheckFails, LoadFails,
              Fails, Succeeds
<1>6. CASE AlutCreateBuffer
  BY <1>6 DEF AlutCreateBuffer, SanityCheckFails, LoadFails,
              AlutCreateBufferGenFails, AlutCreateBufferPassFails,
              AlutCreateBufferSucceeds, GenerateBuffer, Fails, Succeeds
<1> QED BY <1>1, <1>2, <1>3, <1>4, <1>5, <1>6 DEF AlutCall

\* ALUT lets go of its device exactly in an alutExit that reports success, and
\* of everything else with it: what it owns is what its state says, before and
\* after the call.
THEOREM ReleaseIsSuccess ==
  HandleReuse = FALSE => (Spec => ReleasedOnlyBySuccess)
<1> SUFFICES ASSUME HandleReuse = FALSE
             PROVE  Spec => ReleasedOnlyBySuccess
  OBVIOUS
<1>1. IInv /\ IInv' /\ [Next]_vars => [ReleaseMeansSuccess]_vars
  <2> SUFFICES ASSUME IInv, IInv', Next
               PROVE  ReleaseMeansSuccess
    OBVIOUS
  <2>1. CASE AppStep
    <3>1. AlutDevices' = AlutDevices /\ ret' = NoCall
      BY <2>1, AppStepKeepsAlut
    <3> QED BY <3>1 DEF ReleaseMeansSuccess, NoCall
  <2>2. CASE AlutCall
    <3>1. AlutDevices # {} => initialisationState = "ALUTDeviceAndContext"
      BY DEF IInv, Ownership, OwnershipMatchesState
    <3>2. AlutDevices' = {} => initialisationState' # "ALUTDeviceAndContext"
      BY DEF IInv, Ownership, OwnershipMatchesState
    <3>3. initialisationState' = "Unintialized"
            => AlutDevices' = {} /\ AlutContexts' = {}
      BY DEF IInv, Ownership, OwnershipMatchesState
    <3> QED BY <2>2, <3>1, <3>2, <3>3, CallThatLeaves DEF ReleaseMeansSuccess
  <2> QED BY <2>1, <2>2 DEF Next
<1> QED BY Inductive, <1>1, PTL DEF Spec, ReleasedOnlyBySuccess

\* A call other than alutGetError ends in one of the two ways.
LEMMA CallEnds ==
  ASSUME AlutCall, ~AlutGetError
  PROVE  \E op \in Ops \ {"alutGetError"} :
           Succeeds(op) \/ \E err \in ErrorCodes \cup {NoError} : Fails(op, err)
<1> USE LoadErrorsAssumption, SanityErrorType DEF Ops, ErrorCodes
<1>1. CASE AlutInit
  BY <1>1 DEF AlutInit, InitRefused, AlutInitOpenFails, AlutInitCreateFails,
              AlutInitMakeCurrentFails, AlutInitSucceeds
<1>2. CASE AlutInitWithoutContext
  BY <1>2 DEF AlutInitWithoutContext, InitRefused, AlutInitWithoutContextSucceeds
<1>3. CASE AlutExit
  BY <1>3 DEF AlutExit, AlutExitRefused, AlutExitExternal, SanityCheckFails,
              AlutExitReleaseFails, AlutExitDangling, AlutExitStaleError,
              AlutExitCloseFails, AlutExitSucceeds
<1>4. CASE AlutGetMIMETypes \/ AlutLoadMemory
  BY <1>4 DEF AlutGetMIMETypes, AlutLoadMemory, SanityCheckFails, LoadFails
<1>5. CASE AlutCreateBuffer
  BY <1>5 DEF AlutCreateBuffer, SanityCheckFails, LoadFails,
              AlutCreateBufferGenFails, AlutCreateBufferPassFails,
              AlutCreateBufferSucceeds
<1> QED BY <1>1, <1>2, <1>3, <1>4, <1>5 DEF AlutCall

\* An error once recorded is the one that alutGetError reports, whatever the
\* application and ALUT do before it is asked.
THEOREM FirstErrorIsKept == Spec => FirstErrorSticks
<1>1. [Next]_vars => [FirstErrorKept]_vars
  <2> SUFFICES ASSUME Next
               PROVE  FirstErrorKept
    OBVIOUS
  <2>1. CASE AppStep
    BY <2>1 DEF AppStep, alutVars, NoCall, FirstErrorKept
  <2>2. CASE AlutGetError
    BY <2>2 DEF AlutGetError, FirstErrorKept
  <2>3. CASE AlutCall /\ ~AlutGetError
    BY <2>3, CallEnds DEF Succeeds, Fails, SetError, FirstErrorKept
  <2> QED BY <2>1, <2>2, <2>3 DEF Next
<1> QED BY <1>1, PTL DEF Spec, FirstErrorSticks

\* What a DESTROY_CONTEXT of a call that did destroy its context was.
OlderError ==
  ret'.err = "DESTROY_CONTEXT" /\ ctx'[alutContext] # ctx[alutContext] =>
    /\ ret'.op = "alutExit" /\ ctx'[alutContext] = NoContext
    /\ ctx[alutContext].device \in alcError
    /\ ctx[current].device # ctx[alutContext].device

\* When an alutExit that destroys the context reports that it could not
\* (alutInit.c:142-148), then for an error that was there before on ALUT's device,
\* and that the sanity check did not find because the current context was one of
\* another device.  With a context of ALUT's device current the code is right.
THEOREM WronglyReportedErrorsAreOlder == Spec => [][OlderError]_vars
<1>1. TypeOK /\ NoDanglingHandles /\ [Next]_vars => [OlderError]_vars
  <2> SUFFICES ASSUME TypeOK, NoDanglingHandles, Next,
                      ret'.err = "DESTROY_CONTEXT",
                      ctx'[alutContext] # ctx[alutContext]
               PROVE  /\ ret'.op = "alutExit" /\ ctx'[alutContext] = NoContext
                      /\ ctx[alutContext].device \in alcError
                      /\ ctx[current].device # ctx[alutContext].device
    BY DEF OlderError
  <2> USE DEF TypeOK, OpenALTypeOK
  <2>1. CASE AppStep
    BY <2>1 DEF AppStep, NoCall, NoError
  <2>2. CASE AlutInit
    BY <2>2 DEF AlutInit, InitRefused, AlutInitOpenFails, AlutInitCreateFails,
                AlutInitMakeCurrentFails, AlutInitSucceeds, Fails, Succeeds,
                alVars, NoError
  <2>3. CASE AlutInitWithoutContext \/ AlutGetError \/ AlutGetMIMETypes
               \/ AlutLoadMemory \/ AlutCreateBuffer
    BY <2>3 DEF AlutInitWithoutContext, InitRefused,
                AlutInitWithoutContextSucceeds, AlutGetError, AlutGetMIMETypes,
                AlutLoadMemory, AlutCreateBuffer, LoadFails, SanityCheckFails,
                AlutCreateBufferGenFails, AlutCreateBufferPassFails,
                AlutCreateBufferSucceeds, GenerateBuffer, alVars
  <2>4. CASE AlutExit
    <3>1. AlutExitStaleError
      BY <2>4 DEF AlutExit, AlutExitRefused, AlutExitExternal, SanityCheckFails,
                  AlutExitReleaseFails, AlutExitDangling, AlutExitCloseFails,
                  AlutExitSucceeds, Fails, Succeeds, alVars, NoError
    <3>2. /\ ret'.op = "alutExit" /\ ctx[alutContext].device \in alcError
          /\ SanityError = NoError /\ ctx' = [ctx EXCEPT ![alutContext] = NoContext]
          /\ alutContext \in Contexts
      BY <3>1 DEF AlutExitStaleError, DestroyAlutContext, AlutExitChecked, Fails,
                  alcDestroyContext
    <3>3. ctx[current].device \notin alcError
      BY <3>2 DEF SanityError, NoError
    <3> QED BY <3>2, <3>3
  <2> QED BY <2>1, <2>2, <2>3, <2>4 DEF Next, AlutCall
<1> QED BY <1>1, TypeCorrect, HandlesValid, PTL DEF Spec

=============================================================================
