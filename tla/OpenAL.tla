------------------------------- MODULE OpenAL -------------------------------
(***************************************************************************)
(* The OpenAL implementation as ALUT and its application see it: devices,  *)
(* contexts, the current context, the buffers of a device and the two      *)
(* sticky error states (one per context for AL, one per device for ALC).   *)
(* None of this is code of the library: it is modelled from how            *)
(* src/alutInit.c and src/alutBufferData.c call it.                        *)
(*                                                                         *)
(* An ALC call that ALUT makes is an operator on the value it changes, so  *)
(* that a handler which opens a device and closes it again is written as   *)
(* the composition of the two calls.  What the application does by itself  *)
(* is an action; the application is well behaved: it destroys and closes   *)
(* only what it created or opened, never the current context, and only a   *)
(* device it has emptied.  The calls are assumed to validate handles, so   *)
(* that a destroyed context is recognised and refused.                     *)
(***************************************************************************)
CONSTANTS
  Devices,    \* device handles alcOpenDevice can return
  Contexts,   \* context handles (addresses) alcCreateContext can return
  Buffers,    \* names alGenBuffers can return
  None        \* the NULL handle

ASSUME NoneAssumption == None \notin Devices \cup Contexts

VARIABLES
  device,     \* who opened a device handle, or "closed"
  ctx,        \* who created a context, and its device
  current,    \* the current context
  alError,    \* contexts with a pending AL error
  alcError,   \* devices with a pending ALC error
  bufDevice   \* the device an AL buffer lives on, None when it does not exist

alVars == <<device, ctx, current, alError, alcError, bufDevice>>

Owners == {"alut", "app"}

ContextRecord == [owner : Owners \cup {"none"}, device : Devices \cup {None}]

\* A context handle that names no context.
NoContext == [owner |-> "none", device |-> None]

OpenALTypeOK ==
  /\ device \in [Devices -> Owners \cup {"closed"}]
  /\ ctx \in [Contexts -> ContextRecord]
  /\ current \in Contexts \cup {None}
  /\ alError \subseteq Contexts
  /\ alcError \subseteq Devices
  /\ bufDevice \in [Buffers -> Devices \cup {None}]

OpenALInit ==
  /\ device = [d \in Devices |-> "closed"]
  /\ ctx = [c \in Contexts |-> NoContext]
  /\ current = None
  /\ alError = {}
  /\ alcError = {}
  /\ bufDevice = [b \in Buffers |-> None]

-----------------------------------------------------------------------------
(* Queries *)

Live(c) == ctx[c].owner # "none"

IsOpen(d) == device[d] # "closed"

ContextsOn(d) == {c \in Contexts : ctx[c].device = d}

BuffersOn(d) == {b \in Buffers : bufDevice[b] = d}

-----------------------------------------------------------------------------
(* The ALC calls ALUT makes *)

alcOpenDevice(dev, d, who) == [dev EXCEPT ![d] = who]

alcCloseDevice(dev, d) == [dev EXCEPT ![d] = "closed"]

alcCreateContext(cs, c, d, who) ==
  [cs EXCEPT ![c] = [owner |-> who, device |-> d]]

alcDestroyContext(cs, c) == [cs EXCEPT ![c] = NoContext]

\* A close that an implementation performs although the device still holds
\* contexts or buffers takes them with it.
ContextsAfterClose(cs, d) ==
  [c \in Contexts |-> IF cs[c].device = d THEN NoContext ELSE cs[c]]

BuffersAfterClose(d) ==
  [b \in Buffers |-> IF bufDevice[b] = d THEN None ELSE bufDevice[b]]

-----------------------------------------------------------------------------
(* What the application does with OpenAL itself *)

AppOpenDevice(d) ==
  /\ ~IsOpen(d)
  /\ device' = alcOpenDevice(device, d, "app")
  /\ UNCHANGED <<ctx, current, alError, alcError, bufDevice>>

AppCloseDevice(d) ==
  /\ device[d] = "app"
  /\ ContextsOn(d) = {}
  /\ BuffersOn(d) = {}
  /\ device' = alcCloseDevice(device, d)
  /\ alcError' = alcError \ {d}
  /\ UNCHANGED <<ctx, current, alError, bufDevice>>

\* The application may create a context on any open device, ALUT's included
\* (it gets that one from alcGetContextsDevice).
AppCreateContext(c, d) ==
  /\ ~Live(c)
  /\ IsOpen(d)
  /\ ctx' = alcCreateContext(ctx, c, d, "app")
  /\ UNCHANGED <<device, current, alError, alcError, bufDevice>>

AppDestroyContext(c) ==
  /\ ctx[c].owner = "app"
  /\ current # c
  /\ ctx' = alcDestroyContext(ctx, c)
  /\ alError' = alError \ {c}
  /\ UNCHANGED <<device, current, alcError, bufDevice>>

AppMakeCurrent(c) ==
  /\ c # None => Live(c)
  /\ current' = c
  /\ UNCHANGED <<device, ctx, alError, alcError, bufDevice>>

\* A call of the application leaves an AL error on the current context, or an
\* ALC error on an open device.
AppALError ==
  /\ current # None
  /\ alError' = alError \cup {current}
  /\ UNCHANGED <<device, ctx, current, alcError, bufDevice>>

AppALCError(d) ==
  /\ IsOpen(d)
  /\ alcError' = alcError \cup {d}
  /\ UNCHANGED <<device, ctx, current, alError, bufDevice>>

\* The application deletes a buffer it was given.
AppDeleteBuffer(b) ==
  /\ current # None
  /\ bufDevice[b] = ctx[current].device
  /\ bufDevice' = [bufDevice EXCEPT ![b] = None]
  /\ UNCHANGED <<device, ctx, current, alError, alcError>>

=============================================================================
