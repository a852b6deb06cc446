--------------------------- MODULE AlutPlayer_proofs ---------------------------
(***************************************************************************)
(* Theorems about AlutPlayer, for any devices, contexts, buffers and load  *)
(* errors.  The steps of the programs are calls of the library, for which  *)
(* IInv of AlutLifecycle_proofs is inductive; what playfile may rely on at *)
(* each of its places is PlayfileInv.                                      *)
(***************************************************************************)
EXTENDS AlutPlayer, AlutLifecycle_proofs, Integers

\* alutInit has succeeded, and what it made is still there and current.
Ready ==
  /\ initialisationState = "ALUTDeviceAndContext"
  /\ Live(alutContext)
  /\ current = alutContext

\* Where playfile has ALUT initialised.
Inside == { "usage", "load", "loadFailed", "play", "check", "giveUp", "sleep",
            "poll", "exit" }

\* What holds at each place of playfile.
PlayfileInv ==
  /\ at \in Inside \cup {"init", "report", "ended"}
  /\ at = "init" => initialisationState = "Unintialized"
  /\ at \in Inside => Ready
  /\ at \in (Inside \cup {"init"}) \ {"check"} => alError = {}
  /\ at \in (Inside \cup {"init"}) \ {"loadFailed", "giveUp"} =>
       lastError = NoError
  /\ at = "play" => ret.ok
  /\ at \in {"init", "usage", "load", "loadFailed", "play", "giveUp"} =>
       sound = "none"
  /\ at = "check" => \/ sound = "none" /\ alError = {current}
                     \/ sound \in {"playing", "stopped"} /\ alError = {}
  /\ at \in {"sleep", "poll"} => sound \in {"playing", "stopped"}
  /\ at = "exit" => sound = "stopped"
  /\ at = "report" => sound \in {"none", "stopped"}
  /\ SuccessIsTrue
  /\ sound # "cut"

\* No error is ever pending on a device: the programs make no ALC calls.
PlayerInv ==
  /\ IInv
  /\ alcError = {}
  /\ Playfile => PlayfileInv

LEMMA PlayerInitInv == PlayerInit => PlayerInv
<1> SUFFICES ASSUME PlayerInit PROVE PlayerInv
  OBVIOUS
<1>1. IInv
  BY InitType, InitHandles, InitOwnership DEF PlayerInit, IInv
<1> QED BY <1>1 DEF PlayerInit, Init, OpenALInit, PlayerInv, PlayfileInv, Inside,
                    SuccessIsTrue

-----------------------------------------------------------------------------
(* Both programs *)

\* The calls of the programs keep IInv.
LEMMA CallsKeepIInv ==
  ASSUME IInv, AlutInit \/ AlutGetError \/ AlutCreateBuffer \/ AlutExit
  PROVE  IInv'
BY AlutInitType, AlutInitHandles, AlutInitOwnership,
   AlutExitType, AlutExitHandles, AlutExitOwnership,
   OtherCallsType, OtherCallsHandles, OtherCallsOwnership DEF IInv

\* They leave no error on a device that had none.
LEMMA CallsLeaveNoAlcError ==
  ASSUME alcError = {}, AlutInit \/ AlutGetError \/ AlutCreateBuffer \/ AlutExit
  PROVE  alcError' = {}
<1>1. CASE AlutInit
  BY <1>1 DEF AlutInit, InitRefused, AlutInitOpenFails, AlutInitCreateFails,
              AlutInitMakeCurrentFails, AlutInitSucceeds, alVars
<1>2. CASE AlutGetError
  BY <1>2 DEF AlutGetError, alVars
<1>3. CASE AlutCreateBuffer
  BY <1>3 DEF AlutCreateBuffer, SanityCheckFails, DrainedALC, LoadFails,
              AlutCreateBufferGenFails, AlutCreateBufferPassFails,
              AlutCreateBufferSucceeds, GenerateBuffer, alVars
<1>4. CASE AlutExit
  BY <1>4 DEF AlutExit, AlutExitRefused, AlutExitExternal, SanityCheckFails,
              DrainedALC, AlutExitReleaseFails, AlutExitDangling,
              AlutExitStaleError, AlutExitCloseFails, AlutExitSucceeds,
              DestroyAlutContext, alVars
<1> QED BY <1>1, <1>2, <1>3, <1>4

\* What the programs do to a source may leave an error on the current context.
LEMMA SourcesKeepIInv ==
  ASSUME IInv, ret' = NoCall, alError' \subseteq alError \cup {current},
         current = None => alError' \subseteq alError,
         UNCHANGED <<device, ctx, current, alcError, bufDevice, alutVars>>
  PROVE  IInv'
<1>1. TypeOK'
  BY DEF IInv, TypeOK, OpenALTypeOK, NoCall, alutVars
<1>2. NoDanglingHandles'
  BY DEF IInv, NoDanglingHandles, Live, IsOpen, alutVars
<1>3. Ownership'
  BY QuietOwnership DEF IInv, alutVars
<1> QED BY <1>1, <1>2, <1>3 DEF IInv

LEMMA PlayerKeepsIInv ==
  ASSUME PlayerInv, PlayerNext
  PROVE  IInv' /\ alcError' = {} /\ UNCHANGED program
<1>1. CASE CallInit \/ Report \/ Load \/ LoadFailed \/ GiveUp \/ Exit
  BY <1>1, CallsKeepIInv, CallsLeaveNoAlcError
  DEF CallInit, Report, Load, LoadFailed, GiveUp, Exit, PlayerInv
<1>2. CASE Usage \/ Sleep \/ Poll \/ SoundEnds
  BY <1>2, SourcesKeepIInv DEF Usage, Sleep, Poll, SoundEnds, PlayerInv, alVars
<1>3. CASE Play
  BY <1>3, SourcesKeepIInv DEF Play, PlayerInv, alutVars
<1>4. CASE Check
  BY <1>4, SourcesKeepIInv DEF Check, PlayerInv, alutVars
<1> QED BY <1>1, <1>2, <1>3, <1>4 DEF PlayerNext, Program

-----------------------------------------------------------------------------
(* playfile *)

LEMMA InitSucceeds ==
  ASSUME IInv, AlutInit, ret'.ok
  PROVE  Ready' /\ UNCHANGED <<alError, lastError>>
<1>1. PICK d \in Devices, c \in Contexts : AlutInitSucceeds(d, c)
  BY DEF AlutInit, InitRefused, AlutInitOpenFails, AlutInitCreateFails,
         AlutInitMakeCurrentFails, Fails
<1>2. ctx' = [ctx EXCEPT ![c] = [device |-> d, owner |-> "alut"]]
  BY <1>1 DEF AlutInitSucceeds, alcCreateContext
<1> QED BY <1>1, <1>2 DEF AlutInitSucceeds, Succeeds, Ready, Live, IInv, TypeOK,
                          OpenALTypeOK

LEMMA LoadKeepsReady ==
  ASSUME IInv, Ready, alError = {}, AlutCreateBuffer
  PROVE  /\ Ready' /\ alError' = {}
         /\ ret'.ok => UNCHANGED lastError
<1>1. SanityCheckFails("alutCreateBuffer") =>
        UNCHANGED <<ctx, current, initialisationState, alutContext>>
        /\ alError' = {} /\ ~ret'.ok
  BY DEF SanityCheckFails, DrainedAL, Fails
<1>2. LoadFails("alutCreateBuffer") \/ AlutCreateBufferGenFails =>
        UNCHANGED <<ctx, current, initialisationState, alutContext, alError>>
        /\ ~ret'.ok
  BY DEF LoadFails, AlutCreateBufferGenFails, alVars, Fails
<1>3. ASSUME NEW b \in Buffers,
             AlutCreateBufferPassFails(b) \/ AlutCreateBufferSucceeds(b)
      PROVE  UNCHANGED <<ctx, current, initialisationState, alutContext, alError>>
             /\ (ret'.ok => UNCHANGED lastError)
  BY <1>3 DEF AlutCreateBufferPassFails, AlutCreateBufferSucceeds, GenerateBuffer,
              Fails, Succeeds
<1> QED BY <1>1, <1>2, <1>3 DEF AlutCreateBuffer, Ready, Live

\* An exit that is asked for in this state fails only because of OpenAL.
LEMMA ExitFromReady ==
  ASSUME IInv, Ready, alError = {}, alcError = {}, AlutExit
  PROVE  /\ ret'.op = "alutExit"
         /\ ret'.err \in {NoError, "MAKE_CONTEXT_CURRENT", "CLOSE_DEVICE"}
         /\ ret'.ok => /\ UNCHANGED lastError
                       /\ AlutDevices' = {} /\ AlutContexts' = {}
<1>1. SanityError = NoError /\ current \in Contexts
  BY DEF Ready, SanityError, IInv, TypeOK, OpenALTypeOK, NoDanglingHandles, Live
<1>2. CASE AlutExitReleaseFails
  BY <1>2 DEF AlutExitReleaseFails, Fails
<1>3. CASE AlutExitCloseFails
  BY <1>3 DEF AlutExitCloseFails, Fails
<1>4. CASE AlutExitSucceeds
  <2>1. ret' = [op |-> "alutExit", ok |-> TRUE, err |-> NoError]
        /\ UNCHANGED lastError /\ initialisationState' = "Unintialized"
    BY <1>4 DEF AlutExitSucceeds, Succeeds
  <2>2. Ownership'
    BY AlutExitOwnership
  <2> QED BY <2>1, <2>2 DEF Ownership, OwnershipMatchesState
<1> QED BY <1>1, <1>2, <1>3, <1>4
        DEF AlutExit, AlutExitRefused, AlutExitExternal, SanityCheckFails,
            AlutExitDangling, AlutExitStaleError, DestroyAlutContext, Ready

LEMMA PlayfileStep ==
  ASSUME PlayerInv, PlayerNext, Playfile
  PROVE  PlayfileInv'
<1> USE DEF PlayerInv, PlayfileInv, Inside
<1>0. Playfile'
  BY PlayerKeepsIInv DEF Playfile
<1>1. CASE CallInit
  <2>1. CASE ret'.ok
    BY <1>1, <2>1, InitSucceeds DEF CallInit, SuccessIsTrue
  <2>2. CASE ~ret'.ok
    BY <1>1, <2>2 DEF CallInit, SuccessIsTrue
  <2> QED BY <2>1, <2>2
<1>2. CASE Report
  BY <1>2 DEF Report, SuccessIsTrue
<1>3. CASE Usage
  BY <1>3 DEF Usage, SuccessIsTrue, Ready, Live, alVars, alutVars
<1>4. CASE Load
  BY <1>4, LoadKeepsReady DEF Load, SuccessIsTrue
<1>5. CASE LoadFailed
  BY <1>5 DEF LoadFailed, AlutGetError, alVars, Ready, Live, SuccessIsTrue
<1>6. CASE Play
  BY <1>0, <1>6 DEF Play, alutVars, Ready, Live, SuccessIsTrue
<1>7. CASE Check
  BY <1>0, <1>7 DEF Check, alutVars, Ready, Live, SuccessIsTrue
<1>8. CASE GiveUp
  BY <1>8 DEF GiveUp, CutOff, SuccessIsTrue
<1>9. CASE Sleep
  BY <1>0, <1>9 DEF Sleep, alVars, alutVars, Ready, Live, SuccessIsTrue
<1>10. CASE Poll
  BY <1>10 DEF Poll, alVars, alutVars, Ready, Live, SuccessIsTrue
<1>11. CASE Exit
  BY <1>0, <1>11, ExitFromReady DEF Exit, CutOff, SuccessIsTrue
<1>12. CASE SoundEnds
  BY <1>12 DEF SoundEnds, alVars, alutVars, Ready, Live, SuccessIsTrue,
               AlutDevices, AlutContexts, NoCall
<1> QED BY <1>1, <1>2, <1>3, <1>4, <1>5, <1>6, <1>7, <1>8, <1>9, <1>10, <1>11,
           <1>12 DEF PlayerNext, Program

LEMMA PlayerStep == PlayerInv /\ [PlayerNext]_<<vars, playerVars>> => PlayerInv'
<1>1. ASSUME PlayerInv, PlayerNext PROVE PlayerInv'
  BY <1>1, PlayerKeepsIInv, PlayfileStep DEF PlayerInv, Playfile
<1>2. ASSUME PlayerInv, UNCHANGED <<vars, playerVars>> PROVE PlayerInv'
  <2>1. IInv'
    BY <1>2, StutterType, QuietHandles, QuietOwnership
    DEF PlayerInv, IInv, vars, alVars, alutVars
  <2> QED BY <1>2, <2>1 DEF PlayerInv, PlayfileInv, vars, alVars, alutVars,
               playerVars, Ready, Live, SuccessIsTrue, AlutDevices, AlutContexts,
               Playfile
<1> QED BY <1>1, <1>2

-----------------------------------------------------------------------------

\* What playfile may rely on at each of its places.
THEOREM PlayerInductive == PlayerSpec => []PlayerInv
BY PlayerInitInv, PlayerStep, PTL DEF PlayerSpec

\* playfile never cuts off the sound it plays.
THEOREM SoundIsPlayedToTheEnd == PlayerSpec => []PlaysToTheEnd
<1>1. PlayerInv => PlaysToTheEnd
  BY DEF PlayerInv, PlayfileInv, PlaysToTheEnd
<1> QED BY <1>1, PlayerInductive, PTL

\* EXIT_SUCCESS of playfile means that the sound was played and everything was
\* released, for any devices, contexts and buffers and whatever fails.
THEOREM SuccessOfPlayfile == PlayerSpec => []SuccessIsTrue
<1>1. PlayerInv => SuccessIsTrue
  BY DEF PlayerInv, PlayfileInv, SuccessIsTrue
<1> QED BY <1>1, PlayerInductive, PTL

\* No alutExit of playfile is refused.
THEOREM ExitsAreNotRefused == PlayerSpec => ExitIsNotRefused
<1> DEFINE NotRefused ==
      Playfile /\ ret'.op = "alutExit" =>
        ret'.err \in {NoError, "MAKE_CONTEXT_CURRENT", "CLOSE_DEVICE"}
<1>1. ASSUME PlayerInv, PlayerNext PROVE NotRefused
  <2>1. CASE GiveUp \/ Exit
    <3>1. Playfile => Ready /\ alError = {}
      BY <1>1, <2>1 DEF PlayerInv, PlayfileInv, Inside, GiveUp, Exit
    <3> QED BY <1>1, <2>1, <3>1, ExitFromReady DEF PlayerInv, GiveUp, Exit
  <2>2. CASE CallInit
    BY <2>2 DEF CallInit, AlutInit, InitRefused, AlutInitOpenFails,
                AlutInitCreateFails, AlutInitMakeCurrentFails, AlutInitSucceeds,
                Fails, Succeeds
  <2>3. CASE Load
    BY <2>3 DEF Load, AlutCreateBuffer, SanityCheckFails, LoadFails,
                AlutCreateBufferGenFails, AlutCreateBufferPassFails,
                AlutCreateBufferSucceeds, Fails, Succeeds
  <2>4. CASE Report \/ LoadFailed
    BY <2>4 DEF Report, LoadFailed, AlutGetError
  <2>5. CASE Usage \/ Play \/ Check \/ Sleep \/ Poll \/ SoundEnds
    BY <2>5 DEF Usage, Play, Check, Sleep, Poll, SoundEnds, NoCall
  <2> QED BY <1>1, <2>1, <2>2, <2>3, <2>4, <2>5 DEF PlayerNext, Program
<1>2. PlayerInv /\ [PlayerNext]_<<vars, playerVars>> => [NotRefused]_ret
  BY <1>1 DEF vars
<1>3. PlayerInv /\ [PlayerNext]_<<vars, playerVars>> =>
        [Playfile /\ ret'.op = "alutExit" =>
           ret'.err \in {NoError, "MAKE_CONTEXT_CURRENT", "CLOSE_DEVICE"}]_ret
  BY <1>2
<1> QED BY <1>3, PlayerInductive, PTL DEF PlayerSpec, ExitIsNotRefused

\* How far the end of the program is at a place: where it says what went wrong is
\* after the places it is sent there from.
Rank(place) ==
  IF place = "init" THEN 9 ELSE IF place = "usage" THEN 8
  ELSE IF place = "load" THEN 7 ELSE IF place = "loadFailed" THEN 6
  ELSE IF place = "play" THEN 6 ELSE IF place = "check" THEN 5
  ELSE IF place = "sleep" THEN 4 ELSE IF place = "poll" THEN 3
  ELSE IF place = "giveUp" THEN 3 ELSE IF place = "exit" THEN 2
  ELSE IF place = "report" THEN 1 ELSE 0

StepsLeft == 2 * Rank(at) + (IF sound = "playing" THEN 1 ELSE 0)

Nearer == StepsLeft \in Nat /\ StepsLeft' \in Nat /\ StepsLeft' < StepsLeft

NearerOrPlaying == Nearer \/ (Poll /\ sound = "playing")

\* Only the sound keeps a program from its end: every step, and the end of the
\* sound, is one nearer to it, whichever calls fail, but for playfile's look at a
\* source that is still playing (playfile.c:44-50).
THEOREM OnlyTheSoundDelays ==
  PlayerSpec => [][NearerOrPlaying]_<<vars, playerVars>>
<1>1. [PlayerNext]_<<vars, playerVars>> => [NearerOrPlaying]_<<vars, playerVars>>
  <2> SUFFICES ASSUME PlayerNext PROVE NearerOrPlaying
    OBVIOUS
  <2> USE DEF StepsLeft, Rank, Nearer, NearerOrPlaying
  <2>1. CASE CallInit \/ Report \/ Usage \/ Load \/ LoadFailed
    BY <2>1 DEF CallInit, Report, Usage, Load, LoadFailed
  <2>2. CASE Play \/ Check \/ Sleep \/ SoundEnds
    BY <2>2 DEF Play, Check, Sleep, SoundEnds
  <2>3. CASE GiveUp \/ Exit
    BY <2>3 DEF GiveUp, Exit, CutOff
  <2>4. CASE Poll
    BY <2>4 DEF Poll
  <2> QED BY <2>1, <2>2, <2>3, <2>4 DEF PlayerNext, Program
<1> QED BY <1>1, PTL DEF PlayerSpec

=============================================================================
