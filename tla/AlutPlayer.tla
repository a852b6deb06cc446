------------------------------ MODULE AlutPlayer ------------------------------
(***************************************************************************)
(* The two example programs, src/examples/playfile.c and hello_world.c,    *)
(* on top of the library: their calls are those of AlutLifecycle, and the  *)
(* sound is played by OpenAL at the same time.  There is no other          *)
(* application.                                                            *)
(***************************************************************************)
EXTENDS AlutLifecycle

VARIABLES
  program,     \* which of the two
  at,          \* where it is
  sound,       \* of its source: "none", "playing", "stopped", or "cut" off
  exitStatus   \* of the program, 0 when it is EXIT_SUCCESS

playerVars == <<program, at, sound, exitStatus>>

PlayerInit ==
  /\ Init
  /\ program \in {"playfile", "hello_world"}
  /\ at = "init"
  /\ sound = "none"
  /\ exitStatus = 0

Playfile == program = "playfile"

\* Neither argument of alutInit is NULL.  hello_world goes on in any case.
CallInit ==
  /\ at = "init"
  /\ AlutInit /\ ret'.err # "INVALID_VALUE"
  /\ at' = IF ~Playfile THEN "load" ELSE IF ret'.ok THEN "usage" ELSE "report"
  /\ UNCHANGED <<program, sound, exitStatus>>

\* The error is fetched and printed, and the program exits with a failure.
Report ==
  /\ at = "report"
  /\ AlutGetError
  /\ at' = "ended" /\ exitStatus' = 1
  /\ UNCHANGED <<program, sound>>

\* argc is 2 or not.
Usage ==
  /\ at = "usage"
  /\ at' \in {"load", "giveUp"}
  /\ ret' = NoCall
  /\ UNCHANGED <<alVars, alutVars, program, sound, exitStatus>>

\* alutCreateBufferFromFile, alutCreateBufferHelloWorld
Load ==
  /\ at = "load"
  /\ AlutCreateBuffer
  /\ at' = IF ret'.ok \/ ~Playfile THEN "play" ELSE "loadFailed"
  /\ UNCHANGED <<program, sound, exitStatus>>

LoadFailed ==
  /\ at = "loadFailed"
  /\ AlutGetError
  /\ at' = "giveUp"
  /\ UNCHANGED <<program, sound, exitStatus>>

\* alGenSources, alSourcei and alSourcePlay.  One of them may fail, and leave
\* its error on the current context; a source without a buffer does not play.
Play ==
  /\ at = "play"
  /\ \/ /\ current # None
        /\ alError' = alError \cup {current}
        /\ UNCHANGED sound
     \/ /\ sound' = IF ret.ok THEN "playing" ELSE sound
        /\ UNCHANGED alError
  /\ at' = IF Playfile THEN "check" ELSE "sleep"
  /\ ret' = NoCall
  /\ UNCHANGED <<device, ctx, current, alcError, bufDevice, alutVars, program,
                 exitStatus>>

\* The error is known from elsewhere, and stays pending.
Check_NotFetched ==
  /\ at = "check"
  /\ at' = IF current \in alError THEN "giveUp" ELSE "sleep"
  /\ ret' = NoCall
  /\ UNCHANGED <<alVars, alutVars, program, sound, exitStatus>>

\* alGetError, which clears the error.
Check ==
  /\ at = "check"
  /\ at' = IF current \in alError THEN "giveUp" ELSE "sleep"
  /\ alError' = alError \ {current}
  /\ ret' = NoCall
  /\ UNCHANGED <<device, ctx, current, alcError, bufDevice, alutVars, program,
                 sound, exitStatus>>

\* What OpenAL is playing is cut off when its context is destroyed.
CutOff == IF sound = "playing" /\ AlutContexts' = {} THEN "cut" ELSE sound

\* The way out on a failure: whether alutExit succeeds is not looked at.
GiveUp ==
  /\ at = "giveUp"
  /\ AlutExit
  /\ sound' = CutOff
  /\ at' = "ended" /\ exitStatus' = 1
  /\ UNCHANGED program

\* alutSleep; hello_world sleeps once and does not ask.
Sleep ==
  /\ at = "sleep"
  /\ at' = IF Playfile THEN "poll" ELSE "exit"
  /\ ret' = NoCall
  /\ UNCHANGED <<alVars, alutVars, program, sound, exitStatus>>

\* while (status != AL_INITIAL): a source that has played stays AL_STOPPED.
Poll_UntilInitial ==
  /\ at = "poll"
  /\ at' = IF sound # "none" THEN "sleep" ELSE "exit"
  /\ ret' = NoCall
  /\ UNCHANGED <<alVars, alutVars, program, sound, exitStatus>>

\* The loop is left after the first look at the source.
Poll_Once ==
  /\ at = "poll"
  /\ at' = "exit"
  /\ ret' = NoCall
  /\ UNCHANGED <<alVars, alutVars, program, sound, exitStatus>>

\* while (status == AL_PLAYING)
Poll ==
  /\ at = "poll"
  /\ at' = IF sound = "playing" THEN "sleep" ELSE "exit"
  /\ ret' = NoCall
  /\ UNCHANGED <<alVars, alutVars, program, sound, exitStatus>>

\* Whether alutExit succeeds is not looked at.
Exit_NotChecked ==
  /\ at = "exit"
  /\ AlutExit
  /\ sound' = CutOff
  /\ at' = "ended"
  /\ UNCHANGED <<program, exitStatus>>

Exit ==
  /\ at = "exit"
  /\ AlutExit
  /\ sound' = CutOff
  /\ at' = IF Playfile /\ ~ret'.ok THEN "report" ELSE "ended"
  /\ UNCHANGED <<program, exitStatus>>

Program ==
  \/ CallInit \/ Report \/ Usage \/ Load \/ LoadFailed \/ Play \/ Check
  \/ GiveUp \/ Sleep \/ Poll \/ Exit

\* OpenAL comes to the end of the sound.
SoundEnds ==
  /\ sound = "playing"
  /\ sound' = "stopped"
  /\ ret' = NoCall
  /\ UNCHANGED <<alVars, alutVars, program, at, exitStatus>>

PlayerNext == Program \/ SoundEnds

PlayerSpec == PlayerInit /\ [][PlayerNext]_<<vars, playerVars>>

\* The program runs, alutSleep returns (AlutSleep), and a sound that is not
\* looped comes to its end.
PlayerFairSpec ==
  /\ PlayerSpec
  /\ WF_<<vars, playerVars>>(Program)
  /\ WF_<<vars, playerVars>>(SoundEnds)

-----------------------------------------------------------------------------
(* Properties *)

\* "If everything is OK, play the sound file and exit when finished"
\* (playfile.c:72): playfile never cuts its sound off.  It looks at the source
\* every 0.1 seconds, and the sound may end between two looks.
PlaysToTheEnd == Playfile => sound # "cut"

\* When playfile ends with EXIT_SUCCESS it has played the sound to its end, and
\* ALUT holds no device and has no error to report (playfile.c:57-81).
SuccessIsTrue ==
  Playfile /\ at = "ended" /\ exitStatus = 0 =>
    /\ sound = "stopped"
    /\ AlutDevices = {} /\ AlutContexts = {}
    /\ lastError = NoError

\* On every way out playfile calls alutExit in a state in which it is not
\* refused: it is initialised, has a current context, and errors of its own
\* have been fetched.  Only OpenAL can keep it from releasing the device.
ExitIsNotRefused ==
  [][Playfile /\ ret'.op = "alutExit" =>
       ret'.err \in {NoError, "MAKE_CONTEXT_CURRENT", "CLOSE_DEVICE"}]_ret

\* Both programs end, whatever fails.
Ends == <>(at = "ended")

=============================================================================
