----------------------------- MODULE AlutErrors -----------------------------
(***************************************************************************)
(* The error codes of ALUT (include/AL/alut.h) and the global error state  *)
(* of src/alutError.c.  A code is the string of its name without the       *)
(* prefix ALUT_ERROR_; its number and the text alutGetErrorString gives it *)
(* are left out.                                                           *)
(***************************************************************************)

NoError == "NO_ERROR"

\* The codes a call can record.
ErrorCodes ==
  { "OUT_OF_MEMORY", "INVALID_ENUM", "INVALID_VALUE", "INVALID_OPERATION",
    "NO_CURRENT_CONTEXT", "AL_ERROR_ON_ENTRY", "ALC_ERROR_ON_ENTRY",
    "OPEN_DEVICE", "CLOSE_DEVICE", "CREATE_CONTEXT", "MAKE_CONTEXT_CURRENT",
    "DESTROY_CONTEXT", "GEN_BUFFERS", "BUFFER_DATA", "IO_ERROR",
    "UNSUPPORTED_FILE_TYPE", "UNSUPPORTED_FILE_SUBTYPE",
    "CORRUPT_OR_TRUNCATED_DATA" }

\* A later error replaces the recorded one.
SetError_Overwrite(cur, err) == err

\* _alutSetError: the value of lastError after err is recorded over cur.  An
\* error recorded earlier and not fetched yet stays.
SetError(cur, err) == IF cur = NoError THEN err ELSE cur

=============================================================================
