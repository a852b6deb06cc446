--------------------------- MODULE AlutInputStream ---------------------------
(***************************************************************************)
(* The input stream of src/alutInputStream.c and the memory a call of a    *)
(* loader allocates.                                                       *)
(*                                                                         *)
(* A stream is the number of bytes it can still deliver (left) and the     *)
(* number it believes it has (remaining, the field remainingLength): for a *)
(* memory stream they agree, for a file remaining comes from stat, and the *)
(* file may have changed before it is read.  The bytes themselves are left *)
(* out: each is read once, so what a read delivers is arbitrary.  Reads    *)
(* that follow each other with nothing in between are one read.            *)
(***************************************************************************)
EXTENDS Integers, AlutErrors

CONSTANTS
  SizeMod,      \* size_t counts modulo SizeMod
  MaxAlloc      \* malloc can succeed for this many bytes, and for no more

ASSUME SizeAssumption ==
  SizeMod \in Nat /\ MaxAlloc \in Nat /\ MaxAlloc < SizeMod

VARIABLES
  total,        \* bytes the stream could deliver when it was opened
  left,         \* bytes it can still deliver
  remaining,    \* remainingLength
  isFileStream,
  heap,         \* what this call has allocated, opened or generated
  lastError,    \* the global error state
  err           \* the error this call has recorded, or NoError

stream == <<total, left, remaining, isFileStream>>

\* What an ALUT call can hold: the stream structure, its FILE and the copy of
\* the file's name; the bytes read and the decoded ones; the BufferData that
\* points to either; a generated waveform; an AL buffer.
Roles == { "stream", "FILE", "fileName", "data", "decoded", "bufferData",
           "outStream", "outData", "alBuffer" }

SizeT(n) == n % SizeMod

\* The call records e: it is not the first error when one was recorded by this
\* or an earlier call and not fetched since.
Record(e) ==
  /\ lastError' = SetError(lastError, e)
  /\ err' = SetError(err, e)

NothingRecorded == UNCHANGED <<lastError, err>>

\* The ways in which _alutMalloc(n), reading n bytes (streamRead), reading them
\* into new memory (_alutInputStreamRead) and skipping them
\* (_alutInputStreamSkip) can fail.  Any allocation may fail, and a file may
\* have an I/O error at any time.  First, allocations that are not recorded.
OutOfMemory_NotRecorded == {NoError}

OutOfMemory == {"OUT_OF_MEMORY"}

\* What is missing is reported as an I/O error, for a file or not.
ReadErrors_OnlyIO(n) == IF left < n THEN {"IO_ERROR"} ELSE {}

ReadErrors(n) ==
  (IF left < n THEN {"CORRUPT_OR_TRUNCATED_DATA"} ELSE {})
    \cup (IF isFileStream THEN {"IO_ERROR"} ELSE {})

NewReadErrors(n) ==
  OutOfMemory \cup (IF n <= MaxAlloc THEN ReadErrors(n) ELSE {})

SkipErrors(n) == IF n = 0 THEN {} ELSE NewReadErrors(n)

CanRead(n) == n <= left

CanSkip(n) == n = 0 \/ (n <= left /\ n <= MaxAlloc)

\* A read delivers nothing new.
Consume_Nothing(n) == UNCHANGED stream

\* remainingLength is a signed number.
Consume_Signed(n) ==
  /\ left' = left - n
  /\ remaining' = remaining - n
  /\ UNCHANGED <<total, isFileStream>>

\* n bytes have been read.
Consume(n) ==
  /\ left' = left - n
  /\ remaining' = SizeT(remaining - n)
  /\ UNCHANGED <<total, isFileStream>>

\* _alutInputStreamEOF: a file is asked, a memory stream counts.
EOF == IF isFileStream THEN left = 0 ELSE remaining = 0

=============================================================================
