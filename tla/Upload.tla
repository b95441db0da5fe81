------------------------------- MODULE Upload -------------------------------
(***************************************************************************)
(* The emulators started by the spawner and the upload of firmware to them *)
(* (emu_server.cpp, main.cpp, utilities.c).  Each is a process of a main   *)
(* thread, which waits for the firmware and loads it, and a web thread,    *)
(* which receives it.  They all run in one directory: the uploaded files   *)
(* and tmp.bin, what objcopy makes of them, are shared by all.             *)
(*                                                                         *)
(* External: the page of the browser, which sends a file in a header       *)
(* message and chunks, the field for its size modulo SizeLimit; objcopy;   *)
(* the C library, which keeps a small file in its buffer until fclose.     *)
(*                                                                         *)
(* A byte of a file is the browser it comes from and its position there.   *)
(***************************************************************************)
EXTENDS Spawner, Sequences

CONSTANTS
    NOFILE, STRAY, COMMAND,
    Names,        \* of uploaded files
    Sizes,        \* the sizes the browsers' files may have
    SizeLimit,    \* 2^16 in the code
    TooBig        \* browsers whose binary does not fit in the flash

ASSUME UploadAssumption ==
    /\ Sizes \subseteq [Browsers -> Nat]
    /\ SizeLimit \in Nat \ {0}
    /\ TooBig \subseteq Browsers
    /\ {NOFILE, STRAY} \cap Browsers = {} /\ NOFILE # STRAY

VARIABLES
    process,    \* of each emulator: its life, see States
    ready,      \* deb->web_server_ready
    at_main,    \* the main thread
    at_web,     \* the web thread: what is left of the callback it is in
    upload_in_progress, FileSize, uploaded_bytes, UploadFileName,
    fp,         \* whether the file is open
    unflushed,  \* what has been written to fp
    web_firmware_uploaded,
    loaded,     \* history: the firmware in the machine's memory
    files,      \* the uploaded files
    tmp_bin,    \* the browser whose firmware tmp.bin is, or NOFILE, or STRAY: an old
                \* one or a part of one
    joined,       \* the emulator a browser is connected to, or 0
    size,       \* of each browser's file
    offset,     \* how much of its file a browser has sent
    disturbed,    \* history: a command during the upload, or another upload
    unconverted   \* history: objcopy did not make tmp.bin of the uploaded file

webVars == <<at_web, upload_in_progress, FileSize, uploaded_bytes, UploadFileName, fp, unflushed>>
fileVars == <<files, tmp_bin>>
uploadVars == <<process, ready, at_main, webVars, web_firmware_uploaded, loaded,
                fileVars, joined, size, offset, disturbed, unconverted>>

States == {"none", "failed", "starting", "listening", "ended"}

File(b) == [i \in 1..size[b] |-> <<b, i>>]

UploadInit ==
    /\ process = [e \in Ports |-> "none"]
    /\ ready = [e \in Ports |-> FALSE]
    /\ at_main = [e \in Ports |-> "await_ready"]
    /\ at_web = [e \in Ports |-> "idle"]
    /\ upload_in_progress = [e \in Ports |-> FALSE]
    /\ FileSize = [e \in Ports |-> 0]
    /\ uploaded_bytes = [e \in Ports |-> 0]
    /\ UploadFileName = [e \in Ports |-> NOFILE]
    /\ fp = [e \in Ports |-> FALSE]
    /\ unflushed = [e \in Ports |-> <<>>]
    /\ web_firmware_uploaded = [e \in Ports |-> FALSE]
    /\ loaded = [e \in Ports |-> NOFILE]
    /\ files = [f \in Names |-> <<>>]
    /\ tmp_bin \in {NOFILE, STRAY}
    /\ joined = [b \in Browsers |-> 0]
    /\ size \in Sizes
    /\ offset = [b \in Browsers |-> 0]
    /\ disturbed = [e \in Ports |-> FALSE]
    /\ unconverted = [e \in Ports |-> FALSE]

\* What has been written to fp reaches the file, over what another process has
\* put there since.
Flushed(e) ==
    IF unflushed[e] = <<>> THEN files
    ELSE [files EXCEPT ![UploadFileName[e]] =
             unflushed[e] \o SubSeq(@, Len(unflushed[e]) + 1, Len(@))]

\* exit: of the whole process; the C library flushes its files.
Exit(e) ==
    /\ process' = [process EXCEPT ![e] = "ended"]
    /\ files' = Flushed(e)

-----------------------------------------------------------------------------
(* Starting and ending                                                     *)

\* The spawner's fork.
Start(e, forked) ==
    /\ process[e] \in {"none", "failed"}
    /\ process' = [process EXCEPT ![e] = IF forked THEN "starting" ELSE "failed"]
    /\ UNCHANGED <<ready, at_main, webVars, web_firmware_uploaded, loaded, fileVars,
                   joined, size, offset, disturbed, unconverted>>

\* web_server: the context is created.  When that fails, or before it execvp or
\* the creation of the thread, the process ends.
Listen(e) ==
    /\ process[e] = "starting"
    /\ \E created \in BOOLEAN :
           process' = [process EXCEPT ![e] = IF created THEN "listening" ELSE "ended"]
    /\ UNCHANGED <<ready, at_main, webVars, web_firmware_uploaded, loaded, fileVars,
                   joined, size, offset, disturbed, unconverted>>

Connected(b, e) == joined[b] = e /\ process[e] = "listening" /\ at_web[e] = "idle"

\* LWS_CALLBACK_ESTABLISHED
Join(b, e) ==
    /\ joined[b] = 0 /\ process[e] = "listening"
    /\ joined' = [joined EXCEPT ![b] = e]
    /\ ready' = [ready EXCEPT ![e] = TRUE]
    /\ UNCHANGED <<process, at_main, webVars, web_firmware_uploaded, loaded, fileVars,
                   size, offset, disturbed, unconverted>>

\* LWS_CALLBACK_CLOSED
Close(b, e) ==
    /\ Connected(b, e)
    /\ Exit(e)
    /\ UNCHANGED <<ready, at_main, webVars, web_firmware_uploaded, loaded, tmp_bin,
                   joined, size, offset, disturbed, unconverted>>

-----------------------------------------------------------------------------
(* LWS_CALLBACK_RECEIVE                                                    *)

\* Mutant: off by one.
MutantMet(count, expected) == count > expected
Met(count, expected) == count >= expected

\* How many of a message's bytes are written: all, or until the end is met,
\* which is looked for after each byte.
Taken(count, expected, bytes) ==
    LET ends == {i \in 1..Len(bytes) : Met(count + i, expected)}
    IN  IF ends = {} THEN Len(bytes) ELSE CHOOSE i \in ends : \A j \in ends : i <= j

\* The loop over the bytes of a message, which add to what was there before.  The
\* result of fopen is not looked at: the first byte to no file ends the process.
Write(e, open, count, expected, before, bytes) ==
    LET n == IF open THEN Taken(count, expected, bytes) ELSE 0 IN
    /\ uploaded_bytes' = [uploaded_bytes EXCEPT ![e] = count + n]
    /\ unflushed' = [unflushed EXCEPT ![e] = before \o SubSeq(bytes, 1, n)]
    /\ at_web' = [at_web EXCEPT ![e] =
                     IF n # 0 /\ Met(count + n, expected) THEN "close" ELSE "idle"]
    /\ process' = [process EXCEPT ![e] = IF open \/ bytes = <<>> THEN @ ELSE "ended"]

\* The next n bytes of a browser's file.
NextBytes(b, n) == SubSeq(File(b), offset[b] + 1, offset[b] + n)

\* Emulators in the middle of an upload, or with one that is still to be loaded.
Uploading ==
    {e \in Ports : process[e] = "listening"
               /\ (upload_in_progress[e] \/ (web_firmware_uploaded[e] /\ at_main[e] # "running"))}

\* Mutant: the field for the size is as wide as the comment says.
MutantHeaderSize(n) == n
HeaderSize(n) == n % SizeLimit

\* Opcode 0x00 with the first n bytes of the file.
UploadFile(b, e, name, n, opened) ==
    /\ Connected(b, e) /\ ~upload_in_progress[e] /\ offset[b] = 0
    /\ FileSize' = [FileSize EXCEPT ![e] = HeaderSize(size[b])]
    /\ IF HeaderSize(size[b]) >= SizeLimit - 1 THEN
            /\ Exit(e)
            /\ UNCHANGED <<at_web, upload_in_progress, uploaded_bytes, UploadFileName,
                           fp, unflushed, offset, disturbed>>
       ELSE
            /\ UploadFileName' = [UploadFileName EXCEPT ![e] = name]
            /\ upload_in_progress' = [upload_in_progress EXCEPT ![e] = TRUE]
            /\ fp' = [fp EXCEPT ![e] = opened]
            /\ files' = IF opened THEN [files EXCEPT ![name] = <<>>] ELSE files
            /\ Write(e, opened, 0, HeaderSize(size[b]), <<>>, NextBytes(b, n))
            /\ offset' = [offset EXCEPT ![b] = n]
            /\ disturbed' = [f \in Ports |->
                                disturbed[f] \/ (Uploading # {} /\ f \in Uploading \cup {e})]
    /\ UNCHANGED <<ready, at_main, web_firmware_uploaded, loaded, tmp_bin, joined, size,
                   unconverted>>

Message(e, bytes) ==
    /\ Write(e, fp[e], uploaded_bytes[e], FileSize[e], unflushed[e], bytes)
    /\ UNCHANGED <<ready, at_main, upload_in_progress, FileSize, UploadFileName, fp,
                   web_firmware_uploaded, loaded, fileVars, joined, size, unconverted>>

\* The next n bytes.
Chunk(b, e, n) ==
    /\ Connected(b, e) /\ upload_in_progress[e]
    /\ n \in 1..(size[b] - offset[b])
    /\ Message(e, NextBytes(b, n))
    /\ offset' = [offset EXCEPT ![b] = @ + n]
    /\ UNCHANGED disturbed

\* A button pressed during the upload: its opcode is written to the file.  Bound:
\* an upload that is disturbed already gets no further command.
Command(b, e) ==
    /\ Connected(b, e) /\ upload_in_progress[e] /\ ~disturbed[e]
    /\ Message(e, <<COMMAND>>)
    /\ disturbed' = [disturbed EXCEPT ![e] = TRUE]
    /\ UNCHANGED offset

-----------------------------------------------------------------------------
(* The end of the file, in the same callback                               *)

UnchangedByEnd == UNCHANGED <<process, ready, at_main, FileSize, uploaded_bytes,
    UploadFileName, loaded, joined, size, offset, disturbed>>

\* Mutant: the flag is raised before objcopy has run.
MutantCloseFile(e) ==
    /\ process[e] = "listening" /\ at_web[e] = "close"
    /\ files' = Flushed(e)
    /\ fp' = [fp EXCEPT ![e] = FALSE]
    /\ unflushed' = [unflushed EXCEPT ![e] = <<>>]
    /\ at_web' = [at_web EXCEPT ![e] = "objcopy"]
    /\ web_firmware_uploaded' = [web_firmware_uploaded EXCEPT ![e] = TRUE]
    /\ UNCHANGED <<upload_in_progress, tmp_bin, unconverted>> /\ UnchangedByEnd

\* fclose
CloseFile(e) ==
    /\ process[e] = "listening" /\ at_web[e] = "close"
    /\ files' = Flushed(e)
    /\ fp' = [fp EXCEPT ![e] = FALSE]
    /\ unflushed' = [unflushed EXCEPT ![e] = <<>>]
    /\ at_web' = [at_web EXCEPT ![e] = "objcopy"]
    /\ UNCHANGED <<upload_in_progress, web_firmware_uploaded, tmp_bin, unconverted>>
    /\ UnchangedByEnd

\* Its result is not looked at.  When it fails, as it may on any file, the old
\* tmp.bin stays, or is gone, or is cut short.
ObjCopy(e) ==
    /\ process[e] = "listening" /\ at_web[e] = "objcopy"
    /\ LET whole == {b \in Browsers : File(b) # <<>> /\ files[UploadFileName[e]] = File(b)}
       IN  /\ tmp_bin' \in whole \cup {tmp_bin, STRAY, NOFILE}
           /\ unconverted' = [unconverted EXCEPT ![e] = @ \/ tmp_bin' \notin whole]
    /\ at_web' = [at_web EXCEPT ![e] = "flag"]
    /\ UNCHANGED <<upload_in_progress, fp, unflushed, web_firmware_uploaded, files>>
    /\ UnchangedByEnd

SetFlags(e) ==
    /\ process[e] = "listening" /\ at_web[e] = "flag"
    /\ web_firmware_uploaded' = [web_firmware_uploaded EXCEPT ![e] = TRUE]
    /\ upload_in_progress' = [upload_in_progress EXCEPT ![e] = FALSE]
    /\ at_web' = [at_web EXCEPT ![e] = "idle"]
    /\ UNCHANGED <<fp, unflushed, fileVars, unconverted>> /\ UnchangedByEnd

FileEnds(e) == CloseFile(e) \/ ObjCopy(e) \/ SetFlags(e)

-----------------------------------------------------------------------------
(* The main thread                                                         *)

MainAt(e, from, to) ==
    process[e] = "listening" /\ at_main[e] = from /\ at_main' = [at_main EXCEPT ![e] = to]

AwaitReady(e) == MainAt(e, "await_ready", "await_firmware") /\ ready[e]
AwaitFirmware(e) == MainAt(e, "await_firmware", "load") /\ web_firmware_uploaded[e]

\* load_firmware ends the process when there is no tmp.bin or it is too big.
load_firmware(e) ==
    /\ MainAt(e, "load", "running")
    /\ IF tmp_bin \in TooBig \cup {NOFILE} THEN Exit(e) /\ UNCHANGED loaded
       ELSE loaded' = [loaded EXCEPT ![e] = tmp_bin] /\ UNCHANGED <<process, files>>

main(e) ==
    /\ \/ (AwaitReady(e) \/ AwaitFirmware(e)) /\ UNCHANGED <<process, loaded, files>>
       \/ load_firmware(e)
    /\ UNCHANGED <<ready, webVars, web_firmware_uploaded, tmp_bin, joined, size, offset,
                   disturbed, unconverted>>

-----------------------------------------------------------------------------
UploadTypeOK ==
    /\ process \in [Ports -> States]
    /\ ready \in [Ports -> BOOLEAN]
    /\ at_main \in [Ports -> {"await_ready", "await_firmware", "load", "running"}]
    /\ at_web \in [Ports -> {"idle", "close", "objcopy", "flag"}]
    /\ upload_in_progress \in [Ports -> BOOLEAN]
    /\ FileSize \in [Ports -> 0..SizeLimit - 1]
    /\ uploaded_bytes \in [Ports -> 0..SizeLimit - 1]
    /\ UploadFileName \in [Ports -> Names \cup {NOFILE}]
    /\ web_firmware_uploaded \in [Ports -> BOOLEAN]
    /\ loaded \in [Ports -> Browsers \cup {STRAY, NOFILE}]
    /\ tmp_bin \in Browsers \cup {STRAY, NOFILE}
    /\ joined \in [Browsers -> Ports \cup {0}]
    /\ size \in Sizes
    /\ \A b \in Browsers : offset[b] \in 0..size[b]
    /\ fp \in [Ports -> BOOLEAN]
    /\ disturbed \in [Ports -> BOOLEAN]
    /\ unconverted \in [Ports -> BOOLEAN]

\* Nothing has come in the way of the upload of b to e.
Undisturbed(b, e) == joined[b] = e /\ ~disturbed[e] /\ size[b] < SizeLimit - 1

(* The end of the file is met with its last byte, however it is cut into   *)
(* messages: not one early, which leaves the rest to be taken for          *)
(* commands, and not one late.  The end of an empty file is never met: it  *)
(* is looked for only after a byte has been written.                       *)
UploadWhole ==
    \A e \in Ports, b \in Browsers :
        Undisturbed(b, e) /\ process[e] = "listening" =>
            /\ at_web[e] = "close" => offset[b] = size[b] /\ unflushed[e] = File(b)
            /\ at_web[e] = "idle" /\ upload_in_progress[e] =>
                   offset[b] < size[b] \/ size[b] = 0

(* An emulator runs the firmware of its own browser: unless uploads        *)
(* overlap, a command is sent during one, or objcopy fails, the files and  *)
(* flags shared by the two threads, and by all the processes, never make   *)
(* it load another's, an old one or a part of one.                         *)
OwnFirmware ==
    \A e \in Ports, b \in Browsers :
        Undisturbed(b, e) /\ ~unconverted[e] => loaded[e] \in {b, NOFILE}
=============================================================================
