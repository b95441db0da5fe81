--------------------------- MODULE Session_proofs ---------------------------
(***************************************************************************)
(* Theorems about the way of any number of browsers, with files of any     *)
(* size cut into any messages, through the spawner and their emulators.    *)
(***************************************************************************)
EXTENDS Session, SequenceTheorems, FiniteSetTheorems, TLAPS

-----------------------------------------------------------------------------
(* The spawner                                                             *)

(* The port a browser is told of is new, and while no other connection's   *)
(* callback has come in between, ws is the one that waits.                 *)
SpawnerInv ==
    /\ new_ws_port \in Nat \ {0}
    /\ told \in [Browsers -> SUBSET (Nat \ {0})]
    /\ own \in [Browsers -> Nat]
    /\ crossed \in [Browsers -> BOOLEAN]
    /\ DOMAIN link = Browsers
    /\ \A b \in Browsers : own[b] < new_ws_port /\ \A p \in told[b] : p < new_ws_port
    /\ PortToldOnce
    /\ \A b \in Browsers : Waiting(b) /\ ~crossed[b] => ws = b
    /\ ToldOwnPort

-----------------------------------------------------------------------------
(* The upload                                                              *)

Shapes ==
    /\ process \in [Ports -> States]
    /\ at_main \in [Ports -> {"await_ready", "await_firmware", "load", "running"}]
    /\ at_web \in [Ports -> {"idle", "close", "objcopy", "flag"}]
    /\ upload_in_progress \in [Ports -> BOOLEAN]
    /\ web_firmware_uploaded \in [Ports -> BOOLEAN]
    /\ fp \in [Ports -> BOOLEAN]
    /\ disturbed \in [Ports -> BOOLEAN] /\ unconverted \in [Ports -> BOOLEAN]
    /\ DOMAIN FileSize = Ports /\ DOMAIN uploaded_bytes = Ports
    /\ DOMAIN UploadFileName = Ports /\ DOMAIN unflushed = Ports
    /\ DOMAIN loaded = Ports /\ DOMAIN files = Names
    /\ DOMAIN joined = Browsers
    /\ size \in [Browsers -> Nat]
    /\ offset \in [Browsers -> Nat]

\* An emulator nobody has sent anything yet.
Pristine(e) ==
    /\ ~upload_in_progress[e] /\ ~web_firmware_uploaded[e]
    /\ at_web[e] = "idle" /\ ~fp[e] /\ unflushed[e] = <<>>
    /\ loaded[e] = NOFILE /\ at_main[e] \in {"await_ready", "await_firmware"}

\* What an emulator has of the file of its browser.
Receiving(b, e) ==
    /\ upload_in_progress[e] /\ ~web_firmware_uploaded[e]
    /\ loaded[e] = NOFILE /\ at_main[e] \in {"await_ready", "await_firmware"}
    /\ FileSize[e] = size[b]
    /\ at_web[e] = "idle" /\ process[e] = "listening" =>
           /\ offset[b] < size[b] \/ size[b] = 0
           /\ uploaded_bytes[e] = offset[b]
           /\ unflushed[e] = SubSeq(File(b), 1, offset[b])
    /\ at_web[e] # "idle" => offset[b] = size[b] /\ size[b] # 0
    /\ at_web[e] = "close" => unflushed[e] = File(b)

Received(b, e) ==
    /\ ~upload_in_progress[e] /\ web_firmware_uploaded[e] /\ at_web[e] = "idle"
    /\ offset[b] = size[b] /\ size[b] # 0
    /\ ~unconverted[e] => loaded[e] \in {NOFILE, b}
    /\ at_main[e] # "running" => loaded[e] = NOFILE

\* What it has put in the directory that all emulators share.
Placed(b, e) ==
    /\ fp[e] => UploadFileName[e] \in Names /\ files[UploadFileName[e]] = <<>>
    /\ at_web[e] = "objcopy" => files[UploadFileName[e]] = File(b)
    /\ at_web[e] = "flag" \/ (web_firmware_uploaded[e] /\ at_main[e] # "running") =>
           tmp_bin = b \/ unconverted[e]

EmulatorInv(e) ==
    /\ (\A b \in Browsers : joined[b] # e) => Pristine(e)
    /\ at_web[e] # "idle" => upload_in_progress[e]
    /\ fp[e] => upload_in_progress[e] /\ at_web[e] \in {"idle", "close"}
    /\ at_web[e] = "close" => fp[e]
    /\ ~fp[e] => unflushed[e] = <<>>
    /\ \A b \in Browsers : Undisturbed(b, e) =>
           /\ (Pristine(e) /\ offset[b] = 0) \/ Receiving(b, e) \/ Received(b, e)
           /\ process[e] = "listening" => Placed(b, e)

JoinedInv ==
    \A b \in Browsers :
        /\ joined[b] \in told[b] \cup {0}
        /\ joined[b] = 0 => offset[b] = 0
        /\ joined[b] \in Ports => process[joined[b]] \in {"listening", "ended"}

\* An undisturbed upload is the only one in progress.
Alone == \A e, f \in Uploading : e # f => disturbed[e]

UploadInv == Shapes /\ JoinedInv /\ Alone /\ \A e \in Ports : EmulatorInv(e)

-----------------------------------------------------------------------------
\* What a callback_http does, whatever the library reports with it.
LEMMA HttpStep ==
    ASSUME SpawnerInv, NEW b \in Browsers, callback_http(b), UNCHANGED <<new_ws_port, told, own>>,
           DOMAIN link' = Browsers,
           \A c \in Browsers : Waiting(c)' => Waiting(c) \/ c = b,
           \A c \in Browsers : Served(c)' => Served(c)
    PROVE  SpawnerInv'
<1>1. /\ ws' = b /\ crossed' = [c \in Browsers |-> crossed[c] \/ (c # b /\ Waiting(c))]
    BY DEF callback_http, Crosses
<1>2. \A c \in Browsers : ~crossed'[c] => ~crossed[c] /\ (c = b \/ ~Waiting(c))
    BY <1>1
<1>3. \A c \in Browsers : Waiting(c)' /\ ~crossed'[c] => ws' = c
    BY <1>1, <1>2
<1>4. ToldOwnPort'
    BY <1>2 DEF SpawnerInv, ToldOwnPort
<1>5. crossed' \in [Browsers -> BOOLEAN]
    BY <1>1
<1> QED BY <1>3, <1>4, <1>5 DEF SpawnerInv, PortToldOnce

LEMMA WriteableStep ==
    ASSUME SpawnerInv, NEW b \in Browsers, NEW forked \in BOOLEAN, Writeable(b, forked)
    PROVE  SpawnerInv'
<1>1. /\ new_ws_port \in Nat \ {0} /\ new_ws_port' = new_ws_port + 1
      /\ crossed' = crossed /\ ws' = ws /\ DOMAIN link' = Browsers
    BY DEF Writeable, Moves, SpawnerInv
<1>2. /\ told' \in [Browsers -> SUBSET (Nat \ {0})]
      /\ \A c \in Browsers : told[c] \subseteq told'[c] /\ told'[c] \subseteq told[c] \cup {new_ws_port}
      /\ \A c \in Browsers : c # ws => told'[c] = told[c]
    BY DEF Writeable, WebSend, SpawnerInv
<1>3. /\ own' \in [Browsers -> Nat] /\ own'[b] = new_ws_port
      /\ \A c \in Browsers : c # b => /\ own'[c] = own[c]
                                      /\ Waiting(c)' = Waiting(c) /\ Served(c)' = Served(c)
      /\ Waiting(b) /\ ~Waiting(b)'
    BY DEF Writeable, Moves, Waiting, Served, SpawnerInv
<1>4. \A c \in Browsers : own'[c] < new_ws_port' /\ \A p \in told'[c] : p < new_ws_port'
    <2> SUFFICES ASSUME NEW c \in Browsers
                 PROVE  own'[c] < new_ws_port' /\ \A p \in told'[c] : p < new_ws_port'
        OBVIOUS
    <2>1. own'[c] \in {own[c], new_ws_port} /\ own[c] \in Nat /\ own[c] < new_ws_port
        BY <1>3 DEF SpawnerInv
    <2>2. \A p \in told'[c] : p = new_ws_port \/ (p \in Nat /\ p < new_ws_port)
        BY <1>2 DEF SpawnerInv
    <2> QED BY <1>1, <2>1, <2>2
<1>5. \A c \in Browsers : new_ws_port \notin told[c]
    BY <1>1 DEF SpawnerInv
<1>6. PortToldOnce'
    BY <1>2, <1>5 DEF SpawnerInv, PortToldOnce
<1>7. ~crossed[b] => ws = b /\ new_ws_port \in told'[b]
    <2>1. ~crossed[b] => ws = b
        BY <1>3 DEF SpawnerInv
    <2>2. ws = b => told' = [told EXCEPT ![b] = @ \cup {new_ws_port}]
        BY SpawnerAssumption DEF Writeable, WebSend, Moves, Alive, Waiting
    <2> QED BY <2>1, <2>2 DEF SpawnerInv
<1>8. \A c \in Browsers : Served(c)' /\ ~crossed'[c] => own'[c] \in told'[c]
    BY <1>1, <1>2, <1>3, <1>7 DEF SpawnerInv, ToldOwnPort
<1>9. \A c, d \in Browsers : c # d /\ own'[d] \in told'[c] => crossed'[d]
    <2> SUFFICES ASSUME NEW c \in Browsers, NEW d \in Browsers, c # d, own'[d] \in told'[c]
                 PROVE  crossed[d]
        BY <1>1
    <2>1. CASE d = b
        BY <1>2, <1>3, <1>5, <1>7, <2>1
    <2>2. CASE d # b
        <3>1. own[d] \in told[c]
            <4>1. own'[d] = own[d] /\ own[d] \in Nat /\ own[d] < new_ws_port
                BY <1>3, <2>2 DEF SpawnerInv
            <4> QED BY <1>1, <1>2, <4>1
        <3> QED BY <3>1 DEF SpawnerInv, ToldOwnPort
    <2> QED BY <2>1, <2>2
<1>10. \A c \in Browsers : Waiting(c)' /\ ~crossed'[c] => ws' = c
    BY <1>1, <1>3 DEF SpawnerInv
<1> QED BY <1>1, <1>2, <1>3, <1>4, <1>6, <1>8, <1>9, <1>10 DEF SpawnerInv, ToldOwnPort

LEMMA SpawnerStep == SpawnerInv /\ [Next]_vars => SpawnerInv'
<1> SUFFICES ASSUME SpawnerInv, [Next]_vars PROVE SpawnerInv'
    OBVIOUS
<1>1. ASSUME UNCHANGED spawnerVars PROVE SpawnerInv'
    BY <1>1 DEF spawnerVars, SpawnerInv, Waiting, Served, PortToldOnce, ToldOwnPort
<1>2. ASSUME NEW b \in Browsers, Open(b) PROVE SpawnerInv'
    <2>1. /\ DOMAIN link' = Browsers
          /\ \A c \in Browsers : (Waiting(c)' => Waiting(c) \/ c = b) /\ (Served(c)' => Served(c))
        BY <1>2 DEF Open, Moves, Waiting, Served, SpawnerInv
    <2> QED BY <1>2, <2>1, HttpStep DEF Open, UnchangedByHttp
<1>3. ASSUME NEW b \in Browsers, Event(b) PROVE SpawnerInv'
    <2>1. /\ DOMAIN link' = Browsers
          /\ \A c \in Browsers : (Waiting(c)' => Waiting(c) \/ c = b) /\ (Served(c)' => Served(c))
        BY <1>3 DEF Event, Waiting, Served, SpawnerInv
    <2> QED BY <1>3, <2>1, HttpStep DEF Event, UnchangedByHttp
<1>4. ASSUME NEW b \in Browsers, Destroy(b) PROVE SpawnerInv'
    <2>1. /\ DOMAIN link' = Browsers
          /\ \A c \in Browsers : (Waiting(c)' => Waiting(c) \/ c = b) /\ (Served(c)' => Served(c))
        BY <1>4 DEF Destroy, Moves, Waiting, Served, SpawnerInv
    <2> QED BY <1>4, <2>1, HttpStep DEF Destroy, UnchangedByHttp
<1>5. ASSUME NEW b \in Browsers, Established(b) PROVE SpawnerInv'
    <2>1. /\ UNCHANGED <<ws, new_ws_port, told, own, crossed>> /\ DOMAIN link' = Browsers
          /\ \A c \in Browsers : (Waiting(c)' => Waiting(c)) /\ (Served(c)' => Served(c))
        BY <1>5 DEF Established, Moves, Waiting, Served, SpawnerInv
    <2> QED BY <2>1 DEF SpawnerInv, PortToldOnce, ToldOwnPort
<1>6. ASSUME NEW b \in Browsers, NEW forked \in BOOLEAN, Writeable(b, forked) PROVE SpawnerInv'
    BY <1>6, WriteableStep
<1> QED BY <1>1, <1>2, <1>3, <1>4, <1>5, <1>6
        DEF Next, vars, SpawnerHttp, SpawnerEstablished, SpawnerWriteable, BrowserLeaves,
            BrowserJoins, BrowserUploads, BrowserCommands, BrowserCloses, WebThread, MainThread

LEMMA SafetySpawner == Spec => []SpawnerInv
<1>1. Init => SpawnerInv
    BY DEF Init, SpawnerInit, SpawnerInv, PortToldOnce, ToldOwnPort, Waiting, Served
<1> QED BY <1>1, SpawnerStep, PTL DEF Spec

(* However many browsers connect, leave or cross, and whichever forks      *)
(* fail, no two are told of the same emulator (server.c:43-121).           *)
THEOREM PortsToldOnce == Spec => []PortToldOnce
<1>1. SpawnerInv => PortToldOnce
    BY DEF SpawnerInv
<1> QED BY <1>1, SafetySpawner, PTL

(* However many browsers connect, leave or cross, one that no other        *)
(* connection's callback_http, an end included, came in between of is told *)
(* of its own emulator, and no other browser is (server.c:67-121).         *)
THEOREM OwnPortTold == Spec => []ToldOwnPort
<1>1. SpawnerInv => ToldOwnPort
    BY DEF SpawnerInv
<1> QED BY <1>1, SafetySpawner, PTL

-----------------------------------------------------------------------------
(* One browser, one emulator                                               *)

LEMMA PortsPositive == 0 \notin Ports
BY DEF Ports

LEMMA OneBrowser ==
    ASSUME SpawnerInv, JoinedInv, NEW b \in Browsers, NEW c \in Browsers,
           joined[b] = joined[c], joined[b] # 0
    PROVE  b = c
BY DEF SpawnerInv, JoinedInv, PortToldOnce

\* An emulator that a step leaves as it is keeps its invariant, unless the step
\* changes the shared files while it is uploading.
Untouched(f) ==
    /\ process'[f] = process[f] /\ at_main'[f] = at_main[f] /\ at_web'[f] = at_web[f]
    /\ upload_in_progress'[f] = upload_in_progress[f] /\ FileSize'[f] = FileSize[f]
    /\ uploaded_bytes'[f] = uploaded_bytes[f] /\ UploadFileName'[f] = UploadFileName[f]
    /\ fp'[f] = fp[f] /\ unflushed'[f] = unflushed[f] /\ loaded'[f] = loaded[f]
    /\ web_firmware_uploaded'[f] = web_firmware_uploaded[f]
    /\ unconverted'[f] = unconverted[f]

LEMMA Bystander ==
    ASSUME NEW f \in Ports, EmulatorInv(f), Untouched(f), UNCHANGED size,
           \A b \in Browsers : joined'[b] = f <=> joined[b] = f,
           \A b \in Browsers : joined[b] = f => offset'[b] = offset[b],
           disturbed[f] => disturbed'[f],
           UNCHANGED <<files, tmp_bin>> \/ f \notin Uploading \/ disturbed'[f]
    PROVE  EmulatorInv(f)'
<1>1. Pristine(f)' = Pristine(f)
    BY DEF Untouched, Pristine
<1>2. \A b \in Browsers : Undisturbed(b, f)' => Undisturbed(b, f)
    BY DEF Undisturbed
<1>3. \A b \in Browsers : Undisturbed(b, f)' =>
          (Pristine(f)' /\ offset'[b] = 0) \/ Receiving(b, f)' \/ Received(b, f)'
    <2> SUFFICES ASSUME NEW b \in Browsers, Undisturbed(b, f)'
                 PROVE  (Pristine(f)' /\ offset'[b] = 0) \/ Receiving(b, f)' \/ Received(b, f)'
        OBVIOUS
    <2>1. offset'[b] = offset[b]
        BY <1>2 DEF Undisturbed
    <2> QED BY <1>1, <1>2, <2>1, ZenonT(60) DEF EmulatorInv, Untouched, Receiving, Received, File
<1>4. \A b \in Browsers : Undisturbed(b, f)' /\ process'[f] = "listening" => Placed(b, f)'
    <2> SUFFICES ASSUME NEW b \in Browsers, Undisturbed(b, f)', process'[f] = "listening"
                 PROVE  Placed(b, f)'
        OBVIOUS
    <2>1. CASE UNCHANGED <<files, tmp_bin>>
        BY <1>2, <2>1 DEF EmulatorInv, Untouched, Placed, File
    <2>2. CASE f \notin Uploading
        BY <1>2, <2>2 DEF EmulatorInv, Untouched, Placed, Uploading
    <2> QED BY <2>1, <2>2 DEF Undisturbed
<1> QED BY <1>1, <1>3, <1>4 DEF EmulatorInv, Untouched

\* A step that starts no upload leaves those there are as alone as they were.
LEMMA StillAlone ==
    ASSUME Alone, Uploading' \subseteq Uploading, \A f \in Ports : disturbed[f] => disturbed'[f]
    PROVE  Alone'
BY DEF Alone, Uploading

-----------------------------------------------------------------------------
(* The bytes of a message                                                  *)

LEMMA FileIsSeq ==
    ASSUME NEW b \in Browsers, size[b] \in Nat
    PROVE  File(b) \in Seq(Browsers \X Nat) /\ Len(File(b)) = size[b]
BY DEF File

LEMMA SmallMod == \A a \in Nat, n \in Nat \ {0} : a < n => a % n = a
OBVIOUS

\* Of messages that cut the file anywhere, all is written, and the end is met
\* with the last byte, if there is one.
Written(b, e, i, n) ==
    /\ uploaded_bytes'[e] = i + n
    /\ unflushed'[e] = SubSeq(File(b), 1, i + n)
    /\ at_web'[e] = IF n # 0 /\ i + n = size[b] THEN "close" ELSE "idle"
    /\ process' = process

LEMMA Writes ==
    ASSUME Shapes, NEW b \in Browsers, NEW e \in Ports, NEW open \in BOOLEAN,
           NEW i \in Nat, NEW n \in Nat, i < size[b] \/ n = 0, i + n <= size[b], open \/ n = 0,
           Write(e, open, i, size[b], SubSeq(File(b), 1, i), SubSeq(File(b), i + 1, i + n))
    PROVE  Written(b, e, i, n)
<1> DEFINE bytes == SubSeq(File(b), i + 1, i + n)
<1>0. size[b] \in Nat
    BY DEF Shapes
<1>1. /\ size[b] \in Nat /\ File(b) \in Seq(Browsers \X Nat) /\ Len(File(b)) = size[b]
    BY <1>0, FileIsSeq
<1>2. /\ bytes \in Seq(Browsers \X Nat) /\ Len(bytes) = n
    <2>1. \A j \in i + 1 .. i + n : File(b)[j] \in Browsers \X Nat
        <3> SUFFICES ASSUME NEW j \in i + 1 .. i + n PROVE File(b)[j] \in Browsers \X Nat
            OBVIOUS
        <3>1. j \in 1..Len(File(b)) BY <1>1
        <3> QED BY <1>1, <3>1, ElementOfSeq
    <2> QED BY <2>1, SubSeqProperties
<1>3. SubSeq(File(b), 1, i) \o bytes = SubSeq(File(b), 1, i + n)
    <2>1. /\ 1 \in 1 .. Len(File(b)) + 1 /\ i \in 1 - 1 .. Len(File(b))
          /\ i + n \in i .. Len(File(b))
        BY <1>0, <1>1
    <2> QED BY <1>1, <2>1, ConcatAdjacentSubSeq
<1>4. Write(e, open, i, size[b], SubSeq(File(b), 1, i), bytes)
    OBVIOUS
<1> HIDE DEF bytes
<1> DEFINE ends == {j \in 1..n : i + j >= size[b]}
<1>5. Taken(i, size[b], bytes) =
          IF ends = {} THEN n ELSE CHOOSE j \in ends : \A k \in ends : j <= k
    BY <1>2 DEF Taken, Met
<1>6. Taken(i, size[b], bytes) = n
    <2>1. CASE i + n < size[b] \/ n = 0
        <3>1. ends = {} BY <1>0, <2>1
        <3> QED BY <1>5, <3>1
    <2>2. CASE i + n = size[b] /\ n # 0
        <3>1. n \in 1..n BY <1>0, <2>2
        <3>2. \A j \in 1..n : i + j >= size[b] <=> j = n BY <1>0, <2>2
        <3>3. ends = {n} BY <3>1, <3>2
        <3> HIDE DEF ends
        <3>4. \E j \in ends : \A k \in ends : j <= k
            <4>1. n <= n /\ n \in ends /\ \A k \in ends : k = n
                BY <3>3
            <4> QED BY <4>1, Zenon
        <3>5. ends # {} BY <3>3
        <3> QED BY <1>5, <3>3, <3>4, <3>5
    <2> QED BY <1>0, <2>1, <2>2
<1>7. SubSeq(bytes, 1, n) = bytes
    BY <1>2, SubSeqFull
<1>8. n = 0 => bytes = <<>>
    BY <1>2, EmptySeq
<1>9. Met(i + n, size[b]) <=> i + n = size[b]
    <2>1. i + n >= size[b] <=> i + n = size[b]
        BY <1>0
    <2> QED BY <2>1 DEF Met
<1>10. (IF open THEN Taken(i, size[b], bytes) ELSE 0) = n
    BY <1>6
<1>11. /\ uploaded_bytes' = [uploaded_bytes EXCEPT ![e] = i + n]
       /\ unflushed' = [unflushed EXCEPT ![e] = SubSeq(File(b), 1, i) \o SubSeq(bytes, 1, n)]
       /\ at_web' = [at_web EXCEPT ![e] = IF n # 0 /\ Met(i + n, size[b]) THEN "close" ELSE "idle"]
       /\ process' = [process EXCEPT ![e] = IF open \/ bytes = <<>> THEN @ ELSE "ended"]
    BY <1>4, <1>10, Zenon DEF Write
<1>12. process' = process
    BY <1>8, <1>11 DEF Shapes
<1> QED BY <1>3, <1>7, <1>9, <1>11, <1>12 DEF Shapes, Written

\* What any message does to the emulator it is sent to, and to the others.
WriteTouched(e, open, before, bytes) ==
    /\ at_web' \in [Ports -> {"idle", "close", "objcopy", "flag"}]
    /\ at_web'[e] \in {"idle", "close"} /\ (at_web'[e] = "close" => open)
    /\ process' \in [Ports -> States] /\ process'[e] \in {process[e], "ended"}
    /\ ~open /\ bytes # <<>> => process'[e] = "ended"
    /\ ~open => unflushed'[e] = before \o SubSeq(bytes, 1, 0)
    /\ DOMAIN uploaded_bytes' = Ports /\ DOMAIN unflushed' = Ports
    /\ \A f \in Ports : f # e =>
           /\ at_web'[f] = at_web[f] /\ uploaded_bytes'[f] = uploaded_bytes[f]
           /\ unflushed'[f] = unflushed[f] /\ process'[f] = process[f]

LEMMA WriteTouches ==
    ASSUME Shapes, NEW e \in Ports, NEW open \in BOOLEAN, NEW count, NEW expected, NEW before,
           NEW bytes, Write(e, open, count, expected, before, bytes)
    PROVE  WriteTouched(e, open, before, bytes)
<1> DEFINE n == IF open THEN Taken(count, expected, bytes) ELSE 0
<1>1. /\ uploaded_bytes' = [uploaded_bytes EXCEPT ![e] = count + n]
      /\ unflushed' = [unflushed EXCEPT ![e] = before \o SubSeq(bytes, 1, n)]
      /\ at_web' = [at_web EXCEPT ![e] = IF n # 0 /\ Met(count + n, expected) THEN "close" ELSE "idle"]
      /\ process' = [process EXCEPT ![e] = IF open \/ bytes = <<>> THEN @ ELSE "ended"]
    BY DEF Write
<1>2. ~open => n = 0
    OBVIOUS
<1> HIDE DEF n
<1> QED BY <1>1, <1>2 DEF Shapes, States, WriteTouched

-----------------------------------------------------------------------------
(* The steps of one emulator                                               *)

\* What a step of the emulator e may do to the rest of the system.
StepOf(e) ==
    /\ UNCHANGED size
    /\ \A f \in Ports : f # e => Untouched(f)
    /\ \A b \in Browsers, f \in Ports : f # e =>
           (joined'[b] = f <=> joined[b] = f) /\ (joined[b] = f => offset'[b] = offset[b])
    /\ \A f \in Ports : disturbed[f] => disturbed'[f]
    /\ UNCHANGED <<files, tmp_bin>> \/ \A f \in Uploading : f # e => disturbed'[f]

LEMMA OneEmulator ==
    ASSUME UploadInv, NEW e \in Ports, StepOf(e), Shapes', JoinedInv', Alone', EmulatorInv(e)'
    PROVE  UploadInv'
<1> SUFFICES ASSUME NEW f \in Ports, f # e PROVE EmulatorInv(f)'
    BY DEF UploadInv
<1> QED BY Bystander DEF UploadInv, StepOf

LEMMA SameJoined ==
    ASSUME JoinedInv, UNCHANGED <<joined, told>>,
           \A b \in Browsers : joined[b] = 0 => offset'[b] = offset[b],
           \A e \in Ports : process[e] \in {"listening", "ended"}
                                => process'[e] \in {"listening", "ended"}
    PROVE  JoinedInv'
BY DEF JoinedInv

\* An exit writes to the shared files only what an upload has left unwritten.
LEMMA ExitFlushes ==
    ASSUME UploadInv, NEW e \in Ports, Exit(e), process[e] = "listening"
    PROVE  /\ process' = [process EXCEPT ![e] = "ended"]
           /\ DOMAIN files' = Names
           /\ unflushed[e] = <<>> => files' = files
           /\ UNCHANGED files \/ \A f \in Uploading : f # e => disturbed[f]
<1>1. unflushed[e] # <<>> => e \in Uploading
    BY DEF UploadInv, EmulatorInv, Uploading, Shapes
<1> QED BY <1>1 DEF Exit, Flushed, UploadInv, Shapes, Alone

LEMMA CloseStep ==
    ASSUME UploadInv, NEW b \in Browsers, NEW e \in Ports, Close(b, e), UNCHANGED told
    PROVE  UploadInv'
<1>1. /\ process[e] = "listening" /\ joined[b] = e /\ Exit(e)
      /\ UNCHANGED <<ready, at_main, webVars, web_firmware_uploaded, loaded, tmp_bin, joined,
                     size, offset, disturbed, unconverted>>
    BY DEF Close, Connected
<1>2. /\ process' = [process EXCEPT ![e] = "ended"] /\ DOMAIN files' = Names
      /\ UNCHANGED files \/ \A f \in Uploading : f # e => disturbed[f]
    BY <1>1, ExitFlushes
<1>3. Shapes'
    BY <1>1, <1>2 DEF UploadInv, Shapes, States, webVars
<1>4. StepOf(e)
    BY <1>1, <1>2 DEF StepOf, Untouched, webVars, UploadInv, Shapes
<1>5. JoinedInv'
    BY <1>1, <1>2, SameJoined DEF UploadInv, Shapes
<1>6. Alone'
    <2>1. Uploading' \subseteq Uploading
        BY <1>1, <1>2 DEF Uploading, webVars, UploadInv, Shapes
    <2> QED BY <1>1, <2>1, StillAlone DEF UploadInv
<1>7. EmulatorInv(e)'
    <2>1. \A c \in Browsers : Undisturbed(c, e)' => Undisturbed(c, e)
        BY <1>1 DEF Undisturbed
    <2>2. process'[e] = "ended"
        BY <1>2 DEF UploadInv, Shapes
    <2> QED BY <1>1, <2>1, <2>2
            DEF UploadInv, EmulatorInv, Pristine, Receiving, Received, File, webVars
<1> QED BY <1>3, <1>4, <1>5, <1>6, <1>7, OneEmulator

\* A message is a part of the file.
LEMMA NextBytesAre ==
    ASSUME Shapes, NEW b \in Browsers, NEW n \in Nat, offset[b] + n <= size[b]
    PROVE  Len(NextBytes(b, n)) = n /\ (n = 0 <=> NextBytes(b, n) = <<>>)
<1>1. size[b] \in Nat /\ offset[b] \in Nat
    BY DEF Shapes
<1>2. File(b) \in Seq(Browsers \X Nat) /\ Len(File(b)) = size[b]
    BY <1>1, FileIsSeq
<1>3. \A j \in offset[b] + 1 .. offset[b] + n : File(b)[j] \in Browsers \X Nat
    <2> SUFFICES ASSUME NEW j \in offset[b] + 1 .. offset[b] + n
                 PROVE  File(b)[j] \in Browsers \X Nat
        OBVIOUS
    <2>1. j \in 1..Len(File(b))
        BY <1>1, <1>2
    <2> QED BY <1>2, <2>1, ElementOfSeq
<1>4. NextBytes(b, n) \in Seq(Browsers \X Nat) /\ Len(NextBytes(b, n)) = n
    BY <1>1, <1>3, SubSeqProperties DEF NextBytes
<1> QED BY <1>4, EmptySeq

LEMMA NoBytes == \A bytes : <<>> \o SubSeq(bytes, 1, 0) = <<>>
BY SubSeqEmpty, ConcatEmptySeq, EmptySeq

\* A message in the middle of an upload, whatever its bytes are.
LEMMA MessageStep ==
    ASSUME UploadInv, NEW b \in Browsers, NEW e \in Ports, NEW bytes,
           Connected(b, e), upload_in_progress[e], Message(e, bytes), UNCHANGED told,
           offset' \in [Browsers -> Nat], \A c \in Browsers : c # b => offset'[c] = offset[c],
           disturbed' \in [Ports -> BOOLEAN], \A f \in Ports : disturbed[f] => disturbed'[f],
           \A c \in Browsers : Undisturbed(c, e)' => Receiving(c, e)'
    PROVE  UploadInv'
<1>1. /\ process[e] = "listening" /\ joined[b] = e /\ at_web[e] = "idle" /\ Shapes /\ JoinedInv
      /\ Write(e, fp[e], uploaded_bytes[e], FileSize[e], unflushed[e], bytes)
      /\ UNCHANGED <<ready, at_main, upload_in_progress, FileSize, UploadFileName, fp,
                     web_firmware_uploaded, loaded, files, tmp_bin, joined, size, unconverted>>
    BY DEF Connected, Message, fileVars, UploadInv
<1>2. WriteTouched(e, fp[e], unflushed[e], bytes)
    <2>1. fp[e] \in BOOLEAN
        BY <1>1 DEF Shapes
    <2> QED BY <1>1, <2>1, WriteTouches, Zenon
<1>3. Shapes'
    BY <1>1, <1>2 DEF Shapes, WriteTouched
<1>4. StepOf(e)
    BY <1>1, <1>2 DEF StepOf, Untouched, WriteTouched
<1>5. JoinedInv'
    BY <1>1, <1>2, SameJoined, PortsPositive DEF WriteTouched
<1>6. Alone'
    <2>1. Uploading' \subseteq Uploading
        BY <1>1, <1>2 DEF Uploading, WriteTouched
    <2> QED BY <2>1, StillAlone DEF UploadInv
<1>7. EmulatorInv(e)'
    <2>1. ~fp[e] => unflushed'[e] = <<>>
        BY <1>1, <1>2, NoBytes DEF UploadInv, EmulatorInv, WriteTouched
    <2>2. ASSUME NEW c \in Browsers, Undisturbed(c, e)', process'[e] = "listening"
          PROVE  Placed(c, e)'
        <3>1. Undisturbed(c, e) /\ Placed(c, e)
            BY <1>1, <2>2 DEF Undisturbed, UploadInv, EmulatorInv
        <3> QED BY <1>1, <1>2, <3>1 DEF Placed, WriteTouched
    <2> QED BY <1>1, <1>2, <2>1, <2>2 DEF EmulatorInv, UploadInv, WriteTouched
<1> QED BY <1>3, <1>4, <1>5, <1>6, <1>7, OneEmulator

LEMMA ChunkStep ==
    ASSUME SpawnerInv, UploadInv, NEW b \in Browsers, NEW e \in Ports, NEW n \in Nat,
           Chunk(b, e, n), UNCHANGED told
    PROVE  UploadInv'
<1>1. /\ Connected(b, e) /\ upload_in_progress[e] /\ Message(e, NextBytes(b, n))
      /\ n \in 1..(size[b] - offset[b]) /\ offset' = [offset EXCEPT ![b] = @ + n]
      /\ UNCHANGED disturbed /\ Shapes
    BY DEF Chunk, UploadInv
<1>2. /\ process[e] = "listening" /\ joined[b] = e /\ at_web[e] = "idle"
      /\ Write(e, fp[e], uploaded_bytes[e], FileSize[e], unflushed[e], NextBytes(b, n))
      /\ UNCHANGED <<at_main, upload_in_progress, FileSize, web_firmware_uploaded, loaded,
                     joined, size>>
    BY <1>1 DEF Connected, Message
<1>3. /\ offset[b] \in Nat /\ size[b] \in Nat /\ offset[b] + n <= size[b] /\ offset[b] < size[b]
      /\ offset' \in [Browsers -> Nat] /\ offset'[b] = offset[b] + n
      /\ \A c \in Browsers : c # b => offset'[c] = offset[c]
    BY <1>1 DEF Shapes
<1>4. ASSUME NEW c \in Browsers, Undisturbed(c, e)'
      PROVE  Receiving(c, e)'
    <2>1. c = b /\ Undisturbed(b, e)
        BY <1>1, <1>2, <1>4, OneBrowser, PortsPositive DEF Undisturbed, UploadInv
    <2>2. Receiving(b, e)
        BY <1>1, <2>1 DEF UploadInv, EmulatorInv, Pristine, Received
    <2>3. /\ FileSize[e] = size[b] /\ uploaded_bytes[e] = offset[b]
          /\ unflushed[e] = SubSeq(File(b), 1, offset[b])
        BY <1>2, <2>2 DEF Receiving
    <2>4. CASE fp[e]
        <3>1. Written(b, e, offset[b], n)
            <4>1. Write(e, fp[e], offset[b], size[b], SubSeq(File(b), 1, offset[b]),
                        SubSeq(File(b), offset[b] + 1, offset[b] + n))
                BY <1>2, <2>3, Zenon DEF NextBytes
            <4>2. /\ Shapes /\ fp[e] \in BOOLEAN /\ offset[b] \in Nat /\ n \in Nat
                  /\ offset[b] < size[b] \/ n = 0
                  /\ offset[b] + n <= size[b] /\ (fp[e] \/ n = 0)
                BY <1>1, <1>3, <2>4 DEF Shapes
            <4> QED BY ONLY b \in Browsers, e \in Ports, <4>1, <4>2, Writes, Zenon
        <3>2. SubSeq(File(b), 1, size[b]) = File(b)
            BY <1>3, FileIsSeq, SubSeqFull
        <3>3. File(b)' = File(b)
            BY <1>2 DEF File
        <3> QED BY <1>2, <1>3, <2>1, <2>2, <3>1, <3>2, <3>3 DEF Receiving, Written
    <2>5. CASE ~fp[e]
        <3>1. NextBytes(b, n) # <<>>
            BY <1>1, <1>3, NextBytesAre, EmptySeq
        <3>2. fp[e] \in BOOLEAN
            BY <1>1 DEF Shapes
        <3>3. WriteTouched(e, fp[e], unflushed[e], NextBytes(b, n))
            BY <1>1, <1>2, <3>2, WriteTouches, Zenon
        <3>4. process'[e] = "ended" /\ at_web'[e] = "idle"
            BY <2>5, <3>1, <3>3 DEF WriteTouched
        <3> QED BY <1>2, <2>1, <2>2, <3>4 DEF Receiving
    <2> QED BY <2>4, <2>5
<1> QED BY <1>1, <1>3, <1>4, MessageStep DEF Shapes

LEMMA CommandStep ==
    ASSUME UploadInv, NEW b \in Browsers, NEW e \in Ports, Command(b, e), UNCHANGED told
    PROVE  UploadInv'
<1>1. /\ Connected(b, e) /\ upload_in_progress[e] /\ Message(e, <<COMMAND>>)
      /\ disturbed' = [disturbed EXCEPT ![e] = TRUE] /\ UNCHANGED offset /\ Shapes
    BY DEF Command, UploadInv
<1>2. /\ disturbed' \in [Ports -> BOOLEAN] /\ \A f \in Ports : disturbed[f] => disturbed'[f]
      /\ offset' \in [Browsers -> Nat] /\ \A c \in Browsers : ~Undisturbed(c, e)'
    BY <1>1 DEF Shapes, Undisturbed
<1> QED BY <1>1, <1>2, MessageStep

LEMMA UploadFileStep ==
    ASSUME SpawnerInv, UploadInv, NEW b \in Browsers, NEW e \in Ports, NEW name \in Names,
           NEW n \in 0..size[b], NEW opened \in BOOLEAN, UploadFile(b, e, name, n, opened),
           UNCHANGED told
    PROVE  UploadInv'
<1>1. /\ process[e] = "listening" /\ joined[b] = e /\ at_web[e] = "idle"
      /\ ~upload_in_progress[e] /\ offset[b] = 0
      /\ FileSize' = [FileSize EXCEPT ![e] = HeaderSize(size[b])]
      /\ UNCHANGED <<ready, at_main, web_firmware_uploaded, loaded, tmp_bin, joined, size,
                     unconverted>>
    BY DEF UploadFile, Connected
<1>2. Shapes /\ ~fp[e] /\ unflushed[e] = <<>> /\ JoinedInv
    BY <1>1 DEF UploadInv, EmulatorInv
<1>3. CASE HeaderSize(size[b]) >= SizeLimit - 1
    <2>1. /\ Exit(e)
          /\ UNCHANGED <<at_web, upload_in_progress, uploaded_bytes, UploadFileName, fp, unflushed,
                         offset, disturbed>>
        BY <1>3 DEF UploadFile
    <2>2. process' = [process EXCEPT ![e] = "ended"] /\ UNCHANGED files
        BY <1>1, <1>2, <2>1, ExitFlushes
    <2>3. Shapes'
        BY <1>1, <1>2, <2>1, <2>2 DEF Shapes, States
    <2>4. StepOf(e)
        BY <1>1, <1>2, <2>1, <2>2 DEF StepOf, Untouched, Shapes
    <2>5. JoinedInv'
        BY <1>1, <1>2, <2>1, <2>2, SameJoined DEF Shapes
    <2>6. Alone'
        <3>1. Uploading' \subseteq Uploading
            BY <1>1, <1>2, <2>1, <2>2 DEF Uploading, Shapes
        <3> QED BY <2>1, <3>1, StillAlone DEF UploadInv
    <2>7. EmulatorInv(e)'
        <3>1. \A c \in Browsers : Undisturbed(c, e)' => Undisturbed(c, e)
            BY <1>1, <2>1 DEF Undisturbed
        <3>2. process'[e] = "ended"
            BY <1>2, <2>2 DEF Shapes
        <3> QED BY <1>1, <2>1, <3>1, <3>2
                DEF UploadInv, EmulatorInv, Pristine, Receiving, Received
    <2> QED BY <2>3, <2>4, <2>5, <2>6, <2>7, OneEmulator
<1>4. CASE ~(HeaderSize(size[b]) >= SizeLimit - 1)
    <2>1. /\ UploadFileName' = [UploadFileName EXCEPT ![e] = name]
          /\ upload_in_progress' = [upload_in_progress EXCEPT ![e] = TRUE]
          /\ fp' = [fp EXCEPT ![e] = opened]
          /\ files' = IF opened THEN [files EXCEPT ![name] = <<>>] ELSE files
          /\ Write(e, opened, 0, HeaderSize(size[b]), <<>>, NextBytes(b, n))
          /\ offset' = [offset EXCEPT ![b] = n]
          /\ disturbed' = [f \in Ports |->
                              disturbed[f] \/ (Uploading # {} /\ f \in Uploading \cup {e})]
        BY <1>4 DEF UploadFile
    <2>2. WriteTouched(e, opened, <<>>, NextBytes(b, n))
        BY <1>2, <2>1, WriteTouches, Zenon
    <2>3. Shapes'
        <3>1. disturbed' \in [Ports -> BOOLEAN]
            BY <2>1, Zenon
        <3>2. n \in Nat
            BY <1>2 DEF Shapes
        <3> QED BY <1>1, <1>2, <2>1, <2>2, <3>1, <3>2 DEF Shapes, WriteTouched
    <2>4. StepOf(e)
        BY <1>1, <1>2, <2>1, <2>2 DEF StepOf, Untouched, Shapes, Uploading, WriteTouched
    <2>5. JoinedInv'
        BY <1>1, <1>2, <2>1, <2>2, SameJoined, PortsPositive DEF Shapes, WriteTouched
    <2>6. Alone'
        <3>1. Uploading' \subseteq Uploading \cup {e}
            BY <1>1, <1>2, <2>1, <2>2 DEF Uploading, Shapes, WriteTouched
        <3> QED BY <2>1, <3>1 DEF Alone, UploadInv, Uploading
    <2>7. EmulatorInv(e)'
        <3>1. ASSUME NEW c \in Browsers, Undisturbed(c, e)'
              PROVE  Receiving(c, e)' /\ Placed(c, e)'
            <4>1. c = b /\ Undisturbed(b, e)
                BY <1>1, <1>2, <2>1, <3>1, OneBrowser, PortsPositive DEF Undisturbed
            <4>2. Pristine(e)
                BY <1>1, <1>2, <4>1 DEF UploadInv, EmulatorInv, Receiving, Received, Shapes
            <4>3. size[b] \in Nat /\ n \in Nat /\ n <= size[b] /\ offset'[b] = n
                BY <1>2, <2>1 DEF Shapes
            <4>4. HeaderSize(size[b]) = size[b]
                <5>1. size[b] < SizeLimit /\ SizeLimit \in Nat \ {0}
                    BY <4>1, <4>3, UploadAssumption DEF Undisturbed
                <5> QED BY <4>3, <5>1, SmallMod DEF HeaderSize
            <4>5. SubSeq(File(b), 1, 0) = <<>>
                BY SubSeqEmpty
            <4>6. ASSUME opened \/ n = 0
                  PROVE  Written(b, e, 0, n)
                <5> PICK i \in Nat : i = 0
                    OBVIOUS
                <5>1. NextBytes(b, n) = SubSeq(File(b), i + 1, i + n)
                    BY <1>1, <4>3 DEF NextBytes
                <5>2. Write(e, opened, i, size[b], SubSeq(File(b), 1, i),
                            SubSeq(File(b), i + 1, i + n))
                    BY <2>1, <4>4, <4>5, <5>1
                <5>3. Shapes /\ n \in Nat /\ (i < size[b] \/ n = 0) /\ i + n <= size[b]
                    BY <1>2, <4>3
                <5>4. Written(b, e, i, n)
                    BY ONLY b \in Browsers, e \in Ports, opened \in BOOLEAN, i \in Nat,
                            <4>6, <5>2, <5>3, Writes, Zenon
                <5> QED BY <5>4
            <4>7. SubSeq(File(b), 1, size[b]) = File(b)
                BY <4>3, FileIsSeq, SubSeqFull
            <4>8. File(b)' = File(b) /\ FileSize'[e] = size[b]
                BY <1>1, <1>2, <4>4 DEF File, Shapes
            <4>9. Receiving(b, e)'
                <5>1. upload_in_progress'[e]
                    BY <1>2, <2>1 DEF Shapes
                <5>2. CASE opened \/ n = 0
                    <6>1. n # size[b] => n < size[b]
                        BY <4>3
                    <6>2. /\ uploaded_bytes'[e] = n /\ unflushed'[e] = SubSeq(File(b), 1, n)
                          /\ at_web'[e] = IF n # 0 /\ n = size[b] THEN "close" ELSE "idle"
                        <7>1. 0 + n = n
                            BY <4>3
                        <7> QED BY <4>6, <5>2, <7>1 DEF Written
                    <6> QED BY <1>1, <4>2, <4>3, <4>7, <4>8, <5>1, <6>1, <6>2
                            DEF Receiving, Pristine
                <5>3. CASE ~opened /\ n # 0
                    <6>1. NextBytes(b, n) # <<>>
                        BY <1>1, <1>2, <4>3, <5>3, NextBytesAre, EmptySeq
                    <6>2. process'[e] = "ended" /\ at_web'[e] = "idle"
                        BY <2>2, <5>3, <6>1 DEF WriteTouched
                    <6> QED BY <1>1, <4>2, <4>8, <5>1, <6>2 DEF Receiving, Pristine
                <5> QED BY <5>2, <5>3
            <4>10. Placed(b, e)'
                <5>1. fp'[e] => UploadFileName'[e] = name /\ files'[name] = <<>>
                    BY <1>2, <2>1 DEF Shapes
                <5> QED BY <1>1, <2>2, <4>2, <5>1 DEF Placed, Pristine, WriteTouched
            <4> QED BY <4>1, <4>9, <4>10
        <3>2. upload_in_progress'[e] /\ fp'[e] = opened
            BY <1>2, <2>1 DEF Shapes
        <3>3. ~opened => unflushed'[e] = <<>>
            BY <2>2, NoBytes DEF WriteTouched
        <3> QED BY <1>1, <2>2, <3>1, <3>2, <3>3 DEF EmulatorInv, WriteTouched
    <2> QED BY <2>3, <2>4, <2>5, <2>6, <2>7, OneEmulator
<1> QED BY <1>3, <1>4

LEMMA CloseFileStep ==
    ASSUME UploadInv, NEW e \in Ports, CloseFile(e), UNCHANGED told
    PROVE  UploadInv'
<1>1. /\ process[e] = "listening" /\ at_web[e] = "close" /\ files' = Flushed(e)
      /\ fp' = [fp EXCEPT ![e] = FALSE] /\ unflushed' = [unflushed EXCEPT ![e] = <<>>]
      /\ at_web' = [at_web EXCEPT ![e] = "objcopy"]
      /\ UNCHANGED <<upload_in_progress, web_firmware_uploaded, tmp_bin, process, ready, at_main,
                     FileSize, uploaded_bytes, UploadFileName, loaded, joined, size, offset,
                     disturbed, unconverted>>
    BY DEF CloseFile, UnchangedByEnd
<1>2. Shapes /\ upload_in_progress[e] /\ fp[e] /\ e \in Uploading /\ JoinedInv
    BY <1>1 DEF UploadInv, EmulatorInv, Uploading
<1>3. Shapes'
    BY <1>1, <1>2 DEF Shapes, Flushed
<1>4. StepOf(e)
    BY <1>1, <1>2 DEF StepOf, Untouched, Shapes, UploadInv, Alone
<1>5. JoinedInv'
    BY <1>1, <1>2, SameJoined
<1>6. Alone'
    <2>1. Uploading' \subseteq Uploading
        BY <1>1 DEF Uploading
    <2> QED BY <1>1, <2>1, StillAlone DEF UploadInv
<1>7. EmulatorInv(e)'
    <2>1. ASSUME NEW b \in Browsers, Undisturbed(b, e)'
          PROVE  Receiving(b, e)' /\ Placed(b, e)'
        <3>1. Undisturbed(b, e) /\ File(b)' = File(b)
            BY <1>1, <2>1 DEF Undisturbed, File
        <3>2. Receiving(b, e) /\ Placed(b, e)
            BY <1>1, <1>2, <3>1 DEF UploadInv, EmulatorInv, Pristine, Received
        <3>3. unflushed[e] = File(b) /\ UploadFileName[e] \in Names
              /\ files[UploadFileName[e]] = <<>>
            BY <1>1, <1>2, <3>2 DEF Receiving, Placed
        <3>4. File(b) \in Seq(Browsers \X Nat) /\ Len(File(b)) = size[b] /\ size[b] \in Nat \ {0}
            BY <1>1, <1>2, <3>2, FileIsSeq DEF Shapes, Receiving
        <3>5. File(b) # <<>>
            BY <3>4, EmptySeq
        <3>6. SubSeq(<<>>, size[b] + 1, 0) = <<>>
            BY <3>4, SubSeqEmpty
        <3>7. files'[UploadFileName[e]] = File(b)
            <4>1. files'[UploadFileName[e]] = File(b) \o SubSeq(<<>>, Len(File(b)) + 1, Len(<<>>))
                BY <1>1, <1>2, <3>3, <3>5 DEF Flushed, Shapes
            <4> QED BY <3>4, <3>6, <4>1, ConcatEmptySeq, EmptySeq
        <3>8. Receiving(b, e)'
            BY <1>1, <1>2, <3>1, <3>2 DEF Receiving, Shapes
        <3>9. Placed(b, e)'
            BY <1>1, <1>2, <3>1, <3>2, <3>7 DEF Placed, Receiving, Shapes
        <3> QED BY <3>8, <3>9
    <2>2. at_web'[e] = "objcopy" /\ unflushed'[e] = <<>> /\ ~fp'[e]
        BY <1>1, <1>2 DEF Shapes
    <2> QED BY <1>1, <1>2, <2>1, <2>2 DEF UploadInv, EmulatorInv, Pristine
<1> QED BY <1>3, <1>4, <1>5, <1>6, <1>7, OneEmulator

LEMMA ObjCopyStep ==
    ASSUME UploadInv, NEW e \in Ports, ObjCopy(e), UNCHANGED told
    PROVE  UploadInv'
<1> DEFINE whole == {b \in Browsers : File(b) # <<>> /\ files[UploadFileName[e]] = File(b)}
<1>1. /\ process[e] = "listening" /\ at_web[e] = "objcopy"
      /\ unconverted' = [unconverted EXCEPT ![e] = @ \/ tmp_bin' \notin whole]
      /\ at_web' = [at_web EXCEPT ![e] = "flag"]
      /\ UNCHANGED <<upload_in_progress, web_firmware_uploaded, files, fp, unflushed, process, ready,
                     at_main, FileSize, uploaded_bytes, UploadFileName, loaded, joined, size,
                     offset, disturbed>>
    BY DEF ObjCopy, UnchangedByEnd
<1>2. Shapes /\ upload_in_progress[e] /\ e \in Uploading /\ JoinedInv
    BY <1>1 DEF UploadInv, EmulatorInv, Uploading
<1>3. Shapes'
    BY <1>1, <1>2 DEF Shapes
<1>4. StepOf(e)
    BY <1>1, <1>2 DEF StepOf, Untouched, Shapes, UploadInv, Alone
<1>5. JoinedInv'
    BY <1>1, <1>2, SameJoined
<1>6. Alone'
    <2>1. Uploading' \subseteq Uploading
        BY <1>1 DEF Uploading
    <2> QED BY <1>1, <2>1, StillAlone DEF UploadInv
<1>7. EmulatorInv(e)'
    <2>1. ASSUME NEW b \in Browsers, Undisturbed(b, e)'
          PROVE  Receiving(b, e)' /\ Placed(b, e)'
        <3>1. Undisturbed(b, e) /\ File(b)' = File(b)
            BY <1>1, <2>1 DEF Undisturbed, File
        <3>2. Receiving(b, e) /\ Placed(b, e)
            BY <1>1, <1>2, <3>1 DEF UploadInv, EmulatorInv, Pristine, Received
        <3>3. \A c \in Browsers : File(c) = File(b) => c = b
            <4>1. size[b] \in Nat /\ size[b] # 0
                BY <1>1, <1>2, <3>2 DEF Receiving, Shapes
            <4>2. 1 \in DOMAIN File(b) /\ File(b)[1] = <<b, 1>>
                BY <4>1 DEF File
            <4>3. \A c \in Browsers : 1 \in DOMAIN File(c) => File(c)[1] = <<c, 1>>
                BY DEF File
            <4> QED BY <4>2, <4>3
        <3>4. whole \subseteq {b}
            BY <1>1, <3>2, <3>3 DEF Placed
        <3>5. tmp_bin' = b \/ unconverted'[e]
            BY <1>1, <1>2, <3>4 DEF Shapes
        <3>6. Receiving(b, e)'
            BY <1>1, <1>2, <3>1, <3>2 DEF Receiving, Shapes
        <3>7. Placed(b, e)'
            BY <1>1, <1>2, <3>2, <3>5 DEF Placed, Shapes
        <3> QED BY <3>6, <3>7
    <2>2. at_web'[e] = "flag"
        BY <1>1, <1>2 DEF Shapes
    <2> QED BY <1>1, <1>2, <2>1, <2>2 DEF UploadInv, EmulatorInv, Pristine
<1> QED BY <1>3, <1>4, <1>5, <1>6, <1>7, OneEmulator

LEMMA SetFlagsStep ==
    ASSUME UploadInv, NEW e \in Ports, SetFlags(e), UNCHANGED told
    PROVE  UploadInv'
<1>1. /\ process[e] = "listening" /\ at_web[e] = "flag"
      /\ web_firmware_uploaded' = [web_firmware_uploaded EXCEPT ![e] = TRUE]
      /\ upload_in_progress' = [upload_in_progress EXCEPT ![e] = FALSE]
      /\ at_web' = [at_web EXCEPT ![e] = "idle"]
      /\ UNCHANGED <<fp, unflushed, files, tmp_bin, process, ready, at_main, FileSize,
                     uploaded_bytes, UploadFileName, loaded, joined, size, offset, disturbed,
                     unconverted>>
    BY DEF SetFlags, UnchangedByEnd, fileVars
<1>2. Shapes /\ upload_in_progress[e] /\ ~fp[e] /\ JoinedInv
    BY <1>1 DEF UploadInv, EmulatorInv
<1>3. Shapes'
    BY <1>1, <1>2 DEF Shapes
<1>4. StepOf(e)
    BY <1>1, <1>2 DEF StepOf, Untouched, Shapes
<1>5. JoinedInv'
    BY <1>1, <1>2, SameJoined
<1>6. Alone'
    <2>1. Uploading' \subseteq Uploading
        BY <1>1, <1>2 DEF Uploading, Shapes
    <2> QED BY <1>1, <2>1, StillAlone DEF UploadInv
<1>7. EmulatorInv(e)'
    <2>1. ASSUME NEW b \in Browsers, Undisturbed(b, e)'
          PROVE  Received(b, e)' /\ Placed(b, e)'
        <3>1. Undisturbed(b, e)
            BY <1>1, <2>1 DEF Undisturbed
        <3>2. Receiving(b, e) /\ Placed(b, e)
            BY <1>1, <1>2, <3>1 DEF UploadInv, EmulatorInv, Pristine, Received
        <3> QED BY <1>1, <1>2, <3>2 DEF Receiving, Received, Placed, Shapes
    <2>2. at_web'[e] = "idle"
        BY <1>1, <1>2 DEF Shapes
    <2> QED BY <1>1, <1>2, <2>1, <2>2 DEF UploadInv, EmulatorInv, Pristine
<1> QED BY <1>3, <1>4, <1>5, <1>6, <1>7, OneEmulator

LEMMA ListenStep ==
    ASSUME UploadInv, NEW e \in Ports, Listen(e), UNCHANGED told
    PROVE  UploadInv'
<1>1. /\ process[e] = "starting"
      /\ \E s \in {"listening", "ended"} : process' = [process EXCEPT ![e] = s]
      /\ UNCHANGED <<ready, at_main, webVars, web_firmware_uploaded, loaded, files, tmp_bin,
                     joined, size, offset, disturbed, unconverted>>
    BY DEF Listen, fileVars
<1>2. Shapes /\ JoinedInv /\ \A b \in Browsers : joined[b] # e
    BY <1>1 DEF UploadInv, JoinedInv
<1>3. Pristine(e) /\ Pristine(e)'
    BY <1>1, <1>2 DEF UploadInv, EmulatorInv, Pristine, webVars
<1>4. Shapes'
    BY <1>1, <1>2 DEF Shapes, States, webVars
<1>5. StepOf(e)
    BY <1>1, <1>2 DEF StepOf, Untouched, Shapes, webVars
<1>6. JoinedInv'
    BY <1>1, <1>2, SameJoined DEF Shapes
<1>7. Alone'
    <2>1. Uploading' \subseteq Uploading
        BY <1>1, <1>2, <1>3 DEF Uploading, webVars, Shapes, Pristine
    <2> QED BY <1>1, <2>1, StillAlone DEF UploadInv
<1>8. EmulatorInv(e)'
    BY <1>1, <1>2, <1>3 DEF EmulatorInv, Pristine, Undisturbed
<1> QED BY <1>4, <1>5, <1>6, <1>7, <1>8, OneEmulator

LEMMA MainStep ==
    ASSUME UploadInv, NEW e \in Ports, main(e), UNCHANGED told
    PROVE  UploadInv'
<1>1. /\ process[e] = "listening" /\ Shapes /\ JoinedInv
      /\ UNCHANGED <<ready, at_web, upload_in_progress, FileSize, uploaded_bytes, UploadFileName,
                     fp, unflushed, web_firmware_uploaded, tmp_bin, joined, size, offset, disturbed,
                     unconverted>>
    BY DEF main, AwaitReady, AwaitFirmware, load_firmware, MainAt, webVars, UploadInv
<1>2. /\ \A f \in Ports : f # e => at_main'[f] = at_main[f] /\ process'[f] = process[f]
                                   /\ loaded'[f] = loaded[f]
      /\ at_main[e] # "running"
      /\ at_main' \in [Ports -> {"await_ready", "await_firmware", "load", "running"}]
      /\ process' \in [Ports -> States] /\ process'[e] \in {"listening", "ended"}
      /\ DOMAIN loaded' = Ports
    BY <1>1 DEF main, AwaitReady, AwaitFirmware, load_firmware, MainAt, Exit, Shapes, States
<1>3. /\ DOMAIN files' = Names
      /\ UNCHANGED files \/ \A f \in Uploading : f # e => disturbed[f]
    <2>1. CASE Exit(e) BY <1>1, <2>1, ExitFlushes
    <2>2. CASE UNCHANGED files BY <1>1, <2>2 DEF Shapes
    <2> QED BY <2>1, <2>2 DEF main, load_firmware
<1>4. Shapes'
    BY <1>1, <1>2, <1>3 DEF Shapes
<1>5. StepOf(e)
    BY <1>1, <1>2, <1>3 DEF StepOf, Untouched
<1>6. JoinedInv'
    BY <1>1, <1>2, SameJoined
<1>7. Alone'
    <2>1. Uploading' \subseteq Uploading
        BY <1>1, <1>2 DEF Uploading
    <2> QED BY <1>1, <2>1, StillAlone DEF UploadInv
<1>8. EmulatorInv(e)'
    <2>1. CASE AwaitReady(e) /\ UNCHANGED <<process, loaded, files>>
        <3>1. at_main[e] = "await_ready" /\ at_main'[e] = "await_firmware"
            BY <1>1, <2>1 DEF AwaitReady, MainAt, Shapes
        <3> QED BY <1>1, <2>1, <3>1, ZenonT(60) DEF UploadInv, EmulatorInv, Pristine, Receiving, Received,
                Placed, Undisturbed, File
    <2>2. CASE AwaitFirmware(e) /\ UNCHANGED <<process, loaded, files>>
        <3>1. at_main[e] = "await_firmware" /\ at_main'[e] = "load" /\ web_firmware_uploaded[e]
            BY <1>1, <2>2 DEF AwaitFirmware, MainAt, Shapes
        <3> QED BY <1>1, <2>2, <3>1 DEF UploadInv, EmulatorInv, Pristine, Receiving, Received,
                Placed, Undisturbed, File
    <2>3. CASE load_firmware(e)
        <3>1. at_main[e] = "load" /\ at_main'[e] = "running"
            BY <1>1, <2>3 DEF load_firmware, MainAt, Shapes
        <3>2. loaded'[e] \in {loaded[e], tmp_bin}
            BY <1>1, <2>3 DEF load_firmware, Shapes
        <3>3. ASSUME NEW b \in Browsers, Undisturbed(b, e)'
              PROVE  Received(b, e)' /\ Placed(b, e)'
            <4>1. Undisturbed(b, e)
                BY <1>1, <3>3 DEF Undisturbed
            <4>2. Received(b, e) /\ Placed(b, e)
                BY <1>1, <3>1, <4>1 DEF UploadInv, EmulatorInv, Pristine, Receiving
            <4>3. tmp_bin = b \/ unconverted[e]
                BY <3>1, <4>2 DEF Received, Placed
            <4>4. ~unconverted[e] => loaded'[e] \in {NOFILE, b}
                BY <3>1, <3>2, <4>2, <4>3 DEF Received
            <4>5. Received(b, e)'
                BY <1>1, <3>1, <4>2, <4>4 DEF Received
            <4>6. ~fp[e]
                BY <4>2 DEF Received, UploadInv, EmulatorInv
            <4>7. Placed(b, e)'
                BY <1>1, <3>1, <4>2, <4>6 DEF Placed, Received
            <4> QED BY <4>5, <4>7
        <3>4. ~(\A b \in Browsers : joined[b] # e)
            BY <3>1 DEF UploadInv, EmulatorInv, Pristine
        <3> QED BY <1>1, <3>3, <3>4 DEF UploadInv, EmulatorInv
    <2> QED BY <2>1, <2>2, <2>3 DEF main
<1> QED BY <1>4, <1>5, <1>6, <1>7, <1>8, OneEmulator

LEMMA JoinStep ==
    ASSUME SpawnerInv, UploadInv, NEW b \in Browsers, NEW e \in told[b], Join(b, e),
           UNCHANGED told
    PROVE  UploadInv'
<1>1. /\ joined[b] = 0 /\ process[e] = "listening" /\ joined' = [joined EXCEPT ![b] = e]
      /\ UNCHANGED <<process, at_main, webVars, web_firmware_uploaded, loaded, files, tmp_bin,
                     size, offset, disturbed, unconverted>>
    BY DEF Join, fileVars
<1>2. Shapes /\ JoinedInv /\ \A c \in Browsers : joined[c] # e \/ e \notin Ports
    <2>1. \A c \in Browsers : joined[c] = e => c = b \/ e = 0
        BY DEF UploadInv, JoinedInv, SpawnerInv, PortToldOnce
    <2> QED BY <1>1, <2>1, PortsPositive DEF UploadInv
<1>3. Shapes'
    BY <1>1, <1>2 DEF Shapes, webVars
<1>4. JoinedInv'
    BY <1>1, <1>2 DEF JoinedInv, Shapes
<1>5. Alone'
    <2>1. Uploading' \subseteq Uploading
        BY <1>1 DEF Uploading, webVars
    <2> QED BY <1>1, <2>1, StillAlone DEF UploadInv
<1>6. \A f \in Ports : f # e => EmulatorInv(f)'
    <2> SUFFICES ASSUME NEW f \in Ports, f # e PROVE EmulatorInv(f)'
        OBVIOUS
    <2>1. \A c \in Browsers : joined'[c] = f <=> joined[c] = f
        BY <1>1, <1>2, PortsPositive DEF Shapes
    <2> QED BY <1>1, <2>1, Bystander DEF UploadInv, Untouched, webVars
<1>7. e \in Ports => EmulatorInv(e)'
    <2> SUFFICES ASSUME e \in Ports PROVE EmulatorInv(e)'
        OBVIOUS
    <2>1. Pristine(e) /\ Pristine(e)'
        BY <1>1, <1>2 DEF UploadInv, EmulatorInv, Pristine, webVars
    <2>2. \A c \in Browsers : joined'[c] = e => offset'[c] = 0
        BY <1>1, <1>2 DEF Shapes, JoinedInv
    <2> QED BY <2>1, <2>2 DEF EmulatorInv, Pristine, Undisturbed, Placed
<1> QED BY <1>3, <1>4, <1>5, <1>6, <1>7 DEF UploadInv

LEMMA StartStep ==
    ASSUME UploadInv, NEW e, NEW forked \in BOOLEAN, Start(e, forked),
           \A b \in Browsers : told[b] \subseteq told'[b]
    PROVE  UploadInv'
<1>1. /\ process[e] \in {"none", "failed"}
      /\ process' = [process EXCEPT ![e] = IF forked THEN "starting" ELSE "failed"]
      /\ UNCHANGED <<at_main, webVars, web_firmware_uploaded, loaded, files, tmp_bin, joined,
                     size, offset, disturbed, unconverted>>
    BY DEF Start, fileVars
<1>2. Shapes /\ JoinedInv
    BY DEF UploadInv
<1>3. /\ process' \in [Ports -> States]
      /\ \A f \in Ports : f # e => process'[f] = process[f]
      /\ e \in Ports => process'[e] \in {"starting", "failed"}
    BY <1>1, <1>2 DEF Shapes, States
<1>4. Shapes'
    BY <1>1, <1>2, <1>3 DEF Shapes, webVars
<1>5. JoinedInv'
    BY <1>1, <1>2, <1>3 DEF JoinedInv
<1>6. Alone'
    <2>1. Uploading' \subseteq Uploading
        BY <1>1, <1>3 DEF Uploading, webVars
    <2> QED BY <1>1, <2>1, StillAlone DEF UploadInv
<1>7. \A f \in Ports : f # e => EmulatorInv(f)'
    BY <1>1, <1>3, Bystander DEF UploadInv, Untouched, webVars
<1>8. e \in Ports => EmulatorInv(e)'
    <2>1. e \in Ports => Pristine(e) /\ Pristine(e)' /\ \A b \in Browsers : joined[b] # e
        BY <1>1, <1>2 DEF UploadInv, EmulatorInv, JoinedInv, Pristine, webVars
    <2> QED BY <1>1, <2>1 DEF EmulatorInv, Pristine, Undisturbed
<1> QED BY <1>4, <1>5, <1>6, <1>7, <1>8 DEF UploadInv

LEMMA UploadStep == SpawnerInv /\ UploadInv /\ [Next]_vars => UploadInv'
<1> SUFFICES ASSUME SpawnerInv, UploadInv, [Next]_vars PROVE UploadInv'
    OBVIOUS
<1>1. ASSUME UNCHANGED uploadVars, UNCHANGED told PROVE UploadInv'
    <2>1. UNCHANGED <<process, at_main, webVars, web_firmware_uploaded, loaded, files, tmp_bin,
                      joined, size, offset, disturbed, unconverted, told>>
        BY <1>1 DEF uploadVars, fileVars
    <2>2. Shapes' /\ JoinedInv' /\ Alone'
        BY <2>1 DEF UploadInv, Shapes, JoinedInv, Alone, Uploading, webVars
    <2>3. \A f \in Ports : EmulatorInv(f)'
        BY <2>1, Bystander DEF UploadInv, Untouched, webVars
    <2> QED BY <2>2, <2>3 DEF UploadInv
<1>2. ASSUME NEW b \in Browsers, SpawnerWriteable(b) PROVE UploadInv'
    <2>1. PICK forked \in BOOLEAN : Writeable(b, forked) /\ Start(new_ws_port, forked)
        BY <1>2 DEF SpawnerWriteable
    <2>2. \A c \in Browsers : told[c] \subseteq told'[c]
        BY <2>1 DEF Writeable, WebSend, SpawnerInv
    <2> QED BY <2>1, <2>2, StartStep
<1>3. ASSUME NEW b \in Browsers, BrowserJoins(b) PROVE UploadInv'
    BY <1>3, JoinStep DEF BrowserJoins, spawnerVars
<1>4. ASSUME NEW b \in Browsers, BrowserUploads(b) PROVE UploadInv'
    <2>1. PICK e \in Ports, n \in 0..size[b] :
              \/ \E name \in Names, opened \in BOOLEAN : UploadFile(b, e, name, n, opened)
              \/ Chunk(b, e, n)
        BY <1>4 DEF BrowserUploads
    <2>2. told' = told /\ n \in Nat
        BY <1>4 DEF BrowserUploads, spawnerVars, UploadInv, Shapes
    <2> QED BY <2>1, <2>2, UploadFileStep, ChunkStep
<1>5. ASSUME NEW b \in Browsers, BrowserCommands(b) PROVE UploadInv'
    BY <1>5, CommandStep DEF BrowserCommands, spawnerVars
<1>6. ASSUME NEW b \in Browsers, BrowserCloses(b) PROVE UploadInv'
    BY <1>6, CloseStep DEF BrowserCloses, spawnerVars
<1>7. ASSUME NEW e \in Ports, WebThread(e) PROVE UploadInv'
    BY <1>7, ListenStep, CloseFileStep, ObjCopyStep, SetFlagsStep
       DEF WebThread, FileEnds, spawnerVars
<1>8. ASSUME NEW e \in Ports, MainThread(e) PROVE UploadInv'
    BY <1>8, MainStep DEF MainThread, spawnerVars
<1>9. ASSUME NEW b \in Browsers, SpawnerHttp(b) \/ SpawnerEstablished(b) \/ BrowserLeaves(b)
      PROVE  UploadInv'
    BY <1>1, <1>9 DEF SpawnerHttp, SpawnerEstablished, BrowserLeaves, Open, Event, Destroy,
        UnchangedByHttp, Established
<1>10. CASE UNCHANGED vars
    BY <1>1, <1>10 DEF vars, spawnerVars
<1> QED BY <1>2, <1>3, <1>4, <1>5, <1>6, <1>7, <1>8, <1>9, <1>10 DEF Next

LEMMA SafetyUpload == Spec => []UploadInv
<1>1. Init => UploadInv
    BY PortsPositive, UploadAssumption
       DEF Init, UploadInit, UploadInv, Shapes, States, JoinedInv, Alone, Uploading, EmulatorInv,
           Pristine, Undisturbed
<1> QED BY <1>1, SafetySpawner, UploadStep, PTL DEF Spec

(* However a file that is not empty is cut into messages, its end is met   *)
(* with its last byte, and all of it has been written then                 *)
(* (emu_server.cpp:324-403).                                               *)
THEOREM UploadsWhole == Spec => []UploadWhole
<1>1. UploadInv => UploadWhole
    BY DEF UploadInv, EmulatorInv, UploadWhole, Pristine, Receiving, Received
<1> QED BY <1>1, SafetyUpload, PTL

(* However many emulators share the directory, one whose upload nothing    *)
(* disturbs loads the firmware of its own browser or none, as long as      *)
(* objcopy, whose result is not looked at, converts what it has uploaded   *)
(* (emu_server.cpp:340, 397).                                              *)
THEOREM FirmwareIsOwn == Spec => []OwnFirmware
<1>1. UploadInv => OwnFirmware
    BY DEF UploadInv, EmulatorInv, OwnFirmware, Pristine, Receiving, Received
<1> QED BY <1>1, SafetyUpload, PTL

-----------------------------------------------------------------------------
(* Types                                                                   *)

AllServed == {b \in Browsers : Served(b)}

\* Every browser is served once, so that there are ports enough.
SpawnerTypes == SpawnerTypeOK /\ new_ws_port = Cardinality(AllServed) + 1

LEMMA ServedAre ==
    /\ IsFiniteSet(AllServed) /\ Cardinality(AllServed) \in Nat
    /\ Cardinality(Browsers) \in Nat
    /\ \A b \in Browsers \ AllServed : Cardinality(AllServed) + 1 <= Cardinality(Browsers)
<1>1. IsFiniteSet(Browsers) /\ AllServed \in SUBSET Browsers
    BY SpawnerAssumption DEF AllServed
<1>2. IsFiniteSet(AllServed) /\ Cardinality(AllServed) <= Cardinality(Browsers)
      /\ (Cardinality(Browsers) = Cardinality(AllServed) => Browsers = AllServed)
    BY <1>1, FS_Subset
<1>3. Cardinality(AllServed) \in Nat /\ Cardinality(Browsers) \in Nat
    BY <1>1, <1>2, FS_CardinalityType
<1> QED BY <1>2, <1>3

\* A step that serves nobody.
LEMMA NotServing ==
    ASSUME SpawnerTypes, UNCHANGED <<new_ws_port, told, own>>, up' \in BOOLEAN,
           ws' \in Browsers \cup {NONE}, crossed' \in [Browsers -> BOOLEAN],
           link' \in [Browsers -> {"new", "http", "established", "served", "closed", "gone"}],
           \A b \in Browsers : Served(b)' <=> Served(b)
    PROVE  SpawnerTypes'
<1>1. AllServed' = AllServed
    BY DEF AllServed
<1> QED BY <1>1 DEF SpawnerTypes, SpawnerTypeOK

LEMMA HttpTypes ==
    ASSUME SpawnerTypes, NEW b \in Browsers, callback_http(b)
    PROVE  ws' \in Browsers \cup {NONE} /\ crossed' \in [Browsers -> BOOLEAN]
BY DEF callback_http, Crosses, SpawnerTypes, SpawnerTypeOK, Waiting

LEMMA SpawnerTypesStep ==
    ASSUME SpawnerTypes, [Next]_vars
    PROVE  SpawnerTypes'
<1> USE DEF SpawnerTypes, SpawnerTypeOK
<1>1. ASSUME UNCHANGED spawnerVars PROVE SpawnerTypes'
    BY <1>1 DEF spawnerVars, AllServed, Served
<1>2. ASSUME NEW b \in Browsers, Open(b) PROVE SpawnerTypes'
    <2>1. /\ link' \in [Browsers -> {"new", "http", "established", "served", "closed", "gone"}]
          /\ \A c \in Browsers : Served(c)' <=> Served(c)
        BY <1>2 DEF Open, Moves, Served
    <2> QED BY <1>2, <2>1, HttpTypes, NotServing DEF Open, UnchangedByHttp
<1>3. ASSUME NEW b \in Browsers, Event(b) PROVE SpawnerTypes'
    <2>1. link' = link /\ \A c \in Browsers : Served(c)' <=> Served(c)
        BY <1>3 DEF Event, Served
    <2> QED BY <1>3, <2>1, HttpTypes, NotServing DEF Event, UnchangedByHttp
<1>4. ASSUME NEW b \in Browsers, Destroy(b) PROVE SpawnerTypes'
    <2>1. /\ link' \in [Browsers -> {"new", "http", "established", "served", "closed", "gone"}]
          /\ \A c \in Browsers : Served(c)' <=> Served(c)
        BY <1>4 DEF Destroy, Moves, Served
    <2> QED BY <1>4, <2>1, HttpTypes, NotServing DEF Destroy, UnchangedByHttp
<1>5. ASSUME NEW b \in Browsers, Established(b) PROVE SpawnerTypes'
    <2>1. /\ link' \in [Browsers -> {"new", "http", "established", "served", "closed", "gone"}]
          /\ \A c \in Browsers : Served(c)' <=> Served(c)
        BY <1>5 DEF Established, Moves, Served
    <2> QED BY <1>5, <2>1, NotServing DEF Established
<1>6. ASSUME NEW b \in Browsers, NEW forked \in BOOLEAN, Writeable(b, forked)
      PROVE  SpawnerTypes'
    <2>1. b \notin AllServed /\ AllServed' = AllServed \cup {b}
        BY <1>6 DEF Writeable, Moves, AllServed, Served
    <2>2. Cardinality(AllServed') = Cardinality(AllServed) + 1
        BY <2>1, ServedAre, FS_AddElement
    <2>3. new_ws_port' = new_ws_port + 1 /\ new_ws_port \in 1..Cardinality(Browsers)
        BY <1>6, <2>1, ServedAre DEF Writeable
    <2>4. new_ws_port' \in 1..Cardinality(Browsers) + 1
          /\ new_ws_port' = Cardinality(AllServed') + 1
        BY <2>2, <2>3, ServedAre
    <2>5. /\ told' \in [Browsers -> SUBSET Ports] /\ own' \in [Browsers -> Ports \cup {0}]
          /\ up' \in BOOLEAN
        BY <1>6, <2>3 DEF Writeable, WebSend, Ports
    <2>6. link' \in [Browsers -> {"new", "http", "established", "served", "closed", "gone"}]
        BY <1>6 DEF Writeable, Moves
    <2> QED BY <1>6, <2>4, <2>5, <2>6 DEF Writeable
<1> QED BY <1>1, <1>2, <1>3, <1>4, <1>5, <1>6
        DEF Next, vars, SpawnerHttp, SpawnerEstablished, SpawnerWriteable, BrowserLeaves,
            BrowserJoins, BrowserUploads, BrowserCommands, BrowserCloses, WebThread, MainThread

\* Of an upload in progress the size is accepted and the end not met.
UploadsFit ==
    \A e \in Ports : upload_in_progress[e] =>
        /\ FileSize[e] <= SizeLimit - 2
        /\ at_web[e] = "idle" => uploaded_bytes[e] <= FileSize[e]

UploadTypes == UploadTypeOK /\ UploadsFit

\* The loop ends with the byte that meets the end, which a message of the file
\* or of a command overshoots by one byte at most.
LEMMA TakenFits ==
    ASSUME NEW count \in Nat, NEW expected \in Nat, count <= expected,
           NEW bytes, Len(bytes) \in Nat \ {0}
    PROVE  LET n == Taken(count, expected, bytes) IN
           /\ n \in Nat /\ count + n <= expected + 1
           /\ ~Met(count + n, expected) => count + n <= expected
<1> DEFINE ends == {i \in 1..Len(bytes) : count + i >= expected}
           n == Taken(count, expected, bytes)
           least == IF count = expected THEN 1 ELSE expected - count
<1>1. n = IF ends = {} THEN Len(bytes) ELSE CHOOSE i \in ends : \A j \in ends : i <= j
    BY DEF Taken, Met
<1>2. CASE ends = {}
    <2>1. n = Len(bytes) /\ ~(count + Len(bytes) >= expected)
        BY <1>1, <1>2
    <2> HIDE DEF n, ends
    <2> QED BY <2>1 DEF n, Met
<1>3. CASE ends # {}
    <2>1. least \in ends /\ \A j \in ends : least <= j
        BY <1>3
    <2>2. n \in ends /\ \A j \in ends : n <= j
        <3> HIDE DEF ends, least, n
        <3> QED BY <1>1, <1>3, <2>1
    <2>3. n \in Nat /\ n <= least /\ count + n >= expected
        BY <2>1, <2>2
    <2> HIDE DEF n, ends
    <2> QED BY <2>3 DEF n, Met
<1> QED BY <1>2, <1>3

LEMMA WriteFits ==
    ASSUME Shapes, NEW e \in Ports, NEW open \in BOOLEAN, NEW count \in Nat, NEW expected \in Nat,
           count <= expected, expected <= SizeLimit - 2,
           uploaded_bytes \in [Ports -> 0..SizeLimit - 1],
           NEW before, NEW bytes, bytes = <<>> \/ Len(bytes) \in Nat \ {0},
           Write(e, open, count, expected, before, bytes)
    PROVE  /\ uploaded_bytes' \in [Ports -> 0..SizeLimit - 1]
           /\ at_web'[e] = "idle" => uploaded_bytes'[e] <= expected
           /\ \A f \in Ports : f # e => /\ uploaded_bytes'[f] = uploaded_bytes[f]
                                        /\ at_web'[f] = at_web[f]
<1> DEFINE n == IF open THEN Taken(count, expected, bytes) ELSE 0
<1>0. SizeLimit \in Nat /\ at_web \in [Ports -> {"idle", "close", "objcopy", "flag"}]
    BY UploadAssumption DEF Shapes
<1>1. /\ n \in Nat /\ count + n <= expected + 1
      /\ n = 0 \/ ~Met(count + n, expected) => count + n <= expected
    <2>1. CASE open /\ bytes # <<>>
        <3>1. Len(bytes) \in Nat \ {0} /\ n = Taken(count, expected, bytes)
            BY <2>1
        <3>2. /\ n \in Nat /\ count + n <= expected + 1
              /\ ~Met(count + n, expected) => count + n <= expected
            <4> HIDE DEF n
            <4> QED BY <3>1, TakenFits
        <3> HIDE DEF n
        <3> QED BY <3>2
    <2>2. CASE open /\ bytes = <<>>
        <3>1. Len(bytes) = 0 /\ 1..Len(bytes) = {}
            BY <2>2, EmptySeq
        <3>2. Taken(count, expected, bytes) = 0
            BY <3>1 DEF Taken
        <3> QED BY <2>2, <3>2
    <2>3. CASE ~open
        BY <2>3
    <2> QED BY <2>1, <2>2, <2>3
<1>2. /\ uploaded_bytes' = [uploaded_bytes EXCEPT ![e] = count + n]
      /\ at_web' = [at_web EXCEPT ![e] =
                       IF n # 0 /\ Met(count + n, expected) THEN "close" ELSE "idle"]
    BY DEF Write
<1> HIDE DEF n
<1>3. count + n \in 0..SizeLimit - 1
    BY <1>0, <1>1
<1> QED BY <1>0, <1>1, <1>2, <1>3

LEMMA UploadTypesStep ==
    ASSUME SpawnerTypes, SpawnerTypes', UploadTypes, Shapes, Shapes', [Next]_vars
    PROVE  UploadTypes'
<1> USE DEF UploadTypes, UploadTypeOK, UploadsFit
<1> DEFINE Firmwares == Browsers \cup {STRAY, NOFILE}
           Rest == /\ ready' \in [Ports -> BOOLEAN]
                   /\ FileSize' \in [Ports -> 0..SizeLimit - 1]
                   /\ uploaded_bytes' \in [Ports -> 0..SizeLimit - 1]
                   /\ UploadFileName' \in [Ports -> Names \cup {NOFILE}]
                   /\ loaded' \in [Ports -> Firmwares]
                   /\ tmp_bin' \in Firmwares
                   /\ joined' \in [Browsers -> Ports \cup {0}]
                   /\ size' \in Sizes
                   /\ \A b \in Browsers : offset'[b] \in 0..size'[b]
<1>0. /\ offset \in [Browsers -> Nat] /\ size \in [Browsers -> Nat] /\ SizeLimit \in Nat \ {0}
      /\ at_web \in [Ports -> {"idle", "close", "objcopy", "flag"}]
      /\ upload_in_progress \in [Ports -> BOOLEAN]
    BY UploadAssumption DEF Shapes
<1>1. ASSUME Rest, UploadsFit' PROVE UploadTypes'
    BY <1>1 DEF Shapes
<1>2. ASSUME UNCHANGED <<FileSize, uploaded_bytes, upload_in_progress, at_web>>
      PROVE  UploadsFit'
    BY <1>2
<1>3. ASSUME UNCHANGED uploadVars PROVE UploadTypes'
    BY <1>1, <1>2, <1>3 DEF uploadVars, webVars, fileVars
<1>4. ASSUME NEW e, NEW forked \in BOOLEAN, Start(e, forked) PROVE UploadTypes'
    BY <1>1, <1>2, <1>4 DEF Start, webVars, fileVars
<1>5. ASSUME NEW b \in Browsers, BrowserJoins(b) PROVE UploadTypes'
    <2> PICK e \in told[b] : Join(b, e)
        BY <1>5 DEF BrowserJoins
    <2>1. e \in Ports
        BY DEF SpawnerTypes, SpawnerTypeOK
    <2> QED BY <1>1, <1>2, <2>1 DEF Join, webVars, fileVars
<1>6. ASSUME NEW b \in Browsers, NEW e \in Ports, NEW name \in Names, NEW n \in 0..size[b],
             NEW opened \in BOOLEAN, UploadFile(b, e, name, n, opened)
      PROVE  UploadTypes'
    <2>1. /\ at_web[e] = "idle" /\ offset[b] = 0
          /\ FileSize' = [FileSize EXCEPT ![e] = HeaderSize(size[b])]
          /\ UNCHANGED <<ready, loaded, tmp_bin, joined, size>>
        BY <1>6 DEF UploadFile, Connected
    <2>2. HeaderSize(size[b]) \in 0..SizeLimit - 1
        BY <1>0 DEF HeaderSize
    <2>3. FileSize' \in [Ports -> 0..SizeLimit - 1] /\ FileSize'[e] = HeaderSize(size[b])
          /\ \A f \in Ports : f # e => FileSize'[f] = FileSize[f]
        BY <2>1, <2>2
    <2>4. CASE HeaderSize(size[b]) >= SizeLimit - 1
        <3>1. UNCHANGED <<at_web, upload_in_progress, uploaded_bytes, UploadFileName, offset>>
            BY <1>6, <2>4 DEF UploadFile
        <3>2. ~upload_in_progress[e]
            BY <1>6 DEF UploadFile
        <3> QED BY <1>1, <2>1, <2>3, <3>1, <3>2
    <2>5. CASE ~(HeaderSize(size[b]) >= SizeLimit - 1)
        <3>1. /\ UploadFileName' = [UploadFileName EXCEPT ![e] = name]
              /\ upload_in_progress' = [upload_in_progress EXCEPT ![e] = TRUE]
              /\ Write(e, opened, 0, HeaderSize(size[b]), <<>>, NextBytes(b, n))
              /\ offset' = [offset EXCEPT ![b] = n]
            BY <1>6, <2>5 DEF UploadFile
        <3>2. HeaderSize(size[b]) <= SizeLimit - 2
            BY <1>0, <2>2, <2>5
        <3>3. NextBytes(b, n) = <<>> \/ Len(NextBytes(b, n)) \in Nat \ {0}
            BY <1>0, <2>1, NextBytesAre
        <3>4. /\ uploaded_bytes' \in [Ports -> 0..SizeLimit - 1]
              /\ at_web'[e] = "idle" => uploaded_bytes'[e] <= HeaderSize(size[b])
              /\ \A f \in Ports : f # e => /\ uploaded_bytes'[f] = uploaded_bytes[f]
                                           /\ at_web'[f] = at_web[f]
            BY <2>1, <2>2, <3>1, <3>2, <3>3, WriteFits, SMTT(60)
        <3>5. UploadsFit'
            BY <1>0, <2>3, <3>1, <3>2, <3>4
        <3>6. \A c \in Browsers : offset'[c] \in 0..size'[c]
            BY <1>0, <2>1, <3>1
        <3>7. UploadFileName' \in [Ports -> Names \cup {NOFILE}]
            BY <3>1
        <3> QED BY <1>1, <2>1, <2>3, <3>4, <3>5, <3>6, <3>7
    <2> QED BY <2>4, <2>5
<1>7. ASSUME NEW e \in Ports, NEW bytes, bytes = <<>> \/ Len(bytes) \in Nat \ {0},
             at_web[e] = "idle", upload_in_progress[e], Message(e, bytes),
             \A b \in Browsers : offset'[b] \in 0..size[b]
      PROVE  UploadTypes'
    <2>1. /\ Write(e, fp[e], uploaded_bytes[e], FileSize[e], unflushed[e], bytes) /\ fp[e] \in BOOLEAN
          /\ UNCHANGED <<ready, upload_in_progress, FileSize, UploadFileName, loaded, tmp_bin,
                         joined, size>>
        BY <1>7 DEF Message, fileVars, Shapes
    <2>2. /\ uploaded_bytes[e] \in Nat /\ FileSize[e] \in Nat
          /\ uploaded_bytes[e] <= FileSize[e] /\ FileSize[e] <= SizeLimit - 2
        BY <1>0, <1>7
    <2>3. /\ uploaded_bytes' \in [Ports -> 0..SizeLimit - 1]
          /\ at_web'[e] = "idle" => uploaded_bytes'[e] <= FileSize[e]
          /\ \A f \in Ports : f # e => /\ uploaded_bytes'[f] = uploaded_bytes[f]
                                       /\ at_web'[f] = at_web[f]
        BY <1>7, <2>1, <2>2, WriteFits
    <2>4. UploadsFit'
        BY <2>1, <2>2, <2>3
    <2> QED BY <1>1, <1>7, <2>1, <2>3, <2>4
<1>8. ASSUME NEW b \in Browsers, NEW e \in Ports, NEW n \in 0..size[b], Chunk(b, e, n)
      PROVE  UploadTypes'
    <2>1. /\ at_web[e] = "idle" /\ upload_in_progress[e] /\ n \in 1..(size[b] - offset[b])
          /\ Message(e, NextBytes(b, n)) /\ offset' = [offset EXCEPT ![b] = @ + n]
        BY <1>8 DEF Chunk, Connected
    <2>2. n \in Nat /\ offset[b] + n <= size[b] /\ offset[b] + n \in 0..size[b]
        BY <1>0, <2>1
    <2>3. \A c \in Browsers : offset'[c] \in 0..size[c]
        BY <1>0, <2>1, <2>2
    <2> QED BY <1>7, <2>1, <2>2, <2>3, NextBytesAre, SMTT(60)
<1>9. ASSUME NEW b \in Browsers, NEW e \in Ports, Command(b, e) PROVE UploadTypes'
    <2>1. /\ at_web[e] = "idle" /\ upload_in_progress[e] /\ Message(e, <<COMMAND>>)
          /\ offset' = offset
        BY <1>9 DEF Command, Connected
    <2>2. Len(<<COMMAND>>) \in Nat \ {0}
        OBVIOUS
    <2> QED BY <1>7, <2>1, <2>2
<1>10. ASSUME NEW b \in Browsers, NEW e \in Ports, Close(b, e) PROVE UploadTypes'
    BY <1>1, <1>2, <1>10 DEF Close, webVars
<1>11. ASSUME NEW e \in Ports, Listen(e) PROVE UploadTypes'
    BY <1>1, <1>2, <1>11 DEF Listen, webVars, fileVars
<1>12. ASSUME NEW e \in Ports, FileEnds(e) PROVE UploadTypes'
    <2>1. UNCHANGED <<ready, FileSize, uploaded_bytes, UploadFileName, loaded, joined, size, offset>>
        BY <1>12 DEF FileEnds, CloseFile, ObjCopy, SetFlags, UnchangedByEnd
    <2>2. CASE CloseFile(e)
        <3>1. tmp_bin' = tmp_bin /\ upload_in_progress' = upload_in_progress
              /\ at_web' = [at_web EXCEPT ![e] = "objcopy"]
            BY <2>2 DEF CloseFile
        <3>2. UploadsFit'
            BY <1>0, <2>1, <3>1
        <3> QED BY <1>1, <2>1, <3>1, <3>2
    <2>3. CASE ObjCopy(e)
        <3>1. tmp_bin' \in Firmwares
            BY <2>3 DEF ObjCopy
        <3>2. /\ upload_in_progress' = upload_in_progress
              /\ at_web' = [at_web EXCEPT ![e] = "flag"]
            BY <2>3 DEF ObjCopy
        <3>3. UploadsFit'
            BY <1>0, <2>1, <3>2
        <3> QED BY <1>1, <2>1, <3>1, <3>3
    <2>4. CASE SetFlags(e)
        <3>1. /\ tmp_bin' = tmp_bin
              /\ upload_in_progress' = [upload_in_progress EXCEPT ![e] = FALSE]
              /\ at_web' = [at_web EXCEPT ![e] = "idle"]
            BY <2>4 DEF SetFlags, fileVars
        <3>2. UploadsFit'
            BY <1>0, <2>1, <3>1
        <3> QED BY <1>1, <2>1, <3>1, <3>2
    <2> QED BY <1>12, <2>2, <2>3, <2>4 DEF FileEnds
<1>13. ASSUME NEW e \in Ports, main(e) PROVE UploadTypes'
    <2>1. /\ UNCHANGED <<ready, FileSize, uploaded_bytes, UploadFileName, upload_in_progress, at_web,
                         tmp_bin, joined, size, offset>>
          /\ loaded' = loaded \/ loaded' = [loaded EXCEPT ![e] = tmp_bin]
        BY <1>13 DEF main, load_firmware, webVars
    <2>2. loaded' \in [Ports -> Firmwares]
        BY <2>1
    <2> QED BY <1>1, <1>2, <2>1, <2>2
<1> QED BY <1>3, <1>4, <1>5, <1>6, <1>8, <1>9, <1>10, <1>11, <1>12, <1>13
        DEF Next, vars, SpawnerHttp, SpawnerEstablished, SpawnerWriteable, BrowserLeaves,
            BrowserUploads, BrowserCommands, BrowserCloses, WebThread, MainThread

(* Types, for any number of browsers and files of any size: there is a     *)
(* port for every browser, and the count of bytes received stays below     *)
(* 2^16 whatever commands are mixed into an upload.                        *)
THEOREM SessionTypes == Spec => []SessionTypeOK
<1>1. Init => SpawnerTypes
    <2> SUFFICES ASSUME Init PROVE SpawnerTypes
        OBVIOUS
    <2>1. AllServed = {}
        BY DEF Init, SpawnerInit, AllServed, Served
    <2>2. Cardinality(AllServed) = 0 /\ Cardinality(Browsers) \in Nat
        BY <2>1, FS_EmptySet, ServedAre
    <2> QED BY <2>2 DEF Init, SpawnerInit, SpawnerTypes, SpawnerTypeOK
<1>2. Init => UploadTypes
    BY UploadAssumption DEF Init, UploadInit, UploadTypes, UploadTypeOK, UploadsFit, States
<1>3. UploadInv => Shapes
    BY DEF UploadInv
<1>4. SpawnerTypes /\ UploadTypes => SessionTypeOK
    BY DEF SpawnerTypes, UploadTypes, SessionTypeOK
<1> QED BY <1>1, <1>2, <1>3, <1>4, SafetyUpload, SpawnerTypesStep, UploadTypesStep, PTL DEF Spec
=============================================================================
