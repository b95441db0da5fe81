------------------------------ MODULE Session ------------------------------
(***************************************************************************)
(* A browser's way to a running machine: it connects to the spawner, is    *)
(* told a port, connects to the emulator there, uploads its firmware, and  *)
(* the emulator loads it.  Several browsers do so at once.                 *)
(***************************************************************************)
EXTENDS Upload

vars == <<spawnerVars, uploadVars>>

Init == SpawnerInit /\ UploadInit

SpawnerHttp(b) == (Open(b) \/ Event(b)) /\ UNCHANGED uploadVars
SpawnerEstablished(b) == Established(b) /\ UNCHANGED uploadVars
SpawnerWriteable(b) ==
    \E forked \in BOOLEAN : Writeable(b, forked) /\ Start(new_ws_port, forked)
BrowserLeaves(b) == Destroy(b) /\ UNCHANGED uploadVars

\* The page connects to a port it has been told.
BrowserJoins(b) ==
    /\ \E e \in told[b] : Join(b, e)
    /\ UNCHANGED spawnerVars

BrowserUploads(b) ==
    /\ \E e \in Ports, n \in 0..size[b] :
           \/ \E name \in Names, opened \in BOOLEAN : UploadFile(b, e, name, n, opened)
           \/ Chunk(b, e, n)
    /\ UNCHANGED spawnerVars

BrowserCommands(b) == (\E e \in Ports : Command(b, e)) /\ UNCHANGED spawnerVars
BrowserCloses(b) == (\E e \in Ports : Close(b, e)) /\ UNCHANGED spawnerVars

WebThread(e) == (Listen(e) \/ FileEnds(e)) /\ UNCHANGED spawnerVars
MainThread(e) == main(e) /\ UNCHANGED spawnerVars

Next ==
    \/ \E b \in Browsers :
           \/ SpawnerHttp(b) \/ SpawnerEstablished(b) \/ SpawnerWriteable(b)
           \/ BrowserLeaves(b) \/ BrowserJoins(b) \/ BrowserUploads(b)
           \/ BrowserCommands(b) \/ BrowserCloses(b)
    \/ \E e \in Ports : WebThread(e) \/ MainThread(e)

\* The library serves every connection, and a browser that stays goes on.
Progress(b) ==
    SpawnerEstablished(b) \/ SpawnerWriteable(b) \/ BrowserJoins(b) \/ BrowserUploads(b)

Fairness ==
    /\ \A b \in Browsers : WF_vars(Progress(b))
    /\ \A e \in Ports : WF_vars(WebThread(e)) /\ WF_vars(MainThread(e))

Spec == Init /\ [][Next]_vars /\ Fairness

-----------------------------------------------------------------------------
SessionTypeOK == SpawnerTypeOK /\ UploadTypeOK

\* What a browser or the host may do that keeps its firmware from running.
GaveUp(b) ==
    \/ link[b] = "gone" \/ size[b] = 0 \/ size[b] >= SizeLimit - 1
    \/ ~up \/ crossed[b] \/ told[b] \ {own[b]} # {}
    \/ own[b] # 0 /\ \/ process[own[b]] \in {"failed", "ended"}
                     \/ disturbed[own[b]] \/ unconverted[own[b]]

(* A browser that connects and stays gets a machine that runs its          *)
(* firmware, unless the spawner or the emulator ends, the fork or objcopy  *)
(* fails, the file is empty or too big for the header, a callback_http of  *)
(* another connection to the spawner comes while it waits, or it while     *)
(* that one does, or its upload is disturbed.                              *)
FirmwareRuns ==
    \A b \in Browsers :
        link[b] = "http" ~> (GaveUp(b) \/ (own[b] # 0 /\ loaded[own[b]] = b))
=============================================================================
