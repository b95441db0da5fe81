------------------------------ MODULE Spawner ------------------------------
(***************************************************************************)
(* The spawner (server.c): a process of one thread that starts an emulator *)
(* for each connection and tells the browser its port.  An action is one   *)
(* callback of the websocket library; the library calls those of several   *)
(* connections in any order.                                               *)
(*                                                                         *)
(* A port is its distance from 9000, the spawner's own.                    *)
(***************************************************************************)
EXTENDS Naturals, FiniteSets

CONSTANTS Browsers, NONE
ASSUME SpawnerAssumption == IsFiniteSet(Browsers) /\ NONE \notin Browsers

VARIABLES
    up,            \* the spawner's process runs
    ws,            \* the connection of the last callback_http, or NONE
    new_ws_port,
    link,          \* each browser's connection to the spawner
    told,          \* the ports a browser has been sent
    own,           \* history: the port of the emulator started for a browser
    crossed        \* history: another connection's callback_http came between
                   \* those of a browser
spawnerVars == <<up, ws, new_ws_port, link, told, own, crossed>>

\* Every browser connects at most once.
Ports == 1..Cardinality(Browsers)

SpawnerInit ==
    /\ up = TRUE
    /\ ws = NONE /\ new_ws_port = 1
    /\ link = [b \in Browsers |-> "new"]
    /\ told = [b \in Browsers |-> {}]
    /\ own = [b \in Browsers |-> 0]
    /\ crossed = [b \in Browsers |-> FALSE]

Waiting(b) == link[b] \in {"http", "established"}
Served(b) == link[b] \in {"served", "closed"}
Alive(b) == Waiting(b) \/ link[b] = "served"

Moves(b, from, to) == up /\ link[b] \in from /\ link' = [link EXCEPT ![b] = to]

-----------------------------------------------------------------------------
(* callback_http: what the library reports of a connection itself          *)

\* The other browsers' waits in which a callback for b comes.
Crosses(b) == crossed' = [c \in Browsers |-> crossed[c] \/ (c # b /\ Waiting(c))]

\* Mutant: the connection is remembered once only.
MutantCallbackHttp(b) == ws' = (IF ws = NONE THEN b ELSE ws) /\ Crosses(b)

\* The reason of the callback is not looked at.
callback_http(b) == ws' = b /\ Crosses(b)

\* Bound: a callback_http that comes while no browser waits is left out.  It only
\* sets ws, which the next Open sets before it is used.
SomeoneWaits == \E c \in Browsers : Waiting(c)

UnchangedByHttp == UNCHANGED <<up, new_ws_port, told, own>>

\* The connection is accepted.
Open(b) == Moves(b, {"new"}, "http") /\ callback_http(b) /\ UnchangedByHttp

\* Anything else the library reports of a connection: its request, a change of
\* what it waits for.
Event(b) ==
    /\ up /\ SomeoneWaits /\ Alive(b) /\ UNCHANGED link
    /\ callback_http(b) /\ UnchangedByHttp

\* The browser leaves before it is served, or closes the page after.
Destroy(b) ==
    /\ SomeoneWaits
    /\ \/ Moves(b, {"http", "established"}, "gone")
       \/ Moves(b, {"served"}, "closed")
    /\ callback_http(b) /\ UnchangedByHttp

-----------------------------------------------------------------------------
(* callback_emu                                                            *)

\* LWS_CALLBACK_ESTABLISHED: asks for the writeable callback.
Established(b) ==
    /\ Moves(b, {"http"}, "established")
    /\ UNCHANGED <<up, ws, new_ws_port, told, own, crossed>>

\* web_send: to the connection in ws, whatever it is by now.  When it is no more,
\* lws_write uses freed memory, and the process may end.
WebSend(port) ==
    IF ws # NONE /\ Alive(ws) THEN told' = [told EXCEPT ![ws] = @ \cup {port}] /\ UNCHANGED up
    ELSE up' \in BOOLEAN /\ UNCHANGED told

\* Mutant: the next port is used up by a fork that succeeds only.
MutantWriteable(b, forked) ==
    /\ Moves(b, {"established"}, "served")
    /\ own' = [own EXCEPT ![b] = new_ws_port]
    /\ WebSend(new_ws_port)
    /\ new_ws_port' = IF forked THEN new_ws_port + 1 ELSE new_ws_port
    /\ UNCHANGED <<ws, crossed>>

\* LWS_CALLBACK_SERVER_WRITEABLE: fork, and a millisecond later the port, also
\* when fork has failed.
Writeable(b, forked) ==
    /\ Moves(b, {"established"}, "served")
    /\ own' = [own EXCEPT ![b] = new_ws_port]
    /\ WebSend(new_ws_port)
    /\ new_ws_port' = new_ws_port + 1
    /\ UNCHANGED <<ws, crossed>>

-----------------------------------------------------------------------------
SpawnerTypeOK ==
    /\ up \in BOOLEAN
    /\ ws \in Browsers \cup {NONE}
    /\ new_ws_port \in 1..Cardinality(Browsers) + 1
    /\ link \in [Browsers -> {"new", "http", "established", "served", "closed", "gone"}]
    /\ told \in [Browsers -> SUBSET Ports]
    /\ own \in [Browsers -> Ports \cup {0}]
    /\ crossed \in [Browsers -> BOOLEAN]

(* No two browsers are told of the same emulator, in whatever order their  *)
(* callbacks come and whichever forks fail.                                *)
PortToldOnce ==
    \A b, c \in Browsers : b # c => told[b] \cap told[c] = {}

(* A browser that has been served has been told of the emulator started    *)
(* for it, and no other browser has, unless a callback_http for another    *)
(* connection, be it that one's end, came while it waited: the port goes   *)
(* to the connection in ws, not to the one that is writeable.              *)
ToldOwnPort ==
    /\ \A b \in Browsers : Served(b) /\ ~crossed[b] => own[b] \in told[b]
    /\ \A b, c \in Browsers : b # c /\ own[c] \in told[b] => crossed[c]
=============================================================================
