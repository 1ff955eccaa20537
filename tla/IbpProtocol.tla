----------------------------- MODULE IbpProtocol -----------------------------
(***************************************************************************)
(* The incremental build protocol of runner/pkg/ibp over the JSON sockets  *)
(* of runner/pkg/socket: a host serves a Unix socket, accepts one          *)
(* connection, negotiates a version and capabilities with the client, and  *)
(* then sends it cycles, each of which the client answers with             *)
(* CYCLE_STARTED and, once handled, CYCLE_COMPLETED.                       *)
(*                                                                         *)
(* A connection is a pair of FIFO channels.  Each end may close or crash;  *)
(* the other end still reads what was sent before, then errors; sending to *)
(* a closed end errors.  A dialled connection waits in the backlog of the  *)
(* listener until it is accepted.  The hosts call the protocol from one    *)
(* goroutine; the handshake runs in another.                               *)
(***************************************************************************)
EXTENDS Naturals, Sequences, SequencesExt

CONSTANTS ServerVersions,  \* abazelSupportedProtocolVersions of the host, in order
          ClientBuilds,    \* the sets of versions clients of various builds support
          Requests,        \* the scopes a client may ask for; {} asks for nothing
          MaxConnect,      \* how many connections clients dial
          MaxCycle         \* how many cycles a host issues

ASSUME IbpAssumption ==
    /\ ServerVersions \in Seq(0..2) /\ ClientBuilds \subseteq SUBSET (0..2)
    /\ MaxConnect \in Nat \ {0} /\ MaxCycle \in Nat

VARIABLES listener,   \* "unbound", "listening" or "closed"
          conn,       \* the connections dialled so far
          handshake,  \* where the goroutine of acceptNegotiation is
          accepted,   \* the connection the host talks to, or 0
          server,     \* [version, caps, ready]
          host,       \* what the host is doing
          cycle,      \* [id, result] of the last cycle
          client,     \* [pc, conn, supports, request, version, caps, event]
          handled     \* ids of the cycles the client has handled, in order

vars == <<listener, conn, handshake, accepted, server, host, cycle, client, handled>>
hostVars == <<listener, accepted, host>>

WatchScope == {"sources", "runfiles"}
NoVersion == 3
NoCaps == {"none"}
HasCapMessage(v) == v > 0
HasScopeCap(v) == v > 0
HasResetMessage(v) == v >= 2

\* Mutant of ReadCaps: the request is checked but not stored.
ReadCapsDefault(request) == {"runfiles"}

\* readCapsRequestMap: the default is runfiles; unknown scopes are refused.
ReadCaps(request) == IF request = {} THEN {"runfiles"} ELSE request
ValidCaps(request) == request \subseteq WatchScope

Conn == 1..MaxConnect
NewConn == [toClient |-> <<>>, toServer |-> <<>>, serverOpen |-> TRUE, clientOpen |-> TRUE]
NewClient == [pc |-> "free", conn |-> 0, supports |-> {},
              request |-> {}, version |-> NoVersion, caps |-> NoCaps,
              event |-> [kind |-> "none"]]

Connecting == {"recvNegotiate", "sendVersion", "sendCaps", "recvCaps"}
Connected == {"connected", "recv", "sendStarted", "handle", "sendCompleted", "sendLast"}
Left == {"left", "stuck"}

Init ==
    /\ listener = "unbound"
    /\ conn = <<>>
    /\ handshake = "none"
    /\ accepted = 0
    /\ server = [version |-> NoVersion, caps |-> NoCaps, ready |-> FALSE]
    /\ host = "idle"
    /\ cycle = [id |-> 0, result |-> "nil"]
    /\ client = NewClient
    /\ handled = <<>>

------------------------------------------------------------------------------
(* The socket, from both ends. *)

ToClient(m) == conn' = [conn EXCEPT ![accepted].toClient = Append(@, m)]
ToServer(m) == conn' = [conn EXCEPT ![client.conn].toServer = Append(@, m)]

\* Send fails iff the peer has closed; Recv fails once nothing is left to read.
ServerSends == conn[accepted].clientOpen
ClientSends == conn[client.conn].serverOpen
ServerHears == conn[accepted].toServer # <<>>
ClientHears == conn[client.conn].toClient # <<>>
ServerEof == ~ServerHears /\ ~conn[accepted].clientOpen
ClientEof == ~ClientHears /\ ~conn[client.conn].serverOpen

FromClient == Head(conn[accepted].toServer)
FromServer == Head(conn[client.conn].toClient)
ServerTakes == conn' = [conn EXCEPT ![accepted].toServer = Tail(@)]
ClientTakes == conn' = [conn EXCEPT ![client.conn].toClient = Tail(@)]

------------------------------------------------------------------------------
(* The host. *)

Alive == host \notin {"closed", "dead"}

Serve ==
    /\ Alive /\ listener = "unbound"
    /\ listener' = "listening"
    /\ handshake' = "accept"
    /\ UNCHANGED <<conn, accepted, server, host, cycle, client, handled>>

\* The first connection in the backlog; acceptNegotiation runs once.
Accept ==
    /\ Alive /\ handshake = "accept"
    /\ conn # <<>>
    /\ accepted' = 1
    /\ handshake' = "sendNegotiate"
    /\ UNCHANGED <<listener, conn, server, host, cycle, client, handled>>

\* An error at any step ends the goroutine; the connection stays open.
SendNegotiate ==
    /\ Alive /\ handshake = "sendNegotiate"
    /\ \/ /\ ServerSends
          /\ ToClient([kind |-> "NEGOTIATE", versions |-> ServerVersions])
          /\ handshake' = "recvVersion"
       \/ /\ ~ServerSends
          /\ handshake' = "ended"
          /\ UNCHANGED conn
    /\ UNCHANGED <<hostVars, server, cycle, client, handled>>

\* Mutant of RecvVersion: the answer is not checked and capabilities are not awaited.
RecvVersionOnly ==
    /\ Alive /\ handshake = "recvVersion"
    /\ ServerHears
    /\ ServerTakes
    /\ handshake' = "publish"
    /\ server' = [server EXCEPT !.version = FromClient.version]
    /\ UNCHANGED <<hostVars, cycle, client, handled>>

\* The version must be one of the host's; capabilities follow if it has them.
RecvVersion ==
    /\ Alive /\ handshake = "recvVersion"
    /\ \/ /\ ServerHears
          /\ ServerTakes
          /\ \/ /\ FromClient.kind = "NEGOTIATE_RESPONSE"
                /\ FromClient.version \in ToSet(ServerVersions)
                /\ handshake' = IF HasCapMessage(FromClient.version)
                                THEN "recvCaps" ELSE "publish"
                /\ server' = [server EXCEPT !.version = FromClient.version]
             \/ /\ \/ FromClient.kind # "NEGOTIATE_RESPONSE"
                   \/ FromClient.version \notin ToSet(ServerVersions)
                /\ handshake' = "ended"
                /\ UNCHANGED server
       \/ /\ ServerEof
          /\ handshake' = "ended"
          /\ UNCHANGED <<conn, server>>
    /\ UNCHANGED <<hostVars, cycle, client, handled>>

RecvCaps ==
    /\ Alive /\ handshake = "recvCaps"
    /\ \/ /\ ServerHears
          /\ ServerTakes
          /\ \/ /\ FromClient.kind = "CAPS" /\ ValidCaps(FromClient.caps)
                /\ server' = [server EXCEPT !.caps = ReadCaps(FromClient.caps)]
                /\ handshake' = "sendCaps"
             \/ /\ FromClient.kind # "CAPS" \/ ~ValidCaps(FromClient.caps)
                /\ handshake' = "ended"
                /\ UNCHANGED server
       \/ /\ ServerEof
          /\ handshake' = "ended"
          /\ UNCHANGED <<conn, server>>
    /\ UNCHANGED <<hostVars, cycle, client, handled>>

SendCaps ==
    /\ Alive /\ handshake = "sendCaps"
    /\ \/ /\ ServerSends
          /\ ToClient([kind |-> "CAPS_RESPONSE", caps |-> server.caps])
          /\ handshake' = "publish"
       \/ /\ ~ServerSends
          /\ handshake' = "ended"
          /\ UNCHANGED conn
    /\ UNCHANGED <<hostVars, server, cycle, client, handled>>

\* connectedVersion is set and connectedCh closed: messaging may begin.  Nobody
\* reads the version before.
Publish ==
    /\ Alive /\ handshake = "publish"
    /\ server' = [server EXCEPT !.ready = TRUE]
    /\ handshake' = "ended"
    /\ UNCHANGED <<hostVars, conn, cycle, client, handled>>

Handshake == Accept \/ SendNegotiate \/ RecvVersion \/ RecvCaps \/ SendCaps \/ Publish

CanMessage == host = "idle" /\ server.ready /\ cycle.id < MaxCycle

\* Mutant of Issue: the host does not wait for the answer.
IssueOnly(m) ==
    /\ IF ServerSends THEN ToClient(m) ELSE UNCHANGED conn
    /\ cycle' = [id |-> cycle.id + 1, result |-> "nil"]
    /\ UNCHANGED host

\* Send, then await the response: one request is under way at a time.
Issue(m) ==
    \/ /\ ServerSends
       /\ ToClient(m)
       /\ cycle' = [id |-> cycle.id + 1, result |-> "pending"]
       /\ host' = "await"
    \/ /\ ~ServerSends
       /\ cycle' = [id |-> cycle.id + 1, result |-> "error"]
       /\ UNCHANGED <<conn, host>>

Cycle(scope) ==
    /\ CanMessage
    /\ Issue([kind |-> "CYCLE", id |-> cycle.id + 1,
              scope |-> IF HasScopeCap(server.version) THEN scope ELSE ""])
    /\ UNCHANGED <<listener, handshake, accepted, server, client, handled>>

\* Refused, without using up an id, on connections that do not know resets.
CycleReset ==
    /\ CanMessage
    /\ HasResetMessage(server.version)
    /\ Issue([kind |-> "CYCLE_RESET", id |-> cycle.id + 1])
    /\ UNCHANGED <<listener, handshake, accepted, server, client, handled>>

\* Any of these ends a cycle without an error.  No client under src/ sends the first two.
EndEvents == {"CYCLE_ABORTED", "CYCLE_FAILED", "CYCLE_COMPLETED"}

\* Mutant of Verdict: CYCLE_STARTED ends the wait like the end events.
VerdictOnStarted(m) ==
    IF m.kind \notin EndEvents \cup {"CYCLE_STARTED"} \/ m.id # cycle.id
    THEN "error" ELSE "nil"

\* awaitCycleResponse on one message: an answer to another cycle, or none to any
\* cycle, is an error.
Verdict(m) ==
    IF m.kind \notin EndEvents \cup {"CYCLE_STARTED"} \/ m.id # cycle.id
    THEN "error"
    ELSE IF m.kind \in EndEvents THEN "nil" ELSE "pending"

\* Mutant of AwaitResponse: a failed Recv is tried again.
AwaitResponseForever ==
    /\ host = "await"
    /\ ServerHears
    /\ ServerTakes
    /\ cycle' = [cycle EXCEPT !.result = Verdict(FromClient)]
    /\ host' = IF cycle'.result = "pending" THEN "await" ELSE "idle"
    /\ UNCHANGED <<listener, handshake, accepted, server, client, handled>>

\* CYCLE_STARTED keeps the host waiting; a lost connection is an error.
AwaitResponse ==
    /\ host = "await"
    /\ \/ /\ ServerHears
          /\ ServerTakes
          /\ cycle' = [cycle EXCEPT !.result = Verdict(FromClient)]
       \/ /\ ServerEof
          /\ cycle' = [cycle EXCEPT !.result = "error"]
          /\ UNCHANGED conn
    /\ host' = IF cycle'.result = "pending" THEN "await" ELSE "idle"
    /\ UNCHANGED <<listener, handshake, accepted, server, client, handled>>

\* Exit tells the client; the host sends no cycle after it.
Exit ==
    /\ host = "idle" /\ server.ready
    /\ host' = "exiting"
    /\ IF ServerSends THEN ToClient([kind |-> "EXIT"]) ELSE UNCHANGED conn
    /\ UNCHANGED <<listener, handshake, accepted, server, cycle, client, handled>>

\* Mutant of HostEnds: connections in the backlog stay open.
HostEndsAcceptedOnly ==
    /\ listener' = "closed"
    /\ conn' = [c \in DOMAIN conn |-> [conn[c] EXCEPT !.serverOpen = (c # accepted)]]
    /\ UNCHANGED <<handshake, accepted, server, cycle, client, handled>>

\* Whatever ends the host closes its end of the connection and of those that
\* wait in the backlog.
HostEnds ==
    /\ listener' = "closed"
    /\ conn' = [c \in DOMAIN conn |-> [conn[c] EXCEPT !.serverOpen = FALSE]]
    /\ UNCHANGED <<handshake, accepted, server, cycle, client, handled>>

\* Close clears the socket the goroutine of the handshake still uses; if it is
\* between two calls, it dereferences nil and the process dies.
Close ==
    /\ host \in {"idle", "exiting"}
    /\ host' \in IF handshake \in {"none", "accept", "ended"}
                 THEN {"closed"} ELSE {"closed", "dead"}
    /\ HostEnds

HostCrash ==
    /\ Alive
    /\ host' = "dead"
    /\ HostEnds

------------------------------------------------------------------------------
(* The client: Connect, then the loop over AwaitCycle. *)

ClientKeeps == UNCHANGED <<listener, handshake, accepted, server, host, cycle>>
ClientGoes(pc) == client' = [client EXCEPT !.pc = pc]

\* Disconnect within Connect, "so callers can retry"; the end of a process closes its
\* connection as well.
Disconnect ==
    /\ conn' = [conn EXCEPT ![client.conn].clientOpen = FALSE]
    /\ client' = NewClient

Connect(request, versions) ==
    /\ client.pc = "free"
    /\ listener = "listening"
    /\ Len(conn) < MaxConnect
    /\ conn' = Append(conn, NewConn)
    /\ client' = [NewClient EXCEPT !.pc = "recvNegotiate", !.conn = Len(conn'),
                                   !.supports = versions, !.request = request]
    /\ UNCHANGED handled /\ ClientKeeps

\* Mutant of CommonVersions: any version the host offers.
AnyVersions(versions) == ToSet(versions)

\* The first of the host's versions that the client supports, if there is one.
CommonVersions(versions) ==
    {versions[i] : i \in {i \in DOMAIN versions :
        /\ versions[i] \in client.supports
        /\ \A j \in 1..(i - 1) : versions[j] \notin client.supports}}

\* negotiate() fails without closing the socket: this client never connects again.
RecvNegotiate ==
    /\ client.pc = "recvNegotiate"
    /\ \/ /\ ClientHears
          /\ ClientTakes
          /\ LET common == CommonVersions(FromServer.versions) IN
             \/ /\ FromServer.kind = "NEGOTIATE"
                /\ \E v \in common :
                      client' = [client EXCEPT !.pc = "sendVersion", !.version = v]
             \/ /\ FromServer.kind # "NEGOTIATE" \/ common = {}
                /\ ClientGoes("stuck")
       \/ ClientEof /\ ClientGoes("stuck") /\ UNCHANGED conn
    /\ UNCHANGED handled /\ ClientKeeps

\* Without capability messages a client that asked for any gives up.
SendVersion ==
    /\ client.pc = "sendVersion"
    /\ \/ /\ ClientSends
          /\ LET m == [kind |-> "NEGOTIATE_RESPONSE", version |-> client.version]
                 sentTo == Append(conn[client.conn].toServer, m) IN
             IF HasCapMessage(client.version) \/ client.request = {}
             THEN /\ conn' = [conn EXCEPT ![client.conn].toServer = sentTo]
                  /\ ClientGoes(IF HasCapMessage(client.version) THEN "sendCaps" ELSE "connected")
             ELSE /\ conn' = [conn EXCEPT ![client.conn].toServer = sentTo,
                                          ![client.conn].clientOpen = FALSE]
                  /\ client' = NewClient
       \/ ~ClientSends /\ ClientGoes("stuck") /\ UNCHANGED conn
    /\ UNCHANGED handled /\ ClientKeeps

SendCapsRequest ==
    /\ client.pc = "sendCaps"
    /\ \/ /\ ClientSends
          /\ ToServer([kind |-> "CAPS", caps |-> client.request])
          /\ ClientGoes("recvCaps")
       \/ ~ClientSends /\ Disconnect
    /\ UNCHANGED handled /\ ClientKeeps

RecvCapsResponse ==
    /\ client.pc = "recvCaps"
    /\ \/ /\ ClientHears
          /\ IF FromServer.kind = "CAPS_RESPONSE" /\ ValidCaps(FromServer.caps)
             THEN /\ ClientTakes
                  /\ client' = [client EXCEPT !.pc = "connected",
                                              !.caps = ReadCaps(FromServer.caps)]
             ELSE Disconnect
       \/ ClientEof /\ Disconnect
    /\ UNCHANGED handled /\ ClientKeeps

\* The watcher's first run happens before it awaits cycles; a failed one ends it.
AwaitCycle ==
    /\ client.pc = "connected"
    /\ ClientGoes("recv") \/ ClientGoes("left")
    /\ UNCHANGED <<conn, handled>> /\ ClientKeeps

\* Messages of unknown kinds are skipped.
RecvCycle ==
    /\ client.pc = "recv"
    /\ \/ /\ ClientHears
          /\ ClientTakes
          /\ IF FromServer.kind \in {"CYCLE", "CYCLE_RESET"}
             THEN client' = [client EXCEPT !.pc = "sendStarted", !.event = FromServer]
             ELSE UNCHANGED client
       \/ ClientEof /\ ClientGoes("left") /\ UNCHANGED conn
    /\ UNCHANGED handled /\ ClientKeeps

SendStarted ==
    /\ client.pc = "sendStarted"
    /\ \/ /\ ClientSends
          /\ ToServer([kind |-> "CYCLE_STARTED", id |-> client.event.id])
          /\ ClientGoes("handle")
       \/ ~ClientSends /\ ClientGoes("left") /\ UNCHANGED conn
    /\ UNCHANGED handled /\ ClientKeeps

\* Mutant of Handle: an event whose body failed is handled again.
HandleAgain ==
    /\ client.pc = "handle"
    /\ handled' = Append(handled, client.event.id)
    /\ ClientGoes("sendCompleted") \/ ClientGoes("handle")
    /\ UNCHANGED conn /\ ClientKeeps

\* The body of the loop runs; it may leave the loop, on an error for instance.
Handle ==
    /\ client.pc = "handle"
    /\ handled' = Append(handled, client.event.id)
    /\ ClientGoes("sendCompleted") \/ ClientGoes("sendLast")
    /\ UNCHANGED conn /\ ClientKeeps

\* The cycle is completed whatever the body did; a failed send is only logged.
SendCompleted ==
    /\ client.pc \in {"sendCompleted", "sendLast"}
    /\ IF ClientSends
       THEN ToServer([kind |-> "CYCLE_COMPLETED", id |-> client.event.id])
       ELSE UNCHANGED conn
    /\ ClientGoes(IF client.pc = "sendCompleted" THEN "recv" ELSE "left")
    /\ UNCHANGED handled /\ ClientKeeps

\* The loop is over: the deferred Disconnect, or the end of the process.
Leave ==
    /\ client.pc \in Left
    /\ Disconnect
    /\ UNCHANGED handled /\ ClientKeeps

ClientCrash ==
    /\ client.pc # "free"
    /\ Disconnect
    /\ UNCHANGED handled /\ ClientKeeps

ClientStep ==
    \/ RecvNegotiate \/ SendVersion \/ SendCapsRequest \/ RecvCapsResponse
    \/ AwaitCycle \/ RecvCycle \/ SendStarted \/ Handle \/ SendCompleted \/ Leave

HostStep == Serve \/ Handshake \/ AwaitResponse

HostCall ==
    \/ \E s \in WatchScope : Cycle(s)
    \/ CycleReset
    \/ Exit
    \/ Close

Next ==
    \/ HostStep \/ HostCall \/ HostCrash
    \/ ClientStep \/ ClientCrash
    \/ \E r \in Requests, versions \in ClientBuilds : Connect(r, versions)

\* Goroutines that can run do, the body of the watcher's loop returns, and a
\* client whose loop is over ends.  Nobody has to dial, to issue or to crash.
Fairness == WF_vars(Handshake) /\ WF_vars(AwaitResponse) /\ WF_vars(ClientStep)

Spec == Init /\ [][Next]_vars /\ Fairness

------------------------------------------------------------------------------
(* Properties. *)

HostMessage ==
    [kind : {"NEGOTIATE"}, versions : {ServerVersions}]
    \cup [kind : {"CAPS_RESPONSE"}, caps : SUBSET WatchScope]
    \cup [kind : {"CYCLE"}, id : 1..MaxCycle, scope : WatchScope \cup {""}]
    \cup [kind : {"CYCLE_RESET"}, id : 1..MaxCycle]
    \cup [kind : {"EXIT"}]
ClientMessage ==
    [kind : {"NEGOTIATE_RESPONSE"}, version : 0..2]
    \cup [kind : {"CAPS"}, caps : Requests]
    \cup [kind : {"CYCLE_STARTED", "CYCLE_COMPLETED"}, id : 1..MaxCycle]

\* A cycle is one round trip, so no channel ever holds more than a cycle and an
\* EXIT, or the two responses to one cycle.
TypeOK ==
    /\ listener \in {"unbound", "listening", "closed"}
    /\ Len(conn) <= MaxConnect
    /\ \A c \in DOMAIN conn :
          /\ ToSet(conn[c].toClient) \subseteq HostMessage /\ Len(conn[c].toClient) <= 2
          /\ ToSet(conn[c].toServer) \subseteq ClientMessage /\ Len(conn[c].toServer) <= 2
    /\ accepted \in 0..Len(conn)
    /\ host \in {"idle", "await", "exiting", "closed", "dead"}
    /\ cycle \in [id : 0..MaxCycle, result : {"nil", "pending", "error"}]
    /\ client.pc \in {"free"} \cup Connecting \cup Connected \cup Left

WatchingScope(s) ==
    IF ~server.ready \/ server.caps = NoCaps THEN s = "runfiles" ELSE s \in server.caps

\* When both ends consider the handshake done they agree on the version, which
\* is the host's favourite among those both know, and the host watches exactly
\* the scopes the client asked for (protocol.go:286-348, client.go:34-143).
Agreement ==
    server.ready /\ client.pc \in Connected /\ client.conn = accepted =>
        /\ client.version = server.version
        /\ \E i \in DOMAIN ServerVersions :
              /\ ServerVersions[i] = client.version /\ client.version \in client.supports
              /\ \A j \in 1..(i - 1) : ServerVersions[j] \notin client.supports
        /\ client.caps = server.caps
        /\ {s \in WatchScope : WatchingScope(s)} =
               IF client.request = {} THEN {"runfiles"} ELSE client.request

\* Neither end ever reads a message other than the one it waits for: handshake
\* messages and cycles never cross, no connection gets a cycle or a scope its
\* version does not know, and no answer belongs to another cycle.
InStep ==
    /\ client.conn # 0 /\ ClientHears =>
          /\ client.pc = "recvNegotiate" => FromServer.kind = "NEGOTIATE"
          /\ client.pc = "recvCaps" => FromServer.kind = "CAPS_RESPONSE"
          /\ client.pc = "recv" =>
                \/ FromServer.kind = "CYCLE" /\ (FromServer.scope = "" <=> client.version = 0)
                \/ FromServer.kind = "CYCLE_RESET" /\ client.version = 2
                \/ FromServer.kind = "EXIT"
    /\ accepted # 0 /\ ServerHears =>
          /\ handshake = "recvVersion" => FromClient.kind = "NEGOTIATE_RESPONSE"
          /\ handshake = "recvCaps" => FromClient.kind = "CAPS"
          /\ host = "await" => Verdict(FromClient) # "error"

\* A cycle fails only because the client has gone: while the client stays, its
\* answers are never rejected (protocol.go:420-455).
FailsOnlyOnLoss == cycle.result = "error" => ~conn[accepted].clientOpen

\* A host calling Cycle gets an answer: the watcher completes the cycle, also
\* when it fails or is about to leave, or its connection is lost.
CycleReturns == host = "await" ~> host # "await"

\* The first client to call Connect gets an answer, unless it asks for a scope
\* the host refuses.
ConnectReturns ==
    client.pc \in Connecting /\ client.conn = 1 /\ ValidCaps(client.request)
        ~> client.pc \notin Connecting

\* A client the host has refused, or never accepted, waits no longer than the
\* host lives: whatever ends the host releases it.
HostEndReleases == host \in {"closed", "dead"} ~> client.pc \notin Connecting

\* The cycles are those of CycleFeed: one at a time, no handling of a cycle other
\* than the last issued and none twice, over reconnects and crashes, and nil is
\* returned only for a cycle that has been handled (protocol.go:420-455, client.go:158-210).
Feed == INSTANCE CycleFeed WITH issued <- cycle.id, result <- cycle.result
FeedSpec == Feed!Spec
==============================================================================
