------------------------------ MODULE IbpProofs ------------------------------
(***************************************************************************)
(* Proofs about IbpProtocol for any host versions, client builds, requests *)
(* and number of connections and cycles.                                   *)
(***************************************************************************)
EXTENDS IbpProtocol, SequenceTheorems, TLAPS

------------------------------------------------------------------------------
(* The connection the host talks to, and what travels on it. *)

Down == conn[1].toClient
Up == conn[1].toServer
Here == accepted = 1 /\ client.conn = 1
Pending == cycle.result = "pending"

One(m) == <<m>>
Two(m, n) == <<m, n>>

Announcement == [kind |-> "NEGOTIATE", versions |-> ServerVersions]
Answer(v) == [kind |-> "NEGOTIATE_RESPONSE", version |-> v]
Ask(r) == [kind |-> "CAPS", caps |-> r]
Grant(caps) == [kind |-> "CAPS_RESPONSE", caps |-> caps]
Farewell == [kind |-> "EXIT"]
Begun(id) == [kind |-> "CYCLE_STARTED", id |-> id]
Done(id) == [kind |-> "CYCLE_COMPLETED", id |-> id]

\* The message of a cycle, as the version of the connection allows it.
Cycles ==
    {m \in HostMessage :
        \/ /\ m.kind = "CYCLE" /\ m.id = cycle.id
           /\ m.scope = "" <=> server.version = 0
        \/ /\ m.kind = "CYCLE_RESET" /\ m.id = cycle.id
           /\ server.version = 2}

\* The client's version is the host's favourite among those both support.
Favourite ==
    \E i \in DOMAIN ServerVersions :
        /\ ServerVersions[i] = client.version /\ client.version \in client.supports
        /\ \A j \in 1..(i - 1) : ServerVersions[j] \notin client.supports

------------------------------------------------------------------------------
(* The inductive invariant. *)

Pipe == [toClient : Seq(HostMessage), toServer : Seq(ClientMessage),
         serverOpen : BOOLEAN, clientOpen : BOOLEAN]

ServerTypes ==
    /\ listener \in {"unbound", "listening", "closed"}
    /\ handshake \in {"none", "accept", "sendNegotiate", "recvVersion", "recvCaps",
                      "sendCaps", "publish", "ended"}
    /\ accepted \in {0, 1}
    /\ server \in [version : 0..3, caps : SUBSET (WatchScope \cup {"none"}), ready : BOOLEAN]
    /\ host \in {"idle", "await", "exiting", "closed", "dead"}
    /\ cycle \in [id : 0..MaxCycle, result : {"nil", "pending", "error"}]
ClientTypes ==
    /\ client \in [pc : {"free"} \cup Connecting \cup Connected \cup Left, conn : Nat,
                   supports : ClientBuilds \cup {{}}, request : Requests \cup {{}},
                   version : 0..3, caps : SUBSET (WatchScope \cup {"none"}),
                   event : HostMessage \cup {[kind |-> "none"]}]
    /\ handled \in Seq(1..MaxCycle)

\* How far the host is in its handshake, and what follows from it.
HostInv ==
    /\ listener = "unbound" => handshake = "none"
    /\ listener = "closed" <=> ~Alive
    /\ accepted = 0 <=> handshake \in {"none", "accept"}
    /\ handshake \in {"none", "accept", "sendNegotiate", "recvVersion", "recvCaps"} =>
           server.caps = NoCaps
    /\ handshake = "sendCaps" => server.caps \subseteq WatchScope
    /\ handshake \in {"recvCaps", "sendCaps", "publish"} \/ server.ready =>
           server.version \in ToSet(ServerVersions)
    /\ server.ready => handshake = "ended"
    /\ host \in {"await", "exiting"} \/ cycle.id > 0 \/ cycle.result # "nil" => server.ready
    /\ host = "await" => Pending
    /\ Pending => host \in {"await", "dead"}
    /\ cycle.result # "nil" => cycle.id > 0

\* Each end of a connection is open as long as its owner is there, and only the
\* accepted one carries messages.
PipesInv ==
    /\ conn \in Seq(Pipe)
    /\ Len(conn) <= MaxConnect
    /\ accepted <= Len(conn)
    /\ listener = "unbound" => conn = <<>>
    /\ client.conn \in 0..Len(conn)
    /\ \A c \in DOMAIN conn :
          /\ conn[c].serverOpen <=> Alive
          /\ conn[c].clientOpen <=> client.conn = c
          /\ Len(conn[c].toClient) <= 2
          /\ c # accepted => conn[c].toClient = <<>> /\ conn[c].toServer = <<>>

\* A client on a connection that is not accepted has not got past its first Recv.
WaitInv ==
    /\ client.pc = "free" <=> client.conn = 0
    /\ client.pc # "free" => client.request \in Requests
    /\ client.conn # 0 /\ client.conn # accepted =>
           /\ client.pc = "recvNegotiate" \/ (client.pc = "stuck" /\ ~Alive)
           /\ client.caps = NoCaps

HandledInv ==
    /\ ToSet(handled) \subseteq 1..cycle.id
    /\ cycle.result = "nil" /\ cycle.id > 0 => cycle.id \in ToSet(handled)

Replies ==
    \/ Up = <<>>
    \/ Up = One(Begun(cycle.id))
    \/ /\ Up = One(Done(cycle.id)) \/ Up = Two(Begun(cycle.id), Done(cycle.id))
       /\ cycle.id \in ToSet(handled)

\* What the host may still read, also when the client has gone.
UpInv ==
    /\ handshake = "recvVersion" =>
          \/ Up = <<>>
          \/ \E v \in ToSet(ServerVersions) :
                \/ Up = One(Answer(v))
                \/ \E r \in Requests : v > 0 /\ Up = Two(Answer(v), Ask(r))
    /\ handshake = "recvCaps" => Up = <<>> \/ \E r \in Requests : Up = One(Ask(r))
    /\ handshake \in {"sendNegotiate", "sendCaps", "publish"} => Up = <<>>
    /\ handshake = "ended" /\ ~Pending => Up = <<>>
    /\ Pending => Replies

\* What the two ends know of each other's version and capabilities.
VersionInv ==
    /\ client.pc \notin {"recvNegotiate", "stuck"} => Favourite
    /\ client.pc \in Connecting => client.caps = NoCaps
    /\ client.pc \in {"sendCaps", "recvCaps"} => client.version > 0
    /\ client.pc \in Connected \cup {"left"} =>
          \/ client.version = 0 /\ client.request = {} /\ client.caps = NoCaps
          \/ client.version > 0 /\ client.caps = server.caps /\ server.caps # NoCaps
    /\ handshake \in {"recvCaps", "sendCaps", "publish"} \/ server.ready =>
          server.version = client.version
    /\ client.version > 0
       /\ (handshake \in {"sendCaps", "publish"} \/ server.ready) =>
          ValidCaps(client.request) /\ server.caps = ReadCaps(client.request)
    /\ client.version = 0 => server.caps = NoCaps

Resting == {"connected", "recv", "left"}

\* The states the two ends go through together: the host has not announced its
\* versions yet, waits for an answer, for the capabilities, is about to grant
\* them, has refused them, has no cycle under way, or awaits one.
Announcing ==
    /\ handshake = "sendNegotiate"
    /\ client.pc = "recvNegotiate" \/ (client.pc = "stuck" /\ ~Alive)
    /\ Down = <<>> /\ Up = <<>>
Choosing ==
    /\ handshake = "recvVersion"
    /\ \/ client.pc = "recvNegotiate" /\ Down = One(Announcement) /\ Up = <<>>
       \/ client.pc \in {"sendVersion", "stuck"} /\ Down = <<>> /\ Up = <<>>
       \/ client.pc = "sendCaps" /\ Down = <<>> /\ Up = One(Answer(client.version))
       \/ client.pc = "recvCaps" /\ Down = <<>>
          /\ Up = Two(Answer(client.version), Ask(client.request))
       \/ client.pc \in Resting /\ client.version = 0
          /\ Down = <<>> /\ Up = One(Answer(client.version))
Asking ==
    /\ handshake = "recvCaps"
    /\ Down = <<>>
    /\ \/ client.pc = "sendCaps" /\ Up = <<>>
       \/ client.pc = "recvCaps" /\ Up = One(Ask(client.request))
Granting == handshake = "sendCaps" /\ client.pc = "recvCaps" /\ Down = <<>> /\ Up = <<>>
Refused ==
    /\ handshake = "ended" /\ ~server.ready
    /\ client.pc = "recvCaps" /\ Down = <<>> /\ Up = <<>>
Quiet ==
    /\ handshake = "publish" \/ server.ready
    /\ cycle.result = "nil"
    /\ Up = <<>>
    /\ \/ client.pc = "recvCaps" /\ Down = One(Grant(server.caps))
       \/ client.pc \in Resting /\ Down = <<>>
       \/ /\ host \in {"exiting", "closed", "dead"}
          /\ \/ client.pc = "recvCaps" /\ Down = Two(Grant(server.caps), Farewell)
             \/ client.pc \in Resting /\ Down = One(Farewell)
Offered ==
    /\ Up = <<>> /\ cycle.id \notin ToSet(handled)
    /\ \E m \in Cycles :
          \/ client.pc = "recvCaps" /\ Down = Two(Grant(server.caps), m)
          \/ client.pc \in Resting /\ Down = One(m)
Taken ==
    /\ client.event \in Cycles
    /\ Down = <<>>
    /\ \/ client.pc = "sendStarted" /\ Up = <<>> /\ cycle.id \notin ToSet(handled)
       \/ /\ client.pc = "handle" /\ cycle.id \notin ToSet(handled)
          /\ Up = <<>> \/ Up = One(Begun(cycle.id))
       \/ /\ client.pc \in {"sendCompleted", "sendLast"} /\ cycle.id \in ToSet(handled)
          /\ Up = <<>> \/ Up = One(Begun(cycle.id))
Settled ==
    /\ client.pc \in {"recv", "left"}
    /\ Down = <<>>
    /\ Replies
    /\ Alive => Up # <<>> /\ Up # One(Begun(cycle.id))
Answering == server.ready /\ Pending /\ (Offered \/ Taken \/ Settled)

StepInv ==
    \/ Announcing \/ Choosing \/ Asking \/ Granting \/ Refused
    \/ Quiet \/ Answering

IbpInv ==
    /\ ServerTypes /\ ClientTypes
    /\ HostInv
    /\ PipesInv
    /\ WaitInv
    /\ HandledInv
    /\ Here => VersionInv /\ StepInv
    /\ accepted = 1 /\ ~Here => UpInv

------------------------------------------------------------------------------
(* Queues and messages. *)

LEMMA AppendSecond ==
    ASSUME NEW S, NEW q \in Seq(S), NEW n \in S, NEW r \in Seq(S)
    PROVE  Len(q) = 1 /\ Len(r) = 2 /\ r[1] = q[1] /\ r[2] = n => Append(q, n) = r
<1> DEFINE t == Append(q, n)
<1>1. /\ t \in Seq(S) /\ Len(t) = Len(q) + 1 /\ t[Len(q) + 1] = n
      /\ \A i \in 1..Len(q) : t[i] = q[i]
  OBVIOUS
<1> HIDE DEF t
<1>2. ASSUME Len(q) = 1, Len(r) = 2, r[1] = q[1], r[2] = n PROVE t = r
  <2>1. Len(t) = 2
    BY <1>1, <1>2
  <2>2. \A i \in 1..Len(t) : t[i] = r[i]
    BY <1>1, <1>2, <2>1
  <2> QED
    BY <1>1, <1>2, <2>1, <2>2, SeqEqual
<1> QED
  BY <1>2 DEF t

LEMMA AppendPair == ASSUME NEW m, NEW n PROVE Append(<<m>>, n) = <<m, n>>
<1> DEFINE S == {m, n}
           q == <<m>>
           r == <<m, n>>
<1>1. n \in S /\ q \in Seq(S) /\ r \in Seq(S)
  OBVIOUS
<1>2. Len(q) = 1 /\ Len(r) = 2 /\ r[1] = q[1] /\ r[2] = n
  OBVIOUS
<1> HIDE DEF S, q, r
<1>3. Append(q, n) = r
  BY <1>1, <1>2, AppendSecond
<1> QED
  BY <1>3 DEF q, r

LEMMA Queues ==
    \A m, n :
        /\ Append(<<>>, m) = One(m) /\ Append(One(m), n) = Two(m, n)
        /\ Head(One(m)) = m /\ Head(Two(m, n)) = m
        /\ Tail(One(m)) = <<>> /\ Tail(Two(m, n)) = One(n)
        /\ One(m) # <<>> /\ Two(m, n) # <<>>
        /\ Len(One(m)) = 1 /\ Len(Two(m, n)) = 2
<1> TAKE m, n
<1>1. Append(<<>>, m) = One(m)
  BY DEF One
<1>2. Append(One(m), n) = Two(m, n)
  BY AppendPair DEF One, Two
<1>3. Head(One(m)) = m /\ Head(Two(m, n)) = m
  BY DEF One, Two
<1>4. Tail(One(m)) = <<>>
  BY DEF One
<1>5. Tail(Two(m, n)) = One(n)
  BY DEF One, Two
<1>6. Len(One(m)) = 1 /\ Len(Two(m, n)) = 2
  BY DEF One, Two
<1>7. One(m) # <<>> /\ Two(m, n) # <<>>
  BY DEF One, Two
<1> QED
  BY <1>1, <1>2, <1>3, <1>4, <1>5, <1>6, <1>7

LEMMA EmptyQueue == Len(<<>>) = 0
OBVIOUS

LEMMA QueuesDiffer ==
    \A m, n, k : One(m) # Two(n, k) /\ (One(m) = One(n) => m = n)
BY DEF One, Two

LEMMA Messages ==
    /\ Announcement.kind = "NEGOTIATE" /\ Announcement.versions = ServerVersions
    /\ Farewell.kind = "EXIT"
    /\ \A v : Answer(v).kind = "NEGOTIATE_RESPONSE" /\ Answer(v).version = v
    /\ \A r : Ask(r).kind = "CAPS" /\ Ask(r).caps = r
    /\ \A c : Grant(c).kind = "CAPS_RESPONSE" /\ Grant(c).caps = c
    /\ \A id : Begun(id).kind = "CYCLE_STARTED" /\ Begun(id).id = id
    /\ \A id : Done(id).kind = "CYCLE_COMPLETED" /\ Done(id).id = id
BY DEF Announcement, Farewell, Answer, Ask, Grant, Begun, Done

LEMMA RepliesDiffer == \A i, j : Done(i) # Begun(j)
BY Messages

LEMMA HostMessages ==
    /\ Announcement \in HostMessage
    /\ Farewell \in HostMessage
    /\ \A c \in SUBSET WatchScope : Grant(c) \in HostMessage
BY DEF Announcement, Farewell, Grant, HostMessage

LEMMA ClientMessages ==
    /\ \A v \in 0..2 : Answer(v) \in ClientMessage
    /\ \A r \in Requests : Ask(r) \in ClientMessage
    /\ \A id \in 1..MaxCycle : Begun(id) \in ClientMessage /\ Done(id) \in ClientMessage
BY DEF Answer, Ask, Begun, Done, ClientMessage

LEMMA Versions == ToSet(ServerVersions) \subseteq 0..2
BY IbpAssumption DEF ToSet

LEMMA NoCapsRefused == NoCaps # {} /\ ~(NoCaps \subseteq WatchScope)
BY DEF NoCaps, WatchScope

LEMMA Granted == ASSUME NEW r, ValidCaps(r)
                 PROVE  /\ ReadCaps(r) \subseteq WatchScope /\ ReadCaps(r) # NoCaps
                        /\ ReadCaps(r) # {} /\ ReadCaps(ReadCaps(r)) = ReadCaps(r)
                        /\ ReadCaps(r) = IF r = {} THEN {"runfiles"} ELSE r
BY NoCapsRefused DEF ReadCaps, ValidCaps, WatchScope

\* Appending to the cycles handled.
LEMMA AlsoHandled ==
    ASSUME NEW S, NEW s \in Seq(S), NEW x \in S
    PROVE  Append(s, x) \in Seq(S) /\ ToSet(Append(s, x)) = ToSet(s) \cup {x}
BY AppendProperties DEF ToSet

------------------------------------------------------------------------------
(* What each operation of the socket does to the connections. *)

LEMMA PipeChanged ==
    ASSUME conn \in Seq(Pipe), NEW k \in DOMAIN conn, NEW p \in Pipe,
           conn' = [conn EXCEPT ![k] = p]
    PROVE  /\ conn' \in Seq(Pipe)
           /\ Len(conn') = Len(conn)
           /\ DOMAIN conn' = DOMAIN conn
           /\ DOMAIN conn = 1..Len(conn)
           /\ conn'[k] = p
           /\ \A c \in DOMAIN conn : c # k => conn'[c] = conn[c]
<1>1. DOMAIN conn = 1..Len(conn)
  OBVIOUS
<1>2. /\ conn' \in Seq(Pipe)
      /\ Len(conn') = Len(conn)
      /\ \A c \in 1..Len(conn) : conn'[c] = IF c = k THEN p ELSE conn[c]
  BY <1>1, ExceptSeq, Zenon
<1>3. DOMAIN conn' = 1..Len(conn')
  BY <1>2
<1> QED
  BY <1>1, <1>2, <1>3

\* The pipes stay in order when one changes as one of the four operations
\* change it.
LEMMA PipesKept ==
    ASSUME PipesInv, accepted = 1, NEW p \in Pipe, conn' = [conn EXCEPT ![1] = p],
           p.serverOpen = conn[1].serverOpen, p.clientOpen = conn[1].clientOpen,
           Len(p.toClient) <= 2,
           UNCHANGED <<listener, accepted>>, client'.conn = client.conn, Alive' = Alive
    PROVE  PipesInv' /\ conn'[1] = p
<1> USE DEF PipesInv
<1>1. 1 \in DOMAIN conn /\ DOMAIN conn = 1..Len(conn)
  BY EmptyQueue
<1>2. /\ conn' \in Seq(Pipe)
      /\ Len(conn') = Len(conn)
      /\ DOMAIN conn' = DOMAIN conn
      /\ conn'[1] = p
      /\ \A c \in DOMAIN conn : c # 1 => conn'[c] = conn[c]
  BY <1>1, PipeChanged
<1>3. ASSUME listener = "unbound"
      PROVE  FALSE
  BY <1>1, <1>3
<1>4. \A c \in DOMAIN conn' :
          /\ conn'[c].serverOpen <=> Alive'
          /\ conn'[c].clientOpen <=> client'.conn = c
          /\ Len(conn'[c].toClient) <= 2
          /\ c # accepted' => conn'[c].toClient = <<>> /\ conn'[c].toServer = <<>>
  BY <1>2
<1> HIDE DEF PipesInv
<1>5. client'.conn \in 0..Len(conn') /\ accepted' <= Len(conn') /\ Len(conn') <= MaxConnect
  BY <1>2 DEF PipesInv
<1> QED
  BY <1>2, <1>3, <1>4, <1>5 DEF PipesInv

LEMMA Accepted1 ==
    ASSUME PipesInv, accepted = 1
    PROVE  /\ 1 \in DOMAIN conn /\ conn[1] \in Pipe
           /\ Down \in Seq(HostMessage) /\ Up \in Seq(ClientMessage)
           /\ Len(Down) <= 2
           /\ conn[1].serverOpen <=> Alive
           /\ conn[1].clientOpen <=> Here
<1>1. 1 \in DOMAIN conn /\ conn[1] \in Pipe
  BY DEF PipesInv
<1> QED
  BY <1>1 DEF PipesInv, Pipe, Down, Up, Here

\* The host sends, and hears, on the accepted connection.
LEMMA HostSent ==
    ASSUME PipesInv, accepted = 1, NEW m \in HostMessage, ToClient(m), Len(Down) <= 1,
           UNCHANGED <<listener, accepted, client>>, Alive' = Alive
    PROVE  PipesInv' /\ Down' = Append(Down, m) /\ Up' = Up
<1> DEFINE p == [conn[1] EXCEPT !.toClient = Append(Down, m)]
<1>1. Append(Down, m) \in Seq(HostMessage) /\ Len(Append(Down, m)) <= 2
  BY Accepted1, AppendProperties
<1>2. p \in Pipe /\ p.serverOpen = conn[1].serverOpen /\ p.clientOpen = conn[1].clientOpen
      /\ p.toClient = Append(Down, m) /\ p.toServer = Up
  BY <1>1, Accepted1 DEF Pipe, Up
<1>3. conn' = [conn EXCEPT ![1] = p]
  BY DEF ToClient, Down
<1> HIDE DEF p
<1>4. PipesInv' /\ conn'[1] = p
  BY <1>1, <1>2, <1>3, PipesKept
<1> QED
  BY <1>2, <1>4 DEF Down, Up

LEMMA HostHeard ==
    ASSUME PipesInv, accepted = 1, ServerHears, ServerTakes,
           UNCHANGED <<listener, accepted, client>>, Alive' = Alive
    PROVE  PipesInv' /\ Down' = Down /\ Up' = Tail(Up)
<1> DEFINE p == [conn[1] EXCEPT !.toServer = Tail(Up)]
<1>1. Tail(Up) \in Seq(ClientMessage)
  BY Accepted1, HeadTailProperties DEF ServerHears, Up
<1>2. p \in Pipe /\ p.serverOpen = conn[1].serverOpen /\ p.clientOpen = conn[1].clientOpen
      /\ p.toClient = Down /\ p.toServer = Tail(Up)
  BY <1>1, Accepted1 DEF Pipe, Down
<1>3. conn' = [conn EXCEPT ![1] = p]
  BY DEF ServerTakes, Up
<1> HIDE DEF p
<1>4. PipesInv' /\ conn'[1] = p
  BY Accepted1, <1>2, <1>3, PipesKept
<1> QED
  BY <1>2, <1>4 DEF Down, Up

\* The client sends, and hears, on the accepted connection.
LEMMA ClientSent ==
    ASSUME PipesInv, Here, NEW m \in ClientMessage,
           conn' = [conn EXCEPT ![client.conn].toServer = Append(conn[client.conn].toServer, m)],
           UNCHANGED <<listener, accepted, host>>, client'.conn = client.conn
    PROVE  PipesInv' /\ Up' = Append(Up, m) /\ Down' = Down
<1> DEFINE p == [conn[1] EXCEPT !.toServer = Append(Up, m)]
<1>1. Append(Up, m) \in Seq(ClientMessage)
  BY Accepted1, AppendProperties DEF Here
<1>2. p \in Pipe /\ p.serverOpen = conn[1].serverOpen /\ p.clientOpen = conn[1].clientOpen
      /\ p.toServer = Append(Up, m) /\ p.toClient = Down
  BY <1>1, Accepted1 DEF Pipe, Down, Here
<1>3. conn' = [conn EXCEPT ![1] = p]
  BY DEF Up, Here
<1> HIDE DEF p
<1>4. PipesInv' /\ conn'[1] = p
  BY Accepted1, <1>2, <1>3, PipesKept DEF Here, Alive
<1> QED
  BY <1>2, <1>4 DEF Down, Up

LEMMA ClientHeard ==
    ASSUME PipesInv, Here, ClientHears, ClientTakes,
           UNCHANGED <<listener, accepted, host>>, client'.conn = client.conn
    PROVE  PipesInv' /\ Down' = Tail(Down) /\ Up' = Up
<1> DEFINE p == [conn[1] EXCEPT !.toClient = Tail(Down)]
<1>1. Tail(Down) \in Seq(HostMessage) /\ Len(Tail(Down)) <= 2
  BY Accepted1, HeadTailProperties DEF ClientHears, Down, Here
<1>2. p \in Pipe /\ p.serverOpen = conn[1].serverOpen /\ p.clientOpen = conn[1].clientOpen
      /\ p.toClient = Tail(Down) /\ p.toServer = Up
  BY <1>1, Accepted1 DEF Pipe, Up, Here
<1>3. conn' = [conn EXCEPT ![1] = p]
  BY DEF ClientTakes, Down, Here
<1> HIDE DEF p
<1>4. PipesInv' /\ conn'[1] = p
  BY <1>1, <1>2, <1>3, PipesKept DEF Here, Alive
<1> QED
  BY <1>2, <1>4 DEF Down, Up

------------------------------------------------------------------------------
(* What the steps of one end leave as it was. *)

LEMMA HostKept ==
    ASSUME ServerTypes, HostInv, ClientKeeps
    PROVE  ServerTypes' /\ HostInv' /\ Cycles' = Cycles /\ Pending' = Pending /\ Alive' = Alive
BY DEF ServerTypes, HostInv, ClientKeeps, Cycles, Pending, Alive

LEMMA PipesSame ==
    ASSUME PipesInv, UNCHANGED <<listener, accepted, conn>>, client'.conn = client.conn,
           Alive' = Alive
    PROVE  PipesInv' /\ Down' = Down /\ Up' = Up
BY DEF PipesInv, Down, Up

LEMMA FavouriteKept ==
    ASSUME client'.version = client.version, client'.supports = client.supports
    PROVE  Favourite' <=> Favourite
BY DEF Favourite

\* A step of the client that keeps the accepted connection.
LEMMA ClientGoal ==
    ASSUME IbpInv, Here, ClientKeeps, ClientTypes', PipesInv', UNCHANGED handled,
           client'.conn = client.conn, client'.request = client.request, client'.pc # "free",
           VersionInv', StepInv'
    PROVE  IbpInv'
<1>1. ServerTypes' /\ HostInv'
  BY HostKept DEF IbpInv
<1>2. WaitInv'
  BY DEF IbpInv, WaitInv, Here, ClientKeeps
<1>3. HandledInv'
  BY DEF IbpInv, HandledInv, ClientKeeps
<1>4. Here'
  BY DEF Here, ClientKeeps
<1> QED
  BY <1>1, <1>2, <1>3, <1>4 DEF IbpInv

\* A step of the host on the accepted connection.
LEMMA HostGoal ==
    ASSUME IbpInv, Here, UNCHANGED <<accepted, client, handled>>, Alive' = Alive,
           ServerTypes', HostInv', PipesInv', HandledInv', VersionInv', StepInv'
    PROVE  IbpInv'
<1>1. WaitInv' /\ ClientTypes'
  BY DEF IbpInv, WaitInv, ClientTypes
<1>2. Here'
  BY DEF Here
<1> QED
  BY <1>1, <1>2 DEF IbpInv

\* A step of the host after the client has gone.
LEMMA HostAloneGoal ==
    ASSUME IbpInv, ~Here, UNCHANGED <<accepted, client, handled>>, Alive' = Alive,
           ServerTypes', HostInv', PipesInv', HandledInv', UpInv'
    PROVE  IbpInv'
<1>1. WaitInv' /\ ClientTypes'
  BY DEF IbpInv, WaitInv, ClientTypes
<1>2. ~Here'
  BY DEF Here
<1> QED
  BY <1>1, <1>2 DEF IbpInv

\* What the host may read, whether the client is there or has gone.
LEMMA UpHolds ==
    ASSUME IbpInv, accepted = 1
    PROVE  UpInv
<1> SUFFICES ASSUME Here PROVE UpInv
  BY DEF IbpInv
<1>1. StepInv /\ VersionInv /\ HostInv /\ WaitInv /\ ServerTypes
  BY DEF IbpInv
<1>2. Favourite => client.version \in ToSet(ServerVersions)
  BY DEF Favourite, ToSet
<1>3. client.request \in Requests
  BY <1>1 DEF WaitInv, Here
<1>a. handshake # "ended" => ~Pending /\ ~server.ready
  BY <1>1 DEF HostInv, Pending
<1>4. CASE Announcing
  BY <1>4, <1>a DEF Announcing, UpInv
<1>5. CASE Choosing
  <2>1. client.pc \in {"sendCaps", "recvCaps"} \cup Resting =>
            client.version \in ToSet(ServerVersions)
    BY <1>1, <1>2 DEF VersionInv, Resting
  <2>2. client.pc = "recvCaps" => client.version > 0
    BY <1>1 DEF VersionInv
  <2>3. \/ Up = <<>>
        \/ client.version \in ToSet(ServerVersions) /\ Up = One(Answer(client.version))
        \/ /\ client.version \in ToSet(ServerVersions) /\ client.version > 0
           /\ Up = Two(Answer(client.version), Ask(client.request))
    BY <1>5, <2>1, <2>2 DEF Choosing
  <2>4. handshake = "recvVersion"
    BY <1>5 DEF Choosing
  <2> QED
    BY <1>3, <1>a, <2>3, <2>4 DEF UpInv
<1>6. CASE Asking
  BY <1>6, <1>3, <1>a DEF Asking, UpInv
<1>7. CASE Granting
  BY <1>7, <1>a DEF Granting, UpInv
<1>8. CASE Refused
  BY <1>8, <1>1 DEF Refused, UpInv, HostInv, Pending
<1>9. CASE Quiet
  BY <1>9, <1>1 DEF Quiet, UpInv, HostInv, Pending
<1>10. CASE Answering
  <2>1. Pending /\ server.ready /\ handshake = "ended"
    BY <1>10, <1>1 DEF Answering, HostInv
  <2>2. Replies
    BY <1>10 DEF Answering, Offered, Taken, Settled, Replies
  <2> QED
    BY <2>1, <2>2 DEF UpInv
<1> QED
  BY <1>1, <1>4, <1>5, <1>6, <1>7, <1>8, <1>9, <1>10 DEF StepInv

\* A client that closes its connection leaves what the host may read.
LEMMA Closed ==
    ASSUME IbpInv, client.conn # 0, NEW p \in Pipe,
           conn' = [conn EXCEPT ![client.conn] = p],
           p.serverOpen = conn[client.conn].serverOpen, p.clientOpen = FALSE,
           p.toClient = conn[client.conn].toClient,
           client.conn # accepted => p.toServer = conn[client.conn].toServer,
           client' = NewClient, UNCHANGED handled, ClientKeeps,
           Here => UpInv'
    PROVE  IbpInv'
<1>1. ServerTypes' /\ HostInv' /\ Pending' = Pending /\ Alive' = Alive
  BY HostKept DEF IbpInv
<1>2. ClientTypes' /\ WaitInv' /\ ~Here'
  BY DEF IbpInv, ClientTypes, WaitInv, NewClient, Here, NoCaps, NoVersion
<1>3. HandledInv'
  BY DEF IbpInv, HandledInv, ClientKeeps
<1>4. client.conn \in DOMAIN conn /\ DOMAIN conn = 1..Len(conn) /\ conn \in Seq(Pipe)
  BY DEF IbpInv, PipesInv
<1>5. /\ conn' \in Seq(Pipe)
      /\ Len(conn') = Len(conn)
      /\ DOMAIN conn' = DOMAIN conn
      /\ conn'[client.conn] = p
      /\ \A c \in DOMAIN conn : c # client.conn => conn'[c] = conn[c]
  BY <1>4, PipeChanged
<1>6. client'.conn = 0
  BY DEF NewClient
<1>7. PipesInv'
  <2>1. \A c \in DOMAIN conn' :
          /\ conn'[c].serverOpen <=> Alive'
          /\ conn'[c].clientOpen <=> client'.conn = c
          /\ Len(conn'[c].toClient) <= 2
          /\ c # accepted' => conn'[c].toClient = <<>> /\ conn'[c].toServer = <<>>
    BY <1>1, <1>4, <1>5, <1>6 DEF IbpInv, PipesInv, ClientKeeps
  <2>2. listener' # "unbound"
    BY <1>4, EmptyQueue DEF IbpInv, PipesInv, ClientKeeps
  <2>3. client'.conn \in 0..Len(conn') /\ accepted' <= Len(conn') /\ Len(conn') <= MaxConnect
    BY <1>5, <1>6 DEF IbpInv, PipesInv, ClientKeeps
  <2> QED
    BY <1>5, <2>1, <2>2, <2>3 DEF PipesInv
<1>8. accepted = 1 /\ ~Here => UpInv'
  <2> SUFFICES ASSUME accepted = 1, ~Here PROVE UpInv'
    OBVIOUS
  <2>1. UpInv
    BY DEF IbpInv
  <2>2. Up' = Up
    BY <1>5, Accepted1 DEF Here, Up, IbpInv
  <2>3. Replies' = Replies
    BY <2>2 DEF Replies, ClientKeeps
  <2> QED
    BY <1>1, <2>1, <2>2, <2>3 DEF UpInv, ClientKeeps
<1> QED
  BY <1>1, <1>2, <1>3, <1>7, <1>8 DEF IbpInv, ClientKeeps

\* Disconnect, at whatever point: the host may still read what was sent.
LEMMA DisconnectKeeps ==
    ASSUME IbpInv, client.conn # 0, Disconnect, UNCHANGED handled, ClientKeeps
    PROVE  IbpInv'
<1> DEFINE p == [conn[client.conn] EXCEPT !.clientOpen = FALSE]
<1>1. conn[client.conn] \in Pipe
  BY DEF IbpInv, PipesInv
<1>2. /\ p \in Pipe
      /\ p.serverOpen = conn[client.conn].serverOpen /\ p.clientOpen = FALSE
      /\ p.toClient = conn[client.conn].toClient /\ p.toServer = conn[client.conn].toServer
  BY <1>1 DEF Pipe
<1>3. conn' = [conn EXCEPT ![client.conn] = p] /\ client' = NewClient
  BY DEF Disconnect
<1> HIDE DEF p
<1>4. ASSUME Here PROVE UpInv'
  <2>1. UpInv
    BY <1>4, UpHolds DEF Here
  <2>2. Up' = Up
    BY <1>2, <1>3, <1>4, Accepted1 DEF Here, Up, IbpInv, PipesInv
  <2>3. Replies' = Replies
    BY <2>2 DEF Replies, ClientKeeps
  <2> QED
    BY <2>1, <2>2, <2>3 DEF UpInv, ClientKeeps, Pending
<1> QED
  BY <1>2, <1>3, <1>4, Closed

------------------------------------------------------------------------------
(* The steps of the client. *)

LEMMA OnAccepted ==
    ASSUME IbpInv, client.pc \notin {"free", "recvNegotiate", "stuck"}
    PROVE  Here
BY DEF IbpInv, WaitInv, ServerTypes, Here

LEMMA ConnectKeeps ==
    ASSUME IbpInv, NEW r \in Requests, NEW versions \in ClientBuilds, Connect(r, versions)
    PROVE  IbpInv'
<1> USE DEF Connect
<1>1. ServerTypes' /\ HostInv' /\ Pending' = Pending /\ Alive' = Alive
  BY HostKept DEF IbpInv
<1>2. HandledInv'
  BY DEF IbpInv, HandledInv, ClientKeeps
<1>3. client.conn = 0 /\ accepted <= Len(conn) /\ Len(conn) \in Nat /\ conn \in Seq(Pipe)
      /\ Len(conn) < MaxConnect /\ Alive /\ MaxConnect \in Nat
  BY IbpAssumption DEF IbpInv, WaitInv, PipesInv, HostInv
<1>4. NewConn \in Pipe /\ NewConn.serverOpen = TRUE /\ NewConn.clientOpen = TRUE
      /\ NewConn.toClient = <<>> /\ NewConn.toServer = <<>>
  BY DEF NewConn, Pipe
<1>5. /\ conn' \in Seq(Pipe)
      /\ Len(conn') = Len(conn) + 1
      /\ \A c \in 1..Len(conn) : conn'[c] = conn[c]
      /\ conn'[Len(conn) + 1] = NewConn
  <2>1. conn' = Append(conn, NewConn)
    OBVIOUS
  <2> QED
    BY <1>3, <1>4, <2>1, AppendProperties
<1>6. /\ client' \in [pc : {"recvNegotiate"}, conn : {Len(conn) + 1}, supports : {versions},
                      request : {r}, version : {NoVersion}, caps : {NoCaps},
                      event : {[kind |-> "none"]}]
  BY <1>5 DEF NewClient
<1>7. ClientTypes' /\ WaitInv'
  <2>1. client'.conn \in Nat /\ client'.conn # 0
    BY <1>3, <1>6
  <2>2. ClientTypes'
    BY <1>3, <1>6 DEF IbpInv, ClientTypes, NoVersion, NoCaps, Connecting
  <2> QED
    BY <1>6, <2>1, <2>2 DEF WaitInv
<1>8. DOMAIN conn' = 1..(Len(conn) + 1) /\ DOMAIN conn = 1..Len(conn)
  BY <1>3, <1>5
<1>9. PipesInv'
  <2>1. \A c \in 1..Len(conn) :
          /\ conn'[c].serverOpen <=> Alive'
          /\ conn'[c].clientOpen <=> client'.conn = c
          /\ Len(conn'[c].toClient) <= 2
          /\ c # accepted' => conn'[c].toClient = <<>> /\ conn'[c].toServer = <<>>
    BY <1>1, <1>3, <1>5, <1>6, <1>8 DEF IbpInv, PipesInv, ClientKeeps
  <2>2. Len(conn) + 1 # accepted'
    BY <1>3 DEF IbpInv, ServerTypes, ClientKeeps
  <2>3. LET c == Len(conn) + 1 IN
          /\ conn'[c].serverOpen <=> Alive'
          /\ conn'[c].clientOpen <=> client'.conn = c
          /\ Len(conn'[c].toClient) <= 2
          /\ c # accepted' => conn'[c].toClient = <<>> /\ conn'[c].toServer = <<>>
    BY <1>1, <1>3, <1>4, <1>5, <1>6, EmptyQueue
  <2>4. \A c \in DOMAIN conn' : c \in 1..Len(conn) \/ c = Len(conn) + 1
    BY <1>3, <1>8
  <2>5. listener' # "unbound"
    BY DEF ClientKeeps
  <2>6. client'.conn \in 0..Len(conn') /\ accepted' <= Len(conn') /\ Len(conn') <= MaxConnect
    BY <1>3, <1>5, <1>6 DEF IbpInv, ServerTypes, ClientKeeps
  <2> QED
    BY <1>5, <2>1, <2>3, <2>4, <2>5, <2>6 DEF PipesInv
<1>10. ~Here /\ ~Here'
  BY <1>3, <1>6 DEF Here, IbpInv, ServerTypes, ClientKeeps
<1>11. accepted' = 1 => UpInv'
  <2> SUFFICES ASSUME accepted = 1 PROVE UpInv'
    BY DEF ClientKeeps
  <2>1. UpInv
    BY <1>10 DEF IbpInv
  <2>2. Up' = Up
    BY <1>3, <1>5 DEF Up
  <2>3. Replies' = Replies
    BY <2>2 DEF Replies, ClientKeeps
  <2> QED
    BY <1>1, <2>1, <2>2, <2>3 DEF UpInv, ClientKeeps
<1> QED
  BY <1>1, <1>2, <1>7, <1>9, <1>10, <1>11 DEF IbpInv

\* The first Recv of a client that is not the accepted one only ever fails.
LEMMA RecvNegotiateKeeps ==
    ASSUME IbpInv, RecvNegotiate
    PROVE  IbpInv'
<1>0. client.pc = "recvNegotiate" /\ UNCHANGED handled /\ ClientKeeps
  BY DEF RecvNegotiate
<1>1. ServerTypes' /\ HostInv' /\ Pending' = Pending /\ Alive' = Alive
  BY <1>0, HostKept DEF IbpInv
<1>2. HandledInv'
  BY <1>0 DEF IbpInv, HandledInv, ClientKeeps
<1>3. client \in [pc : {"recvNegotiate"}, conn : Nat, supports : ClientBuilds \cup {{}},
                  request : Requests, version : 0..3,
                  caps : SUBSET (WatchScope \cup {"none"}),
                  event : HostMessage \cup {[kind |-> "none"]}]
      /\ client.conn # 0 /\ client.conn \in DOMAIN conn
  <2>1. client.pc = "recvNegotiate" /\ client.request \in Requests /\ client.conn # 0
    BY <1>0 DEF IbpInv, WaitInv
  <2>2. client.conn \in DOMAIN conn
    <3>1. client.conn \in 0..Len(conn) /\ conn \in Seq(Pipe)
      BY DEF IbpInv, PipesInv
    <3> QED
      BY <2>1, <3>1
  <2>3. ClientTypes
    BY DEF IbpInv
  <2> QED
    BY <2>1, <2>2, <2>3 DEF ClientTypes
<1>4. CASE ~Here
  <2>1. client.conn # accepted
    BY <1>3, <1>4 DEF Here, IbpInv, ServerTypes
  <2>2. ~ClientHears
    BY <1>3, <2>1 DEF ClientHears, IbpInv, PipesInv
  <2>3. ~Alive /\ UNCHANGED conn /\ client' = [client EXCEPT !.pc = "stuck"]
    <3>1. ClientEof /\ ClientGoes("stuck") /\ UNCHANGED conn
      BY <2>2 DEF RecvNegotiate
    <3> QED
      BY <1>3, <3>1 DEF ClientEof, ClientGoes, IbpInv, PipesInv
  <2>4. client'.conn = client.conn /\ client'.pc = "stuck" /\ ClientTypes'
    BY <1>0, <1>3, <2>3 DEF ClientTypes, Left, IbpInv
  <2>5. client'.request \in Requests
    BY <1>3, <2>3
  <2>6. WaitInv' /\ PipesInv' /\ Up' = Up /\ ~Here'
    BY <1>0, <1>1, <1>3, <1>4, <2>3, <2>4, <2>5, PipesSame
       DEF IbpInv, WaitInv, ClientKeeps, Here
  <2>7. accepted = 1 => UpInv'
    BY <1>0, <1>1, <1>4, <2>6 DEF IbpInv, UpInv, Replies, ClientKeeps
  <2> QED
    BY <1>0, <1>1, <1>2, <2>4, <2>6, <2>7 DEF IbpInv, ClientKeeps
<1>5. CASE Here
  <2>1. StepInv /\ VersionInv
    BY <1>5 DEF IbpInv
  <2>2. CASE ClientEof /\ ClientGoes("stuck") /\ UNCHANGED conn
    <3>1. ~Alive /\ Down = <<>> /\ UNCHANGED conn /\ client' = [client EXCEPT !.pc = "stuck"]
      BY <1>5, <2>2, Accepted1
         DEF ClientEof, ClientHears, ClientGoes, Here, Down, IbpInv
    <3>2. client' \in [pc : {"stuck"}, conn : {client.conn}, supports : {client.supports},
                       request : {client.request}, version : {client.version},
                       caps : {client.caps}, event : {client.event}]
      BY <1>3, <3>1
    <3>3. ClientTypes' /\ PipesInv' /\ Down' = Down /\ Up' = Up
      BY <1>0, <1>1, <1>3, <3>1, <3>2, PipesSame DEF ClientTypes, Left, IbpInv, ClientKeeps
    <3>4. VersionInv'
      BY <1>0, <1>3, <2>1, <3>2
         DEF VersionInv, ClientKeeps, Connecting, Connected
    <3>5. Announcing \/ Choosing
      BY <1>3, <2>1 DEF StepInv, Announcing, Choosing, Asking, Granting, Refused, Quiet,
                        Answering, Offered, Taken, Settled, Resting
    <3>6. StepInv'
      BY <1>0, <1>1, <1>3, <3>1, <3>2, <3>3, <3>5, Queues
         DEF StepInv, Announcing, Choosing, ClientKeeps, Resting
    <3> QED
      BY <1>0, <1>3, <1>5, <3>2, <3>3, <3>4, <3>6, ClientGoal
  <2>3. CASE /\ ClientHears /\ ClientTakes
             /\ LET common == CommonVersions(FromServer.versions) IN
                \/ /\ FromServer.kind = "NEGOTIATE"
                   /\ \E v \in common :
                         client' = [client EXCEPT !.pc = "sendVersion", !.version = v]
                \/ ClientGoes("stuck")
    <3>1. handshake = "recvVersion" /\ Down = One(Announcement) /\ Up = <<>>
          /\ server.caps = NoCaps /\ ~server.ready
      <4>1. Down # <<>>
        BY <1>5, <2>3 DEF ClientHears, Down, Here
      <4>2. Choosing
        BY <1>3, <2>1, <4>1
           DEF StepInv, Announcing, Choosing, Asking, Granting, Refused, Quiet,
               Answering, Offered, Taken, Settled, Resting
      <4> QED
        BY <1>3, <4>1, <4>2 DEF Choosing, Resting, IbpInv, HostInv
    <3>2. FromServer = Announcement
      BY <1>5, <3>1, Queues DEF FromServer, Down, Here
    <3>3. PICK v \in 0..3, pc \in {"sendVersion", "stuck"} :
              /\ client' = [client EXCEPT !.pc = pc, !.version = v]
              /\ pc = "sendVersion" => v \in CommonVersions(ServerVersions)
      <4>1. \A v \in CommonVersions(ServerVersions) : v \in 0..3
        <5>1. \A v \in CommonVersions(ServerVersions) : v \in ToSet(ServerVersions)
          BY DEF CommonVersions, ToSet
        <5>2. 0..2 \subseteq 0..3
          OBVIOUS
        <5> QED
          BY <5>1, <5>2, Versions, Zenon
      <4>2. ASSUME ClientGoes("stuck")
            PROVE  client' = [client EXCEPT !.pc = "stuck", !.version = client.version]
        BY <1>3, <4>2 DEF ClientGoes
      <4>3. CASE \E v \in CommonVersions(ServerVersions) :
                    client' = [client EXCEPT !.pc = "sendVersion", !.version = v]
        BY <4>1, <4>3, Zenon
      <4>4. CASE ClientGoes("stuck")
        BY <1>3, <4>2, <4>4
      <4> QED
        BY <2>3, <3>2, <4>3, <4>4, Messages
    <3>4. client' \in [pc : {pc}, conn : {client.conn}, supports : {client.supports},
                       request : {client.request}, version : {v},
                       caps : {client.caps}, event : {client.event}]
      BY <1>3, <3>3
    <3>5. ClientTypes' /\ PipesInv' /\ Down' = <<>> /\ Up' = <<>>
      BY <1>0, <1>3, <1>5, <2>3, <3>1, <3>4, ClientHeard, Queues
         DEF ClientTypes, Connecting, Left, IbpInv, ClientKeeps
    <3>6. pc = "sendVersion" => Favourite'
      BY <1>3, <3>3, <3>4 DEF Favourite, CommonVersions
    <3>7. VersionInv'
      BY <1>0, <1>3, <2>1, <3>1, <3>4, <3>6
         DEF VersionInv, ClientKeeps, Connecting, Connected
    <3>8. StepInv'
      BY <1>0, <3>1, <3>4, <3>5 DEF StepInv, Choosing, ClientKeeps
    <3> QED
      BY <1>0, <1>3, <1>5, <3>4, <3>5, <3>7, <3>8, ClientGoal
  <2> QED
    BY <2>2, <2>3 DEF RecvNegotiate
<1> QED
  BY <1>4, <1>5

LEMMA CycleMessages ==
    \A m \in Cycles :
        /\ m \in HostMessage /\ m.id = cycle.id /\ m.kind \in {"CYCLE", "CYCLE_RESET"}
        /\ m.kind = "CYCLE" => (m.scope = "" <=> server.version = 0)
        /\ m.kind = "CYCLE_RESET" => server.version = 2
BY DEF Cycles

\* A client on the accepted connection that only moves on in its code.
LEMMA PcMoves ==
    ASSUME IbpInv, Here, ClientKeeps,
           NEW pc \in Connecting \cup Connected \cup Left, ClientGoes(pc)
    PROVE  /\ client'.pc = pc /\ client'.conn = client.conn
           /\ client'.supports = client.supports /\ client'.request = client.request
           /\ client'.version = client.version /\ client'.caps = client.caps
           /\ client'.event = client.event
           /\ Favourite' <=> Favourite
           /\ Cycles' = Cycles /\ Pending' = Pending /\ Alive' = Alive
           /\ UNCHANGED handled => ClientTypes'
<1>1. ClientTypes /\ ServerTypes /\ HostInv
  BY DEF IbpInv
<1>2. /\ client'.pc = pc /\ client'.conn = client.conn
      /\ client'.supports = client.supports /\ client'.request = client.request
      /\ client'.version = client.version /\ client'.caps = client.caps
      /\ client'.event = client.event
  BY <1>1 DEF ClientTypes, ClientGoes
<1>3. UNCHANGED handled => ClientTypes'
  BY <1>1 DEF ClientTypes, ClientGoes
<1> QED
  BY <1>1, <1>2, <1>3, FavouriteKept, HostKept

LEMMA SendVersionKeeps ==
    ASSUME IbpInv, SendVersion
    PROVE  IbpInv'
<1>0. client.pc = "sendVersion" /\ UNCHANGED handled /\ ClientKeeps
  BY DEF SendVersion
<1>1. Here /\ StepInv /\ VersionInv /\ ClientTypes
  BY <1>0, OnAccepted DEF IbpInv
<1>2. /\ handshake = "recvVersion" /\ Down = <<>> /\ Up = <<>>
      /\ client.version \in ToSet(ServerVersions) /\ client.caps = NoCaps
      /\ ~server.ready /\ server.caps = NoCaps
  <2>1. handshake = "recvVersion" /\ Down = <<>> /\ Up = <<>>
    BY <1>0, <1>1 DEF StepInv, Announcing, Choosing, Asking, Granting, Refused, Quiet,
                      Answering, Offered, Taken, Settled, Resting
  <2>2. client.version \in ToSet(ServerVersions) /\ client.caps = NoCaps
    BY <1>0, <1>1 DEF VersionInv, Favourite, ToSet, Connecting
  <2> QED
    BY <2>1, <2>2 DEF IbpInv, HostInv
<1>3. Answer(client.version) \in ClientMessage
  BY <1>2, Versions, ClientMessages
<1>4. ASSUME NEW pc \in {"sendCaps", "connected"}, ClientGoes(pc),
             pc = IF client.version > 0 THEN "sendCaps" ELSE "connected",
             client.version > 0 \/ client.request = {},
             conn' = [conn EXCEPT ![client.conn].toServer =
                          Append(conn[client.conn].toServer, Answer(client.version))]
      PROVE  IbpInv'
  <2>1. /\ client'.pc = pc /\ client'.conn = client.conn
        /\ client'.request = client.request
        /\ client'.version = client.version /\ client'.caps = client.caps
        /\ Favourite' <=> Favourite
        /\ ClientTypes'
    BY <1>0, <1>1, <1>4, PcMoves DEF Connecting, Connected
  <2>2. PipesInv' /\ Down' = <<>> /\ Up' = One(Answer(client.version))
    BY <1>0, <1>1, <1>2, <1>3, <1>4, <2>1, ClientSent, Queues DEF IbpInv, ClientKeeps
  <2>3. client.version \in Nat
    BY <1>1 DEF ClientTypes
  <2>4. VersionInv'
    BY <1>0, <1>1, <1>2, <1>4, <2>1, <2>3 DEF VersionInv, Connecting, Connected, ClientKeeps
  <2>5. Choosing'
    BY <1>0, <1>2, <1>4, <2>1, <2>2, <2>3 DEF Choosing, Resting, ClientKeeps
  <2> QED
    BY <1>0, <1>1, <1>4, <2>1, <2>2, <2>4, <2>5, ClientGoal DEF StepInv
<1>5. ASSUME conn' = [conn EXCEPT ![client.conn].toServer =
                          Append(conn[client.conn].toServer, Answer(client.version)),
                      ![client.conn].clientOpen = FALSE],
             client' = NewClient
      PROVE  IbpInv'
  <2> DEFINE q == [conn[client.conn] EXCEPT !.toServer = Append(Up, Answer(client.version))]
             p == [q EXCEPT !.clientOpen = FALSE]
  <2>1. client.conn = 1 /\ client.conn \in DOMAIN conn /\ conn[client.conn] \in Pipe
        /\ Up = conn[client.conn].toServer
    BY <1>1, Accepted1 DEF Here, IbpInv, Up
  <2>2. Append(Up, Answer(client.version)) = One(Answer(client.version))
        /\ Append(Up, Answer(client.version)) \in Seq(ClientMessage)
    BY <1>1, <1>2, <1>3, Accepted1, AppendProperties, Queues DEF Here, IbpInv
  <2>3. q \in Pipe /\ q.serverOpen = conn[client.conn].serverOpen
        /\ q.toClient = conn[client.conn].toClient
        /\ q.toServer = One(Answer(client.version))
    BY <2>1, <2>2 DEF Pipe
  <2>4. conn' = [conn EXCEPT ![client.conn] = p]
    BY <1>5, <2>1
  <2> HIDE DEF q
  <2>5. p \in Pipe /\ p.serverOpen = conn[client.conn].serverOpen /\ p.clientOpen = FALSE
        /\ p.toClient = conn[client.conn].toClient
        /\ p.toServer = One(Answer(client.version))
    BY <2>3 DEF Pipe
  <2> HIDE DEF p
  <2>6. Up' = One(Answer(client.version))
    BY <2>1, <2>4, <2>5 DEF Up, IbpInv, PipesInv
  <2>7. UpInv'
    BY <1>0, <1>2, <2>6 DEF UpInv, ClientKeeps, IbpInv, HostInv, Pending
  <2>8. client.conn # 0 /\ client.conn = accepted
    BY <1>1, <2>1 DEF Here
  <2> QED
    BY <1>0, <1>5, <2>4, <2>5, <2>7, <2>8, Closed
<1>6. ASSUME ~ClientSends, ClientGoes("stuck"), UNCHANGED conn
      PROVE  IbpInv'
  <2>1. /\ client'.pc = "stuck" /\ client'.conn = client.conn
        /\ client'.request = client.request
        /\ client'.version = client.version /\ client'.caps = client.caps
        /\ ClientTypes' /\ Alive' = Alive
    BY <1>0, <1>1, <1>6, PcMoves DEF Left
  <2>2. PipesInv' /\ Down' = <<>> /\ Up' = <<>>
    BY <1>0, <1>2, <1>6, <2>1, PipesSame DEF IbpInv, ClientKeeps
  <2>3. VersionInv'
    BY <1>0, <1>1, <1>2, <2>1 DEF VersionInv, Connecting, Connected, ClientKeeps
  <2>4. Choosing'
    BY <1>0, <1>2, <2>1, <2>2 DEF Choosing, ClientKeeps
  <2> QED
    BY <1>0, <1>1, <1>6, <2>1, <2>2, <2>3, <2>4, ClientGoal DEF StepInv
<1>7. CASE /\ ClientSends
           /\ HasCapMessage(client.version) \/ client.request = {}
  <2>1. conn' = [conn EXCEPT ![client.conn].toServer =
                     Append(conn[client.conn].toServer, Answer(client.version))]
        /\ ClientGoes(IF HasCapMessage(client.version) THEN "sendCaps" ELSE "connected")
    BY <1>7 DEF SendVersion, Answer
  <2> QED
    BY <1>4, <1>7, <2>1 DEF HasCapMessage
<1>8. CASE /\ ClientSends
           /\ ~(HasCapMessage(client.version) \/ client.request = {})
  <2>1. conn' = [conn EXCEPT ![client.conn].toServer =
                          Append(conn[client.conn].toServer, Answer(client.version)),
                      ![client.conn].clientOpen = FALSE]
        /\ client' = NewClient
    BY <1>8 DEF SendVersion, Answer
  <2> QED
    BY <1>5, <2>1
<1>9. CASE ~ClientSends
  BY <1>6, <1>9 DEF SendVersion
<1> QED
  BY <1>7, <1>8, <1>9

LEMMA SendCapsRequestKeeps ==
    ASSUME IbpInv, SendCapsRequest
    PROVE  IbpInv'
<1>0. client.pc = "sendCaps" /\ UNCHANGED handled /\ ClientKeeps
  BY DEF SendCapsRequest
<1>1. Here /\ StepInv /\ VersionInv
  BY <1>0, OnAccepted DEF IbpInv
<1>2. CASE ~ClientSends /\ Disconnect
  BY <1>0, <1>1, <1>2, DisconnectKeeps DEF Here
<1>3. CASE /\ ToServer([kind |-> "CAPS", caps |-> client.request])
           /\ ClientGoes("recvCaps")
  <2>1. /\ client'.pc = "recvCaps" /\ client'.conn = client.conn
        /\ client'.request = client.request
        /\ client'.version = client.version /\ client'.caps = client.caps
        /\ Favourite' <=> Favourite
        /\ ClientTypes'
    BY <1>0, <1>1, <1>3, PcMoves DEF Connecting
  <2>2. Ask(client.request) \in ClientMessage
    BY <1>0, ClientMessages DEF IbpInv, WaitInv
  <2>3. PipesInv' /\ Down' = Down /\ Up' = Append(Up, Ask(client.request))
    BY <1>0, <1>1, <1>3, <2>1, <2>2, ClientSent DEF IbpInv, ClientKeeps, ToServer, Ask
  <2>4. /\ Down = <<>> /\ client.version > 0
        /\ \/ handshake = "recvVersion" /\ Up = One(Answer(client.version))
           \/ handshake = "recvCaps" /\ Up = <<>>
    BY <1>0, <1>1 DEF StepInv, Announcing, Choosing, Asking, Granting, Refused, Quiet,
                      Answering, Offered, Taken, Settled, Resting, VersionInv
  <2>5. VersionInv'
    BY <1>0, <1>1, <2>1 DEF VersionInv, Connecting, Connected, ClientKeeps
  <2>6. Choosing' \/ Asking'
    BY <1>0, <2>1, <2>3, <2>4, Queues DEF Choosing, Asking, ClientKeeps
  <2> QED
    BY <1>0, <1>1, <2>1, <2>3, <2>5, <2>6, ClientGoal DEF StepInv
<1> QED
  BY <1>2, <1>3 DEF SendCapsRequest

LEMMA RecvCapsResponseKeeps ==
    ASSUME IbpInv, RecvCapsResponse
    PROVE  IbpInv'
<1>0. client.pc = "recvCaps" /\ UNCHANGED handled /\ ClientKeeps
  BY DEF RecvCapsResponse
<1>1. Here /\ StepInv /\ VersionInv /\ ClientTypes /\ ServerTypes /\ HostInv
  BY <1>0, OnAccepted DEF IbpInv
<1>2. CASE Disconnect
  BY <1>0, <1>1, <1>2, DisconnectKeeps DEF Here
<1>3. CASE /\ ClientHears /\ ClientTakes
           /\ client' = [client EXCEPT !.pc = "connected", !.caps = ReadCaps(FromServer.caps)]
  <2>1. Down # <<>>
    BY <1>1, <1>3 DEF ClientHears, Down, Here
  <2>2. \/ Quiet /\ Down = One(Grant(server.caps))
        \/ /\ Quiet /\ host \in {"exiting", "closed", "dead"}
           /\ Down = Two(Grant(server.caps), Farewell)
        \/ /\ server.ready /\ Pending /\ Up = <<>> /\ cycle.id \notin ToSet(handled)
           /\ \E m \in Cycles : Down = Two(Grant(server.caps), m)
    BY <1>0, <1>1, <2>1
       DEF StepInv, Announcing, Choosing, Asking, Granting, Refused, Quiet,
           Answering, Offered, Taken, Settled, Resting
  <2>3. FromServer = Grant(server.caps)
    BY <1>1, <2>2, Queues DEF FromServer, Down, Here
  <2>4. handshake = "publish" \/ server.ready
    BY <2>2 DEF Quiet
  <2>5. ValidCaps(client.request) /\ server.caps = ReadCaps(client.request)
    BY <1>0, <1>1, <2>4 DEF VersionInv
  <2>6. ReadCaps(FromServer.caps) = server.caps /\ server.caps \subseteq WatchScope
        /\ server.caps # NoCaps
    BY <2>3, <2>5, Granted, Messages
  <2>7. /\ client'.pc = "connected" /\ client'.conn = client.conn
        /\ client'.supports = client.supports
        /\ client'.request = client.request
        /\ client'.version = client.version /\ client'.caps = server.caps
        /\ client'.event = client.event
    BY <1>1, <1>3, <2>6 DEF ClientTypes
  <2>8. ClientTypes'
    <3>1. client' = [client EXCEPT !.pc = "connected", !.caps = server.caps]
      BY <1>3, <2>6
    <3>2. server.caps \in SUBSET (WatchScope \cup {"none"})
      BY <2>6
    <3> QED
      BY <1>0, <1>1, <3>1, <3>2 DEF ClientTypes, Connected
  <2>9. PipesInv' /\ Down' = Tail(Down) /\ Up' = Up
    BY <1>0, <1>1, <1>3, <2>7, ClientHeard DEF IbpInv, ClientKeeps
  <2>10. Favourite' <=> Favourite
    BY <2>7, FavouriteKept
  <2>11. VersionInv'
    BY <1>0, <1>1, <2>6, <2>7, <2>10 DEF VersionInv, Connecting, Connected, ClientKeeps
  <2>12. Cycles' = Cycles /\ Pending' = Pending
    BY <1>0, <1>1, HostKept
  <2>13. Quiet' \/ Answering'
    <3>1. CASE Quiet /\ Down = One(Grant(server.caps))
      <4>1. Down' = <<>>
        BY <2>9, <3>1, Queues
      <4> QED
        BY <1>0, <2>7, <2>9, <3>1, <4>1 DEF Quiet, Resting, ClientKeeps
    <3>2. CASE /\ Quiet /\ host \in {"exiting", "closed", "dead"}
               /\ Down = Two(Grant(server.caps), Farewell)
      <4>1. Down' = One(Farewell)
        BY <2>9, <3>2, Queues
      <4> QED
        BY <1>0, <2>7, <2>9, <3>2, <4>1 DEF Quiet, Resting, ClientKeeps
    <3>3. CASE /\ server.ready /\ Pending /\ Up = <<>> /\ cycle.id \notin ToSet(handled)
               /\ \E m \in Cycles : Down = Two(Grant(server.caps), m)
      <4>1. \E m \in Cycles : Down' = One(m)
        BY <2>9, <3>3, Queues
      <4>2. Offered'
        BY <1>0, <2>7, <2>9, <2>12, <3>3, <4>1 DEF Offered, Resting, ClientKeeps
      <4> QED
        BY <1>0, <2>12, <3>3, <4>2 DEF Answering, ClientKeeps
    <3> QED
      BY <2>2, <3>1, <3>2, <3>3
  <2> QED
    BY <1>0, <1>1, <2>7, <2>8, <2>9, <2>11, <2>13, ClientGoal DEF StepInv
<1> QED
  BY <1>2, <1>3 DEF RecvCapsResponse

LEMMA AwaitCycleKeeps ==
    ASSUME IbpInv, AwaitCycle
    PROVE  IbpInv'
<1>0. client.pc = "connected" /\ UNCHANGED <<conn, handled>> /\ ClientKeeps
  BY DEF AwaitCycle
<1>1. Here /\ StepInv /\ VersionInv
  BY <1>0, OnAccepted DEF IbpInv
<1>2. PICK pc \in {"recv", "left"} : ClientGoes(pc)
  BY DEF AwaitCycle
<1>3. /\ client'.pc = pc /\ client'.conn = client.conn
      /\ client'.request = client.request
      /\ client'.version = client.version /\ client'.caps = client.caps
      /\ Favourite' <=> Favourite
      /\ ClientTypes' /\ Alive' = Alive /\ Cycles' = Cycles /\ Pending' = Pending
  BY <1>0, <1>1, <1>2, PcMoves DEF Connected, Left
<1>4. PipesInv' /\ Down' = Down /\ Up' = Up
  BY <1>0, <1>3, PipesSame DEF IbpInv, ClientKeeps
<1>5. VersionInv'
  BY <1>0, <1>1, <1>3 DEF VersionInv, Connecting, Connected, ClientKeeps
<1>6. StepInv'
  <2>1. Choosing \/ Quiet \/ (Answering /\ Offered)
    BY <1>0, <1>1 DEF StepInv, Announcing, Asking, Granting, Refused,
                      Answering, Taken, Settled
  <2>2. CASE Choosing
    BY <1>0, <1>3, <1>4, <2>2 DEF StepInv, Choosing, Resting, ClientKeeps
  <2>3. CASE Quiet
    BY <1>0, <1>3, <1>4, <2>3 DEF StepInv, Quiet, Resting, ClientKeeps
  <2>4. CASE Answering /\ Offered
    <3>1. Offered'
      BY <1>0, <1>3, <1>4, <2>4 DEF Offered, Resting, ClientKeeps
    <3> QED
      BY <1>0, <1>3, <2>4, <3>1 DEF StepInv, Answering, ClientKeeps
  <2> QED
    BY <2>1, <2>2, <2>3, <2>4
<1> QED
  BY <1>0, <1>1, <1>3, <1>4, <1>5, <1>6, ClientGoal

LEMMA RecvCycleKeeps ==
    ASSUME IbpInv, RecvCycle
    PROVE  IbpInv'
<1>0. client.pc = "recv" /\ UNCHANGED handled /\ ClientKeeps
  BY DEF RecvCycle
<1>1. Here /\ StepInv /\ VersionInv /\ ClientTypes /\ ServerTypes /\ HostInv
  BY <1>0, OnAccepted DEF IbpInv
<1>2. Choosing \/ Quiet \/ Answering
  BY <1>0, <1>1 DEF StepInv, Announcing, Asking, Granting, Refused
<1>3. CASE ClientHears /\ ClientTakes
  <2>1. Down # <<>>
    BY <1>1, <1>3 DEF ClientHears, Down, Here
  <2>2. \/ Quiet /\ Down = One(Farewell)
        \/ /\ server.ready /\ Pending /\ Up = <<>> /\ cycle.id \notin ToSet(handled)
           /\ \E m \in Cycles : Down = One(m)
    BY <1>0, <1>2, <2>1 DEF Choosing, Quiet, Answering, Offered, Taken, Settled
  <2>3. CASE Quiet /\ Down = One(Farewell)
    <3>1. FromServer = Farewell /\ UNCHANGED client
      <4>1. FromServer = Farewell
        BY <1>1, <2>3, Queues DEF FromServer, Down, Here
      <4> QED
        BY <1>3, <4>1, Messages DEF RecvCycle, ClientEof
    <3>2. PipesInv' /\ Down' = <<>> /\ Up' = Up
      BY <1>0, <1>1, <1>3, <2>3, <3>1, ClientHeard, Queues DEF IbpInv, ClientKeeps
    <3>3. VersionInv' /\ ClientTypes'
      BY <1>0, <1>1, <3>1 DEF VersionInv, Favourite, ClientKeeps, ClientTypes
    <3>4. Quiet'
      BY <1>0, <2>3, <3>1, <3>2 DEF Quiet, Resting, ClientKeeps
    <3> QED
      BY <1>0, <1>1, <3>1, <3>2, <3>3, <3>4, ClientGoal DEF StepInv
  <2>4. CASE /\ server.ready /\ Pending /\ Up = <<>> /\ cycle.id \notin ToSet(handled)
             /\ \E m \in Cycles : Down = One(m)
    <3>1. PICK m \in Cycles : Down = One(m)
      BY <2>4
    <3>2. FromServer = m
      BY <1>1, <3>1, Queues DEF FromServer, Down, Here
    <3>3. client' = [client EXCEPT !.pc = "sendStarted", !.event = m]
      BY <1>3, <3>2, CycleMessages DEF RecvCycle, ClientEof
    <3>4. m \in HostMessage
      BY CycleMessages
    <3>5. /\ client'.pc = "sendStarted" /\ client'.conn = client.conn
          /\ client'.supports = client.supports /\ client'.request = client.request
          /\ client'.version = client.version /\ client'.caps = client.caps
          /\ client'.event = m
      BY <1>1, <3>3 DEF ClientTypes
    <3>6. ClientTypes'
      BY <1>0, <1>1, <3>3, <3>4 DEF ClientTypes, Connected
    <3>7. PipesInv' /\ Down' = <<>> /\ Up' = <<>>
      BY <1>0, <1>1, <1>3, <2>4, <3>1, <3>5, ClientHeard, Queues DEF IbpInv, ClientKeeps
    <3>8. Cycles' = Cycles /\ Pending' = Pending
      BY <1>0, <1>1, HostKept
    <3>9. Favourite' <=> Favourite
      BY <3>5, FavouriteKept
    <3>10. VersionInv'
      BY <1>0, <1>1, <3>5, <3>9 DEF VersionInv, Connecting, Connected, ClientKeeps
    <3>11. Taken'
      BY <1>0, <2>4, <3>5, <3>7, <3>8 DEF Taken, ClientKeeps
    <3>12. StepInv'
      BY <1>0, <2>4, <3>8, <3>11 DEF StepInv, Answering, ClientKeeps
    <3> QED
      BY <1>0, <1>1, <3>5, <3>6, <3>7, <3>10, <3>12, ClientGoal
  <2> QED
    BY <2>2, <2>3, <2>4
<1>4. CASE ClientEof /\ ClientGoes("left") /\ UNCHANGED conn
  <2>1. Down = <<>> /\ ~Alive
    BY <1>1, <1>4, Accepted1 DEF ClientEof, ClientHears, Down, Here, IbpInv
  <2>2. /\ client'.pc = "left" /\ client'.conn = client.conn
        /\ client'.request = client.request
        /\ client'.version = client.version /\ client'.caps = client.caps
        /\ Favourite' <=> Favourite
        /\ ClientTypes' /\ Alive' = Alive /\ Pending' = Pending
    BY <1>0, <1>1, <1>4, PcMoves DEF Left
  <2>3. PipesInv' /\ Down' = Down /\ Up' = Up
    BY <1>0, <1>4, <2>2, PipesSame DEF IbpInv, ClientKeeps
  <2>4. VersionInv'
    BY <1>0, <1>1, <2>2 DEF VersionInv, Connecting, Connected, ClientKeeps
  <2>5. CASE Choosing
    <3>1. Choosing'
      BY <1>0, <2>2, <2>3, <2>5 DEF Choosing, Resting, ClientKeeps
    <3> QED
      BY <1>0, <1>1, <2>2, <2>3, <2>4, <3>1, ClientGoal DEF StepInv
  <2>6. CASE Quiet
    <3>1. Quiet'
      BY <1>0, <2>2, <2>3, <2>6 DEF Quiet, Resting, ClientKeeps
    <3> QED
      BY <1>0, <1>1, <2>2, <2>3, <2>4, <3>1, ClientGoal DEF StepInv
  <2>7. CASE Answering
    <3>1. Replies
      BY <1>0, <2>1, <2>7, Queues DEF Answering, Offered, Taken, Settled
    <3>2. Replies'
      BY <1>0, <2>3, <3>1 DEF Replies, ClientKeeps
    <3>3. Settled'
      BY <2>1, <2>2, <2>3, <3>2 DEF Settled
    <3>4. StepInv'
      BY <1>0, <2>2, <2>7, <3>3 DEF StepInv, Answering, ClientKeeps
    <3> QED
      BY <1>0, <1>1, <2>2, <2>3, <2>4, <3>4, ClientGoal
  <2> QED
    BY <1>2, <2>5, <2>6, <2>7
<1> QED
  BY <1>3, <1>4 DEF RecvCycle

\* A client that is at a cycle has taken the one the host waits for.
LEMMA AtCycle ==
    ASSUME IbpInv, client.pc \in {"sendStarted", "handle", "sendCompleted", "sendLast"}
    PROVE  /\ Here /\ server.ready /\ Pending /\ Taken
           /\ client.event.id = cycle.id /\ cycle.id \in 1..MaxCycle
<1>1. Here /\ StepInv /\ HostInv /\ ServerTypes
  BY OnAccepted DEF IbpInv
<1>2. server.ready /\ Pending /\ Taken
  BY <1>1 DEF StepInv, Announcing, Choosing, Asking, Granting, Refused, Quiet,
              Answering, Offered, Settled, Resting
<1>3. cycle.id \in 0..MaxCycle /\ cycle.id > 0
  BY <1>1, <1>2 DEF HostInv, ServerTypes, Pending
<1>4. cycle.id \in 1..MaxCycle
  BY <1>3, IbpAssumption
<1>5. client.event.id = cycle.id
  <2>1. client.event \in Cycles
    BY <1>2 DEF Taken
  <2> QED
    BY <2>1, CycleMessages
<1> QED
  BY <1>1, <1>2, <1>4, <1>5

LEMMA SendStartedKeeps ==
    ASSUME IbpInv, SendStarted
    PROVE  IbpInv'
<1>0. client.pc = "sendStarted" /\ UNCHANGED handled /\ ClientKeeps
  BY DEF SendStarted
<1>1. /\ Here /\ server.ready /\ Pending /\ Taken /\ VersionInv
      /\ client.event.id = cycle.id /\ cycle.id \in 1..MaxCycle
  BY <1>0, AtCycle DEF IbpInv
<1>2. PICK pc \in {"handle", "left"} :
          /\ ClientGoes(pc)
          /\ \/ pc = "handle" /\ ToServer([kind |-> "CYCLE_STARTED", id |-> client.event.id])
             \/ pc = "left" /\ ~ClientSends /\ UNCHANGED conn
  BY DEF SendStarted
<1>3. /\ client'.pc = pc /\ client'.conn = client.conn
      /\ client'.request = client.request
      /\ client'.version = client.version /\ client'.caps = client.caps
      /\ client'.event = client.event
      /\ Favourite' <=> Favourite
      /\ ClientTypes' /\ Alive' = Alive /\ Cycles' = Cycles /\ Pending' = Pending
  BY <1>0, <1>1, <1>2, PcMoves DEF Connected, Left
<1>4. VersionInv'
  BY <1>0, <1>1, <1>3 DEF VersionInv, Connecting, Connected, ClientKeeps
<1>5. PipesInv' /\ Answering'
  <2>1. CASE pc = "handle"
    <3>1. Begun(cycle.id) \in ClientMessage
      BY <1>1, ClientMessages
    <3>2. PipesInv' /\ Down' = <<>> /\ Up' = One(Begun(cycle.id))
      <4> DEFINE m == Begun(cycle.id)
      <4>1. m = [kind |-> "CYCLE_STARTED", id |-> client.event.id]
        BY <1>1 DEF Begun
      <4>2. ToServer(m)
        BY <1>2, <2>1, <4>1
      <4> HIDE DEF m
      <4>3. /\ conn' = [conn EXCEPT ![client.conn].toServer
                                      = Append(conn[client.conn].toServer, m)]
            /\ UNCHANGED <<listener, accepted, host>> /\ client'.conn = client.conn
        BY <1>0, <1>3, <4>2 DEF ClientKeeps, ToServer
      <4>4. PipesInv /\ m \in ClientMessage
        BY <1>0, <3>1 DEF IbpInv, m
      <4>5. PipesInv' /\ Up' = Append(Up, m) /\ Down' = Down
        BY <1>1, <4>3, <4>4, ClientSent
      <4>6. Up = <<>> /\ Down = <<>>
        BY <1>0, <1>1 DEF Taken
      <4> QED
        BY <4>5, <4>6, Queues DEF m
    <3>3. Taken'
      BY <1>0, <1>1, <1>3, <2>1, <3>2 DEF Taken, ClientKeeps
    <3> QED
      BY <1>0, <1>1, <1>3, <3>2, <3>3 DEF Answering, ClientKeeps
  <2>2. CASE pc = "left"
    <3>1. ~Alive
      BY <1>1, <1>2, <2>2, Accepted1 DEF ClientSends, Here, IbpInv
    <3>2. PipesInv' /\ Down' = <<>> /\ Up' = <<>>
      BY <1>0, <1>1, <1>2, <1>3, <2>2, PipesSame DEF IbpInv, ClientKeeps, Taken
    <3>3. Settled'
      BY <1>3, <2>2, <3>1, <3>2 DEF Settled, Replies
    <3> QED
      BY <1>0, <1>1, <1>3, <3>2, <3>3 DEF Answering, ClientKeeps
  <2> QED
    BY <2>1, <2>2
<1> QED
  BY <1>0, <1>1, <1>3, <1>4, <1>5, ClientGoal DEF StepInv

LEMMA HandleKeeps ==
    ASSUME IbpInv, Handle
    PROVE  IbpInv'
<1>0. client.pc = "handle" /\ UNCHANGED conn /\ ClientKeeps
      /\ handled' = Append(handled, client.event.id)
  BY DEF Handle
<1>1. /\ Here /\ server.ready /\ Pending /\ Taken /\ VersionInv
      /\ client.event.id = cycle.id /\ cycle.id \in 1..MaxCycle
      /\ ServerTypes /\ HostInv /\ ClientTypes
  BY <1>0, AtCycle DEF IbpInv
<1>2. PICK pc \in {"sendCompleted", "sendLast"} : ClientGoes(pc)
  BY DEF Handle
<1>3. /\ client'.pc = pc /\ client'.conn = client.conn
      /\ client'.request = client.request
      /\ client'.version = client.version /\ client'.caps = client.caps
      /\ client'.event = client.event
      /\ Favourite' <=> Favourite
      /\ Alive' = Alive /\ Cycles' = Cycles /\ Pending' = Pending
  BY <1>0, <1>1, <1>2, PcMoves DEF Connected
<1>4. handled' \in Seq(1..MaxCycle) /\ ToSet(handled') = ToSet(handled) \cup {cycle.id}
  <2>1. handled \in Seq(1..MaxCycle) /\ handled' = Append(handled, cycle.id)
    BY <1>0, <1>1 DEF ClientTypes
  <2>2. /\ Append(handled, cycle.id) \in Seq(1..MaxCycle)
        /\ ToSet(Append(handled, cycle.id)) = ToSet(handled) \cup {cycle.id}
    <3> DEFINE S == 1..MaxCycle
    <3>1. handled \in Seq(S) /\ cycle.id \in S
      BY <1>1, <2>1
    <3> HIDE DEF S
    <3>2. Append(handled, cycle.id) \in Seq(S)
          /\ ToSet(Append(handled, cycle.id)) = ToSet(handled) \cup {cycle.id}
      BY <3>1, AlsoHandled
    <3> QED
      BY <3>2 DEF S
  <2> QED
    BY <2>1, <2>2
<1>5. ClientTypes'
  BY <1>1, <1>2, <1>4 DEF ClientTypes, ClientGoes, Connected
<1>6. VersionInv'
  BY <1>0, <1>1, <1>3 DEF VersionInv, Connecting, Connected, ClientKeeps
<1>7. PipesInv' /\ Down' = Down /\ Up' = Up
  BY <1>0, <1>3, PipesSame DEF IbpInv, ClientKeeps
<1>8. StepInv'
  <2>1. Taken'
    BY <1>0, <1>1, <1>3, <1>4, <1>7 DEF Taken, ClientKeeps
  <2> QED
    BY <1>0, <1>1, <1>3, <2>1 DEF StepInv, Answering, ClientKeeps
<1>9. HandledInv'
  <2>1. 1..cycle.id = 1..cycle'.id /\ cycle.id \in 1..cycle.id
    BY <1>0, <1>1 DEF ClientKeeps
  <2> QED
    BY <1>0, <1>1, <1>4, <2>1 DEF HandledInv, ClientKeeps, IbpInv
<1>10. ServerTypes' /\ HostInv'
  BY <1>0, <1>1, HostKept
<1>11. WaitInv' /\ Here'
  BY <1>0, <1>1, <1>3 DEF IbpInv, WaitInv, ClientKeeps, Here
<1> QED
  BY <1>5, <1>6, <1>7, <1>8, <1>9, <1>10, <1>11 DEF IbpInv

LEMMA SendCompletedKeeps ==
    ASSUME IbpInv, SendCompleted
    PROVE  IbpInv'
<1>0. client.pc \in {"sendCompleted", "sendLast"} /\ UNCHANGED handled /\ ClientKeeps
  BY DEF SendCompleted
<1>1. /\ Here /\ server.ready /\ Pending /\ Taken /\ VersionInv
      /\ client.event.id = cycle.id /\ cycle.id \in 1..MaxCycle
  BY <1>0, AtCycle DEF IbpInv
<1>2. PICK pc \in {"recv", "left"} : ClientGoes(pc)
  BY DEF SendCompleted
<1>3. /\ client'.pc = pc /\ client'.conn = client.conn
      /\ client'.request = client.request
      /\ client'.version = client.version /\ client'.caps = client.caps
      /\ Favourite' <=> Favourite
      /\ ClientTypes' /\ Alive' = Alive /\ Pending' = Pending
  BY <1>0, <1>1, <1>2, PcMoves DEF Connected, Left
<1>4. VersionInv'
  BY <1>0, <1>1, <1>3 DEF VersionInv, Connecting, Connected, ClientKeeps
<1>5. PipesInv' /\ Settled'
  <2>1. /\ Down = <<>> /\ cycle.id \in ToSet(handled)
        /\ Up = <<>> \/ Up = One(Begun(cycle.id))
    BY <1>0, <1>1 DEF Taken
  <2>2. CASE ClientSends
    <3>1. ToServer([kind |-> "CYCLE_COMPLETED", id |-> client.event.id])
      BY <2>2 DEF SendCompleted
    <3>2. Done(cycle.id) \in ClientMessage
      BY <1>1, ClientMessages
    <3>3. PipesInv' /\ Down' = <<>> /\ Up' = Append(Up, Done(cycle.id))
      BY <1>0, <1>1, <1>3, <2>1, <3>1, <3>2, ClientSent
         DEF IbpInv, ClientKeeps, ToServer, Done
    <3>4. Up' = One(Done(cycle.id)) \/ Up' = Two(Begun(cycle.id), Done(cycle.id))
      BY <2>1, <3>3, Queues
    <3>5. Up' # <<>> /\ Up' # One(Begun(cycle.id))
      BY <3>4, Queues, QueuesDiffer, RepliesDiffer
    <3> QED
      BY <1>0, <1>3, <2>1, <3>3, <3>4, <3>5 DEF Settled, Replies, ClientKeeps
  <2>3. CASE ~ClientSends
    <3>1. ~Alive /\ UNCHANGED conn
      BY <1>1, <2>3, Accepted1 DEF SendCompleted, ClientSends, Here, IbpInv
    <3>2. PipesInv' /\ Down' = <<>> /\ Up' = Up
      BY <1>0, <1>3, <2>1, <3>1, PipesSame DEF IbpInv, ClientKeeps
    <3> QED
      BY <1>0, <1>3, <2>1, <3>1, <3>2 DEF Settled, Replies, ClientKeeps
  <2> QED
    BY <2>2, <2>3
<1>6. StepInv'
  BY <1>0, <1>1, <1>3, <1>5 DEF StepInv, Answering, ClientKeeps
<1> QED
  BY <1>0, <1>1, <1>3, <1>4, <1>5, <1>6, ClientGoal

LEMMA LeaveKeeps ==
    ASSUME IbpInv, Leave \/ ClientCrash
    PROVE  IbpInv'
<1>1. client.pc # "free" /\ Disconnect /\ UNCHANGED handled /\ ClientKeeps
  BY DEF Leave, ClientCrash, Left
<1>2. client.conn # 0
  BY <1>1 DEF IbpInv, WaitInv
<1> QED
  BY <1>1, <1>2, DisconnectKeeps

------------------------------------------------------------------------------
(* The steps of the host. *)

LEMMA ServeKeeps ==
    ASSUME IbpInv, Serve
    PROVE  IbpInv'
<1> USE DEF Serve
<1>1. handshake = "none" /\ accepted = 0 /\ ~Here /\ ~Here' /\ Alive' = Alive
  BY DEF IbpInv, HostInv, Here, Alive
<1>2. ServerTypes' /\ ClientTypes' /\ HandledInv'
  BY DEF IbpInv, ServerTypes, ClientTypes, HandledInv
<1>3. HostInv'
  BY <1>1 DEF IbpInv, HostInv, Pending
<1>4. PipesInv'
  BY <1>1 DEF IbpInv, PipesInv
<1>5. WaitInv'
  BY <1>1 DEF IbpInv, WaitInv
<1> QED
  BY <1>1, <1>2, <1>3, <1>4, <1>5 DEF IbpInv

LEMMA AcceptKeeps ==
    ASSUME IbpInv, Accept
    PROVE  IbpInv'
<1> USE DEF Accept
<1>1. accepted = 0 /\ Alive' = Alive /\ Alive /\ listener # "unbound"
      /\ server.caps = NoCaps /\ ~server.ready /\ ~Pending /\ ~Pending'
  BY DEF IbpInv, HostInv, Alive, Pending
<1>2. 1 \in DOMAIN conn /\ Len(conn) \in Nat /\ Len(conn) >= 1
  <2>1. conn \in Seq(Pipe) /\ conn # <<>>
    BY DEF IbpInv, PipesInv
  <2> QED
    BY <2>1, LenProperties
<1>3. ServerTypes' /\ ClientTypes' /\ HandledInv'
  BY DEF IbpInv, ServerTypes, ClientTypes, HandledInv
<1>4. HostInv'
  BY <1>1 DEF IbpInv, HostInv, Pending
<1>5. PipesInv'
  BY <1>1, <1>2 DEF IbpInv, PipesInv
<1>6. Down' = <<>> /\ Up' = <<>>
  BY <1>1, <1>2 DEF IbpInv, PipesInv, Down, Up
<1>7. WaitInv'
  BY <1>1 DEF IbpInv, WaitInv
<1>8. ASSUME Here'
      PROVE  VersionInv' /\ StepInv'
  <2>1. client.pc = "recvNegotiate" /\ client.caps = NoCaps
    BY <1>1, <1>8 DEF IbpInv, WaitInv, Here
  <2>2. VersionInv'
    BY <1>1, <2>1 DEF VersionInv, Connecting, Connected
  <2>3. Announcing'
    BY <1>6, <2>1 DEF Announcing
  <2> QED
    BY <2>2, <2>3 DEF StepInv
<1>9. UpInv'
  BY <1>1, <1>6 DEF UpInv
<1> QED
  BY <1>3, <1>4, <1>5, <1>7, <1>8, <1>9 DEF IbpInv

\* In a handshake there is an accepted connection, and no cycle yet.
LEMMA InHandshake ==
    ASSUME IbpInv, handshake \in {"sendNegotiate", "recvVersion", "recvCaps", "sendCaps", "publish"}
    PROVE  accepted = 1 /\ ~server.ready /\ ~Pending /\ cycle.result = "nil" /\ cycle.id = 0
BY DEF IbpInv, HostInv, ServerTypes, Pending

LEMMA SendNegotiateKeeps ==
    ASSUME IbpInv, SendNegotiate
    PROVE  IbpInv'
<1>0. /\ Alive /\ handshake = "sendNegotiate"
      /\ UNCHANGED <<hostVars, server, cycle, client, handled>>
  BY DEF SendNegotiate
<1>1. accepted = 1 /\ ~server.ready /\ ~Pending /\ Alive' = Alive /\ Pending' = Pending
      /\ cycle.result = "nil"
  BY <1>0, InHandshake DEF hostVars, Alive, Pending
<1>2. HandledInv'
  BY <1>0 DEF IbpInv, HandledInv
<1>3. ServerSends <=> Here
  BY <1>1, Accepted1 DEF ServerSends, IbpInv
<1>4. CASE Here
  <2>1. ToClient(Announcement) /\ handshake' = "recvVersion"
    BY <1>3, <1>4 DEF SendNegotiate, Announcement
  <2>2. Announcing /\ VersionInv
    BY <1>0, <1>4 DEF IbpInv, StepInv, Choosing, Asking, Granting, Refused,
                      Quiet, Answering, IbpInv, HostInv
  <2>3. client.pc = "recvNegotiate" /\ Down = <<>> /\ Up = <<>>
    BY <1>0, <2>2 DEF Announcing
  <2>4. PipesInv' /\ Down' = One(Announcement) /\ Up' = <<>>
    BY <1>0, <1>1, <2>1, <2>3, HostSent, HostMessages, Queues, EmptyQueue
       DEF IbpInv, hostVars
  <2>5. ServerTypes' /\ HostInv'
    BY <1>0, <1>1, <2>1 DEF IbpInv, ServerTypes, HostInv, Pending, hostVars, Alive
  <2>6. VersionInv'
    BY <1>0, <1>1, <2>1, <2>2 DEF VersionInv, Favourite
  <2>7. Choosing'
    BY <1>0, <2>1, <2>3, <2>4 DEF Choosing
  <2> QED
    BY <1>0, <1>1, <1>2, <1>4, <2>4, <2>5, <2>6, <2>7, HostGoal DEF StepInv, hostVars
<1>5. CASE ~Here
  <2>1. UNCHANGED conn /\ handshake' = "ended"
    BY <1>3, <1>5 DEF SendNegotiate
  <2>2. ServerTypes' /\ HostInv'
    BY <1>0, <1>1, <2>1 DEF IbpInv, ServerTypes, HostInv, Pending, hostVars, Alive
  <2>3. PipesInv' /\ Up' = Up
    BY <1>0, <1>1, <2>1, PipesSame DEF IbpInv, hostVars
  <2>4. UpInv'
    BY <1>0, <1>1, <1>5, <2>1, <2>3 DEF IbpInv, UpInv
  <2> QED
    BY <1>0, <1>1, <1>2, <1>5, <2>2, <2>3, <2>4, HostAloneGoal DEF hostVars
<1> QED
  BY <1>4, <1>5

LEMMA RecvVersionKeeps ==
    ASSUME IbpInv, RecvVersion
    PROVE  IbpInv'
<1>0. /\ Alive /\ handshake = "recvVersion"
      /\ UNCHANGED <<hostVars, cycle, client, handled>>
  BY DEF RecvVersion
<1>1. /\ accepted = 1 /\ ~server.ready /\ ~Pending /\ Alive' = Alive /\ Pending' = Pending
      /\ cycle.result = "nil" /\ cycle.id = 0 /\ server.caps = NoCaps
  BY <1>0, InHandshake DEF hostVars, Alive, Pending, IbpInv, HostInv
<1>2. HandledInv'
  BY <1>0 DEF IbpInv, HandledInv
<1>3. \/ Up = <<>>
      \/ \E v \in ToSet(ServerVersions) :
            \/ Up = One(Answer(v))
            \/ \E r \in Requests : v > 0 /\ Up = Two(Answer(v), Ask(r))
  BY <1>0, <1>1, UpHolds DEF UpInv
<1>4. ASSUME ServerHears, ServerTakes,
             NEW v \in ToSet(ServerVersions),
             Up = One(Answer(v)) \/ \E r \in Requests : v > 0 /\ Up = Two(Answer(v), Ask(r)),
             handshake' = IF v > 0 THEN "recvCaps" ELSE "publish",
             server' = [server EXCEPT !.version = v]
      PROVE  IbpInv'
  <2>1. v \in 0..2
    BY Versions
  <2>2. /\ server'.version = v /\ server'.caps = NoCaps /\ ~server'.ready
        /\ ServerTypes'
    BY <1>0, <1>1, <1>4, <2>1 DEF IbpInv, ServerTypes, hostVars
  <2>3. HostInv'
    BY <1>0, <1>1, <1>4, <2>2 DEF IbpInv, HostInv, Pending, hostVars, Alive
  <2>4. PipesInv' /\ Down' = Down /\ Up' = Tail(Up)
    BY <1>0, <1>1, <1>4, HostHeard DEF IbpInv, hostVars
  <2>5. CASE Here
    <3>1. Choosing /\ VersionInv
      BY <1>0, <2>5 DEF IbpInv, StepInv, Announcing, Asking, Granting, Refused,
                        Quiet, Answering, HostInv
    <3>2. /\ Up # <<>> /\ Head(Up) = Answer(v)
      BY <1>4, Queues
    <3>3. v = client.version
      BY <3>1, <3>2, Queues, Messages DEF Choosing
    <3>4. /\ Down = <<>>
          /\ \/ client.pc = "sendCaps" /\ v > 0 /\ Tail(Up) = <<>>
             \/ client.pc = "recvCaps" /\ v > 0 /\ Tail(Up) = One(Ask(client.request))
             \/ client.pc \in Resting /\ v = 0 /\ Tail(Up) = <<>>
      BY <3>1, <3>2, <3>3, Queues DEF Choosing, VersionInv
    <3>5. VersionInv'
      BY <1>0, <1>4, <2>2, <3>1, <3>3 DEF VersionInv, Favourite, IbpInv, HostInv
    <3>6. Asking' \/ Quiet'
      BY <1>0, <1>1, <1>4, <2>4, <3>4 DEF Asking, Quiet
    <3> QED
      BY <1>0, <1>1, <1>2, <2>2, <2>3, <2>4, <2>5, <3>5, <3>6, HostGoal
         DEF StepInv, hostVars
  <2>6. CASE ~Here
    <3>1. Tail(Up) = <<>> \/ (v > 0 /\ \E r \in Requests : Tail(Up) = One(Ask(r)))
      BY <1>4, Queues
    <3>2. UpInv'
      BY <1>1, <1>4, <2>4, <3>1 DEF UpInv
    <3> QED
      BY <1>0, <1>1, <1>2, <2>2, <2>3, <2>4, <2>6, <3>2, HostAloneGoal DEF hostVars
  <2> QED
    BY <2>5, <2>6
<1>5. ASSUME ServerEof, handshake' = "ended", UNCHANGED <<conn, server>>
      PROVE  IbpInv'
  <2>1. ~Here /\ Up = <<>>
    BY <1>1, <1>5, Accepted1 DEF ServerEof, ServerHears, Up, IbpInv
  <2>2. ServerTypes' /\ HostInv'
    BY <1>0, <1>1, <1>5 DEF IbpInv, ServerTypes, HostInv, Pending, hostVars, Alive
  <2>3. PipesInv' /\ Up' = Up
    BY <1>0, <1>1, <1>5, PipesSame DEF IbpInv, hostVars
  <2>4. UpInv'
    BY <1>1, <1>5, <2>1, <2>3 DEF UpInv
  <2> QED
    BY <1>0, <1>1, <1>2, <2>1, <2>2, <2>3, <2>4, HostAloneGoal DEF hostVars
<1>6. CASE ServerHears /\ ServerTakes
  <2>1. Up # <<>>
    BY <1>1, <1>6 DEF ServerHears, Up
  <2>2. PICK v \in ToSet(ServerVersions) :
            Up = One(Answer(v)) \/ \E r \in Requests : v > 0 /\ Up = Two(Answer(v), Ask(r))
    BY <1>3, <2>1
  <2>3. FromClient = Answer(v)
    BY <1>1, <2>2, Queues DEF FromClient, Up
  <2>4. /\ handshake' = IF v > 0 THEN "recvCaps" ELSE "publish"
        /\ server' = [server EXCEPT !.version = v]
    BY <1>6, <2>3, Messages DEF RecvVersion, ServerEof, HasCapMessage
  <2> QED
    BY <1>4, <1>6, <2>2, <2>4
<1> QED
  BY <1>5, <1>6 DEF RecvVersion

\* The host gives up on a client that has gone without another word.
LEMMA HandshakeEnds ==
    ASSUME IbpInv, ~Here, Alive, Up = <<>>,
           handshake \in {"sendNegotiate", "recvVersion", "recvCaps", "sendCaps", "publish"},
           handshake' = "ended",
           UNCHANGED <<hostVars, conn, server, cycle, client, handled>>
    PROVE  IbpInv'
<1>1. accepted = 1 /\ ~server.ready /\ ~Pending /\ Alive' = Alive /\ Pending' = Pending
  BY InHandshake DEF hostVars, Alive, Pending
<1>2. ServerTypes' /\ HostInv' /\ HandledInv'
  BY <1>1 DEF IbpInv, ServerTypes, HostInv, HandledInv, Pending, hostVars, Alive
<1>3. PipesInv' /\ Up' = Up
  BY <1>1, PipesSame DEF IbpInv, hostVars
<1>4. UpInv'
  BY <1>1, <1>3 DEF UpInv
<1> QED
  BY <1>1, <1>2, <1>3, <1>4, HostAloneGoal DEF hostVars

LEMMA RecvCapsKeeps ==
    ASSUME IbpInv, RecvCaps
    PROVE  IbpInv'
<1>0. /\ Alive /\ handshake = "recvCaps"
      /\ UNCHANGED <<hostVars, cycle, client, handled>>
  BY DEF RecvCaps
<1>1. /\ accepted = 1 /\ ~server.ready /\ ~Pending /\ Alive' = Alive /\ Pending' = Pending
      /\ cycle.result = "nil" /\ cycle.id = 0 /\ server.caps = NoCaps
  BY <1>0, InHandshake DEF hostVars, Alive, Pending, IbpInv, HostInv
<1>2. HandledInv'
  BY <1>0 DEF IbpInv, HandledInv
<1>3. Up = <<>> \/ \E r \in Requests : Up = One(Ask(r))
  BY <1>0, <1>1, UpHolds DEF UpInv
<1>4. CASE ServerEof /\ handshake' = "ended" /\ UNCHANGED <<conn, server>>
  <2>1. ~Here /\ Up = <<>>
    BY <1>1, <1>4, Accepted1 DEF ServerEof, ServerHears, Up, IbpInv
  <2> QED
    BY <1>0, <1>4, <2>1, HandshakeEnds
<1>5. CASE ServerHears /\ ServerTakes
  <2>1. PICK r \in Requests : Up = One(Ask(r))
    BY <1>1, <1>3, <1>5 DEF ServerHears, Up
  <2>2. FromClient = Ask(r)
    BY <1>1, <2>1, Queues DEF FromClient, Up
  <2>3. \/ /\ ValidCaps(r)
           /\ server' = [server EXCEPT !.caps = ReadCaps(r)]
           /\ handshake' = "sendCaps"
        \/ /\ ~ValidCaps(r)
           /\ handshake' = "ended"
           /\ UNCHANGED server
    BY <1>5, <2>2, Messages DEF RecvCaps, ServerEof
  <2>4. ValidCaps(r) => ReadCaps(r) \subseteq WatchScope
    BY Granted
  <2>5. /\ server'.version = server.version /\ ~server'.ready
        /\ \/ ValidCaps(r) /\ handshake' = "sendCaps" /\ server'.caps = ReadCaps(r)
           \/ ~ValidCaps(r) /\ handshake' = "ended" /\ server'.caps = NoCaps
        /\ ServerTypes'
    BY <1>0, <1>1, <2>3, <2>4 DEF IbpInv, ServerTypes, hostVars
  <2>6. HostInv'
    BY <1>0, <1>1, <2>4, <2>5 DEF IbpInv, HostInv, Pending, hostVars, Alive
  <2>7. PipesInv' /\ Down' = Down /\ Up' = <<>>
    BY <1>0, <1>1, <1>5, <2>1, HostHeard, Queues DEF IbpInv, hostVars
  <2>8. CASE Here
    <3>1. Asking /\ VersionInv
      BY <1>0, <2>8 DEF IbpInv, StepInv, Announcing, Choosing, Granting, Refused,
                        Quiet, Answering, HostInv
    <3>2. client.pc = "recvCaps" /\ r = client.request /\ Down = <<>>
      BY <2>1, <3>1, Queues, QueuesDiffer, Messages DEF Asking
    <3>3. client.version > 0
      BY <3>1, <3>2 DEF VersionInv
    <3>4. Favourite' <=> Favourite
      BY <1>0, FavouriteKept
    <3>5. VersionInv'
      <4>1. client.version \in Nat
        BY DEF IbpInv, ClientTypes
      <4> QED
        BY <1>0, <2>5, <3>1, <3>2, <3>3, <3>4, <4>1
           DEF VersionInv, Connecting, Connected
    <3>6. Granting' \/ Refused'
      BY <1>0, <2>5, <2>7, <3>2 DEF Granting, Refused
    <3> QED
      BY <1>0, <1>1, <1>2, <2>5, <2>6, <2>7, <2>8, <3>5, <3>6, HostGoal
         DEF StepInv, hostVars
  <2>9. CASE ~Here
    <3>1. UpInv'
      BY <1>1, <2>5, <2>7 DEF UpInv
    <3> QED
      BY <1>0, <1>1, <1>2, <2>5, <2>6, <2>7, <2>9, <3>1, HostAloneGoal DEF hostVars
  <2> QED
    BY <2>8, <2>9
<1> QED
  BY <1>4, <1>5 DEF RecvCaps

LEMMA SendCapsKeeps ==
    ASSUME IbpInv, SendCaps
    PROVE  IbpInv'
<1>0. /\ Alive /\ handshake = "sendCaps"
      /\ UNCHANGED <<hostVars, server, cycle, client, handled>>
  BY DEF SendCaps
<1>1. /\ accepted = 1 /\ ~server.ready /\ ~Pending /\ Alive' = Alive /\ Pending' = Pending
      /\ cycle.result = "nil" /\ server.caps \subseteq WatchScope
  BY <1>0, InHandshake DEF hostVars, Alive, Pending, IbpInv, HostInv
<1>2. HandledInv'
  BY <1>0 DEF IbpInv, HandledInv
<1>3. ServerSends <=> Here
  BY <1>1, Accepted1 DEF ServerSends, IbpInv
<1>4. CASE Here
  <2>1. ToClient(Grant(server.caps)) /\ handshake' = "publish"
    BY <1>3, <1>4 DEF SendCaps, Grant
  <2>2. Granting /\ VersionInv
    BY <1>0, <1>4 DEF IbpInv, StepInv, Announcing, Choosing, Asking, Refused,
                      Quiet, Answering, HostInv
  <2>3. client.pc = "recvCaps" /\ Down = <<>> /\ Up = <<>>
    BY <2>2 DEF Granting
  <2>4. Grant(server.caps) \in HostMessage
    BY <1>1, HostMessages
  <2>5. PipesInv' /\ Down' = One(Grant(server.caps)) /\ Up' = <<>>
    BY <1>0, <1>1, <2>1, <2>3, <2>4, HostSent, Queues, EmptyQueue DEF IbpInv, hostVars
  <2>6. ServerTypes' /\ HostInv'
    BY <1>0, <1>1, <2>1 DEF IbpInv, ServerTypes, HostInv, Pending, hostVars, Alive
  <2>7. VersionInv'
    BY <1>0, <1>1, <2>1, <2>2 DEF VersionInv, Favourite
  <2>8. Quiet'
    BY <1>0, <1>1, <2>1, <2>3, <2>5 DEF Quiet
  <2> QED
    BY <1>0, <1>1, <1>2, <1>4, <2>5, <2>6, <2>7, <2>8, HostGoal DEF StepInv, hostVars
<1>5. CASE ~Here
  <2>1. UNCHANGED conn /\ handshake' = "ended"
    BY <1>3, <1>5 DEF SendCaps
  <2>2. Up = <<>>
    BY <1>0, <1>1, UpHolds DEF UpInv
  <2> QED
    BY <1>0, <1>5, <2>1, <2>2, HandshakeEnds
<1> QED
  BY <1>4, <1>5

LEMMA PublishKeeps ==
    ASSUME IbpInv, Publish
    PROVE  IbpInv'
<1> USE DEF Publish
<1>1. /\ accepted = 1 /\ ~server.ready /\ ~Pending /\ Alive' = Alive /\ Pending' = Pending
      /\ cycle.result = "nil" /\ Up = <<>>
  BY InHandshake, UpHolds DEF hostVars, Alive, Pending, UpInv
<1>2. /\ server'.version = server.version /\ server'.caps = server.caps /\ server'.ready
      /\ ServerTypes'
  BY DEF IbpInv, ServerTypes, hostVars
<1>3. HostInv' /\ HandledInv'
  BY <1>1, <1>2 DEF IbpInv, HostInv, HandledInv, Pending, hostVars, Alive
<1>4. PipesInv' /\ Down' = Down /\ Up' = <<>>
  BY <1>1, PipesSame DEF IbpInv, hostVars
<1>5. CASE Here
  <2>1. Quiet /\ VersionInv
    BY <1>5 DEF IbpInv, StepInv, Announcing, Choosing, Asking, Granting, Refused,
                Answering, HostInv
  <2>2. VersionInv'
    BY <1>2, <2>1 DEF VersionInv, Favourite
  <2>3. Quiet'
    BY <1>1, <1>2, <1>4, <2>1 DEF Quiet, hostVars
  <2> QED
    BY <1>1, <1>2, <1>3, <1>4, <1>5, <2>2, <2>3, HostGoal DEF StepInv, hostVars
<1>6. CASE ~Here
  <2>1. UpInv'
    BY <1>1, <1>4 DEF UpInv
  <2> QED
    BY <1>1, <1>2, <1>3, <1>4, <1>6, <2>1, HostAloneGoal DEF hostVars
<1> QED
  BY <1>5, <1>6

\* A host that is idle has no cycle under way.
LEMMA Idle ==
    ASSUME IbpInv, host = "idle", server.ready
    PROVE  /\ accepted = 1 /\ handshake = "ended" /\ ~Pending /\ Up = <<>> /\ Alive
           /\ ServerSends <=> Here
           /\ Here => Quiet /\ (\/ client.pc = "recvCaps" /\ Down = One(Grant(server.caps))
                                \/ client.pc \in Resting /\ Down = <<>>)
<1>1. accepted = 1 /\ handshake = "ended" /\ ~Pending /\ Alive
  BY DEF IbpInv, HostInv, ServerTypes, Pending, Alive
<1>2. Up = <<>>
  BY <1>1, UpHolds DEF UpInv
<1>3. ServerSends <=> Here
  BY <1>1, Accepted1 DEF ServerSends, IbpInv
<1>4. ASSUME Here PROVE Quiet
  BY <1>1, <1>4 DEF IbpInv, StepInv, Announcing, Choosing, Asking, Granting, Refused,
                    Answering
<1> QED
  BY <1>1, <1>2, <1>3, <1>4 DEF Quiet

LEMMA IssueKeeps ==
    ASSUME IbpInv, CanMessage, NEW m, Issue(m), m \in Cycles',
           UNCHANGED <<listener, handshake, accepted, server, client, handled>>
    PROVE  IbpInv'
<1>1. /\ host = "idle" /\ server.ready /\ cycle.id < MaxCycle
      /\ cycle.id \in 0..MaxCycle /\ MaxCycle \in Nat
  BY IbpAssumption DEF CanMessage, IbpInv, ServerTypes
<1>2. /\ accepted = 1 /\ handshake = "ended" /\ ~Pending /\ Up = <<>> /\ Alive
      /\ ServerSends <=> Here
      /\ Here => Quiet /\ (\/ client.pc = "recvCaps" /\ Down = One(Grant(server.caps))
                           \/ client.pc \in Resting /\ Down = <<>>)
  BY <1>1, Idle
<1>3. cycle'.id = cycle.id + 1 /\ cycle'.id \in 1..MaxCycle
      /\ cycle' \in [id : {cycle.id + 1}, result : {"pending", "error"}]
  BY <1>1 DEF Issue
<1>4. Here <=> cycle'.result = "pending" /\ host' = "await" /\ ToClient(m)
  BY <1>2 DEF Issue
<1>5. ~Here => cycle'.result = "error" /\ host' = "idle" /\ UNCHANGED conn
  BY <1>1, <1>2 DEF Issue
<1>6. Alive' = Alive
  BY <1>1, <1>4, <1>5 DEF Alive
<1>7. ServerTypes'
  BY <1>1, <1>3, <1>4, <1>5 DEF IbpInv, ServerTypes
<1>8. HostInv'
  BY <1>1, <1>2, <1>3, <1>4, <1>5, <1>6 DEF IbpInv, HostInv, Pending
<1>9. HandledInv' /\ cycle'.id \notin ToSet(handled')
  <2>1. 1..cycle.id \subseteq 1..cycle'.id /\ cycle'.id \notin 1..cycle.id
    BY <1>1, <1>3
  <2> QED
    BY <1>3, <2>1 DEF IbpInv, HandledInv
<1>10. CASE Here
  <2>1. m \in HostMessage /\ m \in Cycles'
    BY DEF Cycles
  <2>2. Len(Down) <= 1
    BY <1>2, <1>10, Queues, EmptyQueue
  <2>3. PipesInv' /\ Down' = Append(Down, m) /\ Up' = <<>>
    BY <1>2, <1>4, <1>6, <1>10, <2>1, <2>2, HostSent DEF IbpInv
  <2>4. VersionInv'
    BY <1>10 DEF IbpInv, VersionInv, Favourite
  <2>5. \/ client.pc = "recvCaps" /\ Down' = Two(Grant(server.caps), m)
        \/ client.pc \in Resting /\ Down' = One(m)
    BY <1>2, <1>10, <2>3, Queues
  <2>6. Offered'
    BY <1>9, <2>1, <2>3, <2>5 DEF Offered
  <2>7. Answering'
    BY <1>1, <1>4, <1>10, <2>6 DEF Answering, Pending
  <2> QED
    BY <1>6, <1>7, <1>8, <1>9, <1>10, <2>3, <2>4, <2>7, HostGoal DEF StepInv
<1>11. CASE ~Here
  <2>1. PipesInv' /\ Up' = <<>>
    BY <1>2, <1>5, <1>6, <1>11, PipesSame DEF IbpInv
  <2>2. UpInv'
    BY <1>2, <1>5, <1>11, <2>1 DEF UpInv, Pending
  <2> QED
    BY <1>6, <1>7, <1>8, <1>9, <1>11, <2>1, <2>2, HostAloneGoal
<1> QED
  BY <1>10, <1>11

LEMMA CycleKeeps ==
    ASSUME IbpInv, NEW scope \in WatchScope, Cycle(scope)
    PROVE  IbpInv'
<1> DEFINE m == [kind |-> "CYCLE", id |-> cycle.id + 1,
                 scope |-> IF HasScopeCap(server.version) THEN scope ELSE ""]
<1>1. /\ CanMessage /\ Issue(m)
      /\ UNCHANGED <<listener, handshake, accepted, server, client, handled>>
  BY DEF Cycle
<1> HIDE DEF m
<1>2. cycle'.id = cycle.id + 1
  BY <1>1 DEF Issue
<1>3. cycle.id + 1 \in 1..MaxCycle
  BY <1>1, IbpAssumption DEF CanMessage, IbpInv, ServerTypes
<1>4. server.version \in Nat
  BY DEF IbpInv, ServerTypes
<1> DEFINE sent == IF HasScopeCap(server.version) THEN scope ELSE ""
<1>5. sent \in WatchScope \cup {""} /\ (sent = "" <=> server.version = 0)
  <2>1. HasScopeCap(server.version) <=> server.version # 0
    BY <1>4 DEF HasScopeCap
  <2>2. scope # ""
    BY DEF WatchScope
  <2>3. /\ HasScopeCap(server.version) => sent = scope
        /\ ~HasScopeCap(server.version) => sent = ""
    BY Zenon
  <2> HIDE DEF sent
  <2> QED
    BY <2>1, <2>2, <2>3, Zenon
<1>6. m.kind = "CYCLE" /\ m.id = cycle'.id /\ m.scope = sent /\ m \in HostMessage
  <2>1. m = [kind |-> "CYCLE", id |-> cycle.id + 1, scope |-> sent]
    BY DEF m
  <2> HIDE DEF sent
  <2> QED
    BY <1>2, <1>3, <1>5, <2>1 DEF HostMessage
<1> HIDE DEF sent
<1>7. m \in Cycles'
  BY <1>1, <1>5, <1>6 DEF Cycles, HostMessage
<1> QED
  BY <1>1, <1>7, IssueKeeps

LEMMA CycleResetKeeps ==
    ASSUME IbpInv, CycleReset
    PROVE  IbpInv'
<1> DEFINE m == [kind |-> "CYCLE_RESET", id |-> cycle.id + 1]
<1>1. /\ CanMessage /\ Issue(m) /\ HasResetMessage(server.version)
      /\ UNCHANGED <<listener, handshake, accepted, server, client, handled>>
  BY DEF CycleReset
<1>2. cycle'.id = cycle.id + 1
  BY <1>1 DEF Issue
<1>3. cycle.id + 1 \in 1..MaxCycle
  BY <1>1, IbpAssumption DEF CanMessage, IbpInv, ServerTypes
<1>4. server.version = 2
  <2>1. server.version \in ToSet(ServerVersions)
    BY <1>1 DEF IbpInv, HostInv, CanMessage
  <2>2. server.version \in 0..2
    BY <2>1, Versions
  <2> QED
    BY <1>1, <2>2 DEF HasResetMessage
<1>5. m \in HostMessage
  BY <1>3 DEF HostMessage
<1>6. m.kind = "CYCLE_RESET" /\ m.id = cycle'.id
  BY <1>2
<1> HIDE DEF m
<1>7. m \in Cycles'
  BY <1>1, <1>4, <1>5, <1>6 DEF Cycles, HostMessage
<1> QED
  BY <1>1, <1>7, IssueKeeps

\* Answers, read in order, keep the host waiting or end the cycle with nil.
LEMMA Verdicts ==
    /\ Verdict(Begun(cycle.id)) = "pending"
    /\ Verdict(Done(cycle.id)) = "nil"
BY Messages DEF Verdict, EndEvents

LEMMA AwaitResponseKeeps ==
    ASSUME IbpInv, AwaitResponse
    PROVE  IbpInv'
<1>0. host = "await" /\ UNCHANGED <<listener, handshake, accepted, server, client, handled>>
      /\ host' = IF cycle'.result = "pending" THEN "await" ELSE "idle"
  BY DEF AwaitResponse
<1>1. /\ Pending /\ server.ready /\ accepted = 1 /\ handshake = "ended" /\ Alive /\ Alive'
      /\ cycle.id > 0 /\ Replies
  <2>1. Pending /\ server.ready /\ accepted = 1 /\ handshake = "ended" /\ Alive
        /\ cycle.id > 0
    BY <1>0 DEF IbpInv, HostInv, ServerTypes, Pending, Alive
  <2>2. Alive'
    BY <1>0 DEF Alive
  <2> QED
    BY <2>1, <2>2, UpHolds DEF UpInv
<1>2. Alive' = Alive
  BY <1>0 DEF Alive
<1>3. ASSUME NEW r \in {"pending", "nil", "error"},
             cycle' = [cycle EXCEPT !.result = r]
      PROVE  /\ cycle'.id = cycle.id /\ cycle'.result = r
             /\ ServerTypes' /\ HostInv'
             /\ (r = "nil" => cycle.id \in ToSet(handled)) => HandledInv'
             /\ Cycles' = Cycles
  <2>1. cycle'.id = cycle.id /\ cycle'.result = r /\ ServerTypes'
    BY <1>0, <1>3 DEF IbpInv, ServerTypes
  <2>2. HostInv'
    BY <1>0, <1>1, <1>2, <2>1 DEF IbpInv, HostInv, Pending
  <2>3. (r = "nil" => cycle.id \in ToSet(handled)) => HandledInv'
    BY <1>0, <2>1 DEF IbpInv, HandledInv
  <2> QED
    BY <1>0, <2>1, <2>2, <2>3 DEF Cycles
<1>4. CASE ServerEof /\ cycle' = [cycle EXCEPT !.result = "error"] /\ UNCHANGED conn
  <2>1. ~Here /\ Up = <<>>
    BY <1>1, <1>4, Accepted1 DEF ServerEof, ServerHears, Up, IbpInv
  <2>2. PipesInv' /\ Up' = Up
    BY <1>0, <1>2, <1>4, PipesSame DEF IbpInv
  <2>3. UpInv'
    BY <1>0, <1>1, <1>3, <1>4, <2>1, <2>2 DEF UpInv, Pending
  <2> QED
    BY <1>0, <1>2, <1>3, <1>4, <2>1, <2>2, <2>3, HostAloneGoal
<1>5. CASE /\ ServerHears /\ ServerTakes
           /\ cycle' = [cycle EXCEPT !.result = Verdict(FromClient)]
  <2>1. PipesInv' /\ Down' = Down /\ Up' = Tail(Up)
    BY <1>0, <1>1, <1>2, <1>5, HostHeard DEF IbpInv
  <2>2. Up # <<>> /\ FromClient = Head(Up)
    BY <1>1, <1>5 DEF ServerHears, FromClient, Up
  <2>3. CASE Up = One(Begun(cycle.id)) \/ Up = Two(Begun(cycle.id), Done(cycle.id))
    <3>1. cycle' = [cycle EXCEPT !.result = "pending"]
      BY <1>5, <2>2, <2>3, Queues, Verdicts
    <3>2. /\ cycle'.id = cycle.id /\ cycle'.result = "pending"
          /\ ServerTypes' /\ HostInv' /\ HandledInv' /\ Cycles' = Cycles
      BY <1>3, <3>1
    <3>3. \/ Up = One(Begun(cycle.id)) /\ Up' = <<>>
          \/ /\ Up = Two(Begun(cycle.id), Done(cycle.id)) /\ cycle.id \in ToSet(handled)
             /\ Up' = One(Done(cycle.id))
      BY <1>1, <2>1, <2>3, Queues, QueuesDiffer DEF Replies
    <3>4. CASE Here
      <4>1. Answering /\ VersionInv
        BY <1>1, <3>4 DEF IbpInv, StepInv, Announcing, Choosing, Asking, Granting,
                          Refused, Quiet, Pending
      <4>2. Answering'
        <5>1. CASE Taken
          <6>1. Up' = <<>>
            BY <3>3, <5>1, Queues, QueuesDiffer DEF Taken
          <6>2. Taken'
            BY <1>0, <2>1, <3>2, <5>1, <6>1 DEF Taken
          <6> QED
            BY <1>0, <1>1, <3>2, <6>2 DEF Answering, Pending
        <5>2. CASE Settled
          <6>1. Up' = One(Done(cycle.id)) /\ cycle.id \in ToSet(handled)
            BY <1>1, <3>3, <5>2 DEF Settled
          <6>2. Up' # <<>> /\ Up' # One(Begun(cycle'.id))
            BY <3>2, <6>1, Queues, QueuesDiffer, RepliesDiffer
          <6>3. Replies'
            BY <1>0, <3>2, <6>1 DEF Replies
          <6>4. Settled'
            BY <1>0, <2>1, <5>2, <6>2, <6>3 DEF Settled
          <6> QED
            BY <1>0, <1>1, <3>2, <6>4 DEF Answering, Pending
        <5> QED
          BY <2>2, <4>1, <5>1, <5>2 DEF Answering, Offered
      <4>3. VersionInv'
        BY <1>0, <4>1 DEF VersionInv, Favourite
      <4> QED
        BY <1>0, <1>2, <2>1, <3>2, <3>4, <4>2, <4>3, HostGoal DEF StepInv
    <3>5. CASE ~Here
      <4>1. Replies'
        BY <1>0, <3>2, <3>3 DEF Replies
      <4>2. UpInv'
        BY <1>0, <1>1, <3>2, <4>1 DEF UpInv, Pending
      <4> QED
        BY <1>0, <1>2, <2>1, <3>2, <3>5, <4>2, HostAloneGoal
    <3> QED
      BY <3>4, <3>5
  <2>4. CASE Up = One(Done(cycle.id)) /\ cycle.id \in ToSet(handled)
    <3>1. cycle' = [cycle EXCEPT !.result = "nil"]
      BY <1>5, <2>2, <2>4, Queues, Verdicts
    <3>2. /\ cycle'.id = cycle.id /\ cycle'.result = "nil"
          /\ ServerTypes' /\ HostInv' /\ HandledInv'
      BY <1>3, <2>4, <3>1
    <3>3. Up' = <<>>
      BY <2>1, <2>4, Queues
    <3>4. CASE Here
      <4>1. Answering /\ VersionInv
        BY <1>1, <3>4 DEF IbpInv, StepInv, Announcing, Choosing, Asking, Granting,
                          Refused, Quiet, Pending
      <4>2. client.pc \in {"recv", "left"} /\ Down = <<>>
        BY <2>2, <2>4, <4>1, Queues, QueuesDiffer, RepliesDiffer
           DEF Answering, Offered, Taken, Settled
      <4>3. Quiet'
        BY <1>0, <1>1, <2>1, <3>2, <3>3, <4>2 DEF Quiet, Resting
      <4>4. VersionInv'
        BY <1>0, <4>1 DEF VersionInv, Favourite
      <4> QED
        BY <1>0, <1>2, <2>1, <3>2, <3>4, <4>3, <4>4, HostGoal DEF StepInv
    <3>5. CASE ~Here
      <4>1. UpInv'
        BY <1>0, <1>1, <3>2, <3>3 DEF UpInv, Pending
      <4> QED
        BY <1>0, <1>2, <2>1, <3>2, <3>5, <4>1, HostAloneGoal
    <3> QED
      BY <3>4, <3>5
  <2> QED
    BY <1>1, <2>2, <2>3, <2>4 DEF Replies
<1> QED
  BY <1>4, <1>5 DEF AwaitResponse

LEMMA ExitKeeps ==
    ASSUME IbpInv, Exit
    PROVE  IbpInv'
<1>0. /\ host = "idle" /\ server.ready /\ host' = "exiting"
      /\ UNCHANGED <<listener, handshake, accepted, server, cycle, client, handled>>
  BY DEF Exit
<1>1. /\ accepted = 1 /\ handshake = "ended" /\ ~Pending /\ Up = <<>> /\ Alive
      /\ ServerSends <=> Here
      /\ Here => Quiet /\ (\/ client.pc = "recvCaps" /\ Down = One(Grant(server.caps))
                           \/ client.pc \in Resting /\ Down = <<>>)
  BY <1>0, Idle
<1>2. Alive' = Alive /\ ServerTypes' /\ HandledInv'
  BY <1>0 DEF Alive, IbpInv, ServerTypes, HandledInv
<1>3. HostInv'
  BY <1>0, <1>1, <1>2 DEF IbpInv, HostInv, Pending
<1>4. CASE Here
  <2>1. ToClient(Farewell)
    BY <1>1, <1>4 DEF Exit, Farewell
  <2>2. Len(Down) <= 1
    BY <1>1, <1>4, Queues, EmptyQueue
  <2>3. PipesInv' /\ Down' = Append(Down, Farewell) /\ Up' = <<>>
    BY <1>0, <1>1, <1>2, <2>1, <2>2, HostSent, HostMessages DEF IbpInv
  <2>4. \/ client.pc = "recvCaps" /\ Down' = Two(Grant(server.caps), Farewell)
        \/ client.pc \in Resting /\ Down' = One(Farewell)
    BY <1>1, <1>4, <2>3, Queues
  <2>5. Quiet'
    BY <1>0, <1>1, <1>4, <2>3, <2>4 DEF Quiet
  <2>6. VersionInv'
    BY <1>0, <1>4 DEF IbpInv, VersionInv, Favourite
  <2> QED
    BY <1>0, <1>2, <1>3, <1>4, <2>3, <2>5, <2>6, HostGoal DEF StepInv
<1>5. CASE ~Here
  <2>1. UNCHANGED conn
    BY <1>1, <1>5 DEF Exit
  <2>2. PipesInv' /\ Up' = Up
    BY <1>0, <1>2, <2>1, PipesSame DEF IbpInv
  <2>3. UpInv'
    BY <1>0, <1>1, <2>2 DEF UpInv, Pending
  <2> QED
    BY <1>0, <1>2, <1>3, <1>5, <2>2, <2>3, HostAloneGoal
<1> QED
  BY <1>4, <1>5

\* Whatever ends the host leaves what has been sent in the channels.
LEMMA EndKeeps ==
    ASSUME IbpInv, HostEnds, host' \in {"closed", "dead"}, Pending => host' = "dead"
    PROVE  IbpInv'
<1>0. listener' = "closed" /\ ~Alive'
      /\ UNCHANGED <<handshake, accepted, server, cycle, client, handled>>
  BY DEF HostEnds, Alive
<1>1. ServerTypes' /\ ClientTypes' /\ HandledInv' /\ Pending' = Pending
  BY <1>0 DEF IbpInv, ServerTypes, ClientTypes, HandledInv, Pending
<1>2. HostInv'
  BY <1>0, <1>1 DEF IbpInv, HostInv, Pending
<1>3. conn \in Seq(Pipe) /\ Len(conn) \in Nat /\ DOMAIN conn = 1..Len(conn)
  BY DEF IbpInv, PipesInv
<1>4. \A c \in DOMAIN conn :
          /\ conn'[c] \in Pipe /\ conn'[c].serverOpen = FALSE
          /\ conn'[c].clientOpen = conn[c].clientOpen
          /\ conn'[c].toClient = conn[c].toClient /\ conn'[c].toServer = conn[c].toServer
  <2> TAKE c \in DOMAIN conn
  <2>1. conn[c] \in Pipe
    BY <1>3
  <2>2. conn'[c] = [conn[c] EXCEPT !.serverOpen = FALSE]
    BY DEF HostEnds
  <2> QED
    BY <2>1, <2>2 DEF Pipe
<1>5. conn' \in Seq(Pipe) /\ Len(conn') = Len(conn) /\ DOMAIN conn' = DOMAIN conn
  <2>1. conn' = [c \in 1..Len(conn) |-> conn'[c]]
    BY <1>3 DEF HostEnds
  <2>2. conn' \in [1..Len(conn) -> Pipe]
    BY <1>3, <1>4, <2>1
  <2> QED
    BY <1>3, <2>2
<1>6. PipesInv'
  BY <1>0, <1>3, <1>4, <1>5, EmptyQueue DEF IbpInv, PipesInv
<1>7. WaitInv' /\ Here' = Here
  BY <1>0 DEF IbpInv, WaitInv, Here
<1>8. accepted = 1 => Down' = Down /\ Up' = Up
  BY <1>3, <1>4 DEF IbpInv, PipesInv, Down, Up
<1>9. ASSUME Here
      PROVE  VersionInv' /\ StepInv'
  <2>1. VersionInv /\ StepInv
    BY <1>9 DEF IbpInv
  <2>2. VersionInv'
    BY <1>0, <2>1 DEF VersionInv, Favourite
  <2>3. Down' = Down /\ Up' = Up /\ Cycles' = Cycles
    BY <1>0, <1>8, <1>9 DEF Here, Cycles
  <2>4. ASSUME Announcing PROVE StepInv'
    BY <1>0, <2>3, <2>4 DEF StepInv, Announcing
  <2>5. ASSUME Choosing PROVE StepInv'
    BY <1>0, <2>3, <2>5 DEF StepInv, Choosing
  <2>6. ASSUME Asking PROVE StepInv'
    BY <1>0, <2>3, <2>6 DEF StepInv, Asking
  <2>7. ASSUME Granting PROVE StepInv'
    BY <1>0, <2>3, <2>7 DEF StepInv, Granting
  <2>8. ASSUME Refused PROVE StepInv'
    BY <1>0, <2>3, <2>8 DEF StepInv, Refused
  <2>9. ASSUME Quiet PROVE StepInv'
    BY <1>0, <2>3, <2>9 DEF StepInv, Quiet
  <2>10. ASSUME Answering PROVE StepInv'
    <3>1. Replies' <=> Replies
      BY <1>0, <2>3 DEF Replies
    <3>2. CASE Offered
      BY <1>0, <1>1, <2>3, <2>10, <3>2 DEF StepInv, Answering, Offered
    <3>3. CASE Taken
      BY <1>0, <1>1, <2>3, <2>10, <3>3 DEF StepInv, Answering, Taken
    <3>4. CASE Settled
      BY <1>0, <1>1, <2>3, <2>10, <3>1, <3>4 DEF StepInv, Answering, Settled
    <3> QED
      BY <2>10, <3>2, <3>3, <3>4 DEF Answering
  <2> QED
    BY <2>1, <2>2, <2>4, <2>5, <2>6, <2>7, <2>8, <2>9, <2>10 DEF StepInv
<1>10. ASSUME accepted = 1, ~Here
       PROVE  UpInv'
  <2>1. UpInv /\ Up' = Up
    BY <1>8, <1>10 DEF IbpInv
  <2>2. Replies' <=> Replies
    BY <1>0, <2>1 DEF Replies
  <2> QED
    BY <1>0, <1>1, <2>1, <2>2 DEF UpInv
<1> QED
  BY <1>0, <1>1, <1>2, <1>6, <1>7, <1>9, <1>10 DEF IbpInv

LEMMA CloseKeeps ==
    ASSUME IbpInv, Close \/ HostCrash
    PROVE  IbpInv'
<1>1. HostEnds /\ host' \in {"closed", "dead"}
  BY DEF Close, HostCrash
<1>2. Pending => host' = "dead"
  BY DEF Close, HostCrash, IbpInv, HostInv
<1> QED
  BY <1>1, <1>2, EndKeeps

------------------------------------------------------------------------------
(* The theorems. *)

LEMMA IbpInit == Init => IbpInv
<1> SUFFICES ASSUME Init PROVE IbpInv
  OBVIOUS
<1> USE DEF Init
<1>1. ServerTypes
  BY IbpAssumption DEF ServerTypes, NoVersion, NoCaps
<1>2. ClientTypes
  BY DEF ClientTypes, NewClient, NoVersion, NoCaps
<1>3. HostInv
  BY DEF HostInv, Alive, Pending
<1>4. PipesInv
  BY IbpAssumption, EmptyQueue DEF PipesInv, NewClient
<1>5. WaitInv
  BY DEF WaitInv, NewClient
<1>6. HandledInv
  BY DEF HandledInv, ToSet
<1>7. accepted = 0 /\ ~Here
  BY DEF Here
<1> QED
  BY <1>1, <1>2, <1>3, <1>4, <1>5, <1>6, <1>7 DEF IbpInv

LEMMA IbpStep == IbpInv /\ [Next]_vars => IbpInv'
<1> SUFFICES ASSUME IbpInv, [Next]_vars PROVE IbpInv'
  OBVIOUS
<1>1. CASE UNCHANGED vars
  <2>1. ServerTypes' /\ ClientTypes' /\ HostInv' /\ WaitInv' /\ HandledInv'
    BY <1>1 DEF vars, IbpInv, ServerTypes, ClientTypes, HostInv, WaitInv, HandledInv,
                Alive, Pending
  <2>2. PipesInv'
    BY <1>1 DEF vars, IbpInv, PipesInv, Alive
  <2>3. /\ Down' = Down /\ Up' = Up /\ Here' = Here /\ Cycles' = Cycles
        /\ Pending' = Pending /\ Alive' = Alive
    BY <1>1 DEF vars, Down, Up, Here, Cycles, Pending, Alive
  <2>4. (Replies' <=> Replies) /\ (Favourite' <=> Favourite)
    BY <1>1, <2>3 DEF vars, Replies, Favourite
  <2>5. VersionInv => VersionInv'
    BY <1>1, <2>4 DEF vars, VersionInv
  <2>6. UpInv => UpInv'
    BY <1>1, <2>3, <2>4 DEF vars, UpInv
  <2>7. Answering => Answering'
    BY <1>1, <2>3, <2>4 DEF vars, Answering, Offered, Taken, Settled
  <2>8. StepInv => StepInv'
    BY <1>1, <2>3, <2>7 DEF vars, StepInv, Announcing, Choosing, Asking, Granting,
                            Refused, Quiet
  <2> QED
    BY <1>1, <2>1, <2>2, <2>3, <2>5, <2>6, <2>8 DEF vars, IbpInv
<1>2. CASE HostStep
  BY <1>2, ServeKeeps, AcceptKeeps, SendNegotiateKeeps, RecvVersionKeeps, RecvCapsKeeps,
     SendCapsKeeps, PublishKeeps, AwaitResponseKeeps DEF HostStep, Handshake
<1>3. CASE HostCall
  BY <1>3, CycleKeeps, CycleResetKeeps, ExitKeeps, CloseKeeps DEF HostCall
<1>4. CASE HostCrash
  BY <1>4, CloseKeeps
<1>5. CASE ClientStep
  BY <1>5, RecvNegotiateKeeps, SendVersionKeeps, SendCapsRequestKeeps,
     RecvCapsResponseKeeps, AwaitCycleKeeps, RecvCycleKeeps, SendStartedKeeps, HandleKeeps,
     SendCompletedKeeps, LeaveKeeps DEF ClientStep
<1>6. CASE ClientCrash
  BY <1>6, LeaveKeeps
<1>7. CASE \E r \in Requests, versions \in ClientBuilds : Connect(r, versions)
  BY <1>7, ConnectKeeps
<1> QED
  BY <1>1, <1>2, <1>3, <1>4, <1>5, <1>6, <1>7 DEF Next

\* In every state of the protocol the host, the client and what travels between
\* them are at one of the points the handshake and a cycle go through, also when
\* either end has crashed or left (protocol.go, client.go).
THEOREM IbpInvariantHolds == Spec => []IbpInv
BY IbpInit, IbpStep, PTL DEF Spec

\* The values the two ends keep and send have their types, and no channel of any
\* connection ever holds more than two messages (protocol.go, socket.go).
THEOREM IbpTypesHold == Spec => []TypeOK
<1>1. IbpInv => TypeOK
  <2> SUFFICES ASSUME IbpInv PROVE TypeOK
    OBVIOUS
  <2>1. ServerTypes /\ ClientTypes /\ PipesInv
    BY DEF IbpInv
  <2>2. ASSUME NEW c \in DOMAIN conn
        PROVE  Len(conn[c].toServer) <= 2
    <3>1. CASE c # accepted
      BY <2>1, <3>1, EmptyQueue DEF PipesInv
    <3>2. CASE c = accepted
      <4>1. accepted = 1 /\ Up = conn[c].toServer
        BY <2>1, <2>2, <3>2 DEF ServerTypes, PipesInv, Up
      <4>2. UpInv /\ HostInv
        BY <4>1, UpHolds DEF IbpInv
      <4>3. handshake \in {"sendNegotiate", "recvVersion", "recvCaps", "sendCaps",
                           "publish", "ended"}
        BY <2>1, <4>1, <4>2 DEF ServerTypes, HostInv
      <4>4. Up = <<>> \/ (\E m : Up = One(m)) \/ (\E m, n : Up = Two(m, n))
        BY <4>2, <4>3 DEF UpInv, Replies
      <4> QED
        BY <4>1, <4>4, Queues, EmptyQueue
    <3> QED
      BY <3>1, <3>2
  <2>3. ASSUME NEW c \in DOMAIN conn
        PROVE  /\ ToSet(conn[c].toClient) \subseteq HostMessage /\ Len(conn[c].toClient) <= 2
               /\ ToSet(conn[c].toServer) \subseteq ClientMessage
    <3>1. conn[c] \in Pipe /\ Len(conn[c].toClient) <= 2
      BY <2>1, <2>3 DEF PipesInv
    <3>2. conn[c].toClient \in Seq(HostMessage) /\ conn[c].toServer \in Seq(ClientMessage)
      BY <3>1 DEF Pipe
    <3> QED
      BY <3>1, <3>2 DEF ToSet
  <2>4. accepted \in 0..Len(conn) /\ Len(conn) <= MaxConnect
    BY <2>1 DEF ServerTypes, PipesInv
  <2> QED
    BY <2>1, <2>2, <2>3, <2>4 DEF TypeOK, ServerTypes, ClientTypes
<1> QED
  BY <1>1, IbpInvariantHolds, PTL

\* When both ends consider the handshake done they agree on the version, the
\* host's favourite among those both know, and on the scopes the client asked
\* for (protocol.go, client.go).
THEOREM AgreementHolds == Spec => []Agreement
<1>1. IbpInv => Agreement
  <2> SUFFICES ASSUME IbpInv, server.ready, client.pc \in Connected, client.conn = accepted
               PROVE  /\ client.version = server.version
                      /\ Favourite
                      /\ client.caps = server.caps
                      /\ {s \in WatchScope : WatchingScope(s)} =
                             IF client.request = {} THEN {"runfiles"} ELSE client.request
    BY DEF Agreement, Favourite
  <2>1. Here /\ VersionInv /\ ClientTypes
    BY DEF IbpInv, HostInv, ServerTypes, Here
  <2>2. client.version = server.version /\ Favourite /\ client.version \in Nat
    BY <2>1 DEF VersionInv, Connected, ClientTypes
  <2>3. CASE client.version = 0
    <3>1. client.request = {} /\ client.caps = NoCaps /\ server.caps = NoCaps
      BY <2>1, <2>3 DEF VersionInv, Connected
    <3>2. \A s \in WatchScope : WatchingScope(s) <=> s = "runfiles"
      BY <3>1 DEF WatchingScope
    <3>3. "runfiles" \in WatchScope
      BY DEF WatchScope
    <3> QED
      BY <2>2, <3>1, <3>2, <3>3
  <2>4. CASE client.version > 0
    <3>1. client.caps = server.caps /\ server.caps # NoCaps
      BY <2>1, <2>4 DEF VersionInv, Connected
    <3>2. ValidCaps(client.request) /\ server.caps = ReadCaps(client.request)
      BY <2>1, <2>4 DEF VersionInv
    <3>3. \A s \in WatchScope : WatchingScope(s) <=> s \in server.caps
      BY <3>1 DEF WatchingScope
    <3>4. server.caps \subseteq WatchScope
      BY <3>2, Granted
    <3>5. {s \in WatchScope : WatchingScope(s)} = server.caps
      BY <3>3, <3>4
    <3>6. server.caps = IF client.request = {} THEN {"runfiles"} ELSE client.request
      BY <3>2 DEF ReadCaps
    <3> QED
      BY <2>2, <3>1, <3>5, <3>6
  <2> QED
    BY <2>2, <2>3, <2>4
<1> QED
  BY <1>1, IbpInvariantHolds, PTL

\* Neither end ever reads a message other than the one it waits for
\* (protocol.go, client.go).
THEOREM InStepHolds == Spec => []InStep
<1>1. IbpInv => InStep
  <2> SUFFICES ASSUME IbpInv PROVE InStep
    OBVIOUS
  <2>1. ASSUME client.conn # 0, ClientHears
        PROVE  /\ client.pc = "recvNegotiate" => FromServer.kind = "NEGOTIATE"
               /\ client.pc = "recvCaps" => FromServer.kind = "CAPS_RESPONSE"
               /\ client.pc = "recv" =>
                     \/ FromServer.kind = "CYCLE" /\ (FromServer.scope = "" <=> client.version = 0)
                     \/ FromServer.kind = "CYCLE_RESET" /\ client.version = 2
                     \/ FromServer.kind = "EXIT"
    <3>1. Here
      <4>1. client.conn \in DOMAIN conn
        <5>1. client.conn \in 0..Len(conn) /\ conn \in Seq(Pipe)
          BY DEF IbpInv, PipesInv
        <5> QED
          BY <2>1, <5>1
      <4>2. client.conn = accepted
        BY <2>1, <4>1 DEF ClientHears, IbpInv, PipesInv
      <4> QED
        BY <2>1, <4>2 DEF Here, IbpInv, ServerTypes
    <3>2. StepInv /\ VersionInv /\ Down # <<>> /\ FromServer = Head(Down)
      BY <2>1, <3>1 DEF IbpInv, ClientHears, FromServer, Down, Here
    <3>3. CASE client.pc = "recvNegotiate"
      <4>1. Down = One(Announcement)
        BY <3>2, <3>3 DEF StepInv, Announcing, Choosing, Asking, Granting, Refused, Quiet,
                          Answering, Offered, Taken, Settled, Resting
      <4> QED
        BY <3>2, <3>3, <4>1, Queues, Messages
    <3>4. CASE client.pc = "recvCaps"
      <4>1. Down = One(Grant(server.caps)) \/ \E m : Down = Two(Grant(server.caps), m)
        BY <3>2, <3>4 DEF StepInv, Announcing, Choosing, Asking, Granting, Refused, Quiet,
                          Answering, Offered, Taken, Settled, Resting
      <4> QED
        BY <3>2, <3>4, <4>1, Queues, Messages
    <3>5. CASE client.pc = "recv"
      <4>1. Down = One(Farewell) \/ (server.ready /\ \E m \in Cycles : Down = One(m))
        BY <3>2, <3>5 DEF StepInv, Announcing, Choosing, Asking, Granting, Refused, Quiet,
                          Answering, Offered, Taken, Settled
      <4>2. CASE Down = One(Farewell)
        BY <3>2, <3>5, <4>2, Queues, Messages
      <4>3. CASE server.ready /\ \E m \in Cycles : Down = One(m)
        <5>1. PICK m \in Cycles : Down = One(m)
          BY <4>3
        <5>2. FromServer = m /\ client.version = server.version
          BY <3>2, <4>3, <5>1, Queues DEF VersionInv
        <5> QED
          BY <3>5, <5>2, CycleMessages
      <4> QED
        BY <4>1, <4>2, <4>3
    <3> QED
      BY <3>3, <3>4, <3>5
  <2>2. ASSUME accepted # 0, ServerHears
        PROVE  /\ handshake = "recvVersion" => FromClient.kind = "NEGOTIATE_RESPONSE"
               /\ handshake = "recvCaps" => FromClient.kind = "CAPS"
               /\ host = "await" => Verdict(FromClient) # "error"
    <3>1. accepted = 1 /\ UpInv /\ Up # <<>> /\ FromClient = Head(Up)
      BY <2>2, UpHolds DEF IbpInv, ServerTypes, ServerHears, FromClient, Up
    <3>2. host = "await" => Replies
      BY <3>1 DEF IbpInv, HostInv, UpInv
    <3>3. Replies => FromClient = Begun(cycle.id) \/ FromClient = Done(cycle.id)
      BY <3>1, Queues DEF Replies
    <3> QED
      BY <3>1, <3>2, <3>3, Queues, Messages, Verdicts DEF UpInv
  <2> QED
    BY <2>1, <2>2 DEF InStep
<1> QED
  BY <1>1, IbpInvariantHolds, PTL

\* A cycle fails only because the client has gone (protocol.go).
THEOREM FailsOnlyOnLossHolds == Spec => []FailsOnlyOnLoss
<1>1. IbpInv => FailsOnlyOnLoss
  <2> SUFFICES ASSUME IbpInv, cycle.result = "error"
               PROVE  ~conn[accepted].clientOpen
    BY DEF FailsOnlyOnLoss
  <2>1. server.ready /\ accepted = 1 /\ handshake = "ended"
    BY DEF IbpInv, HostInv, ServerTypes
  <2>2. ~Here
    BY <2>1 DEF IbpInv, StepInv, Announcing, Choosing, Asking, Granting, Refused, Quiet,
                Answering, Pending
  <2> QED
    BY <2>1, <2>2, Accepted1 DEF IbpInv
<1> QED
  BY <1>1, IbpInvariantHolds, PTL

\* Cycles are issued one at a time, only the last issued is handled and none twice
\* (a second handling of a cycle is no step of CycleFeed, nor a stuttering one), and
\* nil is returned only for one that has been handled (protocol.go, client.go).
THEOREM ImplementsFeed == Spec => FeedSpec
<1>1. Init => Feed!Init
  BY DEF Init, Feed!Init, ToSet
<1>2. ASSUME IbpInv, IbpInv', [Next]_vars
      PROVE  [Feed!Next]_(Feed!feedVars)
  <2>1. CASE UNCHANGED <<cycle, handled>>
    BY <2>1 DEF Feed!feedVars
  <2>2. ASSUME NEW m, CanMessage, Issue(m), UNCHANGED handled
        PROVE  Feed!Issue
    <3>1. cycle.result # "pending" /\ cycle.id < MaxCycle
      BY <1>2, <2>2 DEF CanMessage, IbpInv, HostInv, Pending
    <3>2. cycle'.id = cycle.id + 1 /\ cycle'.result \in {"pending", "error"}
      BY <2>2 DEF Issue
    <3> QED
      BY <2>2, <3>1, <3>2 DEF Feed!Issue
  <2>3. CASE Handle
    <3>1. Taken /\ client.event.id = cycle.id /\ cycle.id \in 1..MaxCycle /\ ClientTypes
      BY <1>2, <2>3, AtCycle DEF Handle, IbpInv
    <3>2. cycle.id \notin ToSet(handled)
      BY <2>3, <3>1 DEF Taken, Handle
    <3>3. handled' = Append(handled, cycle.id) /\ UNCHANGED cycle
      BY <2>3, <3>1 DEF Handle, ClientKeeps
    <3>4. Feed!Handle
      BY <3>2, <3>3 DEF Feed!Handle, Feed!ToSet, ToSet
    <3> QED
      BY <3>4 DEF Feed!Next
  <2>4. CASE AwaitResponse
    <3>1. cycle.result = "pending" /\ cycle.id > 0 /\ UNCHANGED handled
      BY <1>2, <2>4 DEF AwaitResponse, IbpInv, HostInv, Pending
    <3>2. cycle'.id = cycle.id /\ cycle'.result \in {"pending", "nil", "error"}
      BY <1>2, <2>4 DEF AwaitResponse, IbpInv, ServerTypes
    <3>3. cycle'.result = "nil" => cycle.id \in ToSet(handled)
      BY <1>2, <3>1, <3>2 DEF IbpInv, HandledInv
    <3>4. cycle'.result = "nil" => Feed!Succeed
      BY <3>1, <3>2, <3>3 DEF Feed!Succeed, Feed!ToSet, ToSet
    <3>5. cycle'.result = "error" => Feed!Fail
      BY <3>1, <3>2 DEF Feed!Fail
    <3>6. cycle'.result = "pending" => UNCHANGED Feed!feedVars
      BY <3>1, <3>2 DEF Feed!feedVars
    <3> QED
      BY <3>2, <3>4, <3>5, <3>6 DEF Feed!Next
  <2>5. CASE CycleReset \/ \E s \in WatchScope : Cycle(s)
    <3>1. Feed!Issue
      BY <2>2, <2>5 DEF CycleReset, Cycle
    <3> QED
      BY <3>1 DEF Feed!Next
  <2>6. HostStep => AwaitResponse \/ UNCHANGED <<cycle, handled>>
    BY DEF HostStep, Handshake, Serve, Accept, SendNegotiate, RecvVersion, RecvCaps,
           SendCaps, Publish
  <2>7. Exit \/ Close \/ HostCrash => UNCHANGED <<cycle, handled>>
    BY DEF Exit, Close, HostCrash, HostEnds
  <2>8. ClientStep \/ ClientCrash => Handle \/ UNCHANGED <<cycle, handled>>
    BY DEF ClientStep, ClientCrash, RecvNegotiate, SendVersion, SendCapsRequest,
           RecvCapsResponse, AwaitCycle, RecvCycle, SendStarted, SendCompleted, Leave,
           ClientKeeps
  <2>9. ASSUME NEW r \in Requests, NEW versions \in ClientBuilds, Connect(r, versions)
        PROVE  UNCHANGED <<cycle, handled>>
    BY <2>9 DEF Connect, ClientKeeps
  <2>10. UNCHANGED vars => UNCHANGED <<cycle, handled>>
    BY DEF vars
  <2> QED
    BY <1>2, <2>1, <2>3, <2>4, <2>5, <2>6, <2>7, <2>8, <2>9, <2>10 DEF Next, HostCall
<1> QED
  BY <1>1, <1>2, IbpInvariantHolds, PTL DEF Spec, FeedSpec, Feed!Spec
==============================================================================
