---------------------------- MODULE EngineSocket ----------------------------
(***************************************************************************)
(* One Engine.IO session: the client's socket, the server's socket, their  *)
(* transports and the network between them.  The client dials one          *)
(* transport, then tries to upgrade to better ones while packets flow,     *)
(* pings go round and either side may close.                               *)
(*                                                                         *)
(* A polling transport is a queue at the server (pollQueue), one poll and  *)
(* some posts in flight; websocket and webtransport are a stream in each   *)
(* direction.  Callbacks of a transport are "probe" while it is tried      *)
(* (nothing hears of its end) and "socket" once it belongs to the socket.  *)
(* Every transport ends through its once: "closed" tells the callbacks and *)
(* "discarded" does not.  Timers may fire at any time they are armed.      *)
(***************************************************************************)
EXTENDS Naturals, Sequences

CONSTANTS MaxUp,      \* packets that the client's user sends
          MaxDown,    \* packets that the server's user sends
          MaxFaults,  \* calls of Close, breaks of the network and answers that are late
          Heartbeats  \* whether the run is longer than pingInterval; users send if not

ASSUME EngineAssumption ==
    MaxUp \in Nat /\ MaxDown \in Nat /\ MaxFaults \in Nat /\ Heartbeats \subseteq BOOLEAN

VARIABLES cfg,   \* the client's Transports and whether the server has webtransport
          c,     \* the client's socket
          s,     \* the server and its socket
          n,     \* what is under way between them
          d,     \* data: how much was sent and what was received
          h      \* history: which races have happened

vars == <<cfg, c, s, n, d, h>>

Streams == {"websocket", "webtransport"}
Transports == Streams \cup {"polling"}
Posters == {"queue", "reader"}

Packet(type) == <<type, 0>>
Message(i) == <<"message", i>>
None == Packet("none")
IsMessage(p) == p[1] = "message"
Messages(ps) == SelectSeq(ps, IsMessage)
Control(ps) == SelectSeq(ps, LAMBDA p : p[1] \in {"ping", "close"})

(***************************************************************************)
(* Which transports are tried.  What a handshake offers depends on its     *)
(* transport and on the server's webtransport; maybeUpgrade goes through   *)
(* what is left of the client's list, webtransport first.                  *)
(***************************************************************************)
Config(list, ping) ==
    [list |-> list, ping |-> ping, wt |-> \E i \in DOMAIN list : list[i] = "webtransport",
     up |-> IF ping \/ Len(list) = 3 THEN 0 ELSE MaxUp,
     down |-> IF ping \/ Len(list) = 3 THEN 0 ELSE MaxDown]

Configs ==
    {Config(list, ping) : list \in {<<"polling", "websocket">>, <<"websocket", "webtransport">>},
                          ping \in Heartbeats}
    \cup {Config(<<"polling", "websocket", "webtransport">>, ping) : ping \in Heartbeats \ {TRUE}}

Upgrades(t) ==
    (IF t = "polling" THEN {"websocket"} ELSE {}) \cup
    (IF t # "webtransport" /\ cfg.wt THEN {"webtransport"} ELSE {})

Offer(u, t, rest) ==
    IF u \in Upgrades(t) /\ \E i \in DOMAIN rest : rest[i] = u THEN <<u>> ELSE <<>>

Offers(t, rest) == Offer("webtransport", t, rest) \o Offer("websocket", t, rest)

-----------------------------------------------------------------------------
(***************************************************************************)
(* The client's transports and socket, as functions of its state x.        *)
(***************************************************************************)

\* ClientTransport.close: the first end of a transport, which the socket hears of.
CloseClientTransport(x, t) ==
    IF x.once[t] # "live" THEN x
    ELSE [x EXCEPT !.once[t] = "closed",
                   !.sendClose = @ \/ t = "polling",
                   !.ended = IF x.cb[t] = "socket" THEN @ \cup {t} ELSE @]

DiscardClientTransport(x, t) ==
    [x EXCEPT !.once[t] = IF @ = "live" THEN "discarded" ELSE @]

\* clientSocket.close; byTransport: the reason is the end of the transport itself.
CloseClient(x, byTransport) ==
    IF x.life # "open" THEN x
    ELSE LET y == [x EXCEPT !.life = "closed"]
         IN IF byTransport THEN y ELSE CloseClientTransport(y, x.transport)

\* Faulty variant: the transport is not recorded.
OpenedUnrecorded(x, t) ==
    [x EXCEPT !.life = "open", !.once[t] = "live", !.cb[t] = "socket",
              !.rest = Tail(@), !.offers = Offers(t, Tail(x.rest)),
              !.pc = IF Offers(t, Tail(x.rest)) = <<>> THEN "end" ELSE "idle"]

\* A dialled transport is the socket's, and maybeUpgrade starts.
Opened(x, t) ==
    [x EXCEPT !.life = "open", !.transport = t, !.once[t] = "live", !.cb[t] = "socket",
              !.rest = Tail(@), !.offers = Offers(t, Tail(x.rest)),
              !.pc = IF Offers(t, Tail(x.rest)) = <<>> THEN "end" ELSE "idle"]

\* maybeUpgrade goes on to the next transport.
NextOffer(x) ==
    [x EXCEPT !.offers = Tail(@), !.pc = IF Tail(x.offers) = <<>> THEN "end" ELSE "idle"]

\* A writer waits for transportMu, and readers wait for the writer.
Locking == \E t \in Transports : c.fin[t] = "set"

\* The goroutine that reads transport t is not in a callback.
ClientReads(t) ==
    /\ c.fin[t] = "none"
    /\ c.todo[t] = <<>>
    /\ t = "polling" => n.posts["reader"] = None

\* transport.Send of the socket's transport, by goroutine who.
ClientSend(y, p, who) ==
    IF c.transport = "polling" THEN [y EXCEPT !.posts[who] = p]
    ELSE IF c.once[c.transport] = "live" /\ ~n.broken
         THEN [y EXCEPT !.up[c.transport] = Append(@, p)]
         ELSE y

-----------------------------------------------------------------------------
(***************************************************************************)
(* The server's transports and socket, as functions of its state x and of  *)
(* the network y.                                                          *)
(***************************************************************************)
CloseServerTransport(x, t) ==
    IF x.once[t] # "live" THEN x
    ELSE [x EXCEPT !.once[t] = "closed",
                   !.go = IF t = "polling" THEN @ \cup {"close"} ELSE @,
                   !.ended = IF x.cb[t] = "socket" THEN @ \cup {t} ELSE @]

\* The polling transport sends a NOOP to end the poll that waits.
DiscardServerTransport(x, t) ==
    IF x.once[t] # "live" THEN x
    ELSE [x EXCEPT !.once[t] = "discarded",
                   !.go = IF t = "polling" THEN @ \cup {"noop"} ELSE @]

\* serverSocket.close, with the removal from the store.
CloseServer(x, byTransport) ==
    IF x.life # "open" THEN x
    ELSE LET y == [x EXCEPT !.life = "closed", !.stored = FALSE]
         IN IF byTransport THEN y ELSE CloseServerTransport(y, x.transport)

\* pollQueue.add: the signal only reaches a poll that waits in its select, and that
\* takes the packets then.
add(y, ps) ==
    IF y.poll = "wait"
    THEN [y EXCEPT !.pq = <<>>, !.poll = "resp", !.resp = y.pq \o ps]
    ELSE [y EXCEPT !.pq = @ \o ps]

Write(y, t, ps) ==
    IF s.once[t] = "live" /\ ~n.broken THEN [y EXCEPT !.down[t] = @ \o ps] ELSE y

ServerSend(y, ps) ==
    IF s.transport = "polling" THEN add(y, ps) ELSE Write(y, s.transport, ps)

\* serverSocket.onPacket for a packet that is not a message.
HandleServerPacket(x, p) ==
    CASE p[1] = "pong"  -> [x EXCEPT !.pongChan = TRUE]
      [] p[1] = "close" -> CloseServerTransport(x, x.transport)
      [] OTHER          -> x

\* ServeHTTP finds the session, on the polling transport.
Served == s.running /\ s.stored /\ s.transport = "polling" /\ ~n.broken

-----------------------------------------------------------------------------
Init ==
    /\ cfg \in Configs
    /\ c = [life |-> "dial", rest |-> cfg.list, transport |-> "none", offers |-> <<>>,
            pc |-> "idle", once |-> [t \in Transports |-> "none"],
            cb |-> [t \in Transports |-> "probe"], fin |-> [t \in Transports |-> "none"],
            todo |-> [t \in Transports |-> <<>>], ended |-> {}, sendClose |-> FALSE]
    /\ s = [running |-> TRUE, life |-> "none", stored |-> FALSE, transport |-> "none",
            once |-> [t \in Transports |-> "none"], cb |-> [t \in Transports |-> "probe"],
            upg |-> [t \in Transports |-> "none"], fin |-> {}, ended |-> {}, go |-> {},
            ping |-> "sleep", pongChan |-> FALSE]
    /\ n = [up |-> [t \in Streams |-> <<>>], down |-> [t \in Streams |-> <<>>],
            pq |-> <<>>, poll |-> "off", resp |-> <<>>,
            posts |-> [w \in Posters |-> None], broken |-> FALSE]
    /\ d = [up |-> 0, upRcv |-> <<>>, down |-> 0, downRcv |-> <<>>]
    /\ h = [faults |-> 0, late |-> FALSE, zombie |-> FALSE, overlap |-> FALSE,
            stream |-> FALSE, survivor |-> FALSE]

\* A call of Close or a break of the network.
Fault == h.faults < MaxFaults /\ h' = [h EXCEPT !.faults = @ + 1]

\* A timer fires because what it waits for cannot come, or because that is late.
Timer(overdue) == Fault \/ (overdue /\ UNCHANGED h)

Has(ps, types) == \E i \in DOMAIN ps : ps[i][1] \in types

\* Something is under way on stream t.
Busy(t) ==
    \/ c.once[t] = "live" /\ (n.down[t] # <<>> \/ ~ClientReads(t))
    \/ s.once[t] = "live" /\ (n.up[t] # <<>> \/ t \in s.fin)

\* A ping is on its way to the client.
Pinging ==
    \/ \E t \in Streams : c.once[t] = "live" /\ Has(n.down[t], {"ping"})
    \/ \E t \in Transports : Has(c.todo[t], {"ping"})
    \/ Has(n.resp, {"ping"})
    \/ Has(n.pq, {"ping"}) /\ n.poll # "wait" /\ c.once["polling"] = "live"

\* A pong is on its way to the server's socket.
Ponging ==
    \/ \E t \in Streams : s.once[t] = "live" /\ Has(n.up[t], {"pong"})
    \/ n.posts["reader"] # None \/ s.pongChan

-----------------------------------------------------------------------------
(***************************************************************************)
(* The handshake.                                                          *)
(***************************************************************************)

\* Handshake of a websocket answers before the server's socket exists.
Handshake(x, t) == IF t = "websocket" THEN Opened(x, t) ELSE x

\* The others answer after: a poll when its handler returns, a webtransport in PostHandshake.
PostHandshake(x, t) == IF x.life = "dial" THEN Opened(x, t) ELSE x

\* ServeHTTP has checked that the server is not closed and the transport is accepted.
Accept ==
    /\ c.life = "dial" /\ s.life = "none" /\ s.running /\ ~n.broken
    /\ LET t == Head(c.rest) IN
       /\ t = "webtransport" => cfg.wt
       /\ s' = [s EXCEPT !.life = "checked", !.transport = t, !.once[t] = "live", !.cb[t] = "socket"]
       /\ c' = Handshake(c, t)
    /\ UNCHANGED <<cfg, n, d, h>>

newSocket ==
    /\ s.life = "checked"
    /\ s' = [s EXCEPT !.life = "open", !.stored = TRUE]
    /\ c' = PostHandshake(c, s.transport)
    /\ h' = [h EXCEPT !.survivor = ~s.running]
    /\ UNCHANGED <<cfg, n, d>>

\* connect tries the next transport of the list, or gives up.
DialFails ==
    /\ c.life = "dial" /\ s.life = "none"
    /\ c' = [c EXCEPT !.rest = Tail(@), !.life = IF Tail(c.rest) = <<>> THEN "failed" ELSE @]
    /\ UNCHANGED <<cfg, s, n, d, h>>

-----------------------------------------------------------------------------
(***************************************************************************)
(* The upgrade, at the client.                                             *)
(***************************************************************************)

\* The server finds the session, on another transport, and starts maybeUpgrade.
TakesUpgrade(t) == ~n.broken /\ s.running /\ s.stored /\ s.transport # t

\* A webtransport is opened by its client alone and closed by a server that refuses it.
OpensAnyway(t) == t = "webtransport" /\ s.running /\ ~n.broken

\* tryUpgradeTo: the handshake of the next transport and the probe's ping.
TryUpgrade ==
    /\ c.pc = "idle" /\ c.life \in {"open", "closed"}
    /\ LET t == Head(c.offers)
           opened == [c EXCEPT !.once[t] = "live", !.pc = "wait"]
       IN \/ /\ TakesUpgrade(t)
             /\ c' = opened
             /\ s' = [s EXCEPT !.once[t] = "live", !.upg[t] = "wait"]
             /\ n' = [n EXCEPT !.up[t] = <<Packet("ping")>>]
          \/ /\ ~TakesUpgrade(t) /\ OpensAnyway(t)
             /\ c' = opened
             /\ s' = [s EXCEPT !.once[t] = "closed"]
             /\ UNCHANGED n
          \/ /\ ~TakesUpgrade(t) /\ ~OpensAnyway(t)
             /\ c' = NextOffer(c)
             /\ UNCHANGED <<s, n>>
    /\ UNCHANGED <<cfg, d, h>>

\* The probe's answer arrives; done is closed and the callbacks become the socket's.
ProbeAnswered(t) ==
    /\ c.fin[t] = "read"
    /\ c' = [c EXCEPT !.fin[t] = "set", !.cb[t] = "socket",
                      !.pc = IF @ = "wait" /\ t = Head(c.offers) THEN "end" ELSE @]
    /\ UNCHANGED <<cfg, s, n, d, h>>

\* No send is under way: finishUpgradeTo has the write lock.
NoSender == n.posts["queue"] = None /\ n.posts["reader"] = None

\* Faulty variant: the transports are swapped while a send is under way.
finishUpgradeToUnlocked(t) ==
    /\ c.fin[t] = "set"
    /\ c' = [DiscardClientTransport(c, c.transport) EXCEPT !.fin[t] = "none", !.transport = t]
    /\ n' = IF c.once[t] = "live" /\ ~n.broken
            THEN [n EXCEPT !.up[t] = Append(@, Packet("upgrade"))] ELSE n
    /\ UNCHANGED <<cfg, s, d, h>>

finishUpgradeTo(t) ==
    /\ c.fin[t] = "set" /\ NoSender
    /\ c' = [DiscardClientTransport(c, c.transport) EXCEPT !.fin[t] = "none", !.transport = t]
    /\ n' = IF c.once[t] = "live" /\ ~n.broken
            THEN [n EXCEPT !.up[t] = Append(@, Packet("upgrade"))] ELSE n
    /\ h' = [h EXCEPT !.late = @ \/ c.once[t] # "live",
                      !.zombie = @ \/ c.life # "open",
                      !.stream = @ \/ c.transport # "polling"]
    /\ UNCHANGED <<cfg, s, d>>

\* upgradeTimeout is chosen by the select, and the transport is closed after it.
ProbeTimeout ==
    /\ c.pc = "wait" /\ Timer(~Busy(Head(c.offers)))
    /\ c' = [c EXCEPT !.pc = "fired"]
    /\ UNCHANGED <<cfg, s, n, d>>

ProbeClose ==
    /\ c.pc = "fired"
    /\ c' = NextOffer(CloseClientTransport(c, Head(c.offers)))
    /\ UNCHANGED <<cfg, s, n, d, h>>

-----------------------------------------------------------------------------
(***************************************************************************)
(* The client's reader of a stream, its handlers and its timers.           *)
(***************************************************************************)
ClientReceive(t) ==
    /\ c.once[t] = "live" /\ ClientReads(t) /\ n.down[t] # <<>>
    /\ LET p == Head(n.down[t]) IN
       /\ c' = CASE c.cb[t] = "socket"                  -> [c EXCEPT !.todo[t] = Control(<<p>>)]
                 [] c.cb[t] = "probe" /\ p[1] = "pong"  -> [c EXCEPT !.fin[t] = "read"]
                 [] c.cb[t] = "probe" /\ p[1] # "pong"  -> CloseClientTransport(c, t)
       /\ d' = [d EXCEPT !.downRcv = IF c.cb[t] = "socket" THEN @ \o Messages(<<p>>) ELSE @]
    /\ n' = [n EXCEPT !.down[t] = Tail(@)]
    /\ UNCHANGED <<cfg, s, h>>

\* The other side, or the network, has ended a stream.
ClientReadFails(t) ==
    /\ c.once[t] = "live" /\ ClientReads(t) /\ n.down[t] = <<>>
    /\ n.broken \/ s.once[t] \in {"closed", "discarded"}
    /\ c' = CloseClientTransport(c, t)
    /\ UNCHANGED <<cfg, s, n, d, h>>

\* clientSocket.handlePacket, in the goroutine that reads transport t.
handlePacket(t) ==
    /\ c.todo[t] # <<>> /\ ~Locking /\ n.posts["reader"] = None
    /\ LET done == [c EXCEPT !.todo[t] = Tail(@)] IN
       IF Head(c.todo[t])[1] = "ping"
       THEN /\ c' = done
            /\ n' = ClientSend(n, Packet("pong"), "reader")
       ELSE /\ c' = CloseClientTransport(done, c.transport)
            /\ UNCHANGED n
    /\ UNCHANGED <<cfg, s, d, h>>

\* Faulty variant: the end of a transport is not compared with the transport in use.
onClientTransportCloseAny(t) ==
    /\ t \in c.ended
    /\ c' = CloseClient([c EXCEPT !.ended = @ \ {t}], TRUE)
    /\ UNCHANGED <<cfg, s, n, d, h>>

\* The goroutine of clientSocket.onTransportClose.
onClientTransportClose(t) ==
    /\ t \in c.ended /\ ~Locking
    /\ LET x == [c EXCEPT !.ended = @ \ {t}]
       IN c' = IF c.transport = t THEN CloseClient(x, TRUE) ELSE x
    /\ UNCHANGED <<cfg, s, n, d, h>>

\* No ping for pingInterval + pingTimeout.
handleTimeout ==
    /\ c.life = "open" /\ cfg.ping /\ ~Locking
    /\ Timer(~Pinging /\ ~(s.life = "open" /\ (s.ping = "sleep" \/ Ponging)))
    /\ c' = CloseClient(c, FALSE)
    /\ UNCHANGED <<cfg, s, n, d>>

-----------------------------------------------------------------------------
(***************************************************************************)
(* The polling transport.                                                  *)
(***************************************************************************)

\* ClientTransport.Run sends a poll, and the server's poll takes what is queued.
Poll ==
    /\ c.once["polling"] = "live" /\ ClientReads("polling") /\ n.poll = "off"
    /\ IF Served
       THEN /\ n' = [n EXCEPT !.poll = IF n.pq = <<>> THEN "got" ELSE "resp",
                              !.resp = n.pq, !.pq = <<>>]
            /\ UNCHANGED c
       ELSE /\ c' = CloseClientTransport(c, "polling")
            /\ UNCHANGED n
    /\ UNCHANGED <<cfg, s, d, h>>

\* The poll has found the queue empty and goes into its select.
PollWaits ==
    /\ n.poll = "got"
    /\ n' = [n EXCEPT !.poll = "wait"]
    /\ UNCHANGED <<cfg, c, s, d, h>>

\* After pollTimeout, which is longer than the time to the next ping, a poll answers with
\* the packets of its first look: none.
PollTimeout ==
    /\ n.poll = "wait"
    /\ n.pq # <<>> \/ s.life = "closed"
    /\ n' = [n EXCEPT !.poll = "resp", !.resp = <<>>]
    /\ UNCHANGED <<cfg, c, s, d, h>>

\* The answer arrives; an answer without packets does not decode.
PollAnswered ==
    /\ n.poll = "resp" /\ ~n.broken
    /\ n' = [n EXCEPT !.poll = "off", !.resp = <<>>]
    /\ c' = IF n.resp = <<>> THEN CloseClientTransport(c, "polling")
            ELSE [c EXCEPT !.todo["polling"] = Control(n.resp)]
    /\ d' = [d EXCEPT !.downRcv = @ \o Messages(n.resp)]
    /\ UNCHANGED <<cfg, s, h>>

PollFails ==
    /\ n.poll # "off" /\ n.broken
    /\ n' = [n EXCEPT !.poll = "off", !.resp = <<>>]
    /\ c' = CloseClientTransport(c, "polling")
    /\ UNCHANGED <<cfg, s, d, h>>

\* The POST of the goroutine that says goodbye.
CloseHandled ==
    /\ c.sendClose
    /\ c' = [c EXCEPT !.sendClose = FALSE]
    /\ s' = IF Served THEN HandleServerPacket(s, Packet("close")) ELSE s
    /\ UNCHANGED <<cfg, n, d, h>>

\* A POST is handled by handleDataRequest and answered.
PostHandled(w) ==
    /\ n.posts[w] # None /\ Served
    /\ n' = [n EXCEPT !.posts[w] = None]
    /\ s' = HandleServerPacket(s, n.posts[w])
    /\ d' = [d EXCEPT !.upRcv = @ \o Messages(<<n.posts[w]>>)]
    /\ UNCHANGED <<cfg, c, h>>

\* A POST that finds no session, or no server, ends the client's transport.
PostFails(w) ==
    /\ n.posts[w] # None /\ ~Served
    /\ n' = [n EXCEPT !.posts[w] = None]
    /\ c' = CloseClientTransport(c, "polling")
    /\ UNCHANGED <<cfg, s, d, h>>

-----------------------------------------------------------------------------
(***************************************************************************)
(* The server's reader of a stream, the upgrade and the heartbeat.         *)
(***************************************************************************)

\* The callback of maybeUpgrade, while transport t is tried.
ProbePacket(x, t, p) ==
    CASE p[1] = "ping"    -> [x EXCEPT !.go = @ \cup {"cycle"}]
      [] p[1] = "upgrade" -> [x EXCEPT !.fin = @ \cup {t}]
      [] OTHER            -> CloseServerTransport(x, t)

\* The server reads a packet: for the socket, or for the probe.
ServerReceive(t) ==
    /\ s.once[t] = "live" /\ t \notin s.fin /\ s.life # "checked" /\ n.up[t] # <<>>
    /\ LET p == Head(n.up[t])
           rest == [n EXCEPT !.up[t] = Tail(@)]
       IN \/ /\ s.cb[t] = "socket"
             /\ s' = HandleServerPacket(s, p)
             /\ n' = rest
             /\ d' = [d EXCEPT !.upRcv = @ \o Messages(<<p>>)]
          \/ /\ s.cb[t] = "probe"
             /\ s' = ProbePacket(s, t, p)
             /\ n' = IF p[1] = "ping" THEN Write(rest, t, <<Packet("pong")>>) ELSE rest
             /\ UNCHANGED d
    /\ UNCHANGED <<cfg, c, h>>

ServerReadFails(t) ==
    /\ s.once[t] = "live" /\ t \notin s.fin /\ s.life # "checked" /\ n.up[t] = <<>>
    /\ n.broken \/ c.once[t] \in {"closed", "discarded"}
    /\ s' = CloseServerTransport(s, t)
    /\ UNCHANGED <<cfg, c, n, d, h>>

\* The packets that wait in the old transport.
QueuedPackets == SelectSeq(n.pq, LAMBDA p : p[1] # "noop")

\* Faulty variant: the queued packets stay in the old transport.
upgradeToLeaving(t) ==
    /\ t \in s.fin
    /\ s' = [DiscardServerTransport(s, s.transport) EXCEPT
                !.fin = @ \ {t}, !.cb[t] = "socket", !.transport = t,
                !.upg[t] = IF @ = "wait" THEN "end" ELSE @]
    /\ h' = [h EXCEPT !.overlap = @ \/ Messages(n.resp) # <<>>]
    /\ UNCHANGED <<cfg, c, n, d>>

upgradeTo(t) ==
    /\ t \in s.fin
    /\ s' = [DiscardServerTransport(s, s.transport) EXCEPT
                !.fin = @ \ {t}, !.cb[t] = "socket", !.transport = t,
                !.upg[t] = IF @ = "wait" THEN "end" ELSE @]
    /\ n' = [Write(n, t, QueuedPackets) EXCEPT !.pq = <<>>]
    /\ h' = [h EXCEPT !.late = @ \/ s.once[t] # "live",
                      !.overlap = @ \/ Messages(n.resp) # <<>>]
    /\ UNCHANGED <<cfg, c, d>>

UpgradeTimeout(t) ==
    /\ s.upg[t] = "wait" /\ Timer(~Busy(t))
    /\ s' = [s EXCEPT !.upg[t] = "fired"]
    /\ UNCHANGED <<cfg, c, n, d>>

UpgradeClose(t) ==
    /\ s.upg[t] = "fired"
    /\ s' = CloseServerTransport([s EXCEPT !.upg[t] = "end"], t)
    /\ UNCHANGED <<cfg, c, n, d, h>>

\* The goroutines that send a NOOP or CLOSE packet; "cycle" goes by the socket.
GoSend(g) ==
    /\ g \in s.go
    /\ s' = [s EXCEPT !.go = @ \ {g}]
    /\ n' = IF g = "cycle" THEN ServerSend(n, <<Packet("noop")>>) ELSE add(n, <<Packet(g)>>)
    /\ UNCHANGED <<cfg, c, d, h>>

pingPong ==
    /\ s.life = "open" /\ s.ping = "sleep" /\ cfg.ping
    /\ s' = [s EXCEPT !.ping = "wait"]
    /\ n' = ServerSend(n, <<Packet("ping")>>)
    /\ UNCHANGED <<cfg, c, d, h>>

PongReceived ==
    /\ s.life = "open" /\ s.ping = "wait" /\ s.pongChan
    /\ s' = [s EXCEPT !.ping = "sleep", !.pongChan = FALSE]
    /\ UNCHANGED <<cfg, c, n, d, h>>

\* Faulty variant: a missing pong closes nothing.
PingTimeoutIgnored ==
    /\ s.life = "open" /\ s.ping = "wait"
    /\ s' = [s EXCEPT !.ping = "ended"]
    /\ UNCHANGED <<cfg, c, n, d, h>>

PingTimeout ==
    /\ s.life = "open" /\ s.ping = "wait" /\ Timer(~Pinging /\ ~Ponging)
    /\ s' = CloseServer(s, FALSE)
    /\ UNCHANGED <<cfg, c, n, d>>

\* The goroutine of serverSocket.onTransportClose.
onServerTransportClose(t) ==
    /\ t \in s.ended
    /\ LET x == [s EXCEPT !.ended = @ \ {t}]
       IN s' = IF s.transport = t THEN CloseServer(x, TRUE) ELSE x
    /\ UNCHANGED <<cfg, c, n, d, h>>

-----------------------------------------------------------------------------
(***************************************************************************)
(* The users and the network.                                              *)
(***************************************************************************)
ClientSends ==
    /\ c.life = "open" /\ ~Locking /\ n.posts["queue"] = None
    /\ d.up < cfg.up
    /\ d' = [d EXCEPT !.up = @ + 1]
    /\ n' = ClientSend(n, Message(d.up + 1), "queue")
    /\ UNCHANGED <<cfg, c, s, h>>

ServerSends ==
    /\ s.life = "open" /\ d.down < cfg.down
    /\ d' = [d EXCEPT !.down = @ + 1]
    /\ n' = ServerSend(n, <<Message(d.down + 1)>>)
    /\ UNCHANGED <<cfg, c, s, h>>

CloseByClient ==
    /\ c.life = "open" /\ ~Locking /\ Fault
    /\ c' = CloseClient(c, FALSE)
    /\ UNCHANGED <<cfg, s, n, d>>

CloseByServer ==
    /\ s.life = "open" /\ Fault
    /\ s' = CloseServer(s, FALSE)
    /\ UNCHANGED <<cfg, c, n, d>>

\* Server.Close: no new handshakes, and every stored socket is closed.
ServerClose ==
    /\ s.running /\ Fault
    /\ LET x == [s EXCEPT !.running = FALSE]
       IN s' = IF s.stored THEN CloseServer(x, FALSE) ELSE x
    /\ UNCHANGED <<cfg, c, n, d>>

\* The network breaks for good, and what is in the streams is lost.
Break ==
    /\ ~n.broken /\ Fault
    /\ n' = [n EXCEPT !.broken = TRUE, !.up = [t \in Streams |-> <<>>],
                      !.down = [t \in Streams |-> <<>>]]
    /\ UNCHANGED <<cfg, c, s, d>>

-----------------------------------------------------------------------------
Next ==
    \/ Accept \/ newSocket \/ DialFails \/ TryUpgrade \/ ProbeTimeout \/ ProbeClose
    \/ handleTimeout
    \/ Poll \/ PollWaits \/ PollTimeout \/ PollAnswered \/ PollFails \/ CloseHandled
    \/ pingPong \/ PongReceived \/ PingTimeout
    \/ ClientSends \/ ServerSends \/ CloseByClient \/ CloseByServer \/ ServerClose \/ Break
    \/ \E w \in Posters : PostHandled(w) \/ PostFails(w)
    \/ \E g \in {"noop", "close", "cycle"} : GoSend(g)
    \/ \E t \in Streams : ProbeAnswered(t) \/ finishUpgradeTo(t) \/ ClientReceive(t)
                          \/ ClientReadFails(t) \/ ServerReceive(t) \/ ServerReadFails(t)
                          \/ upgradeTo(t) \/ UpgradeTimeout(t) \/ UpgradeClose(t)
    \/ \E t \in Transports : handlePacket(t) \/ onClientTransportClose(t)
                             \/ onServerTransportClose(t)

Spec == Init /\ [][Next]_vars

\* The steps that a session takes only so many times, users and faults apart.
Progress ==
    \/ Accept \/ newSocket \/ TryUpgrade \/ ProbeTimeout \/ ProbeClose
    \/ PollTimeout \/ PollFails \/ CloseHandled \/ \E w \in Posters : PostFails(w)
    \/ \E g \in {"noop", "close", "cycle"} : GoSend(g)
    \/ \E t \in Streams : ProbeAnswered(t) \/ finishUpgradeTo(t) \/ ClientReadFails(t)
                          \/ ServerReadFails(t) \/ upgradeTo(t) \/ UpgradeTimeout(t)
                          \/ UpgradeClose(t)
    \/ \E t \in Transports : onClientTransportClose(t) \/ onServerTransportClose(t)

InTime == h'.faults = h.faults

\* Goroutines run, requests and packets arrive and timers fire when they are overdue; users
\* and faults owe nothing.
Fairness ==
    /\ WF_vars(Progress /\ InTime)
    /\ WF_vars(handleTimeout /\ InTime) /\ WF_vars(PingTimeout /\ InTime)
    /\ WF_vars(pingPong) /\ WF_vars(PongReceived)
    /\ WF_vars(Poll \/ PollWaits \/ PollAnswered)
    /\ WF_vars(\E w \in Posters : PostHandled(w))
    /\ WF_vars(\E t \in Transports : handlePacket(t))
    /\ \A t \in Streams : WF_vars(ClientReceive(t)) /\ WF_vars(ServerReceive(t))

FairSpec == Spec /\ Fairness

-----------------------------------------------------------------------------
PacketSet ==
    {Packet(type) : type \in {"ping", "pong", "noop", "close", "upgrade"}}
    \cup {Message(i) : i \in 1..(MaxUp + MaxDown)}

Onces == [Transports -> {"none", "live", "discarded", "closed"}]
Callbacks == [Transports -> {"probe", "socket"}]

\* Every variable has its type; a socket that is open has a transport.
TypeOK ==
    /\ cfg \in Configs
    /\ c.life \in {"dial", "open", "closed", "failed"}
    /\ c.life \in {"open", "closed"} => c.transport \in Transports
    /\ c.pc \in {"idle", "wait", "fired", "end"} /\ c.once \in Onces /\ c.cb \in Callbacks
    /\ c.fin \in [Transports -> {"none", "read", "set"}] /\ c.ended \subseteq Transports
    /\ \A t \in Transports : c.todo[t] \in Seq(PacketSet)
    /\ {c.sendClose, s.running, s.stored, s.pongChan, n.broken} \subseteq BOOLEAN
    /\ s.life \in {"none", "checked", "open", "closed"}
    /\ s.life # "none" => s.transport \in Transports
    /\ s.once \in Onces /\ s.cb \in Callbacks /\ s.fin \subseteq Streams
    /\ s.upg \in [Transports -> {"none", "wait", "fired", "end"}]
    /\ s.ended \subseteq Transports /\ s.go \subseteq {"noop", "close", "cycle"}
    /\ s.ping \in {"sleep", "wait"}
    /\ \A t \in Streams : n.up[t] \in Seq(PacketSet) /\ n.down[t] \in Seq(PacketSet)
    /\ n.pq \in Seq(PacketSet) /\ n.resp \in Seq(PacketSet)
    /\ n.poll \in {"off", "got", "wait", "resp"}
    /\ n.posts \in [Posters -> PacketSet \cup {None}]
    /\ d.up \in 0..MaxUp /\ d.down \in 0..MaxDown
    /\ h.faults \in 0..MaxFaults

\* Nothing is under way on transport t, and no swap of transports either.
Settled(t) ==
    /\ \A u \in Transports : c.todo[u] = <<>> /\ c.fin[u] = "none"
    /\ s.fin = {} /\ n.poll # "resp" /\ \A w \in Posters : n.posts[w] = None
    /\ IF t = "polling" THEN n.pq = <<>> ELSE n.up[t] = <<>> /\ n.down[t] = <<>>

\* What the client sends is received in its order, each packet once: finishUpgradeTo takes
\* the write lock of transportMu, and so waits for every POST to be answered before
\* anything goes by the new transport.  A stream that is left for another one, which
\* Discard closes under its reader, loses or delays packets, and there may be a gap at a
\* server's socket that is closed, which still follows an upgrade and receives packets.
\* The client receives no packet of the server twice, and receives them in their order
\* unless upgradeTo ran while a poll's answer with a message was under way: the answer and
\* the new transport then race.
PacketsInOrder ==
    LET up == d.upRcv
        down == d.downRcv
    IN  /\ \/ h.stream
           \/ /\ \A i, j \in DOMAIN up : i < j => up[i][2] < up[j][2]
              /\ s.life = "open" => \A i \in DOMAIN up : up[i] = Message(i)
        /\ \A i, j \in DOMAIN down : i < j =>
              /\ down[i] # down[j]
              /\ down[i][2] < down[j][2] \/ h.overlap

\* An upgrade loses nothing: when both ends are open on one live transport and nothing is
\* under way, all that was sent has been received, what waited in the poll queue when
\* upgradeTo swapped the transports included.  The exception is an upgrade from a stream.
NothingLost ==
    ( /\ c.life = "open" /\ s.life = "open" /\ c.transport = s.transport
      /\ c.once[c.transport] = "live" /\ s.once[s.transport] = "live"
      /\ ~n.broken /\ ~h.stream /\ Settled(c.transport) )
    => Len(d.upRcv) = d.up /\ Len(d.downRcv) = d.down

\* A socket that is open has a live transport, or the goroutine that closes it is under
\* way, except after an upgrade whose timeout closes the transport between the probe's
\* answer and the swap: nothing but the heartbeat ends that socket.  A client's socket that
\* is closed has ended its transport, so that the server can learn of it, unless
\* finishUpgradeTo, which does not look whether the socket is closed, has given it a new
\* one.  Once the server is closed it has no open socket, except the one of a handshake
\* that had passed ServeHTTP's check before.
TransportsFollow ==
    /\ c.life = "open" => c.once[c.transport] = "live" \/ c.transport \in c.ended \/ h.late
    /\ s.life = "open" => s.once[s.transport] = "live" \/ s.transport \in s.ended \/ h.late
    /\ c.life = "closed" => c.once[c.transport] # "live" \/ h.zombie
    /\ ~s.running => s.life # "open" \/ h.survivor

\* A session that is closed at the client is closed at the server some time later, and the
\* other way round: by a CLOSE packet, by the end of the transport or, when those are
\* lost, by the heartbeat.  The exception is the client that was upgraded after it was
\* closed: it goes on answering pings.
PeersFollow ==
    (c.life = "closed" \/ s.life = "closed")
    ~> (c.life # "open" /\ (s.life = "closed" \/ h.zombie))

\* A poll does not wait while there are packets in its queue.
PollReturns == n.poll = "wait" => n.pq = <<>>
=============================================================================
