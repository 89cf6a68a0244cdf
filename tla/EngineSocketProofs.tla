-------------------------- MODULE EngineSocketProofs --------------------------
(***************************************************************************)
(* Whatever order handshakes, probes, timeouts, swaps and closes come in,  *)
(* an Engine.IO socket follows its transport and a transport its socket:   *)
(* the invariant of EngineSocketInv is kept by every step of the client    *)
(* and of the server, the handshake and the upgrade too, and               *)
(* TransportsFollow is part of it.                                         *)
(***************************************************************************)
EXTENDS EngineSocketInv, TLAPS

\* Zenon checks the steps that name no prover; those with arithmetic, records and
\* functions to be computed name SMT.
USE ZenonT(60)

-----------------------------------------------------------------------------
(* What the functions of the model do to a state. *)

\* The first end of a client's transport tells the socket, if the transport is the socket's.
LEMMA CloseClientTransportType ==
  ASSUME NEW T, NEW x \in ClientStates(T), NEW t \in Transports,
         NEW y, y = CloseClientTransport(x, t)
  PROVE  /\ y \in ClientStates(T)
         /\ y.life = x.life /\ y.rest = x.rest /\ y.transport = x.transport
         /\ y.offers = x.offers /\ y.pc = x.pc /\ y.cb = x.cb /\ y.fin = x.fin
         /\ \A u \in Transports : u # t => y.once[u] = x.once[u] /\ (u \in y.ended <=> u \in x.ended)
         /\ x.once[t] # "live" => y = x
         /\ x.once[t] = "live" => y.once[t] = "closed" /\ (t \in y.ended <=> t \in x.ended \/ x.cb[t] = "socket")
<1>1. CASE x.once[t] # "live"
  BY <1>1 DEF CloseClientTransport
<1>2. CASE x.once[t] = "live"
  BY <1>2, ZenonT(30) DEF CloseClientTransport, ClientStates, Onces, Callbacks
<1> QED
  BY <1>1, <1>2

\* A transport that is discarded just ends.
LEMMA DiscardClientTransportType ==
  ASSUME NEW T, NEW x \in ClientStates(T), NEW t \in Transports,
         NEW y, y = DiscardClientTransport(x, t)
  PROVE  /\ y \in ClientStates(T)
         /\ y.life = x.life /\ y.rest = x.rest /\ y.transport = x.transport
         /\ y.offers = x.offers /\ y.pc = x.pc /\ y.cb = x.cb /\ y.fin = x.fin
         /\ y.ended = x.ended
         /\ \A u \in Transports : u # t => y.once[u] = x.once[u]
         /\ x.once[t] # "live" => y.once[t] = x.once[t]
         /\ y.once[t] # "live"
  BY DEF DiscardClientTransport, ClientStates, Onces

-----------------------------------------------------------------------------
(* What they preserve. *)

\* The end of any of its transports keeps the client's invariant.
LEMMA CloseClientTransportOK ==
  ASSUME NEW T, NEW x \in ClientStates(T), NEW t \in Transports, ClientOK(x)
  PROVE  ClientOK(CloseClientTransport(x, t))
<1>1. PICK y : y = CloseClientTransport(x, t)
  OBVIOUS
<1>2. CASE x.once[t] # "live"
  BY SMT, <1>1, <1>2, CloseClientTransportType
<1>3. CASE x.once[t] = "live"
  <2>1. /\ y.life = x.life /\ y.rest = x.rest /\ y.transport = x.transport
        /\ y.offers = x.offers /\ y.pc = x.pc /\ y.cb = x.cb /\ y.fin = x.fin
        /\ \A u \in Transports : u # t => y.once[u] = x.once[u] /\ (u \in y.ended <=> u \in x.ended)
        /\ y.once[t] = "closed" /\ (t \in y.ended <=> t \in x.ended \/ x.cb[t] = "socket")
    BY SMT, <1>1, <1>3, CloseClientTransportType
  <2>2. Dialling(y)
    BY <1>3, <2>1 DEF ClientOK, ClientInv, Dialling, Fresh
  <2>3. Upgrading(y)
    <3>1. \A i \in DOMAIN x.offers : x.offers[i] \in Transports
      BY SMT DEF ClientStates, Transports
    <3> QED
      BY SMT, <1>3, <2>1, <3>1 DEF ClientOK, ClientInv, Upgrading, Untried, Fresh
  <2>4. Owned(y)
    BY SMT, <1>3, <2>1 DEF ClientOK, ClientInv, Owned
  <2>5. Alive(y, h.late) /\ Ended(y, h.zombie)
    BY SMT, <1>3, <2>1 DEF ClientOK, ClientInv, Owned, Alive, Ended
  <2> QED
    BY <1>1, <2>2, <2>3, <2>4, <2>5 DEF ClientOK, ClientInv
<1> QED
  BY <1>2, <1>3

\* clientSocket.close for another reason than the end of the transport ends that too.
LEMMA CloseClientOK ==
  ASSUME NEW T, NEW x \in ClientStates(T), ClientOK(x)
  PROVE  /\ CloseClient(x, FALSE) \in ClientStates(T) /\ ClientOK(CloseClient(x, FALSE))
         /\ CloseClient(x, FALSE).cb = x.cb
         /\ x.life \in {"open", "closed"} <=> CloseClient(x, FALSE).life \in {"open", "closed"}
<1>1. CASE x.life # "open"
  BY <1>1 DEF CloseClient
<1>2. CASE x.life = "open"
  <2> DEFINE w == [x EXCEPT !.life = "closed"]
  <2>1. PICK z : z = CloseClientTransport(x, x.transport)
    OBVIOUS
  <2>2. x.transport \in Transports /\ x.cb[x.transport] = "socket"
    BY <1>2 DEF ClientOK, ClientInv, Owned
  <2>3. z \in ClientStates(T) /\ z.life = "open" /\ z.transport = x.transport
        /\ z.once[x.transport] # "live" /\ z.cb = x.cb /\ ClientOK(z)
    BY SMT, <1>2, <2>1, <2>2, CloseClientTransportType, CloseClientTransportOK
  <2>4. CloseClient(x, FALSE) = [z EXCEPT !.life = "closed"]
    BY <1>2, <2>1, <2>2 DEF CloseClient, CloseClientTransport, ClientStates, Onces
  <2>5. PICK y : y = [z EXCEPT !.life = "closed"]
    OBVIOUS
  <2>6. /\ y \in ClientStates(T) /\ y.life = "closed" /\ y.rest = z.rest /\ y.transport = z.transport
        /\ y.offers = z.offers /\ y.pc = z.pc /\ y.cb = z.cb /\ y.fin = z.fin /\ y.once = z.once
        /\ y.ended = z.ended
    BY <2>3, <2>5 DEF ClientStates
  <2>7. ClientInv(y)
    BY SMT, <2>3, <2>6 DEF ClientOK, ClientInv, Dialling, Upgrading, Untried, Fresh, Owned
  <2>8. Alive(y, h.late) /\ Ended(y, h.zombie)
    BY <2>3, <2>6 DEF Alive, Ended
  <2> QED
    BY <1>2, <2>3, <2>4, <2>5, <2>6, <2>7, <2>8 DEF ClientOK
<1> QED
  BY <1>1, <1>2

\* The end of the socket's own transport closes the socket, that of another one does not.
LEMMA TransportCloseOK ==
  ASSUME NEW T, NEW x \in ClientStates(T), ClientOK(x), NEW t \in x.ended
  PROVE  LET w == [x EXCEPT !.ended = @ \ {t}]
             y == IF x.transport = t THEN CloseClient(w, TRUE) ELSE w
         IN  /\ y \in ClientStates(T) /\ ClientOK(y) /\ y.cb = x.cb
             /\ x.life \in {"open", "closed"} <=> y.life \in {"open", "closed"}
<1> DEFINE w == [x EXCEPT !.ended = @ \ {t}]
<1>0. PICK y : y = IF x.transport = t THEN CloseClient(w, TRUE) ELSE w
  OBVIOUS
<1>1. /\ y \in ClientStates(T) /\ y.rest = x.rest /\ y.transport = x.transport
      /\ y.offers = x.offers /\ y.pc = x.pc /\ y.cb = x.cb /\ y.fin = x.fin /\ y.once = x.once
      /\ y.ended = x.ended \ {t}
      /\ y.life = IF x.transport = t /\ x.life = "open" THEN "closed" ELSE x.life
  BY <1>0 DEF CloseClient, ClientStates
<1>2. t \in Transports /\ x.once[t] # "live"
  BY DEF ClientStates, ClientOK, ClientInv, Owned
<1>3. /\ x.life \in {"open", "closed"} <=> y.life \in {"open", "closed"}
      /\ x.life \in {"dial", "failed"} <=> y.life \in {"dial", "failed"}
      /\ x.life = "dial" <=> y.life = "dial"
  BY <1>1 DEF ClientStates
<1>4. Dialling(y)
  BY <1>1, <1>3 DEF ClientOK, ClientInv, Dialling, Fresh
<1>5. Upgrading(y)
  BY SMT, <1>1, <1>3 DEF ClientOK, ClientInv, Upgrading, Untried, Fresh
<1>6. Owned(y)
  BY SMT, <1>1, <1>3 DEF ClientOK, ClientInv, Owned
<1>7. Alive(y, h.late)
  <2>1. CASE x.transport = t /\ x.life = "open"
    BY <1>1, <2>1 DEF Alive
  <2>2. CASE ~(x.transport = t /\ x.life = "open")
    BY <1>1, <2>2 DEF ClientOK, Alive
  <2> QED
    BY <2>1, <2>2
<1>8. Ended(y, h.zombie)
  <2>1. CASE x.transport = t /\ x.life = "open"
    BY <1>1, <1>2, <2>1 DEF Ended
  <2>2. CASE ~(x.transport = t /\ x.life = "open")
    BY <1>1, <2>2 DEF ClientOK, Ended
  <2> QED
    BY <2>1, <2>2
<1> QED
  BY <1>0, <1>1, <1>3, <1>4, <1>5, <1>6, <1>7, <1>8 DEF ClientOK, ClientInv

\* The client's list of transports.
LEMMA ConfigList ==
  ASSUME NEW x \in Configs
  PROVE  x.list \in Seq(Transports) /\ x.list # <<>>
<1> DEFINE A == <<"polling", "websocket">>
           B == <<"websocket", "webtransport">>
           C == <<"polling", "websocket", "webtransport">>
           Two == {Config(list, ping) : list \in {A, B}, ping \in Heartbeats}
           Three == {Config(C, ping) : ping \in Heartbeats \ {TRUE}}
<1>1. Configs = Two \cup Three
  BY SMT DEF Configs
<1>2. /\ A \in Seq(Transports) /\ B \in Seq(Transports) /\ C \in Seq(Transports)
      /\ A # <<>> /\ B # <<>> /\ C # <<>>
  BY SMT DEF Transports, Streams
<1>3. \A y, p : Config(y, p).list = y
  BY DEF Config
<1> HIDE DEF A, B, C, Two, Three
<1>4. CASE x \in Two
  <2>1. PICK list \in {A, B}, ping \in Heartbeats : x = Config(list, ping)
    BY SMT, <1>4 DEF Two
  <2> QED
    BY <1>2, <1>3, <2>1
<1>5. CASE x \in Three
  <2>1. PICK ping \in Heartbeats \ {TRUE} : x = Config(C, ping)
    BY <1>5 DEF Three
  <2> QED
    BY <1>2, <1>3, <2>1
<1> QED
  BY <1>1, <1>4, <1>5

\* maybeUpgrade tries different streams, and not the one in use.
LEMMA OffersProperties ==
  ASSUME NEW t, NEW rest
  PROVE  LET o == Offers(t, rest)
         IN  /\ o \in Seq(Streams)
             /\ \A i, j \in DOMAIN o : i # j => o[i] # o[j]
             /\ \A i \in DOMAIN o : o[i] # t
<1>1. PICK a : a = Offer("webtransport", t, rest)
  OBVIOUS
<1>2. PICK b : b = Offer("websocket", t, rest)
  OBVIOUS
<1>3. a = <<>> \/ (a = <<"webtransport">> /\ t # "webtransport")
  BY <1>1 DEF Offer, Upgrades
<1>4. b = <<>> \/ (b = <<"websocket">> /\ t # "websocket")
  BY <1>2 DEF Offer, Upgrades
<1>5. /\ a \in Seq(Streams) /\ Len(a) <= 1
      /\ \A i \in 1..Len(a) : i = 1 /\ a[i] = "webtransport" /\ t # "webtransport"
  <2>1. CASE a = <<>>
    BY SMT, <2>1
  <2>2. CASE a = <<"webtransport">> /\ t # "webtransport"
    <3>1. a \in Seq(Streams)
      BY SMT, <2>2 DEF Streams
    <3>2. Len(a) = 1 /\ a[1] = "webtransport"
      BY <2>2
    <3> QED
      BY SMT, <2>2, <3>1, <3>2
  <2> QED
    BY <1>3, <2>1, <2>2
<1>6. /\ b \in Seq(Streams) /\ Len(b) <= 1
      /\ \A i \in 1..Len(b) : i = 1 /\ b[i] = "websocket" /\ t # "websocket"
  <2>1. CASE b = <<>>
    BY SMT, <2>1
  <2>2. CASE b = <<"websocket">> /\ t # "websocket"
    <3>1. b \in Seq(Streams)
      BY SMT, <2>2 DEF Streams
    <3>2. Len(b) = 1 /\ b[1] = "websocket"
      BY <2>2
    <3> QED
      BY SMT, <2>2, <3>1, <3>2
  <2> QED
    BY <1>4, <2>1, <2>2
<1>7. PICK o : o = a \o b
  OBVIOUS
<1>8. /\ o \in Seq(Streams) /\ DOMAIN o = 1..(Len(a) + Len(b))
      /\ \A i \in DOMAIN o : \/ i <= Len(a) /\ i \in 1..Len(a) /\ o[i] = a[i]
                             \/ i > Len(a) /\ i - Len(a) \in 1..Len(b) /\ o[i] = b[i - Len(a)]
  BY SMT, <1>5, <1>6, <1>7
<1>9. \A i \in DOMAIN o : \/ i = 1 /\ i <= Len(a) /\ o[i] = "webtransport" /\ t # "webtransport"
                          \/ i = Len(a) + 1 /\ o[i] = "websocket" /\ t # "websocket"
  BY SMT, <1>5, <1>6, <1>8
<1>10. \A i, j \in DOMAIN o : i # j => o[i] # o[j]
  BY <1>9
<1> QED
  BY SMT, <1>1, <1>2, <1>7, <1>8, <1>9, <1>10 DEF Offers

\* A transport that answers the handshake is the socket's.
LEMMA OpenedOK ==
  ASSUME NEW T, NEW x \in ClientStates(T), ClientOK(x), x.life = "dial", NEW t \in Transports
  PROVE  LET y == Opened(x, t)
         IN  /\ y \in ClientStates(T) /\ ClientOK(y)
             /\ y.life = "open" /\ y.cb[t] = "socket"
             /\ \A u \in Transports : x.cb[u] = "socket" => y.cb[u] = "socket"
<1>1. PICK o : o = Offers(t, Tail(x.rest))
  OBVIOUS
<1>2. /\ o \in Seq(Streams) /\ \A i, j \in DOMAIN o : i # j => o[i] # o[j]
      /\ \A i \in DOMAIN o : o[i] # t
  BY SMT, <1>1, OffersProperties
<1>3. x.rest # <<>> /\ x.ended = {} /\ \A u \in Transports : Fresh(x, u)
  BY DEF ClientOK, ClientInv, Dialling
<1>4. PICK y : y = Opened(x, t)
  OBVIOUS
<1>5. /\ y \in ClientStates(T) /\ y.life = "open" /\ y.transport = t /\ y.offers = o
      /\ y.pc = IF o = <<>> THEN "end" ELSE "idle"
      /\ y.fin = x.fin /\ y.ended = x.ended
      /\ y.once[t] = "live" /\ y.cb[t] = "socket"
      /\ \A u \in Transports : u # t => y.once[u] = x.once[u] /\ y.cb[u] = x.cb[u]
  <2>1. Tail(x.rest) \in Seq(Transports)
    BY SMT, <1>3 DEF ClientStates
  <2>2. y = [x EXCEPT !.life = "open", !.transport = t, !.once[t] = "live", !.cb[t] = "socket",
                      !.rest = Tail(@), !.offers = o, !.pc = IF o = <<>> THEN "end" ELSE "idle"]
    BY <1>1, <1>4 DEF Opened
  <2> QED
    BY <1>2, <2>1, <2>2, ZenonT(30) DEF ClientStates, Onces, Callbacks
<1>6. Dialling(y)
  BY <1>5 DEF Dialling
<1>7. Upgrading(y)
  <2>1. \A i \in DOMAIN o : o[i] \in Transports /\ o[i] # t
    BY SMT, <1>2 DEF Transports
  <2> QED
    BY SMT, <1>2, <1>3, <1>5, <2>1 DEF Upgrading, Untried, Fresh
<1>8. Owned(y)
  BY <1>3, <1>5 DEF Owned, Fresh
<1>9. Alive(y, h.late) /\ Ended(y, h.zombie)
  BY <1>5 DEF Alive, Ended
<1> QED
  BY <1>3, <1>4, <1>5, <1>6, <1>7, <1>8, <1>9 DEF ClientOK, ClientInv, Fresh

\* maybeUpgrade goes on to the next transport.
LEMMA NextOfferOK ==
  ASSUME NEW T, NEW x \in ClientStates(T), ClientOK(x),
         x.life \in {"open", "closed"}, x.pc # "end"
  PROVE  /\ NextOffer(x) \in ClientStates(T) /\ ClientOK(NextOffer(x))
         /\ NextOffer(x).cb = x.cb /\ NextOffer(x).life = x.life
<1>1. PICK o : o = Tail(x.offers)
  OBVIOUS
<1>2. x.offers \in Seq(Streams) /\ x.offers # <<>>
  BY DEF ClientStates, ClientOK, ClientInv, Upgrading
<1>3. /\ o \in Seq(Streams)
      /\ \A i \in DOMAIN o : i + 1 \in DOMAIN x.offers /\ i + 1 > 1 /\ o[i] = x.offers[i + 1]
  BY SMT, <1>1, <1>2
<1>4. PICK y : y = NextOffer(x)
  OBVIOUS
<1>5. /\ y \in ClientStates(T) /\ y.life = x.life /\ y.transport = x.transport /\ y.offers = o
      /\ y.pc = IF o = <<>> THEN "end" ELSE "idle"
      /\ y.cb = x.cb /\ y.once = x.once /\ y.fin = x.fin /\ y.ended = x.ended /\ y.rest = x.rest
  <2>1. y = [x EXCEPT !.offers = o, !.pc = IF o = <<>> THEN "end" ELSE "idle"]
    BY <1>1, <1>4 DEF NextOffer
  <2> QED
    BY <1>3, <2>1 DEF ClientStates
<1>6. Dialling(y)
  BY <1>5 DEF Dialling
<1>7. Upgrading(y)
  <2>1. \A i, j \in DOMAIN o : i # j => o[i] # o[j]
    <3>1. \A i \in DOMAIN o : i \in Nat
      BY SMT, <1>3
    <3>2. \A i, j \in DOMAIN x.offers : i # j => x.offers[i] # x.offers[j]
      BY DEF ClientOK, ClientInv, Upgrading
    <3> QED
      BY SMT, <1>3, <3>1, <3>2
  <2>2. \A i \in DOMAIN o : Fresh(x, o[i])
    <3>1. x.pc \in {"idle", "wait", "fired"}
      BY DEF ClientStates
    <3>2. \A i \in DOMAIN x.offers : i > 1 => Fresh(x, x.offers[i])
      BY <3>1 DEF ClientOK, ClientInv, Upgrading, Untried
    <3> QED
      BY <1>3, <3>2
  <2> QED
    BY SMT, <1>5, <2>1, <2>2 DEF Upgrading, Fresh
<1>8. Owned(y)
  BY SMT, <1>5 DEF ClientOK, ClientInv, Owned
<1>9. Alive(y, h.late) /\ Ended(y, h.zombie)
  BY <1>5 DEF ClientOK, Alive, Ended
<1> QED
  BY <1>4, <1>5, <1>6, <1>7, <1>8, <1>9 DEF ClientOK, ClientInv

-----------------------------------------------------------------------------
(* The same for the server. *)

\* The first end of a server's transport tells the socket, if the transport is the socket's.
LEMMA CloseServerTransportType ==
  ASSUME NEW x \in ServerStates, NEW t \in Transports, NEW y, y = CloseServerTransport(x, t)
  PROVE  /\ y \in ServerStates
         /\ y.life = x.life /\ y.running = x.running /\ y.stored = x.stored
         /\ y.transport = x.transport /\ y.cb = x.cb /\ y.upg = x.upg /\ y.fin = x.fin
         /\ \A u \in Transports : u # t => y.once[u] = x.once[u] /\ (u \in y.ended <=> u \in x.ended)
         /\ x.once[t] # "live" => y = x
         /\ x.once[t] = "live" => y.once[t] = "closed" /\ (t \in y.ended <=> t \in x.ended \/ x.cb[t] = "socket")
<1>1. CASE x.once[t] # "live"
  BY <1>1 DEF CloseServerTransport
<1>2. CASE x.once[t] = "live"
  BY <1>2, ZenonT(30) DEF CloseServerTransport, ServerStates, Onces, Callbacks
<1> QED
  BY <1>1, <1>2

\* A transport that is discarded just ends.
LEMMA DiscardServerTransportType ==
  ASSUME NEW x \in ServerStates, NEW t \in Transports, NEW y, y = DiscardServerTransport(x, t)
  PROVE  /\ y \in ServerStates
         /\ y.life = x.life /\ y.running = x.running /\ y.stored = x.stored
         /\ y.transport = x.transport /\ y.cb = x.cb /\ y.upg = x.upg /\ y.fin = x.fin
         /\ y.ended = x.ended
         /\ \A u \in Transports : u # t => y.once[u] = x.once[u]
<1>1. CASE x.once[t] # "live"
  BY <1>1 DEF DiscardServerTransport
<1>2. CASE x.once[t] = "live"
  BY <1>2 DEF DiscardServerTransport, ServerStates, Onces, Callbacks
<1> QED
  BY <1>1, <1>2

\* The end of a transport keeps the server's invariant once the socket is there.
LEMMA CloseServerTransportOK ==
  ASSUME NEW x \in ServerStates, NEW t \in Transports, ServerOK(x), x.life # "checked"
  PROVE  ServerOK(CloseServerTransport(x, t))
<1>1. PICK y : y = CloseServerTransport(x, t)
  OBVIOUS
<1>2. CASE x.once[t] # "live"
  BY SMT, <1>1, <1>2, CloseServerTransportType
<1>3. CASE x.once[t] = "live"
  <2>1. /\ y.life = x.life /\ y.running = x.running /\ y.stored = x.stored
        /\ y.transport = x.transport /\ y.cb = x.cb /\ y.upg = x.upg /\ y.fin = x.fin
        /\ \A u \in Transports : u # t => y.once[u] = x.once[u] /\ (u \in y.ended <=> u \in x.ended)
        /\ y.once[t] = "closed" /\ (t \in y.ended <=> t \in x.ended \/ x.cb[t] = "socket")
    BY SMT, <1>1, <1>3, CloseServerTransportType
  <2>2. ServerInv(y)
    BY SMT, <1>3, <2>1 DEF ServerOK, ServerInv
  <2>3. Alive(y, h.late)
    BY SMT, <1>3, <2>1 DEF ServerOK, ServerInv, Alive
  <2>4. Stopped(y, h.survivor)
    BY <2>1 DEF ServerOK, Stopped
  <2> QED
    BY <1>1, <2>2, <2>3, <2>4 DEF ServerOK
<1> QED
  BY <1>2, <1>3

\* serverSocket.close.
LEMMA CloseServerOK ==
  ASSUME NEW x \in ServerStates, ServerOK(x), NEW b \in BOOLEAN
  PROVE  LET y == CloseServer(x, b)
         IN  /\ y \in ServerStates /\ ServerOK(y)
             /\ y.transport = x.transport /\ y.fin = x.fin /\ y.running = x.running
             /\ x.life = "open" => y.life = "closed"
             /\ x.life # "open" => y = x
<1>1. CASE x.life # "open"
  BY <1>1 DEF CloseServer
<1>2. CASE x.life = "open"
  <2>1. PICK w : w = [x EXCEPT !.life = "closed", !.stored = FALSE]
    OBVIOUS
  <2>2. /\ w \in ServerStates /\ w.life = "closed" /\ w.stored = FALSE /\ w.running = x.running
        /\ w.transport = x.transport /\ w.cb = x.cb /\ w.upg = x.upg /\ w.fin = x.fin
        /\ w.once = x.once /\ w.ended = x.ended
    BY <2>1 DEF ServerStates
  <2>3. ServerOK(w)
    BY SMT, <1>2, <2>2 DEF ServerOK, ServerInv, Alive, Stopped
  <2>4. x.transport \in Transports
    BY <1>2 DEF ServerOK, ServerInv
  <2>5. CloseServer(x, b) = IF b THEN w ELSE CloseServerTransport(w, x.transport)
    BY <1>2, <2>1 DEF CloseServer
  <2>6. CASE b
    BY <1>2, <2>2, <2>3, <2>5, <2>6
  <2>7. CASE ~b
    <3>1. PICK y : y = CloseServerTransport(w, x.transport)
      OBVIOUS
    <3>2. y \in ServerStates /\ ServerOK(y) /\ y.life = "closed" /\ y.transport = x.transport
          /\ y.fin = x.fin /\ y.running = x.running
      BY SMT, <2>2, <2>3, <2>4, <3>1, CloseServerTransportType, CloseServerTransportOK
    <3> QED
      BY <1>2, <2>5, <2>7, <3>1, <3>2
  <2> QED
    BY <2>6, <2>7
<1> QED
  BY <1>1, <1>2

\* A packet for the server's socket.
LEMMA HandleServerPacketOK ==
  ASSUME NEW x \in ServerStates, ServerOK(x), x.life \in {"open", "closed"}, NEW p
  PROVE  LET y == HandleServerPacket(x, p)
         IN  /\ y \in ServerStates /\ ServerOK(y)
             /\ y.life = x.life /\ y.transport = x.transport /\ y.fin = x.fin
<1>1. CASE p[1] = "pong"
  <2>1. PICK y : y = [x EXCEPT !.pongChan = TRUE]
    OBVIOUS
  <2>2. /\ y \in ServerStates /\ y.life = x.life /\ y.stored = x.stored /\ y.running = x.running
        /\ y.transport = x.transport /\ y.cb = x.cb /\ y.upg = x.upg /\ y.fin = x.fin
        /\ y.once = x.once /\ y.ended = x.ended
    BY <2>1 DEF ServerStates
  <2>3. ServerOK(y)
    BY SMT, <2>2 DEF ServerOK, ServerInv, Alive, Stopped
  <2>4. HandleServerPacket(x, p) = y
    BY <1>1, <2>1 DEF HandleServerPacket
  <2> QED
    BY <2>2, <2>3, <2>4
<1>2. CASE p[1] = "close"
  <2>1. x.transport \in Transports
    BY DEF ServerOK, ServerInv
  <2>2. HandleServerPacket(x, p) = CloseServerTransport(x, x.transport)
    BY <1>2 DEF HandleServerPacket
  <2> QED
    BY SMT, <2>1, <2>2, CloseServerTransportType, CloseServerTransportOK
<1>3. CASE p[1] # "pong" /\ p[1] # "close"
  BY <1>3 DEF HandleServerPacket
<1> QED
  BY <1>1, <1>2, <1>3

-----------------------------------------------------------------------------
(* The steps. *)

\* No race is noted.
SameHistory ==
    /\ h' \in Histories
    /\ h'.late = h.late /\ h'.zombie = h.zombie /\ h'.survivor = h.survivor

\* The calls of Close, the breaks and the timers note none.
LEMMA FaultSame == ASSUME Inv, Fault \/ UNCHANGED h PROVE SameHistory
  BY SMT DEF Inv, Types, Histories, Fault, SameHistory

\* A step that keeps each side's invariant, and what they know of each other.
LEMMA Step ==
  ASSUME Inv, SameHistory, NetType', DataType',
         c' \in ClientStates(c'.todo), ClientOK(c'),
         s' \in ServerStates, ServerOK(s'), Behind(c', s', n'.up), Idle'
  PROVE  Inv'
<1>1. Types'
  BY DEF Types, SameHistory
<1>2. ClientOK(c)'
  BY DEF ClientOK, SameHistory
<1>3. ServerOK(s)'
  BY DEF ServerOK, SameHistory
<1> QED
  BY <1>1, <1>2, <1>3 DEF Inv

\* A step of the client, which loses no transport and opens none.
LEMMA ClientStep ==
  ASSUME Inv, SameHistory, NetType', DataType', UNCHANGED s, n'.up = n.up,
         c' \in ClientStates(c'.todo), ClientOK(c'),
         c'.life \in {"open", "closed"} <=> c.life \in {"open", "closed"},
         c'.life = "dial" <=> c.life = "dial",
         \A u \in Transports : c.cb[u] = "socket" => c'.cb[u] = "socket",
         c.life \in {"dial", "failed"} => c'.todo = c.todo /\ n'.poll = n.poll
  PROVE  Inv'
<1>1. s' \in ServerStates /\ ServerOK(s')
  BY DEF Inv, Types
<1>2. /\ s.life # "none" => s.transport \in Transports
      /\ s.fin \subseteq Streams /\ Streams \subseteq Transports
  BY DEF Inv, Types, ServerOK, ServerInv, ServerStates, Transports
<1>3. s.life = "none" => c'.life \in {"dial", "failed"}
  BY DEF Inv, Behind, Types, ClientStates
<1>4. Behind(c', s', n'.up)
  BY <1>2, <1>3 DEF Inv, Behind
<1>5. Idle'
  BY SMT DEF Inv, Types, ClientStates, Idle
<1> QED
  BY <1>1, <1>4, <1>5, Step

\* A step of the server, whose socket keeps its transport.
LEMMA ServerStep ==
  ASSUME Inv, SameHistory, NetType', DataType', UNCHANGED c, n'.up = n.up,
         s' \in ServerStates, ServerOK(s'),
         s'.transport = s.transport, s'.fin = s.fin,
         s'.life = s.life \/ (s.life = "open" /\ s'.life = "closed"),
         n'.poll = n.poll \/ n.poll # "off"
  PROVE  Inv'
<1>1. c' \in ClientStates(c'.todo) /\ ClientOK(c')
  BY DEF Inv, Types
<1>2. Behind(c', s', n'.up)
  BY DEF Inv, Behind
<1>3. Idle'
  BY DEF Inv, Idle
<1> QED
  BY <1>1, <1>2, <1>3, Step

\* A step of the network or the users.
LEMMA QuietStep ==
  ASSUME Inv, SameHistory, NetType', DataType', UNCHANGED <<c, s>>, n'.up = n.up,
         n'.poll = n.poll \/ n.poll # "off"
  PROVE  Inv'
<1>1. /\ c' \in ClientStates(c'.todo) /\ ClientOK(c') /\ s' \in ServerStates /\ ServerOK(s')
      /\ Behind(c', s', n'.up)
  BY DEF Inv, Types
<1>2. Idle'
  BY DEF Inv, Idle
<1> QED
  BY <1>1, <1>2, Step

\* The network as it was.
LEMMA SameNet == ASSUME Inv, UNCHANGED n PROVE NetType' /\ n'.up = n.up /\ n'.poll = n.poll
  BY DEF Inv, Types, NetType

\* The data as they were.
LEMMA SameData == ASSUME Inv, UNCHANGED d PROVE DataType'
  BY DEF Inv, Types, DataType

\* Only what is under way to the client, or in a post, changes.
LEMMA DownNet ==
  ASSUME Inv, NEW a, n' = [n EXCEPT !.down = a] \/ n' = [n EXCEPT !.pq = a] \/ n' = [n EXCEPT !.posts = a]
  PROVE  NetType' /\ n'.up = n.up /\ n'.poll = n.poll
  BY DEF Inv, Types, NetType

\* A poll goes on.
LEMMA PollNet ==
  ASSUME Inv, NEW a, NEW b, NEW e,
         \/ n' = [n EXCEPT !.poll = b, !.resp = e]
         \/ n' = [n EXCEPT !.pq = a, !.poll = b, !.resp = e]
         \/ n' = [n EXCEPT !.poll = b, !.resp = e, !.pq = a]
         \/ n' = [n EXCEPT !.poll = b]
  PROVE  NetType' /\ n'.up = n.up /\ n'.poll = b
  BY DEF Inv, Types, NetType

\* What a receiver gets.
LEMMA ReceivedData ==
  ASSUME Inv, NEW a, d' = [d EXCEPT !.upRcv = a] \/ d' = [d EXCEPT !.downRcv = a]
  PROVE  DataType'
  BY DEF Inv, Types, DataType

\* A client whose transport is alive has a socket.
LEMMA LiveHasSocket ==
  ASSUME Inv, NEW t \in Transports, c.once[t] = "live" \/ c.fin[t] # "none" \/ t \in c.ended
  PROVE  c.life \in {"open", "closed"}
  BY DEF Inv, Types, ClientStates, ClientOK, ClientInv, Dialling, Fresh

\* One of the client's transports ends.
LEMMA ClosesTransport ==
  ASSUME Inv, SameHistory, NetType', DataType', UNCHANGED s, n'.up = n.up,
         NEW t \in Transports, c' = CloseClientTransport(c, t),
         c.life \in {"dial", "failed"} => n'.poll = n.poll
  PROVE  Inv'
<1>1. c \in ClientStates(c.todo) /\ ClientOK(c)
  BY DEF Inv, Types
<1>2. c' \in ClientStates(c.todo) /\ c'.life = c.life /\ c'.cb = c.cb
  BY SMT, <1>1, CloseClientTransportType
<1>3. c'.todo = c.todo
  BY <1>2 DEF ClientStates
<1>4. ClientOK(c')
  BY <1>1, CloseClientTransportOK
<1> QED
  BY <1>2, <1>3, <1>4, ClientStep

\* The client's socket is closed by Close or by its timer.
LEMMA ClosesClient ==
  ASSUME Inv, SameHistory, UNCHANGED <<s, n, d>>, c' = CloseClient(c, FALSE), c.life = "open"
  PROVE  Inv'
<1>1. c \in ClientStates(c.todo) /\ ClientOK(c)
  BY DEF Inv, Types
<1>2. /\ c' \in ClientStates(c.todo) /\ ClientOK(c') /\ c'.cb = c.cb
      /\ c.life \in {"open", "closed"} <=> c'.life \in {"open", "closed"}
  BY <1>1, CloseClientOK
<1>3. c'.todo = c.todo
  BY <1>2 DEF ClientStates
<1> QED
  BY <1>2, <1>3, ClientStep, SameNet, SameData

\* Only fields of the client that the invariant does not look at change.
LEMMA ClientAside ==
  ASSUME NEW x, NEW y, ClientOK(x),
         y.life = x.life, y.rest = x.rest, y.pc = x.pc, y.transport = x.transport,
         y.offers = x.offers, y.cb = x.cb, y.fin = x.fin, y.once = x.once, y.ended = x.ended
  PROVE  ClientOK(y)
<1>1. Dialling(y)
  BY SMT DEF ClientOK, ClientInv, Dialling, Fresh
<1>2. Upgrading(y)
  BY SMT DEF ClientOK, ClientInv, Upgrading, Untried, Fresh
<1>3. Owned(y)
  BY SMT DEF ClientOK, ClientInv, Owned
<1>4. Alive(y, h.late) /\ Ended(y, h.zombie)
  BY DEF ClientOK, Alive, Ended
<1> QED
  BY <1>1, <1>2, <1>3, <1>4 DEF ClientOK, ClientInv

\* The packets that the reader of a transport has still to handle.
LEMMA TodoOK ==
  ASSUME NEW T, NEW x \in ClientStates(T), ClientOK(x), NEW a
  PROVE  LET y == [x EXCEPT !.todo = a]
         IN  y \in ClientStates(a) /\ ClientOK(y) /\ y.life = x.life /\ y.cb = x.cb
             /\ y.transport = x.transport
<1>1. PICK y : y = [x EXCEPT !.todo = a]
  OBVIOUS
<1>2. /\ y \in ClientStates(a) /\ y.life = x.life /\ y.rest = x.rest /\ y.transport = x.transport
      /\ y.offers = x.offers /\ y.pc = x.pc /\ y.cb = x.cb /\ y.fin = x.fin /\ y.once = x.once
      /\ y.ended = x.ended
  BY <1>1 DEF ClientStates
<1>3. ClientOK(y)
  BY <1>2, ClientAside
<1> QED
  BY <1>1, <1>2, <1>3

-----------------------------------------------------------------------------
\* The client gives up a transport.
LEMMA DialFailsInv == ASSUME Inv, DialFails PROVE Inv'
<1>1. /\ c.life = "dial" /\ s.life = "none" /\ UNCHANGED <<s, n, d, h>>
      /\ c' = [c EXCEPT !.rest = Tail(@), !.life = IF Tail(c.rest) = <<>> THEN "failed" ELSE @]
  BY DEF DialFails
<1>2. c.rest # <<>> /\ c.rest \in Seq(Transports) /\ c \in ClientStates(c.todo)
  BY <1>1 DEF Inv, Types, ClientOK, ClientInv, Dialling, ClientStates
<1>3. Tail(c.rest) \in Seq(Transports)
  BY SMT, <1>2
<1>4. /\ c' \in ClientStates(c.todo) /\ c'.life = IF Tail(c.rest) = <<>> THEN "failed" ELSE "dial"
      /\ c'.rest = Tail(c.rest)
      /\ c'.transport = c.transport /\ c'.offers = c.offers /\ c'.pc = c.pc /\ c'.cb = c.cb
      /\ c'.fin = c.fin /\ c'.once = c.once /\ c'.ended = c.ended /\ c'.todo = c.todo
  BY <1>1, <1>2, <1>3 DEF ClientStates
<1>5. c'.life = "failed" \/ (c'.life = "dial" /\ c'.rest # <<>>)
  BY <1>4
<1>6. ClientOK(c')
  <2>1. Dialling(c')
    BY SMT, <1>1, <1>4, <1>5 DEF Inv, ClientOK, ClientInv, Dialling, Fresh
  <2>2. Upgrading(c')
    BY SMT, <1>4, <1>5 DEF Inv, ClientOK, ClientInv, Upgrading
  <2>3. Owned(c')
    BY SMT, <1>4, <1>5 DEF Inv, ClientOK, ClientInv, Owned
  <2>4. Alive(c', h.late) /\ Ended(c', h.zombie)
    BY <1>5 DEF Alive, Ended
  <2> QED
    BY <2>1, <2>2, <2>3, <2>4 DEF ClientOK, ClientInv
<1>7. s' \in ServerStates /\ ServerOK(s')
  BY <1>1 DEF Inv, Types
<1>8. Behind(c', s', n'.up)
  BY SMT, <1>1, <1>4, <1>5 DEF Inv, Behind
<1>9. Idle'
  BY <1>1, <1>4 DEF Inv, Idle
<1> QED
  BY <1>1, <1>4, <1>6, <1>7, <1>8, <1>9, Step, FaultSame, SameNet, SameData

\* The timer of tryUpgradeTo fires.
LEMMA ProbeTimeoutInv == ASSUME Inv, ProbeTimeout PROVE Inv'
<1>1. c.pc = "wait" /\ c' = [c EXCEPT !.pc = "fired"] /\ UNCHANGED <<s, n, d>> /\ SameHistory
  BY FaultSame DEF ProbeTimeout, Timer
<1>2. /\ c' \in ClientStates(c.todo) /\ c'.life = c.life /\ c'.rest = c.rest /\ c'.pc = "fired"
      /\ c'.transport = c.transport /\ c'.offers = c.offers /\ c'.cb = c.cb
      /\ c'.fin = c.fin /\ c'.once = c.once /\ c'.ended = c.ended /\ c'.todo = c.todo
  BY <1>1 DEF Inv, Types, ClientStates
<1>3. ClientOK(c')
  BY SMT, <1>1, <1>2 DEF Inv, ClientOK, ClientInv, Dialling, Upgrading, Untried, Fresh, Owned, Alive, Ended
<1> QED
  BY <1>1, <1>2, <1>3, ClientStep, SameNet, SameData

\* It closes the transport that was tried, and maybeUpgrade goes on.
LEMMA ProbeCloseInv == ASSUME Inv, ProbeClose PROVE Inv'
<1>1. /\ c.pc = "fired" /\ UNCHANGED <<s, n, d, h>>
      /\ c' = NextOffer(CloseClientTransport(c, Head(c.offers)))
  BY DEF ProbeClose
<1>2. c.life \in {"open", "closed"} /\ c \in ClientStates(c.todo) /\ ClientOK(c)
  BY <1>1 DEF Inv, Types, ClientStates, ClientOK, ClientInv, Dialling
<1>3. Head(c.offers) \in Transports
  <2>1. c.offers \in Seq(Streams) /\ c.offers # <<>>
    BY <1>1, <1>2 DEF ClientStates, ClientOK, ClientInv, Upgrading
  <2> QED
    BY SMT, <2>1 DEF Transports
<1>4. PICK y : y = CloseClientTransport(c, Head(c.offers))
  OBVIOUS
<1>5. y \in ClientStates(c.todo) /\ y.life = c.life /\ y.pc = c.pc /\ y.cb = c.cb /\ ClientOK(y)
  BY SMT, <1>2, <1>3, <1>4, CloseClientTransportType, CloseClientTransportOK
<1>6. c' \in ClientStates(c.todo) /\ ClientOK(c') /\ c'.life = c.life /\ c'.cb = c.cb
  BY <1>1, <1>2, <1>4, <1>5, NextOfferOK
<1>7. c'.todo = c.todo
  BY <1>6 DEF ClientStates
<1> QED
  BY <1>1, <1>6, <1>7, ClientStep, FaultSame, SameNet, SameData

-----------------------------------------------------------------------------
(* The steps of the client's socket that read, and its timer. *)

\* No ping came for too long.
LEMMA handleTimeoutInv == ASSUME Inv, handleTimeout PROVE Inv'
  BY FaultSame, ClosesClient DEF handleTimeout, Timer

\* Close.
LEMMA CloseByClientInv == ASSUME Inv, CloseByClient PROVE Inv'
  BY FaultSame, ClosesClient DEF CloseByClient

\* A stream has ended.
LEMMA ClientReadFailsInv == ASSUME Inv, NEW t \in Streams, ClientReadFails(t) PROVE Inv'
<1>1. c' = CloseClientTransport(c, t) /\ UNCHANGED <<s, n, d, h>> /\ t \in Transports
  BY DEF ClientReadFails, Transports
<1> QED
  BY <1>1, ClosesTransport, FaultSame, SameNet, SameData

\* A packet comes by a stream: for the socket, or for the probe.
LEMMA ClientReceiveInv == ASSUME Inv, NEW t \in Streams, ClientReceive(t) PROVE Inv'
<1> DEFINE p == Head(n.down[t])
<1>1. /\ c.once[t] = "live" /\ UNCHANGED <<s, h>> /\ t \in Transports
      /\ c' = CASE c.cb[t] = "socket"                  -> [c EXCEPT !.todo[t] = Control(<<p>>)]
                [] c.cb[t] = "probe" /\ p[1] = "pong"  -> [c EXCEPT !.fin[t] = "read"]
                [] c.cb[t] = "probe" /\ p[1] # "pong"  -> CloseClientTransport(c, t)
  BY DEF ClientReceive, Transports
<1>11. c.once[t] = "live" /\ t \in Transports
  BY <1>1
<1>2. DataType'
  <2>1. d' = [d EXCEPT !.downRcv = IF c.cb[t] = "socket" THEN @ \o Messages(<<p>>) ELSE @]
    BY DEF ClientReceive
  <2> QED
    BY <2>1 DEF Inv, Types, DataType
<1>3. NetType' /\ n'.up = n.up /\ n'.poll = n.poll
  <2>1. n' = [n EXCEPT !.down[t] = Tail(@)]
    BY DEF ClientReceive
  <2> QED
    BY <2>1 DEF Inv, Types, NetType
<1>4. c.life \in {"open", "closed"} /\ c.cb[t] \in {"probe", "socket"}
  BY <1>1, LiveHasSocket DEF Inv, Types, ClientStates, Callbacks
<1>5. c \in ClientStates(c.todo) /\ ClientOK(c) /\ SameHistory
  BY <1>1, FaultSame DEF Inv, Types
<1> HIDE DEF p
<1>6. CASE c.cb[t] = "socket"
  <2>1. PICK a : a = [c.todo EXCEPT ![t] = Control(<<p>>)]
    OBVIOUS
  <2>2. c' = [c EXCEPT !.todo = a]
    BY <1>1, <1>6, <2>1
  <2>3. c' \in ClientStates(a) /\ ClientOK(c') /\ c'.life = c.life /\ c'.cb = c.cb
    BY <1>5, <2>2, TodoOK
  <2>4. c'.todo = a
    BY <2>3 DEF ClientStates
  <2> QED
    BY <1>1, <1>2, <1>3, <1>4, <1>5, <2>3, <2>4, ClientStep
<1>7. CASE c.cb[t] = "probe" /\ p[1] = "pong"
  <2>1. c' = [c EXCEPT !.fin[t] = "read"]
    BY <1>1, <1>7
  <2>2. /\ c' \in ClientStates(c.todo) /\ c'.life = c.life /\ c'.rest = c.rest /\ c'.pc = c.pc
        /\ c'.transport = c.transport /\ c'.offers = c.offers /\ c'.cb = c.cb
        /\ c'.once = c.once /\ c'.ended = c.ended /\ c'.todo = c.todo
        /\ c'.fin[t] = "read" /\ \A u \in Transports : u # t => c'.fin[u] = c.fin[u]
    BY <1>11, <1>5, <2>1 DEF ClientStates
  <2>3. Dialling(c')
    BY <1>4, <2>2 DEF Dialling
  <2>4. Upgrading(c')
    <3>1. \A i \in DOMAIN c.offers : c.offers[i] \in Transports
      BY SMT, <1>5 DEF ClientStates, Transports
    <3> QED
      BY SMT, <1>11, <1>5, <2>2, <3>1 DEF ClientOK, ClientInv, Upgrading, Untried, Fresh
  <2>5. Owned(c')
    BY SMT, <1>5, <1>7, <2>2 DEF ClientOK, ClientInv, Owned
  <2>6. Alive(c', h.late) /\ Ended(c', h.zombie)
    BY <1>5, <2>2 DEF ClientOK, Alive, Ended
  <2>7. ClientOK(c')
    BY <2>3, <2>4, <2>5, <2>6 DEF ClientOK, ClientInv
  <2> QED
    BY <1>1, <1>2, <1>3, <1>4, <1>5, <2>2, <2>7, ClientStep
<1>8. CASE c.cb[t] = "probe" /\ p[1] # "pong"
  <2>1. c' = CloseClientTransport(c, t)
    BY <1>1, <1>8
  <2> QED
    BY <1>1, <1>2, <1>3, <1>4, <1>5, <2>1, ClosesTransport
<1> QED
  BY <1>4, <1>6, <1>7, <1>8

\* The socket hears of the end of a transport.
LEMMA onClientTransportCloseInv ==
  ASSUME Inv, NEW t \in Transports, onClientTransportClose(t) PROVE Inv'
<1>1. /\ t \in c.ended /\ UNCHANGED <<s, n, d, h>>
      /\ c' = IF c.transport = t THEN CloseClient([c EXCEPT !.ended = @ \ {t}], TRUE)
                                 ELSE [c EXCEPT !.ended = @ \ {t}]
  BY DEF onClientTransportClose
<1>2. c \in ClientStates(c.todo) /\ ClientOK(c) /\ SameHistory /\ c.life \in {"open", "closed"}
  BY <1>1, FaultSame, LiveHasSocket DEF Inv, Types
<1>3. /\ c' \in ClientStates(c.todo) /\ ClientOK(c') /\ c'.cb = c.cb
      /\ c.life \in {"open", "closed"} <=> c'.life \in {"open", "closed"}
  <2>1. t \in c.ended
    BY <1>1
  <2>2. LET w == [c EXCEPT !.ended = @ \ {t}]
            y == IF c.transport = t THEN CloseClient(w, TRUE) ELSE w
        IN  /\ y \in ClientStates(c.todo) /\ ClientOK(y) /\ y.cb = c.cb
            /\ c.life \in {"open", "closed"} <=> y.life \in {"open", "closed"}
    BY <1>2, <2>1, TransportCloseOK
  <2> QED
    BY <1>1, <2>2
<1>4. c'.todo = c.todo
  BY <1>3 DEF ClientStates
<1> QED
  BY <1>1, <1>2, <1>3, <1>4, ClientStep, SameNet, SameData

-----------------------------------------------------------------------------
(* What is sent. *)

\* A step of a client that has a socket and may send a packet by a stream.
LEMMA SendStep ==
  ASSUME Inv, SameHistory, NetType', DataType', UNCHANGED s,
         c' \in ClientStates(c'.todo), ClientOK(c'), c.life \in {"open", "closed"},
         c'.life \in {"open", "closed"}, c'.cb = c.cb,
         \A t \in Streams : \A i \in DOMAIN n'.up[t] : n'.up[t][i][1] = "upgrade" => c.cb[t] = "socket"
  PROVE  Inv'
<1>1. s' \in ServerStates /\ ServerOK(s')
  BY DEF Inv, Types
<1>2. Behind(c', s', n'.up)
  BY DEF Inv, Behind
<1>3. Idle'
  BY DEF Idle
<1> QED
  BY <1>1, <1>2, <1>3, Step

\* Append adds one packet.
LEMMA AppendElements ==
  ASSUME NEW S, NEW q \in Seq(S), NEW p \in S
  PROVE  /\ Append(q, p) \in Seq(S)
         /\ \A i \in DOMAIN Append(q, p) : Append(q, p)[i] = p \/ (i \in DOMAIN q /\ Append(q, p)[i] = q[i])
  BY SMT

\* Only what is under way to the server changes.
LEMMA UpNet ==
  ASSUME Inv, NEW a \in [Streams -> Seq(UpPackets)], n' = [n EXCEPT !.up = a]
  PROVE  NetType' /\ n'.up = a /\ n'.poll = n.poll
  BY DEF Inv, Types, NetType

\* A packet of the client goes by a post or by the socket's stream.
LEMMA ClientSendNet ==
  ASSUME Inv, NEW p \in UpPackets, p[1] # "upgrade", NEW who, n' = ClientSend(n, p, who),
         c.life \in {"open", "closed"}
  PROVE  /\ NetType' /\ n'.poll = n.poll
         /\ \A t \in Streams : \A i \in DOMAIN n'.up[t] :
              n'.up[t][i][1] = "upgrade" => c.cb[t] = "socket"
<1>1. /\ NetType
      /\ \A t \in Streams : \A i \in DOMAIN n.up[t] : n.up[t][i][1] = "upgrade" => c.cb[t] = "socket"
  BY DEF Inv, Types, Behind
<1>2. c.transport \in Transports
  BY DEF Inv, ClientOK, ClientInv, Owned
<1>3. CASE c.transport = "polling"
  BY <1>1, <1>3 DEF ClientSend, NetType
<1>4. CASE c.transport # "polling" /\ n' = n
  BY <1>1, <1>4 DEF NetType
<1>5. CASE c.transport # "polling" /\ n' # n
  <2>1. PICK u \in Streams : u = c.transport
    BY <1>2, <1>5 DEF Transports
  <2>2. n' = [n EXCEPT !.up[u] = Append(@, p)]
    BY <1>5, <2>1 DEF ClientSend
  <2>3. n.up[u] \in Seq(UpPackets)
    BY <1>1 DEF NetType
  <2>4. PICK q : q = Append(n.up[u], p)
    OBVIOUS
  <2>5. /\ q \in Seq(UpPackets)
        /\ \A i \in DOMAIN q : q[i] = p \/ (i \in DOMAIN n.up[u] /\ q[i] = n.up[u][i])
    BY SMT, <2>3, <2>4, AppendElements
  <2>6. PICK a : a = [n.up EXCEPT ![u] = q]
    OBVIOUS
  <2>7. /\ a \in [Streams -> Seq(UpPackets)] /\ a[u] = q
        /\ \A t \in Streams : t # u => a[t] = n.up[t]
    BY <1>1, <2>5, <2>6 DEF NetType
  <2>8. n' = [n EXCEPT !.up = a]
    BY <2>2, <2>4, <2>6
  <2>9. NetType' /\ n'.poll = n.poll /\ n'.up = a
    BY <2>7, <2>8, UpNet
  <2> QED
    BY SMT, <1>1, <2>5, <2>7, <2>9
<1> QED
  BY <1>3, <1>4, <1>5

\* The reader of a transport handles a packet: it answers a ping, or closes.
LEMMA handlePacketInv == ASSUME Inv, NEW t \in Transports, handlePacket(t) PROVE Inv'
<1>1. c.todo[t] # <<>> /\ UNCHANGED <<s, d, h>>
  BY DEF handlePacket
<1>2. PICK a : a = [c.todo EXCEPT ![t] = Tail(@)]
  OBVIOUS
<1>3. PICK done : done = [c EXCEPT !.todo = a]
  OBVIOUS
<1>4. done = [c EXCEPT !.todo[t] = Tail(@)]
  BY <1>2, <1>3
<1>5. \/ c' = done /\ n' = ClientSend(n, Packet("pong"), "reader")
      \/ c' = CloseClientTransport(done, c.transport) /\ UNCHANGED n
  BY <1>4 DEF handlePacket
<1>6. c.life \in {"open", "closed"} /\ c \in ClientStates(c.todo) /\ ClientOK(c) /\ SameHistory
  BY <1>1, FaultSame DEF Inv, Types, Idle, ClientStates
<1>7. /\ done \in ClientStates(a) /\ ClientOK(done) /\ done.life = c.life /\ done.cb = c.cb
      /\ done.transport = c.transport
  BY <1>3, <1>6, TodoOK
<1>8. done.todo = a
  BY <1>7 DEF ClientStates
<1>9. DataType'
  BY <1>1, SameData
<1>10. CASE c' = done /\ n' = ClientSend(n, Packet("pong"), "reader")
  <2>1. Packet("pong") \in UpPackets /\ Packet("pong")[1] # "upgrade"
    BY DEF UpPackets, Packet
  <2>2. /\ NetType'
        /\ \A u \in Streams : \A i \in DOMAIN n'.up[u] :
             n'.up[u][i][1] = "upgrade" => c.cb[u] = "socket"
    BY <1>6, <1>10, <2>1, ClientSendNet
  <2> QED
    BY <1>1, <1>6, <1>7, <1>8, <1>9, <1>10, <2>2, SendStep
<1>11. CASE c' = CloseClientTransport(done, c.transport) /\ UNCHANGED n
  <2>1. c.transport \in Transports
    BY <1>6 DEF ClientOK, ClientInv, Owned
  <2>2. c' \in ClientStates(a) /\ c'.life = c.life /\ c'.cb = c.cb /\ ClientOK(c')
    BY SMT, <1>7, <1>11, <2>1, CloseClientTransportType, CloseClientTransportOK
  <2>3. c'.todo = a
    BY <2>2 DEF ClientStates
  <2> QED
    BY <1>1, <1>6, <1>9, <1>11, <2>2, <2>3, ClientStep, SameNet
<1> QED
  BY <1>5, <1>10, <1>11

\* The client's user sends a message.
LEMMA ClientSendsInv == ASSUME Inv, ClientSends PROVE Inv'
<1>1. /\ c.life = "open" /\ UNCHANGED <<c, s, h>> /\ d' = [d EXCEPT !.up = @ + 1]
      /\ n' = ClientSend(n, Message(d.up + 1), "queue")
  BY DEF ClientSends
<1>2. d.up \in Nat /\ DataType'
  BY SMT, <1>1 DEF Inv, Types, DataType
<1>3. PICK p : p = Message(d.up + 1)
  OBVIOUS
<1>4. p \in UpPackets /\ p[1] # "upgrade"
  BY SMT, <1>2, <1>3 DEF UpPackets, Message
<1>5. /\ NetType'
      /\ \A u \in Streams : \A i \in DOMAIN n'.up[u] :
           n'.up[u][i][1] = "upgrade" => c.cb[u] = "socket"
  BY <1>1, <1>3, <1>4, ClientSendNet
<1>6. c' \in ClientStates(c'.todo) /\ ClientOK(c') /\ SameHistory
  BY <1>1, FaultSame DEF Inv, Types
<1> QED
  BY <1>1, <1>2, <1>5, <1>6, SendStep

-----------------------------------------------------------------------------
(* The polling transport. *)

\* A poll takes what is queued, or fails.
LEMMA PollInv == ASSUME Inv, Poll PROVE Inv'
<1>1. c.once["polling"] = "live" /\ UNCHANGED <<s, d, h>> /\ "polling" \in Transports
  BY DEF Poll, Transports
<1>2. /\ c.life \in {"open", "closed"} /\ SameHistory /\ DataType'
      /\ c \in ClientStates(c.todo) /\ ClientOK(c)
  BY <1>1, LiveHasSocket, FaultSame, SameData DEF Inv, Types
<1>3. CASE Served
  <2>1. UNCHANGED c /\ n' = [n EXCEPT !.poll = IF n.pq = <<>> THEN "got" ELSE "resp",
                                       !.resp = n.pq, !.pq = <<>>]
    BY <1>3 DEF Poll
  <2>2. NetType' /\ n'.up = n.up
    BY <2>1, PollNet
  <2> QED
    BY <1>1, <1>2, <2>1, <2>2, ClientStep
<1>4. CASE ~Served
  <2>1. UNCHANGED n /\ c' = CloseClientTransport(c, "polling")
    BY <1>4 DEF Poll
  <2> QED
    BY <1>1, <1>2, <2>1, ClosesTransport, SameNet
<1> QED
  BY <1>3, <1>4

\* A poll waits, or is answered for want of packets.
LEMMA PollWaitsInv == ASSUME Inv, PollWaits \/ PollTimeout PROVE Inv'
<1>1. n.poll # "off" /\ UNCHANGED <<c, s, d, h>>
  BY DEF PollWaits, PollTimeout
<1>2. NetType' /\ n'.up = n.up
  BY PollNet DEF PollWaits, PollTimeout
<1> QED
  BY <1>1, <1>2, QuietStep, FaultSame, SameData

\* The answer of a poll arrives.
LEMMA PollAnsweredInv == ASSUME Inv, PollAnswered PROVE Inv'
<1>1. /\ n.poll = "resp" /\ UNCHANGED <<s, h>> /\ "polling" \in Transports
      /\ n' = [n EXCEPT !.poll = "off", !.resp = <<>>]
  BY DEF PollAnswered, Transports
<1>2. /\ c.life \in {"open", "closed"} /\ SameHistory /\ c \in ClientStates(c.todo) /\ ClientOK(c)
  BY <1>1, FaultSame DEF Inv, Types, Idle, ClientStates
<1>3. NetType' /\ n'.up = n.up
  BY <1>1, PollNet
<1>4. DataType'
  <2>1. d' = [d EXCEPT !.downRcv = @ \o Messages(n.resp)]
    BY DEF PollAnswered
  <2> QED
    BY <2>1 DEF Inv, Types, DataType
<1>5. CASE n.resp = <<>>
  <2>1. c' = CloseClientTransport(c, "polling")
    BY <1>5 DEF PollAnswered
  <2> QED
    BY <1>1, <1>2, <1>3, <1>4, <2>1, ClosesTransport
<1>6. CASE n.resp # <<>>
  <2>1. PICK a : a = [c.todo EXCEPT !["polling"] = Control(n.resp)]
    OBVIOUS
  <2>2. c' = [c EXCEPT !.todo = a]
    BY <1>6, <2>1 DEF PollAnswered
  <2>3. c' \in ClientStates(a) /\ ClientOK(c') /\ c'.life = c.life /\ c'.cb = c.cb
    BY <1>2, <2>2, TodoOK
  <2>4. c'.todo = a
    BY <2>3 DEF ClientStates
  <2> QED
    BY <1>1, <1>2, <1>3, <1>4, <2>3, <2>4, ClientStep
<1> QED
  BY <1>5, <1>6

\* A poll fails.
LEMMA PollFailsInv == ASSUME Inv, PollFails PROVE Inv'
<1>1. /\ n.poll # "off" /\ UNCHANGED <<s, d, h>> /\ "polling" \in Transports
      /\ n' = [n EXCEPT !.poll = "off", !.resp = <<>>] /\ c' = CloseClientTransport(c, "polling")
  BY DEF PollFails, Transports
<1>2. c.life \in {"open", "closed"}
  BY <1>1 DEF Inv, Types, Idle, ClientStates
<1>3. NetType' /\ n'.up = n.up
  BY <1>1, PollNet
<1> QED
  BY <1>1, <1>2, <1>3, ClosesTransport, FaultSame, SameData

\* A post fails.
LEMMA PostFailsInv == ASSUME Inv, NEW w, PostFails(w) PROVE Inv'
<1>1. /\ UNCHANGED <<s, d, h>> /\ "polling" \in Transports
      /\ n' = [n EXCEPT !.posts[w] = None] /\ c' = CloseClientTransport(c, "polling")
  BY DEF PostFails, Transports
<1>2. n' = [n EXCEPT !.posts = [n.posts EXCEPT ![w] = None]]
  BY <1>1
<1>3. NetType' /\ n'.up = n.up /\ n'.poll = n.poll
  BY <1>2, DownNet
<1> QED
  BY <1>1, <1>3, ClosesTransport, FaultSame, SameData

\* A post is handled.
LEMMA PostHandledInv == ASSUME Inv, NEW w, PostHandled(w) PROVE Inv'
<1>1. /\ s.stored /\ UNCHANGED <<c, h>> /\ n' = [n EXCEPT !.posts[w] = None]
      /\ s' = HandleServerPacket(s, n.posts[w])
      /\ d' = [d EXCEPT !.upRcv = @ \o Messages(<<n.posts[w]>>)]
  BY DEF PostHandled, Served
<1>2. n' = [n EXCEPT !.posts = [n.posts EXCEPT ![w] = None]]
  BY <1>1
<1>3. NetType' /\ n'.up = n.up /\ n'.poll = n.poll
  BY <1>2, DownNet
<1>4. DataType'
  BY <1>1 DEF Inv, Types, DataType
<1>5. s.life = "open" /\ s \in ServerStates /\ ServerOK(s)
  BY <1>1 DEF Inv, Types, ServerOK, ServerInv
<1>6. PICK p : p = n.posts[w]
  OBVIOUS
<1>7. /\ s' \in ServerStates /\ ServerOK(s') /\ s'.life = s.life /\ s'.transport = s.transport
      /\ s'.fin = s.fin
  BY <1>1, <1>5, <1>6, HandleServerPacketOK
<1> QED
  BY <1>1, <1>3, <1>4, <1>7, ServerStep, FaultSame

\* The client's goodbye is handled.
LEMMA CloseHandledInv == ASSUME Inv, CloseHandled PROVE Inv'
<1>1. /\ c' = [c EXCEPT !.sendClose = FALSE] /\ UNCHANGED <<n, d, h>>
      /\ s' = IF Served THEN HandleServerPacket(s, Packet("close")) ELSE s
  BY DEF CloseHandled
<1>2. /\ c' \in ClientStates(c.todo) /\ c'.life = c.life /\ c'.rest = c.rest /\ c'.pc = c.pc
      /\ c'.transport = c.transport /\ c'.offers = c.offers /\ c'.cb = c.cb /\ c'.fin = c.fin
      /\ c'.once = c.once /\ c'.ended = c.ended /\ c'.todo = c.todo
  <2>1. c' = [c EXCEPT !.sendClose = FALSE]
    BY <1>1
  <2> QED
    BY <2>1 DEF Inv, Types, ClientStates
<1>3. ClientOK(c')
  BY <1>2, ClientAside DEF Inv
<1>4. /\ s' \in ServerStates /\ ServerOK(s') /\ s'.life = s.life /\ s'.transport = s.transport
      /\ s'.fin = s.fin
  <2>1. CASE Served
    <3>1. s.life = "open" /\ s \in ServerStates /\ ServerOK(s)
      BY <2>1 DEF Inv, Types, ServerOK, ServerInv, Served
    <3> QED
      BY <1>1, <2>1, <3>1, HandleServerPacketOK
  <2>2. CASE ~Served
    BY <1>1, <2>2 DEF Inv, Types
  <2> QED
    BY <2>1, <2>2
<1>5. Behind(c', s', n'.up)
  BY SMT, <1>1, <1>2, <1>4 DEF Inv, Behind
<1>6. Idle'
  BY <1>1, <1>2 DEF Inv, Idle
<1> QED
  BY <1>1, <1>2, <1>3, <1>4, <1>5, <1>6, Step, FaultSame, SameNet, SameData


-----------------------------------------------------------------------------
(* The server's packets, its reader and its heartbeat. *)

\* What is added to the poll queue may answer a poll.
LEMMA AddNet ==
  ASSUME Inv, NEW ps, n' = add(n, ps)
  PROVE  NetType' /\ n'.up = n.up /\ (n'.poll = n.poll \/ n.poll # "off")
<1>1. CASE n.poll = "wait"
  <2>1. PICK a, e : a = <<>> /\ e = n.pq \o ps
    OBVIOUS
  <2>2. n' = [n EXCEPT !.pq = a, !.poll = "resp", !.resp = e]
    BY <1>1, <2>1 DEF add
  <2>3. NetType' /\ n'.up = n.up
    BY <2>2 DEF Inv, Types, NetType
  <2> QED
    BY <1>1, <2>3
<1>2. CASE n.poll # "wait"
  <2>1. n' = [n EXCEPT !.pq = n.pq \o ps]
    BY <1>2 DEF add
  <2> QED
    BY <2>1, DownNet
<1> QED
  BY <1>1, <1>2

\* What is written to a stream does not disturb the others.
LEMMA WriteNet ==
  ASSUME Inv, NEW t, NEW ps, n' = Write(n, t, ps)
  PROVE  NetType' /\ n'.up = n.up /\ n'.poll = n.poll
<1>1. CASE s.once[t] = "live" /\ ~n.broken
  <2>1. n' = [n EXCEPT !.down = [n.down EXCEPT ![t] = @ \o ps]]
    BY <1>1 DEF Write
  <2> QED
    BY <2>1, DownNet
<1>2. CASE ~(s.once[t] = "live" /\ ~n.broken)
  BY <1>2, SameNet DEF Write
<1> QED
  BY <1>1, <1>2

\* The server sends by the socket's transport.
LEMMA ServerSendNet ==
  ASSUME Inv, NEW ps, n' = ServerSend(n, ps)
  PROVE  NetType' /\ n'.up = n.up /\ (n'.poll = n.poll \/ n.poll # "off")
  BY AddNet, WriteNet DEF ServerSend

\* Only fields of the server that the invariant does not look at change.
LEMMA ServerAside ==
  ASSUME Inv, s' \in ServerStates, s'.life = s.life, s'.running = s.running, s'.stored = s.stored,
         s'.transport = s.transport, s'.cb = s.cb, s'.upg = s.upg, s'.fin = s.fin,
         s'.once = s.once, s'.ended = s.ended
  PROVE  ServerOK(s')
  BY SMT DEF Inv, ServerOK, ServerInv, Alive, Stopped

\* The goroutines that send a NOOP or CLOSE packet.
LEMMA GoSendInv == ASSUME Inv, NEW g, GoSend(g) PROVE Inv'
<1>1. /\ s' = [s EXCEPT !.go = @ \ {g}] /\ UNCHANGED <<c, d, h>>
      /\ n' = IF g = "cycle" THEN ServerSend(n, <<Packet("noop")>>) ELSE add(n, <<Packet(g)>>)
  BY DEF GoSend
<1>2. NetType' /\ n'.up = n.up /\ (n'.poll = n.poll \/ n.poll # "off")
  BY <1>1, AddNet, ServerSendNet
<1>3. /\ s' \in ServerStates /\ s'.life = s.life /\ s'.running = s.running /\ s'.stored = s.stored
      /\ s'.transport = s.transport /\ s'.cb = s.cb /\ s'.upg = s.upg /\ s'.fin = s.fin
      /\ s'.once = s.once /\ s'.ended = s.ended
  <2>1. s' = [s EXCEPT !.go = @ \ {g}]
    BY <1>1
  <2> QED
    BY <2>1 DEF Inv, Types, ServerStates
<1> QED
  BY <1>1, <1>2, <1>3, ServerAside, ServerStep, FaultSame, SameData

\* A ping is sent.
LEMMA pingPongInv == ASSUME Inv, pingPong PROVE Inv'
<1>1. /\ s' = [s EXCEPT !.ping = "wait"] /\ UNCHANGED <<c, d, h>>
      /\ n' = ServerSend(n, <<Packet("ping")>>)
  BY DEF pingPong
<1>2. NetType' /\ n'.up = n.up /\ (n'.poll = n.poll \/ n.poll # "off")
  BY <1>1, ServerSendNet
<1>3. /\ s' \in ServerStates /\ s'.life = s.life /\ s'.running = s.running /\ s'.stored = s.stored
      /\ s'.transport = s.transport /\ s'.cb = s.cb /\ s'.upg = s.upg /\ s'.fin = s.fin
      /\ s'.once = s.once /\ s'.ended = s.ended
  BY SMT, <1>1 DEF Inv, Types, ServerStates
<1> QED
  BY <1>1, <1>2, <1>3, ServerAside, ServerStep, FaultSame, SameData

\* A pong has come.
LEMMA PongReceivedInv == ASSUME Inv, PongReceived PROVE Inv'
<1>1. s' = [s EXCEPT !.ping = "sleep", !.pongChan = FALSE] /\ UNCHANGED <<c, n, d, h>>
  BY DEF PongReceived
<1>2. /\ s' \in ServerStates /\ s'.life = s.life /\ s'.running = s.running /\ s'.stored = s.stored
      /\ s'.transport = s.transport /\ s'.cb = s.cb /\ s'.upg = s.upg /\ s'.fin = s.fin
      /\ s'.once = s.once /\ s'.ended = s.ended
  BY <1>1 DEF Inv, Types, ServerStates
<1> QED
  BY <1>1, <1>2, ServerAside, ServerStep, FaultSame, SameNet, SameData

\* The server's socket is closed by Close or by its timer.
LEMMA ClosesServerInv == ASSUME Inv, PingTimeout \/ CloseByServer PROVE Inv'
<1>1. s' = CloseServer(s, FALSE) /\ UNCHANGED <<c, n, d>> /\ SameHistory
  BY FaultSame DEF PingTimeout, CloseByServer, Timer
<1>2. s \in ServerStates /\ ServerOK(s)
  BY DEF Inv, Types
<1>3. /\ s' \in ServerStates /\ ServerOK(s')
      /\ s'.transport = s.transport /\ s'.fin = s.fin
      /\ s.life = "open" => s'.life = "closed"
      /\ s.life # "open" => s' = s
  BY <1>1, <1>2, CloseServerOK
<1> QED
  BY <1>1, <1>3, ServerStep, SameNet, SameData

\* Server.Close closes every socket that is stored.
LEMMA ServerCloseInv == ASSUME Inv, ServerClose PROVE Inv'
<1>1. PICK x : x = [s EXCEPT !.running = FALSE]
  OBVIOUS
<1>2. s' = (IF s.stored THEN CloseServer(x, FALSE) ELSE x) /\ UNCHANGED <<c, n, d>> /\ SameHistory
  BY <1>1, FaultSame DEF ServerClose
<1>3. /\ x \in ServerStates /\ x.life = s.life /\ x.running = FALSE /\ x.stored = s.stored
      /\ x.transport = s.transport /\ x.cb = s.cb /\ x.upg = s.upg /\ x.fin = s.fin
      /\ x.once = s.once /\ x.ended = s.ended
  BY <1>1 DEF Inv, Types, ServerStates
<1>4. ServerInv(x) /\ Alive(x, h.late) /\ (s.stored <=> s.life = "open")
  BY SMT, <1>3 DEF Inv, ServerOK, ServerInv, Alive
<1>5. CASE ~s.stored
  <2>1. s' = x /\ ServerOK(x)
    BY <1>2, <1>3, <1>4, <1>5 DEF ServerOK, Stopped
  <2> QED
    BY <1>2, <1>3, <2>1, ServerStep, SameNet, SameData
<1>6. CASE s.stored
  <2>1. PICK w : w = [x EXCEPT !.life = "closed", !.stored = FALSE]
    OBVIOUS
  <2>2. s' = CloseServerTransport(w, s.transport)
    BY <1>2, <1>3, <1>4, <1>6, <2>1 DEF CloseServer
  <2>3. /\ w \in ServerStates /\ w.life = "closed" /\ w.stored = FALSE
        /\ w.transport = s.transport /\ w.cb = s.cb /\ w.upg = s.upg /\ w.fin = s.fin
        /\ w.once = s.once /\ w.ended = s.ended
    BY <1>3, <2>1 DEF ServerStates
  <2>4. ServerOK(w)
    BY SMT, <1>3, <1>4, <1>6, <2>3 DEF ServerOK, ServerInv, Alive, Stopped
  <2>5. s.transport \in Transports /\ s.life = "open"
    BY <1>3, <1>4, <1>6 DEF ServerInv
  <2>6. s' \in ServerStates /\ ServerOK(s') /\ s'.life = "closed" /\ s'.transport = s.transport
        /\ s'.fin = s.fin
    BY SMT, <2>2, <2>3, <2>4, <2>5, CloseServerTransportType, CloseServerTransportOK
  <2> QED
    BY <1>2, <2>5, <2>6, ServerStep, SameNet, SameData
<1> QED
  BY <1>5, <1>6

\* The server's user sends a message.
LEMMA ServerSendsInv == ASSUME Inv, ServerSends PROVE Inv'
<1>1. /\ UNCHANGED <<c, s, h>> /\ d' = [d EXCEPT !.down = @ + 1]
      /\ n' = ServerSend(n, <<Message(d.down + 1)>>)
  BY DEF ServerSends
<1>2. DataType'
  BY <1>1 DEF Inv, Types, DataType
<1>3. NetType' /\ n'.up = n.up /\ (n'.poll = n.poll \/ n.poll # "off")
  BY <1>1, ServerSendNet
<1> QED
  BY <1>1, <1>2, <1>3, QuietStep, FaultSame

\* The network breaks.
LEMMA BreakInv == ASSUME Inv, Break PROVE Inv'
<1>1. PICK a : a = [t \in Streams |-> <<>>]
  OBVIOUS
<1>2. n' = [n EXCEPT !.broken = TRUE, !.up = a, !.down = a] /\ UNCHANGED <<c, s, d>> /\ SameHistory
  BY <1>1, FaultSame DEF Break
<1>3. a \in [Streams -> Seq(UpPackets)] /\ \A t \in Streams : DOMAIN a[t] = {}
  BY SMT, <1>1
<1>4. NetType' /\ n'.up = a /\ n'.poll = n.poll
  BY <1>2, <1>3 DEF Inv, Types, NetType
<1>5. /\ c' \in ClientStates(c'.todo) /\ ClientOK(c') /\ s' \in ServerStates /\ ServerOK(s')
  BY <1>2 DEF Inv, Types
<1>6. Behind(c', s', n'.up)
  BY <1>2, <1>3, <1>4 DEF Inv, Behind
<1>7. Idle'
  BY <1>2, <1>4 DEF Inv, Idle
<1> QED
  BY <1>2, <1>4, <1>5, <1>6, <1>7, Step, SameData

\* The socket hears of the end of a transport.
LEMMA onServerTransportCloseInv ==
  ASSUME Inv, NEW t \in Transports, onServerTransportClose(t) PROVE Inv'
<1>1. PICK x : x = [s EXCEPT !.ended = @ \ {t}]
  OBVIOUS
<1>2. /\ t \in s.ended /\ UNCHANGED <<c, n, d, h>>
      /\ s' = IF s.transport = t THEN CloseServer(x, TRUE) ELSE x
  BY <1>1 DEF onServerTransportClose
<1>3. /\ x \in ServerStates /\ x.life = s.life /\ x.running = s.running /\ x.stored = s.stored
      /\ x.transport = s.transport /\ x.cb = s.cb /\ x.upg = s.upg /\ x.fin = s.fin
      /\ x.once = s.once /\ x.ended = s.ended \ {t}
  BY <1>1 DEF Inv, Types, ServerStates
<1>4. ServerInv(x) /\ Stopped(x, h.survivor) /\ (s.stored <=> s.life = "open")
  BY SMT, <1>3 DEF Inv, ServerOK, ServerInv, Stopped
<1>5. CASE s.transport # t \/ s.life # "open"
  <2>1. s' = x
    BY <1>2, <1>3, <1>5 DEF CloseServer
  <2>2. Alive(x, h.late)
    BY <1>3, <1>5 DEF Inv, ServerOK, Alive
  <2>3. ServerOK(x)
    BY <1>4, <2>2 DEF ServerOK
  <2> QED
    BY <1>2, <1>3, <2>1, <2>3, ServerStep, FaultSame, SameNet, SameData
<1>6. CASE s.transport = t /\ s.life = "open"
  <2>1. s' = [x EXCEPT !.life = "closed", !.stored = FALSE]
    BY <1>2, <1>3, <1>6 DEF CloseServer
  <2>2. /\ s' \in ServerStates /\ s'.life = "closed" /\ s'.stored = FALSE /\ s'.running = x.running
        /\ s'.transport = x.transport /\ s'.cb = x.cb /\ s'.upg = x.upg /\ s'.fin = x.fin
        /\ s'.once = x.once /\ s'.ended = x.ended
    BY <1>3, <2>1 DEF ServerStates
  <2>3. ServerOK(s')
    BY SMT, <1>3, <1>4, <1>6, <2>2 DEF ServerOK, ServerInv, Alive, Stopped
  <2> QED
    BY <1>2, <1>3, <1>6, <2>2, <2>3, ServerStep, FaultSame, SameNet, SameData
<1> QED
  BY <1>5, <1>6

\* A stream of the server has a socket.
LEMMA LiveHasServer ==
  ASSUME Inv, NEW t \in Transports, s.once[t] = "live" \/ s.upg[t] # "none" \/ t \in s.fin
  PROVE  s.life # "none"
  BY DEF Inv, ServerOK, ServerInv

\* A stream has ended.
LEMMA ServerReadFailsInv == ASSUME Inv, NEW t \in Streams, ServerReadFails(t) PROVE Inv'
<1>1. s.life # "checked" /\ s' = CloseServerTransport(s, t) /\ UNCHANGED <<c, n, d, h>> /\ t \in Transports
  BY DEF ServerReadFails, Transports
<1>2. s \in ServerStates /\ ServerOK(s)
  BY DEF Inv, Types
<1>3. /\ s' \in ServerStates /\ ServerOK(s')
      /\ s'.transport = s.transport /\ s'.fin = s.fin /\ s'.life = s.life
  BY SMT, <1>1, <1>2, CloseServerTransportType, CloseServerTransportOK
<1> QED
  BY <1>1, <1>3, ServerStep, FaultSame, SameNet, SameData

\* The timer of the server's maybeUpgrade fires.
LEMMA UpgradeTimeoutInv == ASSUME Inv, NEW t \in Streams, UpgradeTimeout(t) PROVE Inv'
<1>1. s.upg[t] = "wait" /\ s' = [s EXCEPT !.upg[t] = "fired"] /\ UNCHANGED <<c, n, d>> /\ SameHistory
  BY FaultSame DEF UpgradeTimeout, Timer
<1>2. t \in Transports
  BY DEF Transports
<1>3. /\ s' \in ServerStates /\ s'.life = s.life /\ s'.running = s.running /\ s'.stored = s.stored
      /\ s'.transport = s.transport /\ s'.cb = s.cb /\ s'.fin = s.fin
      /\ s'.once = s.once /\ s'.ended = s.ended
  BY <1>1, <1>2 DEF Inv, Types, ServerStates
<1>4. s.life \notin {"none", "checked"}
  BY <1>1, <1>2 DEF Inv, ServerOK, ServerInv
<1>5. ServerOK(s')
  BY SMT, <1>3, <1>4 DEF Inv, ServerOK, ServerInv, Alive, Stopped
<1> QED
  BY <1>1, <1>3, <1>5, ServerStep, SameNet, SameData

\* It closes the transport that was tried.
LEMMA UpgradeCloseInv == ASSUME Inv, NEW t \in Streams, UpgradeClose(t) PROVE Inv'
<1>1. PICK x : x = [s EXCEPT !.upg[t] = "end"]
  OBVIOUS
<1>2. s.upg[t] = "fired" /\ s' = CloseServerTransport(x, t) /\ UNCHANGED <<c, n, d, h>> /\ t \in Transports
  BY <1>1 DEF UpgradeClose, Transports
<1>3. /\ x \in ServerStates /\ x.life = s.life /\ x.running = s.running /\ x.stored = s.stored
      /\ x.transport = s.transport /\ x.cb = s.cb /\ x.fin = s.fin
      /\ x.once = s.once /\ x.ended = s.ended
  BY <1>1, <1>2 DEF Inv, Types, ServerStates
<1>4. s.life \notin {"none", "checked"}
  BY <1>2 DEF Inv, ServerOK, ServerInv
<1>5. ServerOK(x)
  BY SMT, <1>3, <1>4 DEF Inv, ServerOK, ServerInv, Alive, Stopped
<1>6. /\ s' \in ServerStates /\ ServerOK(s')
      /\ s'.transport = s.transport /\ s'.fin = s.fin /\ s'.life = s.life
  BY SMT, <1>2, <1>3, <1>4, <1>5, CloseServerTransportType, CloseServerTransportOK
<1> QED
  BY <1>2, <1>6, ServerStep, FaultSame, SameNet, SameData

\* A packet leaves a stream.
LEMMA TakeNet ==
  ASSUME Inv, NEW t \in Streams, n.up[t] # <<>>, NEW a,
         \/ n' = [n EXCEPT !.up[t] = Tail(@)]
         \/ n' = [[n EXCEPT !.up[t] = Tail(@)] EXCEPT !.down = a]
  PROVE  /\ NetType' /\ n'.poll = n.poll
         /\ \A u \in Streams : \A i \in DOMAIN n'.up[u] :
              n'.up[u][i][1] = "upgrade" => c.cb[u] = "socket"
<1>1. /\ n.up \in [Streams -> Seq(UpPackets)] /\ n.up[t] \in Seq(UpPackets)
      /\ \A u \in Streams : \A i \in DOMAIN n.up[u] : n.up[u][i][1] = "upgrade" => c.cb[u] = "socket"
  BY DEF Inv, Types, NetType, Behind
<1>2. PICK q : q = Tail(n.up[t])
  OBVIOUS
<1>3. /\ q \in Seq(UpPackets)
      /\ \A i \in DOMAIN q : i + 1 \in DOMAIN n.up[t] /\ q[i] = n.up[t][i + 1]
  BY SMT, <1>1, <1>2
<1>4. PICK b : b = [n.up EXCEPT ![t] = q]
  OBVIOUS
<1>5. /\ b \in [Streams -> Seq(UpPackets)] /\ b[t] = q
      /\ \A u \in Streams : u # t => b[u] = n.up[u]
  BY <1>1, <1>3, <1>4
<1>6. PICK m : m = [n EXCEPT !.up = b]
  OBVIOUS
<1>7. m = [n EXCEPT !.up[t] = Tail(@)]
  BY <1>2, <1>4, <1>6
<1>8. n' = m \/ n' = [m EXCEPT !.down = a]
  BY <1>7
<1>9. /\ m \in [up : [Streams -> Seq(UpPackets)], down : {n.down}, pq : {n.pq}, poll : {n.poll},
                resp : {n.resp}, posts : {n.posts}, broken : BOOLEAN]
      /\ m.up = b
  BY <1>5, <1>6 DEF Inv, Types, NetType
<1>10. NetType' /\ n'.up = b /\ n'.poll = n.poll
  BY <1>8, <1>9 DEF NetType
<1> QED
  BY SMT, <1>1, <1>3, <1>5, <1>10

\* A step of the server that takes a packet from a stream.
LEMMA ReceiveStep ==
  ASSUME Inv, SameHistory, NetType', DataType', UNCHANGED c, n'.poll = n.poll,
         \A u \in Streams : \A i \in DOMAIN n'.up[u] : n'.up[u][i][1] = "upgrade" => c.cb[u] = "socket",
         s' \in ServerStates, ServerOK(s'), s'.transport = s.transport, s'.life = s.life,
         \A u \in s'.fin : c.cb[u] = "socket"
  PROVE  Inv'
<1>1. c' \in ClientStates(c'.todo) /\ ClientOK(c')
  BY DEF Inv, Types
<1>2. Behind(c', s', n'.up)
  BY DEF Inv, Behind
<1>3. Idle'
  BY DEF Inv, Idle
<1> QED
  BY <1>1, <1>2, <1>3, Step

\* The callback of maybeUpgrade.
LEMMA ProbePacketOK ==
  ASSUME NEW x \in ServerStates, ServerOK(x), x.life \in {"open", "closed"},
         NEW t \in Streams, x.cb[t] = "probe", NEW p
  PROVE  LET y == ProbePacket(x, t, p)
         IN  /\ y \in ServerStates /\ ServerOK(y)
             /\ y.life = x.life /\ y.transport = x.transport
             /\ y.fin = x.fin \/ (p[1] = "upgrade" /\ y.fin = x.fin \cup {t})
<1>0. t \in Transports
  BY DEF Transports
<1>1. CASE p[1] = "ping"
  <2>1. PICK y : y = [x EXCEPT !.go = @ \cup {"cycle"}]
    OBVIOUS
  <2>2. /\ y \in ServerStates /\ y.life = x.life /\ y.stored = x.stored /\ y.running = x.running
        /\ y.transport = x.transport /\ y.cb = x.cb /\ y.upg = x.upg /\ y.fin = x.fin
        /\ y.once = x.once /\ y.ended = x.ended
    BY <2>1 DEF ServerStates
  <2>3. ServerOK(y)
    BY SMT, <2>2 DEF ServerOK, ServerInv, Alive, Stopped
  <2>4. ProbePacket(x, t, p) = y
    BY <1>1, <2>1 DEF ProbePacket
  <2> QED
    BY <2>2, <2>3, <2>4
<1>2. CASE p[1] = "upgrade"
  <2>1. PICK y : y = [x EXCEPT !.fin = @ \cup {t}]
    OBVIOUS
  <2>2. /\ y \in ServerStates /\ y.life = x.life /\ y.stored = x.stored /\ y.running = x.running
        /\ y.transport = x.transport /\ y.cb = x.cb /\ y.upg = x.upg /\ y.fin = x.fin \cup {t}
        /\ y.once = x.once /\ y.ended = x.ended
    BY SMT, <2>1 DEF ServerStates
  <2>3. ServerOK(y)
    BY SMT, <2>2 DEF ServerOK, ServerInv, Alive, Stopped
  <2>4. ProbePacket(x, t, p) = y
    BY <1>2, <2>1 DEF ProbePacket
  <2> QED
    BY <1>2, <2>2, <2>3, <2>4
<1>3. CASE p[1] # "ping" /\ p[1] # "upgrade"
  <2>1. ProbePacket(x, t, p) = CloseServerTransport(x, t)
    BY <1>3 DEF ProbePacket
  <2> QED
    BY SMT, <1>0, <2>1, CloseServerTransportType, CloseServerTransportOK
<1> QED
  BY <1>1, <1>2, <1>3

\* The server reads a packet.
LEMMA ServerReceiveInv == ASSUME Inv, NEW t \in Streams, ServerReceive(t) PROVE Inv'
<1>0. /\ s.once[t] = "live" /\ s.life # "checked" /\ n.up[t] # <<>> /\ UNCHANGED <<c, h>>
      /\ t \in Transports
  BY DEF ServerReceive, Transports
<1>1. PICK p : p = Head(n.up[t])
  OBVIOUS
<1>2. PICK rest : rest = [n EXCEPT !.up[t] = Tail(@)]
  OBVIOUS
<1>3. \/ /\ s.cb[t] = "socket" /\ s' = HandleServerPacket(s, p) /\ n' = rest
         /\ d' = [d EXCEPT !.upRcv = @ \o Messages(<<p>>)]
      \/ /\ s.cb[t] = "probe" /\ s' = ProbePacket(s, t, p) /\ UNCHANGED d
         /\ n' = IF p[1] = "ping" THEN Write(rest, t, <<Packet("pong")>>) ELSE rest
  BY <1>1, <1>2 DEF ServerReceive
<1>4. PICK a : a = [rest.down EXCEPT ![t] = @ \o <<Packet("pong")>>]
  OBVIOUS
<1>5. n' = rest \/ n' = [rest EXCEPT !.down = a]
  BY <1>3, <1>4 DEF Write
<1>6. /\ NetType' /\ n'.poll = n.poll
      /\ \A u \in Streams : \A i \in DOMAIN n'.up[u] : n'.up[u][i][1] = "upgrade" => c.cb[u] = "socket"
  BY <1>0, <1>2, <1>5, TakeNet
<1>7. DataType'
  <2>1. CASE UNCHANGED d
    BY <2>1, SameData
  <2>2. CASE d' = [d EXCEPT !.upRcv = @ \o Messages(<<p>>)]
    BY <2>2 DEF Inv, Types, DataType
  <2> QED
    BY <1>3, <2>1, <2>2
<1>8. s \in ServerStates /\ ServerOK(s) /\ s.life \in {"open", "closed"} /\ \A u \in s.fin : c.cb[u] = "socket"
  BY <1>0, LiveHasServer DEF Inv, Types, ServerStates, Behind
<1>9. p[1] = "upgrade" => c.cb[t] = "socket"
  <2>1. n.up[t] \in Seq(UpPackets)
    BY DEF Inv, Types, NetType
  <2>2. 1 \in DOMAIN n.up[t] /\ p = n.up[t][1]
    BY SMT, <1>0, <1>1, <2>1
  <2> QED
    BY <2>2 DEF Inv, Behind
<1>10. CASE s.cb[t] = "socket" /\ s' = HandleServerPacket(s, p)
  <2>1. s' \in ServerStates /\ ServerOK(s') /\ s'.life = s.life /\ s'.transport = s.transport
        /\ s'.fin = s.fin
    BY <1>8, <1>10, HandleServerPacketOK
  <2> QED
    BY <1>0, <1>6, <1>7, <1>8, <2>1, ReceiveStep, FaultSame
<1>11. CASE s.cb[t] = "probe" /\ s' = ProbePacket(s, t, p)
  <2>1. s' \in ServerStates /\ ServerOK(s') /\ s'.life = s.life /\ s'.transport = s.transport
        /\ (s'.fin = s.fin \/ (p[1] = "upgrade" /\ s'.fin = s.fin \cup {t}))
    BY SMT, <1>8, <1>11, ProbePacketOK
  <2>2. \A u \in s'.fin : c.cb[u] = "socket"
    BY <1>8, <1>9, <2>1
  <2> QED
    BY <1>0, <1>6, <1>7, <2>1, <2>2, ReceiveStep, FaultSame
<1> QED
  BY <1>3, <1>10, <1>11

-----------------------------------------------------------------------------
(* The handshake. *)

\* ServeHTTP lets a handshake through.
LEMMA AcceptInv == ASSUME Inv, Accept PROVE Inv'
<1>1. PICK t : t = Head(c.rest)
  OBVIOUS
<1>2. /\ c.life = "dial" /\ s.life = "none" /\ UNCHANGED <<n, d, h>> /\ c' = Handshake(c, t)
      /\ s' = [s EXCEPT !.life = "checked", !.transport = t, !.once[t] = "live", !.cb[t] = "socket"]
  BY <1>1 DEF Accept
<1>3. t \in Transports
  <2>1. c.rest \in Seq(Transports) /\ c.rest # <<>>
    BY <1>2 DEF Inv, Types, ClientStates, ClientOK, ClientInv, Dialling
  <2> QED
    BY SMT, <1>1, <2>1
<1>4. /\ s' \in ServerStates /\ s'.life = "checked" /\ s'.running = s.running
      /\ s'.stored = s.stored /\ s'.transport = t /\ s'.upg = s.upg /\ s'.fin = s.fin
      /\ s'.ended = s.ended /\ s'.once[t] = "live" /\ s'.cb[t] = "socket"
  <2>1. s' = [s EXCEPT !.life = "checked", !.transport = t, !.once[t] = "live", !.cb[t] = "socket"]
    BY <1>2
  <2> QED
    BY <1>3, <2>1, ZenonT(30) DEF Inv, Types, ServerStates, Onces, Callbacks
<1>5. s.fin = {} /\ s.stored = FALSE /\ \A u \in Transports : s.upg[u] = "none"
  BY <1>2 DEF Inv, Types, ServerStates, ServerOK, ServerInv
<1>6. ServerOK(s')
  BY <1>3, <1>4, <1>5 DEF ServerOK, ServerInv, Alive, Stopped
<1>7. c \in ClientStates(c.todo) /\ ClientOK(c)
  BY DEF Inv, Types
<1>8. /\ c' \in ClientStates(c.todo) /\ ClientOK(c')
      /\ c'.life = "dial" \/ (c'.life = "open" /\ c'.cb[t] = "socket")
      /\ \A u \in Transports : c.cb[u] = "socket" => c'.cb[u] = "socket"
  <2>1. CASE c' = Opened(c, t)
    BY SMT, <1>2, <1>3, <1>7, <2>1, OpenedOK
  <2>2. CASE c' = c
    BY <1>2, <1>7, <2>2
  <2> QED
    BY <1>2, <2>1, <2>2 DEF Handshake
<1>9. c'.todo = c.todo
  BY <1>8 DEF ClientStates
<1>10. Behind(c', s', n'.up)
  <2>1. Streams \subseteq Transports
    BY DEF Transports
  <2> QED
    BY SMT, <1>2, <1>4, <1>5, <1>8, <2>1 DEF Inv, Behind
<1>11. Idle'
  BY <1>2, <1>9 DEF Inv, Idle
<1> QED
  BY <1>2, <1>4, <1>6, <1>8, <1>9, <1>10, <1>11, Step, FaultSame, SameNet, SameData

\* The server's socket is there, even if the server was closed meanwhile.
LEMMA newSocketInv == ASSUME Inv, newSocket PROVE Inv'
<1>1. /\ s.life = "checked" /\ s' = [s EXCEPT !.life = "open", !.stored = TRUE] /\ UNCHANGED <<n, d>>
      /\ c' = PostHandshake(c, s.transport) /\ h' = [h EXCEPT !.survivor = ~s.running]
  BY DEF newSocket
<1>2. h' \in Histories /\ h'.late = h.late /\ h'.zombie = h.zombie /\ (~s.running => h'.survivor)
  <2>1. h \in Histories /\ s.running \in BOOLEAN
    BY DEF Inv, Types, ServerStates
  <2> QED
    BY <1>1, <2>1 DEF Histories
<1>3. /\ s' \in ServerStates /\ s'.life = "open" /\ s'.running = s.running /\ s'.stored = TRUE
      /\ s'.transport = s.transport /\ s'.upg = s.upg /\ s'.fin = s.fin
      /\ s'.ended = s.ended /\ s'.once = s.once /\ s'.cb = s.cb
  <2>1. s' = [s EXCEPT !.life = "open", !.stored = TRUE]
    BY <1>1
  <2> QED
    BY <2>1 DEF Inv, Types, ServerStates
<1>4. ServerInv(s') /\ Alive(s', h'.late) /\ Stopped(s', h'.survivor)
  <2>1. ServerInv(s')
    BY SMT, <1>1, <1>3 DEF Inv, ServerOK, ServerInv
  <2>2. Alive(s', h'.late)
    BY SMT, <1>1, <1>3 DEF Inv, ServerOK, ServerInv, Alive
  <2>3. Stopped(s', h'.survivor)
    BY <1>2, <1>3 DEF Stopped
  <2> QED
    BY <2>1, <2>2, <2>3
<1>5. c \in ClientStates(c.todo) /\ ClientOK(c) /\ s.transport \in Transports
  BY <1>1 DEF Inv, Types, ServerOK, ServerInv
<1>6. /\ c' \in ClientStates(c.todo) /\ ClientOK(c') /\ c'.cb[s.transport] = "socket"
      /\ c'.life \in {"dial", "failed"} => c.life \in {"dial", "failed"}
      /\ \A u \in Transports : c.cb[u] = "socket" => c'.cb[u] = "socket"
  <2>1. CASE c.life = "dial"
    <3>1. c' = Opened(c, s.transport)
      BY <1>1, <2>1 DEF PostHandshake
    <3> QED
      BY SMT, <1>5, <2>1, <3>1, OpenedOK
  <2>2. CASE c.life # "dial"
    BY <1>1, <1>5, <2>2 DEF Inv, Behind, PostHandshake
  <2> QED
    BY <2>1, <2>2
<1>7. c'.todo = c.todo
  BY <1>6 DEF ClientStates
<1>8. Types'
  BY SMT, <1>1, <1>2, <1>3, <1>6, <1>7, SameNet, SameData DEF Types
<1>9. ClientOK(c)' /\ ServerOK(s)'
  BY <1>2, <1>4, <1>6 DEF ClientOK, ServerOK
<1>10. Behind(c, s, n.up)'
  <2>1. s.fin \subseteq Transports /\ Streams \subseteq Transports
    BY DEF Inv, Types, ServerStates, Transports
  <2> QED
    BY SMT, <1>1, <1>3, <1>6, <2>1 DEF Inv, Behind
<1>11. Idle'
  BY <1>1, <1>6, <1>7 DEF Inv, Idle
<1> QED
  BY <1>8, <1>9, <1>10, <1>11 DEF Inv

-----------------------------------------------------------------------------
(* The upgrade. *)

\* The next transport that the client tries is new to both sides' sockets.
LEMMA NextIsFresh ==
  ASSUME Inv, c.pc = "idle", c.life \in {"open", "closed"}
  PROVE  /\ c.offers # <<>> /\ c.offers \in Seq(Streams)
         /\ Head(c.offers) \in Streams /\ Head(c.offers) = c.offers[1] /\ 1 \in DOMAIN c.offers
         /\ Fresh(c, Head(c.offers)) /\ Head(c.offers) # c.transport
         /\ Head(c.offers) # s.transport /\ s.life # "none"
<1>1. c.offers # <<>> /\ c.offers \in Seq(Streams)
  BY DEF Inv, Types, ClientStates, ClientOK, ClientInv, Upgrading
<1>2. PICK t : t = Head(c.offers)
  OBVIOUS
<1>3. t \in Streams /\ 1 \in DOMAIN c.offers /\ t = c.offers[1]
  BY SMT, <1>1, <1>2
<1>4. Fresh(c, t)
  BY <1>3 DEF Inv, ClientOK, ClientInv, Upgrading, Untried
<1>5. t # c.transport
  BY <1>4 DEF Inv, ClientOK, ClientInv, Owned, Fresh
<1>6. s.life # "none" /\ c.cb[s.transport] = "socket"
  BY DEF Inv, Types, ServerStates, Behind
<1>7. t # s.transport
  BY <1>4, <1>6 DEF Fresh
<1> QED
  BY SMT, <1>1, <1>2, <1>3, <1>4, <1>5, <1>6, <1>7

\* The client has opened the transport that it tries.
LEMMA TryOK ==
  ASSUME Inv, c.pc = "idle", c.life \in {"open", "closed"}, NEW t, t = Head(c.offers)
  PROVE  LET y == [c EXCEPT !.once[t] = "live", !.pc = "wait"]
         IN  y \in ClientStates(c.todo) /\ ClientOK(y) /\ y.life = c.life /\ y.cb = c.cb
<1>1. /\ t \in Transports /\ t = c.offers[1] /\ 1 \in DOMAIN c.offers /\ Fresh(c, t) /\ t # c.transport
      /\ c.offers # <<>> /\ c.offers \in Seq(Streams)
  BY NextIsFresh DEF Transports
<1>2. PICK y : y = [c EXCEPT !.once[t] = "live", !.pc = "wait"]
  OBVIOUS
<1>3. /\ y \in ClientStates(c.todo) /\ y.life = c.life /\ y.rest = c.rest /\ y.pc = "wait"
      /\ y.transport = c.transport /\ y.offers = c.offers /\ y.cb = c.cb /\ y.fin = c.fin
      /\ y.ended = c.ended /\ y.once[t] = "live"
      /\ \A u \in Transports : u # t => y.once[u] = c.once[u]
  BY <1>1, <1>2 DEF Inv, Types, ClientStates, Onces
<1>4. Dialling(y)
  BY <1>3 DEF Dialling
<1>5. Upgrading(y)
  <2>1. /\ \A i, j \in DOMAIN c.offers : i # j => c.offers[i] # c.offers[j]
        /\ \A i \in DOMAIN c.offers : Fresh(c, c.offers[i])
    BY DEF Inv, ClientOK, ClientInv, Upgrading, Untried
  <2>2. \A i \in DOMAIN c.offers : i > 1 => Fresh(y, c.offers[i])
    <3>1. \A i \in DOMAIN c.offers : i > 1 => c.offers[i] # t /\ c.offers[i] \in Transports
      BY SMT, <1>1, <2>1 DEF Transports
    <3> QED
      BY SMT, <1>3, <2>1, <3>1 DEF Fresh
  <2> QED
    BY SMT, <1>1, <1>3, <2>1, <2>2 DEF Upgrading, Untried
<1>6. Owned(y)
  <2>1. t \notin c.ended
    BY <1>1 DEF Inv, ClientOK, ClientInv, Owned, Fresh
  <2> QED
    BY SMT, <1>3, <2>1 DEF Inv, ClientOK, ClientInv, Owned
<1>7. Alive(y, h.late) /\ Ended(y, h.zombie)
  <2>1. c.transport \in Transports
    BY DEF Inv, ClientOK, ClientInv, Owned
  <2> QED
    BY SMT, <1>1, <1>3, <2>1 DEF Inv, ClientOK, Alive, Ended
<1> QED
  BY SMT, <1>2, <1>3, <1>4, <1>5, <1>6, <1>7 DEF ClientOK, ClientInv

\* tryUpgradeTo.
LEMMA TryUpgradeInv == ASSUME Inv, TryUpgrade PROVE Inv'
<1>1. PICK t : t = Head(c.offers)
  OBVIOUS
<1>2. c.pc = "idle" /\ c.life \in {"open", "closed"} /\ UNCHANGED <<d, h>>
  BY DEF TryUpgrade
<1>3. PICK opened : opened = [c EXCEPT !.once[t] = "live", !.pc = "wait"]
  OBVIOUS
<1>4. \/ /\ TakesUpgrade(t) /\ c' = opened
         /\ s' = [s EXCEPT !.once[t] = "live", !.upg[t] = "wait"]
         /\ n' = [n EXCEPT !.up[t] = <<Packet("ping")>>]
      \/ c' = opened /\ s' = [s EXCEPT !.once[t] = "closed"] /\ UNCHANGED n
      \/ c' = NextOffer(c) /\ UNCHANGED <<s, n>>
  BY <1>1, <1>3 DEF TryUpgrade
<1>5. /\ t \in Streams /\ t \in Transports /\ Fresh(c, t) /\ t # s.transport /\ s.life # "none"
  BY <1>1, <1>2, NextIsFresh DEF Transports
<1>6. /\ opened \in ClientStates(c.todo) /\ ClientOK(opened) /\ opened.life = c.life
      /\ opened.cb = c.cb
  BY <1>1, <1>2, <1>3, TryOK
<1>7. opened.todo = c.todo
  BY <1>6 DEF ClientStates
<1>8. SameHistory /\ DataType'
  BY <1>2, FaultSame, SameData
<1>9. s \in ServerStates /\ ServerOK(s) /\ s.transport \in Transports
  BY <1>5 DEF Inv, Types, ServerOK, ServerInv
<1>10. CASE /\ TakesUpgrade(t) /\ c' = opened
            /\ s' = [s EXCEPT !.once[t] = "live", !.upg[t] = "wait"]
            /\ n' = [n EXCEPT !.up[t] = <<Packet("ping")>>]
  <2>1. s.life = "open"
    BY <1>9, <1>10 DEF TakesUpgrade, ServerOK, ServerInv
  <2>2. /\ s' \in ServerStates /\ s'.life = "open" /\ s'.running = s.running
        /\ s'.stored = s.stored /\ s'.transport = s.transport /\ s'.fin = s.fin
        /\ s'.ended = s.ended /\ s'.cb = s.cb
        /\ \A u \in Transports : u # t => s'.once[u] = s.once[u]
    BY <1>5, <1>9, <1>10, <2>1 DEF ServerStates, Onces
  <2>3. ServerOK(s')
    <3>1. ServerInv(s')
      BY SMT, <1>9, <2>1, <2>2 DEF ServerOK, ServerInv
    <3>2. Alive(s', h.late)
      BY <1>5, <1>9, <2>1, <2>2 DEF ServerOK, Alive
    <3>3. Stopped(s', h.survivor)
      BY <1>9, <2>1, <2>2 DEF ServerOK, Stopped
    <3> QED
      BY <3>1, <3>2, <3>3 DEF ServerOK
  <2>4. PICK q : q = <<Packet("ping")>>
    OBVIOUS
  <2>5. q \in Seq(UpPackets) /\ \A i \in DOMAIN q : q[i][1] = "ping"
    <3>1. Packet("ping") \in UpPackets /\ Packet("ping")[1] = "ping"
      BY DEF UpPackets, Packet
    <3> QED
      BY SMT, <2>4, <3>1
  <2>6. PICK a : a = [n.up EXCEPT ![t] = q]
    OBVIOUS
  <2>7. /\ a \in [Streams -> Seq(UpPackets)] /\ a[t] = q
        /\ \A u \in Streams : u # t => a[u] = n.up[u]
    BY <1>5, <2>5, <2>6 DEF Inv, Types, NetType
  <2>8. n' = [n EXCEPT !.up = a]
    BY <1>10, <2>4, <2>6
  <2>9. NetType' /\ n'.poll = n.poll /\ n'.up = a
    BY <2>7, <2>8, UpNet
  <2>10. \A u \in Streams : \A i \in DOMAIN n'.up[u] : n'.up[u][i][1] = "upgrade" => c.cb[u] = "socket"
    BY SMT, <2>5, <2>7, <2>9 DEF Inv, Behind
  <2>11. Behind(c', s', n'.up)
    BY SMT, <1>6, <1>10, <2>1, <2>2, <2>10 DEF Inv, Behind
  <2>12. Idle'
    BY <1>2, <1>6, <1>10 DEF Idle
  <2> QED
    BY SMT, <1>6, <1>7, <1>8, <1>10, <2>2, <2>3, <2>9, <2>11, <2>12, Step
<1>11. CASE c' = opened /\ s' = [s EXCEPT !.once[t] = "closed"] /\ UNCHANGED n
  <2>1. /\ s' \in ServerStates /\ s'.life = s.life /\ s'.running = s.running
        /\ s'.stored = s.stored /\ s'.transport = s.transport /\ s'.fin = s.fin
        /\ s'.ended = s.ended /\ s'.cb = s.cb /\ s'.upg = s.upg
        /\ \A u \in Transports : u # t => s'.once[u] = s.once[u]
    BY SMT, <1>5, <1>9, <1>11 DEF ServerStates, Onces
  <2>2. ServerOK(s')
    <3>1. ServerInv(s')
      BY SMT, <1>5, <1>9, <2>1 DEF ServerOK, ServerInv
    <3>2. Alive(s', h.late)
      BY <1>5, <1>9, <2>1 DEF ServerOK, Alive
    <3>3. Stopped(s', h.survivor)
      BY <1>9, <2>1 DEF ServerOK, Stopped
    <3> QED
      BY <3>1, <3>2, <3>3 DEF ServerOK
  <2>3. NetType' /\ n' = n
    BY <1>11, SameNet
  <2>4. Behind(c', s', n'.up)
    BY SMT, <1>2, <1>6, <1>11, <2>1 DEF Inv, Behind
  <2>5. Idle'
    BY <1>2, <1>6, <1>11 DEF Idle
  <2> QED
    BY SMT, <1>6, <1>7, <1>8, <1>11, <2>1, <2>2, <2>3, <2>4, <2>5, Step
<1>12. CASE c' = NextOffer(c) /\ UNCHANGED <<s, n>>
  <2>1. c \in ClientStates(c.todo) /\ ClientOK(c)
    BY DEF Inv, Types
  <2>2. c' \in ClientStates(c.todo) /\ ClientOK(c') /\ c'.life = c.life /\ c'.cb = c.cb
    BY <1>2, <1>12, <2>1, NextOfferOK
  <2>3. c'.todo = c.todo
    BY <2>2 DEF ClientStates
  <2> QED
    BY <1>8, <1>12, <2>2, <2>3, ClientStep, SameNet
<1> QED
  BY <1>4, <1>10, <1>11, <1>12

\* The probe's answer makes the callbacks the socket's.
LEMMA ProbeAnsweredInv == ASSUME Inv, NEW t \in Streams, ProbeAnswered(t) PROVE Inv'
<1>1. PICK e : e = IF c.pc = "wait" /\ t = Head(c.offers) THEN "end" ELSE c.pc
  OBVIOUS
<1>2. /\ c.fin[t] = "read" /\ UNCHANGED <<s, n, d, h>> /\ t \in Transports
      /\ c' = [c EXCEPT !.fin[t] = "set", !.cb[t] = "socket", !.pc = e]
  BY <1>1 DEF ProbeAnswered, Transports
<1>3. e \in {"idle", "wait", "fired", "end"} /\ (e = c.pc \/ e = "end")
  BY <1>1 DEF Inv, Types, ClientStates
<1>4. c.life \in {"open", "closed"} /\ SameHistory /\ ClientOK(c)
  BY <1>2, LiveHasSocket, FaultSame DEF Inv
<1>5. /\ c' \in ClientStates(c.todo) /\ c'.life = c.life /\ c'.rest = c.rest /\ c'.pc = e
      /\ c'.transport = c.transport /\ c'.offers = c.offers /\ c'.once = c.once
      /\ c'.ended = c.ended /\ c'.todo = c.todo /\ c'.fin[t] = "set" /\ c'.cb[t] = "socket"
      /\ \A u \in Transports : u # t => c'.fin[u] = c.fin[u] /\ c'.cb[u] = c.cb[u]
  BY <1>2, <1>3, ZenonT(30) DEF Inv, Types, ClientStates, Callbacks
<1>6. Dialling(c')
  BY <1>4, <1>5 DEF Dialling
<1>7. Upgrading(c')
  <2>1. \A i \in DOMAIN c.offers : c.offers[i] \in Transports
    BY SMT DEF Inv, Types, ClientStates, Transports
  <2>2. CASE e = "end"
    BY SMT, <1>4, <1>5, <2>2 DEF ClientOK, ClientInv, Upgrading, Untried
  <2>3. CASE e = c.pc
    BY SMT, <1>2, <1>4, <1>5, <2>1, <2>3 DEF ClientOK, ClientInv, Upgrading, Untried, Fresh
  <2> QED
    BY <1>3, <2>2, <2>3
<1>8. Owned(c')
  <2>1. c.cb[t] = "probe" /\ t # c.transport
    BY <1>2, <1>4 DEF ClientOK, ClientInv, Owned
  <2> QED
    BY SMT, <1>4, <1>5, <2>1 DEF ClientOK, ClientInv, Owned
<1>9. Alive(c', h.late) /\ Ended(c', h.zombie)
  BY <1>4, <1>5 DEF ClientOK, Alive, Ended
<1>10. ClientOK(c')
  BY <1>6, <1>7, <1>8, <1>9 DEF ClientOK, ClientInv
<1>11. \A u \in Transports : c.cb[u] = "socket" => c'.cb[u] = "socket"
  BY <1>5
<1> QED
  BY <1>2, <1>4, <1>5, <1>10, <1>11, ClientStep, SameNet, SameData

\* The client's socket changes its transport, for one that may have ended meanwhile.
LEMMA finishUpgradeToInv == ASSUME Inv, NEW t \in Streams, finishUpgradeTo(t) PROVE Inv'
<1>1. PICK x : x = DiscardClientTransport(c, c.transport)
  OBVIOUS
<1>2. c.fin[t] = "set" /\ t \in Transports /\ UNCHANGED <<s, d>>
  BY DEF finishUpgradeTo, Transports
<1>3. c' = [x EXCEPT !.fin[t] = "none", !.transport = t]
  BY <1>1 DEF finishUpgradeTo
<1>4. c.life \in {"open", "closed"} /\ ClientOK(c) /\ c \in ClientStates(c.todo)
  BY <1>2, LiveHasSocket DEF Inv, Types
<1>5. c.cb[t] = "socket" /\ t # c.transport /\ c.transport \in Transports /\ c.cb[c.transport] = "socket"
  BY <1>2, <1>4 DEF ClientOK, ClientInv, Owned
<1>6. /\ x \in ClientStates(c.todo)
      /\ x.life = c.life /\ x.rest = c.rest /\ x.transport = c.transport
      /\ x.offers = c.offers /\ x.pc = c.pc /\ x.cb = c.cb /\ x.fin = c.fin
      /\ x.ended = c.ended
      /\ \A u \in Transports : u # c.transport => x.once[u] = c.once[u]
      /\ x.once[c.transport] # "live"
  BY SMT, <1>1, <1>4, <1>5, DiscardClientTransportType
<1>7. /\ c' \in ClientStates(c.todo) /\ c'.life = c.life /\ c'.rest = c.rest /\ c'.pc = c.pc
      /\ c'.transport = t /\ c'.offers = c.offers /\ c'.once = x.once /\ c'.cb = c.cb
      /\ c'.ended = c.ended /\ c'.todo = c.todo /\ c'.fin[t] = "none"
      /\ \A u \in Transports : u # t => c'.fin[u] = c.fin[u]
  BY <1>2, <1>3, <1>6 DEF ClientStates
<1>8. /\ h' \in Histories /\ h'.survivor = h.survivor
      /\ h.late => h'.late
      /\ h.zombie => h'.zombie
      /\ c.once[t] # "live" => h'.late
      /\ c.life # "open" => h'.zombie
  <2>1. h' = [h EXCEPT !.late = @ \/ c.once[t] # "live", !.zombie = @ \/ c.life # "open",
                       !.stream = @ \/ c.transport # "polling"]
    BY DEF finishUpgradeTo
  <2>2. h \in Histories
    BY DEF Inv, Types
  <2> QED
    BY <2>1, <2>2 DEF Histories
<1>9. ClientInv(c')
  <2>1. Dialling(c')
    BY <1>4, <1>7 DEF Dialling
  <2>2. Upgrading(c')
    <3>1. \A i \in DOMAIN c.offers : c.offers[i] \in Transports
      BY SMT, <1>4 DEF ClientStates, Transports
    <3>2. \A i \in DOMAIN c.offers : Untried(c, i) => Fresh(c', c.offers[i])
      <4>1. \A i \in DOMAIN c.offers : Untried(c, i) => Fresh(c, c.offers[i])
        BY <1>4 DEF ClientOK, ClientInv, Upgrading
      <4> QED
        BY SMT, <1>2, <1>5, <1>6, <1>7, <3>1, <4>1 DEF Fresh
    <3> QED
      BY SMT, <1>4, <1>7, <3>2 DEF ClientOK, ClientInv, Upgrading, Untried
  <2>3. Owned(c')
    <3>1. \A u \in Transports : u \in c'.ended => c'.cb[u] = "socket" /\ c'.once[u] # "live"
      BY SMT, <1>4, <1>5, <1>6, <1>7 DEF ClientOK, ClientInv, Owned
    <3>2. \A u \in Transports : /\ c'.fin[u] = "read" => c'.cb[u] = "probe"
                                /\ c'.fin[u] = "set" => c'.cb[u] = "socket" /\ u # t
      BY SMT, <1>4, <1>5, <1>7 DEF ClientOK, ClientInv, Owned
    <3> QED
      BY <1>2, <1>5, <1>7, <3>1, <3>2 DEF Owned
  <2> QED
    BY <2>1, <2>2, <2>3 DEF ClientInv
<1>10. Alive(c', h'.late) /\ Ended(c', h'.zombie)
  BY SMT, <1>2, <1>5, <1>6, <1>7, <1>8 DEF Alive, Ended
<1>11. ServerOK(s)'
  <2>1. ServerInv(s') /\ Stopped(s', h'.survivor)
    BY <1>2, <1>8 DEF Inv, ServerOK
  <2>2. Alive(s', h'.late)
    BY <1>2, <1>8 DEF Inv, ServerOK, Alive
  <2> QED
    BY <2>1, <2>2 DEF ServerOK
<1>12. ClientOK(c)'
  BY <1>9, <1>10 DEF ClientOK
<1>13. /\ NetType' /\ n'.poll = n.poll
       /\ \A u \in Streams : \A i \in DOMAIN n'.up[u] : n'.up[u][i][1] = "upgrade" => c.cb[u] = "socket"
  <2>0. /\ NetType
        /\ \A u \in Streams : \A i \in DOMAIN n.up[u] : n.up[u][i][1] = "upgrade" => c.cb[u] = "socket"
    BY DEF Inv, Types, Behind
  <2>1. CASE n' = n
    BY <2>0, <2>1, SameNet
  <2>2. CASE n' = [n EXCEPT !.up[t] = Append(@, Packet("upgrade"))]
    <3>1. PICK p : p = Packet("upgrade")
      OBVIOUS
    <3>2. p \in UpPackets
      BY <3>1 DEF UpPackets
    <3>3. PICK q : q = Append(n.up[t], p)
      OBVIOUS
    <3>4. n.up[t] \in Seq(UpPackets)
      BY <2>0 DEF NetType
    <3>5. q \in Seq(UpPackets)
      BY SMT, <3>2, <3>3, <3>4
    <3>6. PICK a : a = [n.up EXCEPT ![t] = q]
      OBVIOUS
    <3>7. /\ a \in [Streams -> Seq(UpPackets)]
          /\ \A u \in Streams : u # t => a[u] = n.up[u]
      BY <2>0, <3>5, <3>6 DEF NetType
    <3>8. n' = [n EXCEPT !.up = a]
      BY <2>2, <3>1, <3>3, <3>6
    <3>9. NetType' /\ n'.poll = n.poll /\ n'.up = a
      BY <3>7, <3>8, UpNet
    <3> QED
      BY <1>5, <2>0, <3>7, <3>9
  <2> QED
    BY <2>1, <2>2 DEF finishUpgradeTo
<1>14. Types'
  BY <1>2, <1>7, <1>8, <1>13, SameData DEF Inv, Types
<1>15. Behind(c, s, n.up)'
  BY <1>2, <1>7, <1>13, ZenonT(30) DEF Inv, Behind
<1>16. Idle'
  BY <1>4, <1>7 DEF Idle
<1> QED
  BY <1>11, <1>12, <1>14, <1>15, <1>16 DEF Inv

\* The server's socket changes its transport, for one that may have ended meanwhile.
LEMMA upgradeToInv == ASSUME Inv, NEW t \in Streams, upgradeTo(t) PROVE Inv'
<1>1. PICK x : x = DiscardServerTransport(s, s.transport)
  OBVIOUS
<1>2. t \in s.fin /\ t \in Transports /\ UNCHANGED <<c, d>>
  BY DEF upgradeTo, Transports
<1>3. s' = [x EXCEPT !.fin = @ \ {t}, !.cb[t] = "socket", !.transport = t,
                     !.upg[t] = IF @ = "wait" THEN "end" ELSE @]
  BY <1>1 DEF upgradeTo
<1>4. s \in ServerStates /\ ServerOK(s) /\ s.life \in {"open", "closed"}
  BY <1>2 DEF Inv, Types, ServerStates, ServerOK, ServerInv
<1>5. s.transport \in Transports /\ s.cb[t] = "probe" /\ t # s.transport
  BY <1>2, <1>4 DEF ServerOK, ServerInv
<1>6. /\ x \in ServerStates
      /\ x.life = s.life /\ x.running = s.running /\ x.stored = s.stored
      /\ x.cb = s.cb /\ x.upg = s.upg /\ x.fin = s.fin /\ x.ended = s.ended
      /\ x.once[t] = s.once[t]
  BY SMT, <1>1, <1>2, <1>4, <1>5, DiscardServerTransportType
<1>7. /\ s' \in ServerStates /\ s'.life = s.life /\ s'.running = s.running /\ s'.stored = s.stored
      /\ s'.transport = t /\ s'.fin = s.fin \ {t} /\ s'.once = x.once
      /\ s'.ended = s.ended /\ s'.cb[t] = "socket"
      /\ \A u \in Transports : u # t => s'.cb[u] = s.cb[u]
  BY <1>2, <1>3, <1>6, ZenonT(30) DEF ServerStates, Callbacks
<1>8. /\ h' \in Histories /\ h'.survivor = h.survivor /\ h'.zombie = h.zombie
      /\ h.late => h'.late
      /\ s.once[t] # "live" => h'.late
  <2>1. PICK o \in BOOLEAN : o = (h.overlap \/ Messages(n.resp) # <<>>)
    BY DEF Inv, Types, Histories
  <2>2. h' = [h EXCEPT !.late = @ \/ s.once[t] # "live", !.overlap = o]
    BY <2>1 DEF upgradeTo
  <2>3. h \in Histories
    BY DEF Inv, Types
  <2> QED
    BY <2>2, <2>3 DEF Histories
<1>9. ServerInv(s')
  <2>1. \A u \in s'.fin : s'.cb[u] = "probe"
    <3>1. s.fin \subseteq Transports
      BY <1>4 DEF ServerStates, Transports
    <3> QED
      BY SMT, <1>4, <1>7, <3>1 DEF ServerOK, ServerInv
  <2> QED
    BY <1>2, <1>4, <1>7, <2>1 DEF ServerOK, ServerInv
<1>10. Alive(s', h'.late) /\ Stopped(s', h'.survivor)
  BY <1>4, <1>6, <1>7, <1>8 DEF ServerOK, Alive, Stopped
<1>11. ServerOK(s)'
  BY <1>9, <1>10 DEF ServerOK
<1>12. ClientOK(c)'
  BY <1>2, <1>8 DEF Inv, ClientOK, Alive, Ended
<1>13. NetType' /\ n'.poll = n.poll /\ n'.up = n.up
  <2>1. PICK a, b : a = <<>> /\ b = [n.down EXCEPT ![t] = @ \o QueuedPackets]
    OBVIOUS
  <2>2. n' = [n EXCEPT !.pq = a] \/ n' = [[n EXCEPT !.down = b] EXCEPT !.pq = a]
    BY <2>1 DEF upgradeTo, Write
  <2> QED
    BY <2>2 DEF Inv, Types, NetType
<1>14. Types'
  BY <1>2, <1>7, <1>8, <1>13, SameData, ZenonT(30) DEF Inv, Types
<1>15. Behind(c, s, n.up)'
  BY SMT, <1>2, <1>4, <1>7, <1>13 DEF Inv, Behind
<1>16. Idle'
  BY <1>2, <1>13 DEF Inv, Idle
<1> QED
  BY <1>11, <1>12, <1>14, <1>15, <1>16 DEF Inv

-----------------------------------------------------------------------------
(* The invariant. *)

\* The invariant holds at the start.
LEMMA InitInv == ASSUME Init PROVE Inv
<1>1. cfg.list \in Seq(Transports) /\ cfg.list # <<>>
  BY ConfigList DEF Init
<1>2. PICK todo : todo = [t \in Transports |-> <<>>]
  OBVIOUS
<1>3. c = [life |-> "dial", rest |-> cfg.list, transport |-> "none", offers |-> <<>>,
           pc |-> "idle", once |-> [t \in Transports |-> "none"],
           cb |-> [t \in Transports |-> "probe"], fin |-> [t \in Transports |-> "none"],
           todo |-> todo, ended |-> {}, sendClose |-> FALSE]
  BY <1>2 DEF Init
<1>4. c \in ClientStates(c.todo)
  <2>1. <<>> \in Seq(Streams)
    BY SMT
  <2> QED
    BY <1>1, <1>3, <2>1 DEF ClientStates, Onces, Callbacks
<1>5. s \in ServerStates
  BY ZenonT(30) DEF Init, ServerStates, Onces, Callbacks
<1>6. NetType /\ n.poll = "off" /\ \A t \in Streams : n.up[t] = <<>>
  <2>1. PICK up, down, posts : /\ up = [t \in Streams |-> <<>>] /\ down = [t \in Streams |-> <<>>]
                               /\ posts = [w \in Posters |-> None]
    OBVIOUS
  <2>2. n = [up |-> up, down |-> down, pq |-> <<>>, poll |-> "off", resp |-> <<>>, posts |-> posts,
             broken |-> FALSE]
    BY <2>1 DEF Init
  <2>3. up \in [Streams -> Seq(UpPackets)] /\ \A t \in Streams : up[t] = <<>>
    BY SMT, <2>1
  <2> QED
    BY <2>2, <2>3 DEF NetType
<1>7. DataType /\ h \in Histories
  BY DEF Init, DataType, Histories
<1>8. /\ c.life = "dial" /\ c.rest # <<>> /\ c.pc = "idle" /\ c.ended = {} /\ c.todo = todo
      /\ c.offers = <<>> /\ \A t \in Transports : Fresh(c, t)
  BY <1>1, <1>3 DEF Fresh
<1>9. ClientOK(c)
  <2>1. Upgrading(c)
    BY SMT, <1>8 DEF Upgrading
  <2> QED
    BY <1>8, <2>1 DEF ClientOK, ClientInv, Dialling, Owned, Fresh, Alive, Ended
<1>10. /\ s.life = "none" /\ s.stored = FALSE /\ s.fin = {} /\ s.running = TRUE
       /\ \A t \in Transports : s.upg[t] = "none" /\ s.once[t] = "none"
  BY DEF Init
<1>11. ServerOK(s)
  BY <1>10 DEF ServerOK, ServerInv, Alive, Stopped
<1>12. Behind(c, s, n.up)
  BY SMT, <1>6, <1>8, <1>10 DEF Behind
<1>13. Idle
  BY <1>2, <1>6, <1>8 DEF Idle
<1> QED
  BY <1>4, <1>5, <1>6, <1>7, <1>9, <1>11, <1>12, <1>13 DEF Inv, Types

\* A stuttering step keeps it.
LEMMA StutterInv == ASSUME Inv, UNCHANGED vars PROVE Inv'
  BY QuietStep, FaultSame, SameNet, SameData DEF vars

\* Every step keeps it.
LEMMA NextInv == ASSUME Inv, [Next]_vars PROVE Inv'
<1>1. CASE \/ Accept \/ newSocket \/ DialFails \/ TryUpgrade \/ ProbeTimeout \/ ProbeClose
           \/ handleTimeout
  BY <1>1, AcceptInv, newSocketInv, DialFailsInv, TryUpgradeInv, ProbeTimeoutInv, ProbeCloseInv,
     handleTimeoutInv
<1>2. CASE Poll \/ PollWaits \/ PollTimeout \/ PollAnswered \/ PollFails \/ CloseHandled
  BY <1>2, PollInv, PollWaitsInv, PollAnsweredInv, PollFailsInv, CloseHandledInv
<1>3. CASE pingPong \/ PongReceived \/ PingTimeout
  BY <1>3, pingPongInv, PongReceivedInv, ClosesServerInv
<1>4. CASE ClientSends \/ ServerSends \/ CloseByClient \/ CloseByServer \/ ServerClose \/ Break
  BY <1>4, ClientSendsInv, ServerSendsInv, CloseByClientInv, ClosesServerInv, ServerCloseInv,
     BreakInv
<1>5. CASE \E w \in Posters : PostHandled(w) \/ PostFails(w)
  BY <1>5, PostHandledInv, PostFailsInv
<1>6. CASE \E g \in {"noop", "close", "cycle"} : GoSend(g)
  BY <1>6, GoSendInv
<1>7. CASE \E t \in Streams : ProbeAnswered(t) \/ finishUpgradeTo(t) \/ ClientReceive(t)
                              \/ ClientReadFails(t) \/ ServerReceive(t) \/ ServerReadFails(t)
                              \/ upgradeTo(t) \/ UpgradeTimeout(t) \/ UpgradeClose(t)
  BY <1>7, ProbeAnsweredInv, finishUpgradeToInv, ClientReceiveInv, ClientReadFailsInv,
     ServerReceiveInv, ServerReadFailsInv, upgradeToInv, UpgradeTimeoutInv, UpgradeCloseInv
<1>8. CASE \E t \in Transports : handlePacket(t) \/ onClientTransportClose(t)
                                 \/ onServerTransportClose(t)
  BY <1>8, handlePacketInv, onClientTransportCloseInv, onServerTransportCloseInv
<1>9. CASE UNCHANGED vars
  BY <1>9, StutterInv
<1> QED
  BY <1>1, <1>2, <1>3, <1>4, <1>5, <1>6, <1>7, <1>8, <1>9 DEF Next

\* Engine.IO: the invariant holds in every reachable state.
THEOREM InvHolds == Spec => []Inv
<1>1. Init => Inv
  BY InitInv
<1>2. Inv /\ [Next]_vars => Inv'
  BY NextInv
<1> QED
  BY <1>1, <1>2, PTL DEF Spec

\* Engine.IO: whatever Close, timers, probes and breaks do and in whatever order, an open
\* socket has a live transport or is about to hear that it has not, a closed client's socket
\* has ended its transport, and a closed server has no open socket, each up to the race that
\* the property names.  It holds for any number of packets and faults.
THEOREM TransportsFollowHolds == Spec => []TransportsFollow
<1>1. Inv => TransportsFollow
  BY DEF Inv, ClientOK, ServerOK, Alive, Ended, Stopped, TransportsFollow
<1> QED
  BY <1>1, InvHolds, PTL
=============================================================================
