-------------------------------- MODULE Wire --------------------------------
(***************************************************************************)
(* The way of an event from the arguments of Emit to those of a handler:   *)
(* the JSON parser takes the Binary values out and leaves placeholders,    *)
(* the frames (one text, then the attachments) are split into posts or     *)
(* written to a stream, the other side decodes them, collects the          *)
(* attachments of a packet and puts them back.                             *)
(*                                                                         *)
(* A Go value is a tree.  Encode writes its placeholders into the value    *)
(* that the user has passed, so the user's values are state.  Of JSON only *)
(* the shape and the length are kept: commas and keys are counted with the *)
(* value they belong to, and a map is visited in the order of its kids.    *)
(***************************************************************************)
EXTENDS Integers, Sequences, SequencesExt, FiniteSetsExt

CONSTANTS MaxEmits,   \* calls of Emit
          Small,      \* length of short texts and of short Binary values
          Limit,      \* a maxBufferSize that a few short packets exceed
          Large       \* length of a long text or Binary

ASSUME WireAssumption ==
    /\ MaxEmits \in Nat /\ Small \in Nat /\ Limit \in Nat \ {0}
    /\ Large \in Nat /\ Large >= 65536

VARIABLES cfg,    \* transport, limits, and whether the handler's parameters are typed
          vals,   \* the values that the user emits
          queue,  \* frames in the packet queue
          posts,  \* payloads under way, of one frame each if they go over a stream
          rcv,    \* the receiver: its reconstructor, what it has finished, whether it is open,
                  \* and the event with which it got out of step with the stream, 0 if it did not
          h       \* history: what was emitted, which emits failed, which posts were sent

vars == <<cfg, vals, queue, posts, rcv, h>>

-----------------------------------------------------------------------------
(* Values.  list is []any, slice []Binary, map map[string]any, bmap         *)
(* map[string]Binary, ptr a pointer to a struct; binptr is what Encode      *)
(* leaves where an interface held a Binary.                                 *)

Node(kind, body, kids) == [kind |-> kind, body |-> body, kids |-> kids]
Text(size) == Node("text", <<"text", size>>, <<>>)
Bin(size) == Node("bin", <<"data", size>>, <<>>)
Bytes == Node("bytes", <<"data", Small>>, <<>>)
Of(kind, kids) == Node(kind, <<kind, 0>>, kids)

\* What the user emits.
Values ==
    LET b == Bin(Small)
    IN  {Text(Small), Text(Limit), Text(Large), b, Bin(Large), Of("list", <<b>>), Of("slice", <<b, Bin(0)>>),
         Of("map", <<b>>), Of("bmap", <<b>>), Of("ptr", <<b, Text(Small)>>), Of("struct", <<b>>),
         Of("struct", <<b, Of("map", <<Bin(0)>>)>>), Of("list", <<Of("struct", <<b>>)>>),
         Of("map", <<Of("struct", <<b>>)>>), Of("map", <<b, Bytes>>), Of("list", <<Bytes>>),
         Of("map", <<Of("list", <<b>>)>>), Of("list", <<Of("map", <<b>>)>>),
         Of("map", <<Of("map", <<b>>), Text(Small)>>)}

\* and what it may pass as well.
Others == {Text(Small), Bin(Small)}

\* Transport and maxBufferSize of the server, which is the client's maxPayload.
Links == {<<"polling", Limit>>, <<"polling", 0>>, <<"websocket", Limit>>, <<"websocket", 0>>,
          <<"webtransport", 2 * Large>>, <<"webtransport", Limit>>, <<"webtransport", 0>>}

\* maxAttachments of the sender and of the receiver; 0 is no limit.
Attachments == {<<0, 0>>, <<1, 0>>, <<0, 1>>}

IsBinary(v) == v.kind \in {"bin", "binptr"}

RECURSIVE hasBinary(_)
hasBinary(v) == IsBinary(v) \/ \E i \in DOMAIN v.kids : hasBinary(v.kids[i])

\* The contents of its Binary values.
RECURSIVE Contents(_)
Contents(v) == IF IsBinary(v) THEN <<v.body>>
               ELSE FoldLeft(LAMBDA all, kid : all \o Contents(kid), <<>>, v.kids)

-----------------------------------------------------------------------------
(* parser/json/encode.go and binary.go.  Where a value is decides whether   *)
(* and how its placeholder can be written: "cell" is an interface in a      *)
(* slice, "entry" an interface in a map, "place" a settable Binary, "fixed" *)
(* a Binary that reflection cannot set.                                     *)

Step(v, n, bufs, err) == [v |-> v, n |-> n, bufs |-> bufs, err |-> err]

deconstructBinaryValue(v, where, n) ==
    CASE v.kind = "bytes"                          -> Step(v, n, <<<<"nil", 0>>>>, "ok")
      [] v.kind = "binptr"                         -> Step(v, n, <<>>, "pointer")
      [] v.kind = "bin" /\ where = "fixed"         -> Step(v, n, <<>>, "nonsettable")
      [] v.kind = "bin" /\ where = "typed"         -> Step(v, n, <<>>, "panic")
      [] v.kind = "bin" /\ where = "place"         -> Step([v EXCEPT !.body = <<"hold", n>>], n + 1, <<v.body>>, "ok")
      [] v.kind = "bin" /\ where \in {"cell", "entry"} ->
             Step(Node("binptr", <<"hold", n>>, <<>>), n + 1, <<v.body>>, "ok")

\* Faulty variant: a struct is not copied, and reflection cannot set its fields.
PlaceUncopied(v, where) ==
    CASE v.kind = "list"   -> "cell"
      [] v.kind = "map"    -> "entry"
      [] v.kind = "bmap"   -> "typed"
      [] v.kind = "struct" -> "fixed"
      [] OTHER             -> "place"

\* Where the kids of a value are.
Place(v, where) ==
    CASE v.kind = "list"   -> "cell"
      [] v.kind = "map"    -> "entry"
      [] v.kind = "bmap"   -> "typed"
      [] v.kind = "struct" -> IF where = "cell" THEN "place" ELSE "fixed"
      [] OTHER             -> "place"

\* A struct in a slice's interface is replaced by a pointer to a copy.
Copied(v, where) == IF v.kind = "struct" /\ where = "cell" THEN "ptr" ELSE v.kind

\* The values before one that fails keep their placeholders.
RECURSIVE deconstructValue(_, _, _)
deconstructValue(v, where, n) ==
    IF v.kind \in {"bin", "binptr", "bytes"} THEN deconstructBinaryValue(v, where, n)
    ELSE LET next(acc, kid) ==
                 IF acc.err # "ok" THEN [acc EXCEPT !.v = Append(@, kid)]
                 ELSE LET x == deconstructValue(kid, Place(v, where), acc.n)
                      IN  Step(Append(acc.v, x.v), x.n, acc.bufs \o x.bufs, x.err)
             all == FoldLeft(next, Step(<<>>, n, <<>>, "ok"), v.kids)
         IN  Step([v EXCEPT !.kids = all.v, !.kind = Copied(v, where)], all.n, all.bufs, all.err)

\* The JSON of a value: what the text frame holds.
RECURSIVE Marshal(_)
Marshal(v) ==
    CASE IsBinary(v)                    -> Node("hold", v.body, <<>>)
      [] v.kind = "bytes"               -> Node("text", <<"text", 4 * ((v.body[2] + 2) \div 3)>>, <<>>)
      [] v.kind \in {"list", "slice"}   -> Of("array", [i \in DOMAIN v.kids |-> Marshal(v.kids[i])])
      [] v.kind = "text"                -> v
      [] OTHER                          -> Of("object", [i \in DOMAIN v.kids |-> Marshal(v.kids[i])])

RECURSIVE JsonLen(_)
JsonLen(w) == CASE w.kind = "text" -> w.body[2] + 2
                [] w.kind = "hold" -> 29
                [] OTHER -> FoldLeft(LAMBDA n, kid : n + JsonLen(kid), 2, w.kids)

\* Type, brackets, the name of the event.
HeaderLen == 8

encodeString(id, args, attachments) ==
    LET json == Of("array", [i \in DOMAIN args |-> Marshal(args[i])])
    IN  [binary |-> FALSE, id |-> id, json |-> json, attachments |-> attachments,
         size |-> HeaderLen + JsonLen(json)]

BodyLen(body) == IF body[1] = "hold" THEN 29 ELSE body[2]

AttachmentFrame(id, body) == [binary |-> TRUE, id |-> id, body |-> body, size |-> BodyLen(body)]

\* Faulty variant: the attachments follow in the other order.
AttachmentsReversed(id, bufs) == Reverse([i \in DOMAIN bufs |-> AttachmentFrame(id, bufs[i])])

AttachmentFrames(id, bufs) == [i \in DOMAIN bufs |-> AttachmentFrame(id, bufs[i])]

encodeBinary(id, args, max) ==
    LET x == deconstructValue(Of("list", args), "cell", 0)
        err == IF x.err # "ok" THEN x.err
               ELSE IF x.n # Len(x.bufs) THEN "numBuffers"
               ELSE IF max > 0 /\ x.n > max THEN "maxAttachments" ELSE "ok"
    IN  [frames |-> IF err # "ok" THEN <<>>
                    ELSE <<encodeString(id, x.v.kids, x.n)>> \o AttachmentFrames(id, x.bufs),
         args |-> x.v.kids, err |-> err]

Encode(id, args, max) ==
    IF \E i \in DOMAIN args : hasBinary(args[i]) THEN encodeBinary(id, args, max)
    ELSE [frames |-> <<encodeString(id, args, 0)>>, args |-> args, err |-> "ok"]

\* What Encode leaves behind in a value: the argument itself is a copy, what it refers to is not.
RECURSIVE Shared(_, _)
Shared(v, after) ==
    CASE v.kind = "bin"    -> v
      [] v.kind = "struct" -> [v EXCEPT !.kids = [i \in DOMAIN v.kids |-> Shared(v.kids[i], after.kids[i])]]
      [] OTHER             -> after

-----------------------------------------------------------------------------
(* engine.io: payloads, posts and frames.                                   *)

\* Length of a packet as text, that is for polling, and as a frame of a stream.
EncodedLen(p, supportsBinary) ==
    IF ~p.binary THEN 1 + p.size
    ELSE IF supportsBinary THEN p.size ELSE 1 + 4 * ((p.size + 2) \div 3)

EncodedPayloadsLen(ps) == FoldLeft(LAMBDA n, p : n + EncodedLen(p, FALSE), Len(ps) - 1, ps)

\* The loop of writeWritablePackets: after a split it goes on with the second packet and
\* has not counted the first.
RECURSIVE Writable(_, _, _, _)
Writable(ps, max, i, size) ==
    IF i > Len(ps) THEN <<ps>>
    ELSE LET now == size + (IF ps[i].size > 0 THEN EncodedLen(ps[i], FALSE) ELSE 0)
         IN  IF i > 1 /\ now > max
             THEN <<SubSeq(ps, 1, i - 1)>> \o Writable(SubSeq(ps, i, Len(ps)), max, 2, 0)
             ELSE Writable(ps, max, i + 1, now + 1)

\* Faulty variant: the payload is not split.
writeWritablePacketsAtOnce(ps, transport, max) ==
    IF transport # "polling" THEN [i \in DOMAIN ps |-> <<ps[i]>>] ELSE <<ps>>

\* A stream's Send writes one packet after the other.
writeWritablePackets(ps, transport, max) ==
    IF transport # "polling" THEN [i \in DOMAIN ps |-> <<ps[i]>>]
    ELSE IF max > 0 /\ Len(ps) > 1 THEN Writable(ps, max, 1, 0) ELSE <<ps>>

\* The message size that the websocket library allows if it is not told otherwise.
DefaultReadLimit == 32768

\* The server refuses a post by its length, a message by the library's limit.
Refuses(link, ps) ==
    CASE link[1] = "polling"   -> link[2] > 0 /\ EncodedPayloadsLen(ps) > link[2]
      [] link[1] = "websocket" -> EncodedLen(ps[1], TRUE) > (IF link[2] = 0 THEN DefaultReadLimit ELSE link[2])
      [] OTHER                 -> FALSE

\* The header of a frame of webtransport: the first byte, and the bytes of the length after it.
Header(len) == IF len < 126 THEN <<len, 0>> ELSE IF len < 65536 THEN <<126, len>> ELSE <<127, len>>

\* nextPacket: of the eight bytes of a long length it decodes the upper four.
ReadLen(header) ==
    CASE header[1] < 126 -> header[1]
      [] header[1] = 126 -> header[2]
      [] OTHER           -> (header[2] \div 2^16) \div 2^16

\* What nextPacket asks io.ReadFull for after the first byte.
Reads(header) ==
    {ReadLen(header), IF header[1] < 126 THEN 0 ELSE IF header[1] = 126 THEN 2 ELSE 8}

\* limitedReader reports a single read that is over the limit, and io.ReadFull ignores it
\* if that read completes what it was asked for.
MayRefuse(link, ps) ==
    link[1] = "webtransport" /\ \E n \in Reads(Header(EncodedLen(ps[1], TRUE))) : n > link[2] + 1

\* Whether a packet is read to its end.
ReadsWhole(link, p) ==
    link[1] = "webtransport" => ReadLen(Header(EncodedLen(p, TRUE))) = EncodedLen(p, TRUE)

Empty == <<"data", 0>>

\* What the rest of a frame may be taken for where its header was misread: the bytes are the
\* user's.  An attachment, or an event, which may have an attachment itself.
StrayPackets ==
    {[binary |-> TRUE, id |-> MaxEmits + 1, body |-> <<"stray", 0>>, size |-> 0]} \cup
    {[binary |-> FALSE, id |-> MaxEmits + 1, json |-> Of("array", <<>>), attachments |-> n,
      size |-> 0] : n \in 0..1}

-----------------------------------------------------------------------------
(* parser/json/decode.go and binary.go: the receiver.                       *)

None == [id |-> 0, json |-> Text(0), bufs |-> <<>>, remaining |-> 0]

Finish(x, r) == [x EXCEPT !.r = None, !.got = Append(@, [id |-> r.id, json |-> r.json, bufs |-> r.bufs])]

\* Parser.Add in onEIOPacket; an error is fatal for the connection.
Add(x, p, max) ==
    CASE ~x.open -> x
      [] x.open /\ x.r.id = 0 /\ p.binary -> [x EXCEPT !.open = FALSE]
      [] x.open /\ x.r.id = 0 /\ ~p.binary ->
             LET r == [id |-> p.id, json |-> p.json, bufs |-> <<>>, remaining |-> p.attachments]
             IN  IF max > 0 /\ p.attachments > max THEN [x EXCEPT !.r = r, !.open = FALSE]
                 ELSE IF p.attachments = 0 THEN Finish(x, r) ELSE [x EXCEPT !.r = r]
      [] OTHER ->
             LET r == [x.r EXCEPT !.bufs = Append(@, IF p.binary THEN p.body ELSE p.json.body), !.remaining = @ - 1]
             IN  IF r.remaining = 0 THEN Finish(x, r) ELSE [x EXCEPT !.r = r]

\* A long frame of webtransport is taken for an empty one.  There is no empty text packet, but
\* there is an empty binary one, and the bytes of the frame are still to be read.
ReadEmpty(p) ==
    IF ~p.binary THEN [rcv EXCEPT !.open = FALSE]
    ELSE [Add(rcv, [p EXCEPT !.body = Empty, !.size = 0], cfg.attachments[2])
             EXCEPT !.astray = Len(rcv.got) + 1]

\* A placeholder's attachment.
reconstructBinaryValue(w, bufs) == Node("data", bufs[w.body[2] + 1], <<>>)

\* Faulty variant: every placeholder is given the first attachment.
RECURSIVE reconstructMapFirst(_, _)
reconstructMapFirst(w, bufs) ==
    [w EXCEPT !.kids = [i \in DOMAIN w.kids |->
        CASE w.kids[i].kind = "hold"   -> Node("data", bufs[1], <<>>)
          [] w.kids[i].kind = "object" -> reconstructMapFirst(w.kids[i], bufs)
          [] OTHER                     -> w.kids[i]]]

\* Objects that are decoded into map[string]any: a placeholder is found as the entry of a
\* map, and arrays in a map are not looked into.
RECURSIVE reconstructMap(_, _)
reconstructMap(w, bufs) ==
    [w EXCEPT !.kids = [i \in DOMAIN w.kids |->
        CASE w.kids[i].kind = "hold"   -> reconstructBinaryValue(w.kids[i], bufs)
          [] w.kids[i].kind = "object" -> reconstructMap(w.kids[i], bufs)
          [] OTHER                     -> w.kids[i]]]

\* What is decoded into an interface: a placeholder is a map like any other.
RECURSIVE reconstructAny(_, _)
reconstructAny(w, bufs) ==
    CASE w.kind = "object" -> reconstructMap(w, bufs)
      [] w.kind = "array"  -> [w EXCEPT !.kids = [i \in DOMAIN w.kids |-> reconstructAny(w.kids[i], bufs)]]
      [] OTHER             -> w

\* What is decoded into the type that the sender's value v has.
RECURSIVE reconstructValue(_, _, _)
reconstructValue(v, w, bufs) ==
    CASE v.kind = "bin"  -> reconstructBinaryValue(w, bufs)
      [] v.kind = "list" -> reconstructAny(w, bufs)
      [] v.kind = "map"  -> reconstructMap(w, bufs)
      [] OTHER           -> [w EXCEPT !.kids = [i \in DOMAIN w.kids |-> reconstructValue(v.kids[i], w.kids[i], bufs)]]

\* The arguments of the handler for an event that was emitted with the values of `types`.
decode(types, typed, e) ==
    [i \in DOMAIN types |->
        IF e.bufs = <<>> THEN e.json.kids[i]
        ELSE IF typed THEN reconstructValue(types[i], e.json.kids[i], e.bufs)
        ELSE reconstructAny(e.json.kids[i], e.bufs)]

-----------------------------------------------------------------------------
Init ==
    /\ cfg \in [link : Links, attachments : Attachments, typed : BOOLEAN]
    /\ vals \in {<<v, o>> : v \in Values, o \in Others}
    /\ queue = <<>>
    /\ posts = <<>>
    /\ rcv = [r |-> None, got |-> <<>>, open |-> TRUE, astray |-> 0]
    /\ h = [emits |-> <<>>, sent |-> <<>>, first |-> vals]

\* Emit of one value, or of both: encode, and add the frames to the packet queue.
Emit(is) ==
    /\ Len(h.emits) < MaxEmits /\ rcv.open
    /\ LET id == Len(h.emits) + 1
           args == [i \in DOMAIN is |-> vals[is[i]]]
           x == Encode(id, args, cfg.attachments[1])
       IN  /\ queue' = queue \o x.frames
           /\ vals' = [j \in DOMAIN vals |->
                          IF \E i \in DOMAIN is : is[i] = j
                          THEN Shared(vals[j], x.args[CHOOSE i \in DOMAIN is : is[i] = j]) ELSE vals[j]]
           /\ h' = [h EXCEPT !.emits = Append(@, [is |-> is, err |-> x.err, data |-> Contents(Of("list", args))])]
    /\ UNCHANGED <<cfg, posts, rcv>>

\* The poller of the packet queue sends all there is.
Send ==
    /\ queue # <<>> /\ posts = <<>> /\ rcv.open
    /\ posts' = writeWritablePackets(queue, cfg.link[1], cfg.link[2])
    /\ queue' = <<>>
    /\ h' = [h EXCEPT !.sent = @ \o [i \in DOMAIN posts' |-> [ps |-> posts'[i], nth |-> i]]]
    /\ UNCHANGED <<cfg, vals, rcv>>

\* A post or a frame is read and handled.
Receive ==
    /\ posts # <<>> /\ rcv.open /\ rcv.astray = 0
    /\ LET ps == Head(posts)
       IN  \/ /\ Refuses(cfg.link, ps) \/ MayRefuse(cfg.link, ps)
              /\ rcv' = [rcv EXCEPT !.open = FALSE]
           \/ /\ ~Refuses(cfg.link, ps) /\ ReadsWhole(cfg.link, ps[1])
              /\ rcv' = FoldLeft(LAMBDA x, p : Add(x, p, cfg.attachments[2]), rcv, ps)
           \/ /\ ~ReadsWhole(cfg.link, ps[1])
              /\ rcv' = ReadEmpty(ps[1])
    /\ posts' = Tail(posts)
    /\ UNCHANGED <<cfg, vals, queue, h>>

\* What is in the stream after a frame that was taken for an empty one is read as frames: this
\* fails, or makes a packet of the rest and of j frames that were sent later, or ends where
\* the j-th begins, which is then read.
\* Bound: no more than MaxEmits events.
ReadAstray ==
    /\ rcv.open /\ rcv.astray # 0
    /\ \/ /\ rcv' = [rcv EXCEPT !.open = FALSE]
          /\ posts' = <<>>
       \/ \E j \in 0..Len(posts) :
             /\ Len(rcv.got) < MaxEmits
             /\ \E p \in StrayPackets \cup {q \in Range(IF j = 0 THEN <<>> ELSE posts[j]) :
                                                ReadsWhole(cfg.link, q)} :
                   rcv' = Add(rcv, p, cfg.attachments[2])
             /\ posts' = SubSeq(posts, j + 1, Len(posts))
    /\ UNCHANGED <<cfg, vals, queue, h>>

Next == (\E is \in {<<1>>, <<2>>, <<1, 2>>} : Emit(is)) \/ Send \/ Receive \/ ReadAstray

Spec == Init /\ [][Next]_vars

-----------------------------------------------------------------------------
(* Properties.                                                              *)

\* The emits that did not fail, in their order.
Succeeded == SelectSeq([k \in DOMAIN h.emits |-> k], LAMBDA k : h.emits[k].err = "ok")

\* The Binary values of the i-th event to arrive, as they were emitted.
Data(i) == h.emits[Succeeded[i]].data

\* The n-th of them is too long for a frame of webtransport, the first that is.
IsFirstLong(i, n) ==
    /\ n \in DOMAIN Data(i) /\ BodyLen(Data(i)[n]) > 65535
    /\ \A m \in 1..(n - 1) : BodyLen(Data(i)[m]) <= 65535

\* Events arrive once and in the order of the emits, each with the contents of its own
\* Binary values in their order, however the frames were grouped into posts and batches
\* (Encode, writeWritablePackets and Parser.Add together).  When everything sent has been
\* read, the parser does not wait for an attachment and no event is missing.
\* All this ends with the first Binary of more than 65535 bytes on webtransport, and with
\* nothing else: its event has an empty Binary in its place, after those that precede it,
\* and the connection may stay open (nextPacket, webtransport/packet.go:88).
ArrivesInOrder ==
    LET n == rcv.astray
        inStep == IF n = 0 THEN DOMAIN rcv.got ELSE 1..(n - 1)
    IN  /\ \A i \in inStep :
              /\ i <= Len(Succeeded) /\ rcv.got[i].id = Succeeded[i]
              /\ rcv.got[i].bufs = Data(i)
        /\ n # 0 => /\ cfg.link[1] = "webtransport" /\ n <= Len(Succeeded)
                    /\ \E m \in 1..Len(Data(n)) :
                          /\ IsFirstLong(n, m)
                          /\ n \in DOMAIN rcv.got =>
                                /\ rcv.got[n].id = Succeeded[n]
                                /\ SubSeq(rcv.got[n].bufs, 1, m) = Append(SubSeq(Data(n), 1, m - 1), Empty)
        /\ n = 0 /\ rcv.open /\ queue = <<>> /\ posts = <<>> =>
              rcv.r = None /\ Len(rcv.got) = Len(Succeeded)

\* Value i was an argument of an emit before the k-th.
Repeated(i, k) == \E j \in 1..(k - 1) : \E m \in DOMAIN h.emits[j].is : h.emits[j].is[m] = i

\* The value, its Binary values as what they hold.
RECURSIVE Restored(_)
Restored(v) ==
    IF v.kind = "bin" THEN Node("data", v.body, <<>>)
    ELSE IF v.kids = <<>> THEN Marshal(v)
    ELSE [Marshal(v) EXCEPT !.kids = [i \in DOMAIN v.kids |-> Restored(v.kids[i])]]

\* Binary values that the receiver leaves as placeholders: those that are decoded into an
\* interface that is no entry of a map, and those in an array in a map.
RECURSIVE Left(_, _)
Left(v, into) ==
    CASE v.kind = "bin"                -> into = "interface"
      [] v.kind \in {"list", "slice"}  ->
             \/ into = "map" /\ hasBinary(v)
             \/ \E i \in DOMAIN v.kids :
                   Left(v.kids[i], IF into = "type" /\ v.kind = "slice" THEN "type" ELSE "interface")
      [] OTHER                         ->
             \E i \in DOMAIN v.kids : Left(v.kids[i], IF into = "type" /\ v.kind # "map" THEN "type" ELSE "map")

\* Binary values that Encode has overwritten with a placeholder where they were.
Overwritten(v) == v.kind \in {"slice", "ptr"} \/ (v.kind = "list" /\ \E i \in DOMAIN v.kids : v.kids[i].kind = "struct")

\* A handler is given what was emitted, unless a Binary is where the receiver does not look
\* for it, or the value was overwritten by an earlier Emit of it (deconstruct and reconstruct
\* of parser/json/binary.go).  A Binary that is too long for a frame of webtransport is
\* empty, and what follows it may be anything.
HandlerGets ==
    \A n \in DOMAIN rcv.got : rcv.astray = 0 \/ n <= rcv.astray =>
        LET e == rcv.got[n]
            is == h.emits[e.id].is
            types == [i \in DOMAIN is |-> h.first[is[i]]]
            args == decode(types, cfg.typed, e)
            long(i) == n = rcv.astray /\ types[i].kind = "bin" /\ BodyLen(types[i].body) > 65535
        IN  \A i \in DOMAIN is :
                \/ args[i] = Restored(types[i])
                \/ Left(types[i], IF cfg.typed THEN "type" ELSE "interface")
                \/ Overwritten(types[i]) /\ Repeated(is[i], e.id)
                \/ long(i) /\ args[i] = Node("data", Empty, <<>>)
                \/ \E j \in 1..(i - 1) : long(j)

\* Some value below v, v included, is of the kind, and below one of the kind `under`.
RECURSIVE HasKind(_, _)
HasKind(v, kind) == v.kind = kind \/ \E i \in DOMAIN v.kids : HasKind(v.kids[i], kind)

RECURSIVE Below(_, _, _)
Below(v, under, kind) ==
    \E i \in DOMAIN v.kids : (v.kind = under /\ v.kids[i].kind = kind) \/ Below(v.kids[i], under, kind)

\* Emit fails only for a typed map, a struct in a map, plain bytes beside a Binary, too many
\* attachments, or a list or map with a Binary that was emitted before: Encode has then left
\* a pointer where the Binary was.
EmitSucceeds ==
    \A k \in DOMAIN h.emits :
        LET is == h.emits[k].is
            args == [i \in DOMAIN is |-> h.first[is[i]]]
            some(P(_)) == \E i \in DOMAIN is : P(args[i])
        IN  \/ h.emits[k].err = "ok"
            \/ some(LAMBDA v : HasKind(v, "bmap"))
            \/ some(LAMBDA v : Below(v, "map", "struct"))
            \/ some(LAMBDA v : HasKind(v, "bytes")) /\ some(hasBinary)
            \/ cfg.attachments[1] \in 1..(Len(h.emits[k].data) - 1)
            \/ \E i \in DOMAIN is : /\ Repeated(is[i], k)
                                    /\ Below(args[i], "list", "bin") \/ Below(args[i], "map", "bin")

\* What is sent closes the connection only if the receiver allows fewer attachments, or a
\* packet by itself is over the receiver's limit or over 65535 bytes on webtransport, or a
\* post was split off an earlier one or has an empty packet, which are not counted right.
ConnectionKept ==
    \/ rcv.open
    \/ \E k \in DOMAIN h.emits : cfg.attachments[2] \in 1..(Len(h.emits[k].data) - 1)
    \/ \E post \in Range(h.sent) :
          LET ps == post.ps
              len == EncodedLen(ps[1], TRUE)
          IN  CASE cfg.link[1] = "polling"   ->
                       /\ cfg.link[2] > 0 /\ EncodedPayloadsLen(ps) > cfg.link[2]
                       /\ \/ Len(ps) = 1
                          \/ post.nth > 1 /\ EncodedPayloadsLen(Tail(ps)) <= cfg.link[2]
                          \/ \E i \in DOMAIN ps : ps[i].size = 0
                [] cfg.link[1] = "websocket" -> len > (IF cfg.link[2] = 0 THEN DefaultReadLimit ELSE cfg.link[2])
                [] OTHER                     -> len > 65535 \/ len > cfg.link[2] + 1
=============================================================================
