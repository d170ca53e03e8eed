--------------------------- MODULE ClipboardFilter ---------------------------
(***************************************************************************)
(* The RFB filters between a viewer (client) and a sandbox's VNC server.   *)
(*                                                                         *)
(* A stream is a sequence of units: RFB messages and, after an update      *)
(* message, its rectangles.  A unit has its true size in bytes, and arrives*)
(* cut at any byte; the filter finds boundaries by the lengths it computes *)
(* itself.  n is the count in the unit's header (of encodings, characters, *)
(* rectangles, pixels), bpp the bytes per pixel it sets or is drawn with,  *)
(* after the number of client units the server waits for before it sends.  *)
(* feed() runs to its end before anything else does: busy names the        *)
(* direction whose feed() is running.                                      *)
(***************************************************************************)
EXTENDS Integers, SequencesExt

CONSTANT ChunkSizes     \* sizes of the pieces a stream arrives in

ASSUME ChunkAssumption == ChunkSizes \subseteq Nat \ {0}

VARIABLES
    mode,           \* the session's clipboard_mode, "unset" before a viewer connects
    wire,           \* what the two ends send
    conn,           \* a filter: bytes fed and consumed, units taken and passed on
    bpp,            \* the tracker both filters share, 0 for None
    busy,           \* the direction whose feed() is running
    torn            \* an RfbProtocolError closed the connection

filterVars == <<mode, wire, conn, bpp, busy, torn>>

Directions == {"client", "server"}

NoDirection == "neither"

\* A count is below zero in the headers of the extended clipboard.
Units == [kind : STRING, n : Int, bpp : Nat, size : Nat, after : Nat]

Opened == [fed |-> 0, pos |-> 0, taken |-> 0, rects |-> 0, out |-> <<>>]

\* Bytes of the first k units of a stream.
Bytes(s, k) ==
    LET sum[i \in 0..Len(s)] == IF i = 0 THEN 0 ELSE sum[i - 1] + s[i].size
    IN  sum[k]

Offset(d, k) == Bytes(wire[d], k)

\* Units that have arrived to their last byte.
Arrived(d) == CHOOSE k \in 0..Len(wire[d]) :
                 /\ Offset(d, k) <= conn[d].fed
                 /\ k < Len(wire[d]) => Offset(d, k + 1) > conn[d].fed

Magnitude(n) == IF n < 0 THEN -n ELSE n

-----------------------------------------------------------------------------
\* enforcement_for_mode.
Blocks(d) ==
    IF d = "client" THEN mode \notin {"LOCAL_TO_REMOTE", "BIDIRECTIONAL_TEXT"}
    ELSE mode \notin {"REMOTE_TO_LOCAL", "BIDIRECTIONAL_TEXT"}

\* restrict_server_encodings.
Restricts == Blocks("server")

\* The streams that are looked at; the others pass as they come.
Parses(d) == Restricts \/ (d = "client" /\ Blocks("client"))

\* The bytes before the end of which a message's length is not known, and
\* what each counted item adds.
ClientFrames ==
    [pixels |-> <<20, 0>>, encodings |-> <<4, 4>>, request |-> <<10, 0>>, key |-> <<8, 0>>,
     pointer |-> <<6, 0>>, cut |-> <<8, 1>>, continuous |-> <<10, 0>>, fence |-> <<9, 1>>,
     xvp |-> <<4, 0>>, desktop |-> <<8, 16>>, qemu |-> <<12, 0>>]

ServerFrames ==
    [update |-> <<4, 0>>, colours |-> <<6, 6>>, bell |-> <<1, 0>>, cut |-> <<8, 1>>,
     ended |-> <<1, 0>>, fence |-> <<9, 1>>, xvp |-> <<4, 0>>]

MessageFrames(d) == IF d = "client" THEN ClientFrames ELSE ServerFrames

RectFrames(pixel) == [copy |-> <<16, 0>>, raw |-> <<12, pixel>>]

Frames(d) == IF conn[d].rects > 0 THEN RectFrames(bpp) ELSE MessageFrames(d)

Length(frame, n) == frame[1] + frame[2] * Magnitude(n)

\* The bytes of a unit that show it is not one the filter knows: its type, a
\* QEMU message's sub-type, a rectangle's header.
Unknown(d, u) ==
    LET have == conn[d].fed - conn[d].pos
    IN  IF conn[d].rects > 0
        THEN have >= 12 /\ (u.kind \notin DOMAIN RectFrames(bpp) \/ (u.kind = "raw" /\ bpp = 0))
        ELSE \/ u.kind \notin DOMAIN MessageFrames(d)
             \/ u.kind = "qemu" /\ u.n # 0 /\ have >= 2

\* Variant: a unit waits for the first byte of the next one.
CompleteLate(d, u) ==
    /\ u.kind \in DOMAIN Frames(d)
    /\ conn[d].fed - conn[d].pos > Length(Frames(d)[u.kind], u.n)

\* The header is there, and what it counts.
Complete(d, u) ==
    /\ u.kind \in DOMAIN Frames(d)
    /\ conn[d].fed - conn[d].pos >= Length(Frames(d)[u.kind], u.n)

\* What is passed on for a unit.
Passed(d, u) ==
    CASE u.kind = "cut" /\ Blocks(d)          -> <<>>
      [] u.kind = "encodings" /\ d = "client" /\ Restricts
                                              -> <<[u EXCEPT !.kind = "forced"]>>
      [] OTHER                                -> <<u>>

-----------------------------------------------------------------------------
\* Streams of RFB, whatever messages they have.

\* Rectangles still to come after the first k units of a stream.
Owed(s, k) ==
    LET due[i \in 0..Len(s)] ==
            IF i = 0 THEN 0
            ELSE IF s[i].kind = "update" THEN s[i].n
            ELSE IF due[i - 1] > 0 THEN due[i - 1] - 1 ELSE 0
    IN  due[k]

\* A viewer sets its pixel format before it requests an update, and keeps it;
\* the server draws a rectangle in the last one that was set.
Drawn(client, u) ==
    \A j \in 1..Len(client) :
        client[j].kind = "pixels" =>
            /\ j <= u.after
            /\ (\A k \in (j + 1)..Len(client) : client[k].kind # "pixels") =>
                  client[j].bpp = u.bpp

\* Units that RFB and the filter both know have the size RFB gives them, all
\* others that of the bytes that show them to be unknown, at least.
Framed(w) ==
    \A d \in Directions : \A i \in 1..Len(w[d]) :
        LET u == w[d][i]
            rect == Owed(w[d], i - 1) > 0
            frames == IF rect THEN RectFrames(u.bpp) ELSE MessageFrames(d)
            odd == u.kind = "qemu" /\ u.n # 0
        IN  /\ u.size >= IF rect THEN 12 ELSE IF odd THEN 2 ELSE 1
            /\ u.kind \in DOMAIN frames /\ ~odd => u.size = Length(frames[u.kind], u.n)
            /\ rect /\ u.kind = "raw" => Drawn(w["client"], u)

-----------------------------------------------------------------------------
\* What the peer of direction d may have sent so far.
Sent(d) ==
    LET ready == {k \in 0..Len(wire[d]) :
                     \A i \in 1..k : d = "server" => conn["client"].taken >= wire[d][i].after}
    IN  Offset(d, CHOOSE k \in ready : \A j \in ready : j <= k)

\* A piece of the stream arrives and feed() begins.
Feed(d, n) ==
    /\ mode # "unset"
    /\ busy = NoDirection
    /\ ~torn
    /\ conn[d].fed + n <= Sent(d)
    /\ busy' = d
    /\ conn' = [conn EXCEPT ![d].fed = @ + n]
    /\ UNCHANGED <<mode, wire, bpp, torn>>

Coming(d) == wire[d][conn[d].taken + 1]

HasBytes(d) == conn[d].fed > conn[d].pos /\ conn[d].taken < Len(wire[d])

Track(d, u) == bpp' = IF d = "client" /\ u.kind = "pixels" THEN u.bpp ELSE bpp

\* The filter when it has taken a unit off the buffer.
Consumed(d, u) ==
    [conn[d] EXCEPT !.pos = @ + Length(Frames(d)[u.kind], u.n),
                    !.taken = @ + 1,
                    !.rects = IF u.kind = "update" THEN u.n ELSE IF @ > 0 THEN @ - 1 ELSE 0,
                    !.out = @ \o Passed(d, u)]

\* One turn of the loop takes a unit.
TakeOne(d) ==
    LET u == Coming(d) IN
    /\ busy = d
    /\ Parses(d)
    /\ HasBytes(d)
    /\ Complete(d, u)
    /\ ~Unknown(d, u)
    /\ conn' = [conn EXCEPT ![d] = Consumed(d, u)]
    /\ Track(d, u)
    /\ UNCHANGED <<mode, wire, busy, torn>>

\* The loop ends and what it took is sent; bytes of an unfinished unit wait
\* for the next piece.
FeedEnds(d) ==
    /\ busy = d
    /\ Parses(d)
    /\ HasBytes(d) => ~Complete(d, Coming(d)) /\ ~Unknown(d, Coming(d))
    /\ busy' = NoDirection
    /\ UNCHANGED <<mode, wire, conn, bpp, torn>>

\* An error: the pump stops and the connection is closed.
ProtocolError(d) ==
    /\ busy = d
    /\ Parses(d)
    /\ HasBytes(d)
    /\ Unknown(d, Coming(d))
    /\ torn' = TRUE
    /\ busy' = NoDirection
    /\ UNCHANGED <<mode, wire, conn, bpp>>

\* Nothing to filter: the piece goes on as it came.
PassThrough(d) ==
    /\ busy = d
    /\ ~Parses(d)
    /\ conn' = [conn EXCEPT ![d].pos = conn[d].fed,
                            ![d].taken = Arrived(d),
                            ![d].out = SubSeq(wire[d], 1, Arrived(d))]
    /\ busy' = NoDirection
    /\ UNCHANGED <<mode, wire, bpp, torn>>

FilterStep ==
    \E d \in Directions :
        \/ \E n \in ChunkSizes : Feed(d, n)
        \/ TakeOne(d) \/ FeedEnds(d) \/ ProtocolError(d) \/ PassThrough(d)

-----------------------------------------------------------------------------
\* What should have been passed on of the first k units.
Joined(q, k) ==
    LET out[i \in 0..Len(q)] == IF i = 0 THEN <<>> ELSE out[i - 1] \o q[i]
    IN  out[k]

Expected(d, k) == Joined([i \in 1..Len(wire[d]) |-> Passed(d, wire[d][i])], k)

\* However the stream was cut, between two feeds exactly the units that have
\* arrived to their last byte were taken and passed on, less what the mode
\* blocks: no unit waits for bytes of the next and none is lost or doubled.
\* And the filter always stands at the boundary of a unit: the lengths it
\* computes, those of rectangles from the pixel format the other filter saw,
\* are the units' own.
FilterExact ==
    \A d \in Directions :
        /\ Parses(d) => conn[d].pos = Offset(d, conn[d].taken)
        /\ (busy = NoDirection /\ ~torn) =>
              /\ conn[d].taken = Arrived(d)
              /\ conn[d].out = Expected(d, conn[d].taken)
=============================================================================
