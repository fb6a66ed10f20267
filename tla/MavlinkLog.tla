------------------------------ MODULE MavlinkLog ------------------------------
(***************************************************************************)
(* One MAVLink parser and its log: MavlinkParser and log_mavlink of        *)
(* src/src/lib.rs.  A loop of fc or gc hands it the bytes as they come,    *)
(* from the serial port, the link or the socket of the ground station, cut *)
(* anywhere; after each call the frames parsed are written to the log.     *)
(*                                                                         *)
(* The bytes sent are pieces, each named by its place in the order sent; a *)
(* message is a run of pieces, the first holding the magic byte and the    *)
(* length.  Any other piece, of a message or of none, may look like the    *)
(* start of a message, of whatever length.  Reading a message off the      *)
(* bytes is external (the mavlink crate), modelled from the test           *)
(* parse_mavlink, which begins behind the start of a message and cuts      *)
(* another in two: bytes that cannot begin a message are skipped, and what *)
(* looks like the start of one that is not complete is left, with          *)
(* everything behind it, for the next call.  A checksum that is right by   *)
(* accident is not modelled.                                               *)
(***************************************************************************)
EXTENDS Integers, Sequences, Functions

CONSTANTS
    Msg,          \* the messages sent, numbered in that order
    First, Final, \* the places of the first and last piece of each
    Length,       \* how many pieces are sent, some of no message
    Claim,        \* how long a message each piece seems to begin, 0 for none
    Bad,          \* messages that can be read but not parsed
    MaxChunk      \* pieces that come at once, at most

ASSUME ConstantsAssumption ==
    /\ Msg \subseteq Nat
    /\ Length \in Nat
    /\ First \in [Msg -> 1..Length]
    /\ Final \in [Msg -> 1..Length]
    /\ \A m \in Msg : First[m] <= Final[m]
    /\ \A m, n \in Msg : m < n => Final[m] < First[n]
    /\ Claim \in [1..Length -> Nat]
    /\ \A m \in Msg : Claim[First[m]] = Final[m] - First[m] + 1
    /\ Bad \subseteq Msg
    /\ MaxChunk \in Nat \ {0}

Place == 1..Length
Pad == 0

VARIABLES
    padded,  \* the bytes are those of the socket of the ground station
    next,    \* the place of the piece that comes next
    lost,    \* places whose piece was lost on the way or with the process
    reader,  \* the bytes the parser has not used yet
    phase,   \* where the loop that owns the parser is
    frames,  \* the messages parsed and not yet written
    log,     \* the messages in the log
    dropped, \* messages parsed and never written; history
    cut      \* messages that came in two datagrams; history

vars == <<padded, next, lost, reader, phase, frames, log, dropped, cut>>

TypeOK ==
    /\ padded \in BOOLEAN
    /\ next \in 1..(Length + 1)
    /\ lost \subseteq 1..(next - 1)
    /\ reader \in Seq({Pad} \cup 1..(next - 1))
    /\ phase \in {"idle", "parse", "log"}
    /\ frames \in Seq(Msg \ Bad)
    /\ log \in Seq(Msg \ Bad)
    /\ dropped \subseteq Msg \ Bad
    /\ cut \subseteq Msg

Init ==
    /\ padded \in BOOLEAN
    /\ next = 1
    /\ lost = {}
    /\ reader = <<>>
    /\ phase = "idle"
    /\ frames = <<>>
    /\ log = <<>>
    /\ dropped = {}
    /\ cut = {}

-----------------------------------------------------------------------------
(* read_any_raw_message                                                      *)

Ending(i, m) == i + Final[m] - First[m]

Claimed(b) == IF b = Pad THEN 0 ELSE Claim[b]

Unfinished(s, i) == Claimed(s[i]) > 0 /\ i + Claimed(s[i]) - 1 > Len(s)

Intact(s, i, m) ==
    /\ Ending(i, m) <= Len(s)
    /\ \A j \in i..Ending(i, m) : s[j] = First[m] + j - i

(* What looks like a message and is not, its checksum being wrong, is       *)
(* skipped by one byte only, so that a message behind its start is found.   *)

Stops ==
    {i \in 1..Len(reader) :
        Unfinished(reader, i) \/ \E m \in Msg : Intact(reader, i, m)}

FirstStop(i) == i \in Stops /\ \A j \in Stops : i <= j

UseUpTo(i) == reader' = SubSeq(reader, i + 1, Len(reader))

-----------------------------------------------------------------------------
(* MavlinkParser::parse puts the new bytes in the reader and loops.  The    *)
(* socket loop of gc hands it the type byte in front of a datagram too.     *)

Chunk(k) == [i \in 1..k |-> next + i - 1]
Handed(k) == IF padded THEN <<Pad>> \o Chunk(k) ELSE Chunk(k)

OnlyHanded(k) == Handed(k)
Buffered(k) == reader \o Handed(k)

MidMessage == {m \in Msg : First[m] < next /\ next <= Final[m]}

Deliver(k) ==
    /\ phase = "idle"
    /\ phase' = "parse"
    /\ reader' = Buffered(k)
    /\ next' = next + k
    /\ cut' = IF padded THEN cut \cup MidMessage ELSE cut
    /\ UNCHANGED <<padded, lost, frames, log, dropped>>

(* The loop goes on after a message that parses, and ends at one that does  *)
(* not, which is used up; whatever follows it waits for the next call.      *)

EndsAtEof(m) == FALSE
EndsAlways(m) == TRUE
EndsCall(m) == m \in Bad

ReadMessage(i, m) ==
    /\ phase = "parse"
    /\ FirstStop(i)
    /\ Intact(reader, i, m)
    /\ UseUpTo(Ending(i, m))
    /\ IF EndsCall(m)
       THEN phase' = "log" /\ UNCHANGED frames
       ELSE frames' = Append(frames, m) /\ UNCHANGED phase
    /\ UNCHANGED <<padded, next, lost, log, dropped, cut>>

(* It ends also when no message can be read: everything up to one that is   *)
(* not complete, or seems so, is skipped.                                   *)

ReadNothing ==
    /\ phase = "parse"
    /\ \/ Stops = {} /\ reader' = <<>>
       \/ \E i \in Stops :
             FirstStop(i) /\ Unfinished(reader, i) /\ UseUpTo(i - 1)
    /\ phase' = "log"
    /\ UNCHANGED <<padded, next, lost, frames, log, dropped, cut>>

-----------------------------------------------------------------------------
(* log_mavlink writes the frames one by one; a write that fails ends it,    *)
(* and the frames left are dropped with the Drain.                          *)

StillBuffered == frames
Drained == Tail(frames)

WriteFrame ==
    /\ phase = "log"
    /\ frames # <<>>
    /\ log' = Append(log, Head(frames))
    /\ frames' = Drained
    /\ UNCHANGED <<padded, next, lost, reader, phase, dropped, cut>>

EndLog ==
    /\ phase = "log"
    /\ dropped' = dropped \cup Range(frames)
    /\ frames' = <<>>
    /\ phase' = "idle"
    /\ UNCHANGED <<padded, next, lost, reader, log, cut>>

-----------------------------------------------------------------------------
(* A packet of the link is lost, or comes while the link is not             *)
(* authenticated and is dropped; a datagram likewise.                       *)

Lose(k) ==
    /\ lost' = lost \cup (next .. (next + k - 1))
    /\ next' = next + k
    /\ UNCHANGED <<padded, reader, phase, frames, log, dropped, cut>>

(* The parser, and what it has not used, goes with the process; the log     *)
(* file stays.                                                              *)

Restart ==
    /\ lost' = lost \cup (Range(reader) \ {Pad})
    /\ reader' = <<>>
    /\ dropped' = dropped \cup Range(frames)
    /\ frames' = <<>>
    /\ phase' = "idle"
    /\ UNCHANGED <<padded, next, log, cut>>

Next ==
    \/ \E k \in 1..MaxChunk : next + k - 1 <= Length /\ (Deliver(k) \/ Lose(k))
    \/ \E i \in Stops, m \in Msg : ReadMessage(i, m)
    \/ ReadNothing \/ WriteFrame \/ EndLog \/ Restart

Spec == Init /\ [][Next]_vars

-----------------------------------------------------------------------------
(* Safety.                                                                   *)

Pieces(m) == First[m]..Final[m]

Received(m) == \A p \in Pieces(m) : p < next /\ p \notin lost

Waiting == {m \in Msg : \E i \in 1..Len(reader) : Intact(reader, i, m)}

(* However the bytes are cut into calls, and whatever was lost before, a    *)
(* message that was received whole and can be parsed is logged, or is on    *)
(* its way there, or fell to a failed write or the end of the process:      *)
(* unless it came in two datagrams, where the type byte of the second is    *)
(* taken for a part of it.                                                  *)

NoMessageMissed ==
    \A m \in Msg \ Bad :
        Received(m) =>
            m \in Range(log) \cup Range(frames) \cup dropped \cup Waiting \cup cut

(* The log holds messages in the order sent, each once and only ones that   *)
(* were received whole, through restarts and failed writes.                 *)

LoggedInOrder ==
    /\ \A i, j \in 1..Len(log) : i < j => log[i] < log[j]
    /\ \A i \in 1..Len(log) : Received(log[i])

(* As long as every byte is received, every message parses and nothing      *)
(* outside the messages looks like the start of one, a message is parsed by *)
(* the call that completes it, whatever the bytes within messages look      *)
(* like.  Otherwise it may have to wait for a later call: behind a message  *)
(* that does not parse, or behind a start whose end does not come.          *)

NoFalseStart ==
    \A p \in Place :
        p < next /\ Claim[p] # 0 => \E m \in Msg : p \in Pieces(m)

PromptOnCleanLine ==
    /\ lost = {} /\ cut = {} /\ NoFalseStart
    /\ ~(\E m \in Bad : Received(m))
    /\ phase # "parse"
    => Waiting = {}

=============================================================================
