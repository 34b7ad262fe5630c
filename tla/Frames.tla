------------------------------- MODULE Frames ------------------------------
(***************************************************************************)
(* How worker/container-manager.js reads the output of an exec: text, or   *)
(* frames of a header and a payload (Docker frames the output of an exec   *)
(* without a TTY).  A header is HEADER bytes, 8 in the code: the stream    *)
(* type, zeros, and the size of the payload, one byte here.                *)
(***************************************************************************)
EXTENDS Integers, Sequences, FiniteSets, SequencesExt

CONSTANTS
    HEADER,     \* bytes of a header
    MAX_FRAME   \* 16 MB: no header declares more

ASSUME HeaderAssumption == HEADER \in Nat \ {0, 1} /\ MAX_FRAME \in Nat

NUL == 0
LF == 10
CR == 13
StreamTypes == {1, 2}   \* stdout, stderr

\* The bytes at some places of a text.
Kept(text, places) ==
    FlattenSeq([i \in 1..Len(text) |-> IF i \in places THEN <<text[i]>> ELSE <<>>])

Without(text, byte) == Kept(text, {i \in 1..Len(text) : text[i] # byte})

\* Drops the CR of every CR LF, then every NUL.
normalizeTtyOutput(text) ==
    LET broken == {i \in 1..Len(text) - 1 : text[i] = CR /\ text[i + 1] = LF}
    IN  Without(Kept(text, 1..Len(text) \ broken), NUL)

\* The frame that begins after the first o bytes of the buffer.
Size(buffer, o) == buffer[o + HEADER]
FrameEnd(buffer, o) == o + HEADER + Size(buffer, o)
FrameAt(buffer, o) ==
    [type |-> buffer[o + 1],
     payload |-> SubSeq(buffer, o + HEADER + 1, FrameEnd(buffer, o))]
Complete(buffer, types, o) ==
    /\ o + HEADER <= Len(buffer)
    /\ buffer[o + 1] \in types
    /\ FrameEnd(buffer, o) <= Len(buffer)

\* The complete frames from the start of the buffer, as long as their types are
\* among the given ones.
FramesOf(buffer, types) ==
    LET from[o \in 0..Len(buffer)] ==
          IF Complete(buffer, types, o)
            THEN <<FrameAt(buffer, o)>> \o from[FrameEnd(buffer, o)]
            ELSE <<>>
    IN  from[0]

Joined(frames, types) ==
    FlattenSeq([i \in 1..Len(frames) |->
                  IF frames[i].type \in types THEN frames[i].payload ELSE <<>>])

\* What Docker sends for frames, and what is to be read from it.
Header(frame) ==
    [i \in 1..HEADER |-> IF i = 1 THEN frame.type
                         ELSE IF i = HEADER THEN Len(frame.payload) ELSE NUL]
Framed(frames) ==
    FlattenSeq([i \in 1..Len(frames) |-> Header(frames[i]) \o frames[i].payload])
Printed(frames) ==
    [bytes |-> Framed(frames),
     stdout |-> Without(Joined(frames, {1}), NUL),
     stderr |-> Without(Joined(frames, {2}), NUL)]

\* What is kept of the output in the end.  Without one complete frame it is all
\* taken for text.
\* (Faulty variant: the frames are read only as far as they are of stdout.)
demultiplexLogs_StdoutOnly(buffer) ==
    LET frames == FramesOf(buffer, {1})
    IN  IF frames = <<>>
          THEN [stdout |-> Without(buffer, NUL), stderr |-> <<>>]
          ELSE [stdout |-> Without(Joined(frames, {1}), NUL), stderr |-> <<>>]

demultiplexLogs(buffer) ==
    LET frames == FramesOf(buffer, StreamTypes)
    IN  IF frames = <<>>
          THEN [stdout |-> Without(buffer, NUL), stderr |-> <<>>]
          ELSE [stdout |-> Without(Joined(frames, {1}), NUL),
                stderr |-> Without(Joined(frames, {2}), NUL)]

\* Whether a stream that begins like this is framed.
Multiplexed(start) ==
    /\ start[1] \in StreamTypes
    /\ \A i \in 2..HEADER - 1 : start[i] = 0
    /\ Size(start, 0) <= MAX_FRAME

\* The live output: what is held back, whether the stream is framed (decided
\* once, from its first bytes), and the text published so far.
Silent == [pending |-> <<>>, framed |-> "unknown", text |-> <<>>]

\* (Faulty variant: text is published chunk by chunk, without what was held
\* back until the decision.)
publishFrames_ChunkOnly(live, data) ==
    LET pending == live.pending \o data
        framed == IF live.framed = "unknown" /\ Len(pending) >= HEADER
                    THEN (IF Multiplexed(pending) THEN "yes" ELSE "no")
                    ELSE live.framed
    IN  IF framed = "no"
          THEN [pending |-> <<>>, framed |-> framed,
                text |-> live.text \o normalizeTtyOutput(data)]
          ELSE [live EXCEPT !.pending = pending, !.framed = framed]

publishFrames(live, data) ==
    LET pending == live.pending \o data
        framed == IF live.framed = "unknown" /\ Len(pending) >= HEADER
                    THEN (IF Multiplexed(pending) THEN "yes" ELSE "no")
                    ELSE live.framed
        frames == FramesOf(pending, Nat)
        used == FoldLeft(LAMBDA n, f : n + HEADER + Len(f.payload), 0, frames)
    IN  CASE framed = "unknown" -> [live EXCEPT !.pending = pending]
          [] framed = "no" ->
               [pending |-> <<>>, framed |-> framed,
                text |-> live.text \o normalizeTtyOutput(pending)]
          [] framed = "yes" ->
               [pending |-> SubSeq(pending, used + 1, Len(pending)), framed |-> framed,
                text |-> live.text \o FlattenSeq([i \in 1..Len(frames) |->
                                        normalizeTtyOutput(frames[i].payload)])]

=============================================================================
