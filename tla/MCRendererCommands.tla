------------------------- MODULE MCRendererCommands -------------------------
(* A model checking instance of RendererCommands. *)
EXTENDS RendererCommands, TLC

CONSTANTS a, b, s, t

MCSong == [i \in Items |-> IF i = a THEN s ELSE t]

\* No queue yet, or the session was cleared; and a queue of two songs.
MCQueues == {[major |-> 1, queued |-> {}, auto |-> {}],
             [major |-> 2, queued |-> {a, b}, auto |-> {}]}

\* Targets with and without a transport, and transports alone, for whatever
\* queue is here or for the second one.
MCSent ==
    {[NoCommand EXCEPT !.track = a],
     [NoCommand EXCEPT !.track = b, !.mode = "play", !.major = 2],
     [NoCommand EXCEPT !.track = b, !.mode = "pause"],
     [NoCommand EXCEPT !.mode = "play"],
     [NoCommand EXCEPT !.mode = "pause", !.major = 2],
     [NoCommand EXCEPT !.mode = "stop", !.major = 2]}

\* The same with a transport that names a position.
MCSeeks == MCSent \cup {[NoCommand EXCEPT !.mode = "play", !.pos = TRUE]}
=============================================================================
