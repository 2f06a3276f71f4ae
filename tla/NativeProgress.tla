--------------------------- MODULE NativeProgress ---------------------------
(* learning/native_progress.py: hints of a worker about its own progress, over
   a datagram socket that may drop any of them.  A hint is its sequence number
   and the counters that may not regress: requests sent and bytes retained of
   the request.  The writer and the channel are records of the process they
   belong to. *)
EXTENDS Integers, Sequences

CONSTANT MaxPackets
ASSUME PacketsAssumption == MaxPackets \in Nat \ {0}

NoHint == [sequence |-> 0, posts |-> 0, bytes |-> 0]

(* A channel without a socket stays unavailable. *)
NoChannel == [open |-> FALSE, sent |-> 0, queue |-> <<>>, received |-> 0,
              last |-> NoHint, status |-> "unavailable"]
OpenChannel == [NoChannel EXCEPT !.open = TRUE]

(* Faulty variant: a hint that could not be sent does not use up its number,
   and the budget is one too many. *)
EmitAgain(channel, posts, bytes) ==
  IF ~channel.open \/ channel.sent > MaxPackets THEN {channel}
  ELSE LET hint == [sequence |-> channel.sent + 1, posts |-> posts, bytes |-> bytes]
       IN {channel, [channel EXCEPT !.sent = @ + 1, !.queue = Append(@, hint)]}

(* ProgressWriter.emit: never blocks, never fails; what may become of the
   channel.  The number is used up before the send that may drop the hint. *)
Emit(channel, posts, bytes) ==
  IF ~channel.open \/ channel.sent >= MaxPackets THEN {channel}
  ELSE LET numbered == [channel EXCEPT !.sent = @ + 1]
           hint == [sequence |-> channel.sent + 1, posts |-> posts, bytes |-> bytes]
       IN {numbered, [numbered EXCEPT !.queue = Append(@, hint)]}

(* parse_progress against the previous hint. *)
Advances(hint, previous) ==
  /\ hint.sequence \in 1 .. MaxPackets
  /\ hint.posts <= 1
  /\ hint.sequence > previous.sequence
  /\ hint.posts >= previous.posts
  /\ hint.bytes >= previous.bytes

(* ProgressChannel._receive: one datagram.  A rejection is final. *)
Readable(channel) == channel.queue # <<>> /\ channel.status # "rejected"

Receive(channel) ==
  LET hint == Head(channel.queue)
      next == [channel EXCEPT !.queue = Tail(@), !.received = @ + 1]
  IN IF next.received <= MaxPackets /\ Advances(hint, channel.last)
     THEN [next EXCEPT !.last = hint, !.status = "observed"]
     ELSE [next EXCEPT !.last = NoHint, !.status = "rejected"]
=============================================================================
