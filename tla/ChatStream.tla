----------------------------- MODULE ChatStream -----------------------------
(***************************************************************************)
(* The streaming chat of the local API (client/src/api.rs,                 *)
(* post_chat_stream_for): a spawned task takes the session's mutex, runs   *)
(* the turn, and feeds the reply in chunks through a bounded channel to    *)
(* the reader of the event stream.  The mutex is kept until the last event *)
(* is in the channel, so a reader that stops reading stops the session.    *)
(*                                                                         *)
(* All streams are of one session.  Only the number of chunks of a reply   *)
(* matters, delta i is the i-th chunk.                                     *)
(***************************************************************************)
EXTENDS Naturals, Sequences, SequencesExt

CONSTANTS
    Streams,    \* the stream requests that may be made
    Nobody,
    Capacity,   \* the channel's capacity, 64 in the code
    MaxChunks   \* bound: the longest reply, in chunks

ASSUME NobodyAssumption == Nobody \notin Streams
ASSUME CapacityAssumption == Capacity \in Nat \ {0}
ASSUME ChunksAssumption == MaxChunks \in Nat

VARIABLES
    mutex,      \* who holds the session's runtime
    task,       \* where each spawned task is
    reply,      \* the number of chunks of each reply
    next,       \* the next chunk to send
    channel,    \* the events on their way
    reader,     \* "reads", "gone" (hung up) or "closed" (saw the end)
    seen        \* the events each reader was given

vars == <<mutex, task, reply, next, channel, reader, seen>>

Delta(i) == <<"delta", i>>
Start == <<"start", 0>>
Done == <<"done", 0>>
Error == <<"error", 0>>
Event == {Start, Done, Error} \cup {Delta(i) : i \in 1..MaxChunks}

Tasks == {"idle", "start", "lock", "turn", "emit", "fail", "ended"}

TypeOK ==
    /\ mutex \in Streams \cup {Nobody}
    /\ task \in [Streams -> Tasks]
    /\ reply \in [Streams -> 0..MaxChunks]
    /\ next \in [Streams -> 1..(MaxChunks + 1)]
    /\ channel \in [Streams -> Seq(Event)]
    /\ \A s \in Streams : Len(channel[s]) <= Capacity
    /\ reader \in [Streams -> {"reads", "gone", "closed"}]
    /\ seen \in [Streams -> Seq(Event)]

Init ==
    /\ mutex = Nobody
    /\ task = [s \in Streams |-> "idle"]
    /\ reply = [s \in Streams |-> 0]
    /\ next = [s \in Streams |-> 1]
    /\ channel = [s \in Streams |-> <<>>]
    /\ reader = [s \in Streams |-> "reads"]
    /\ seen = [s \in Streams |-> <<>>]

Goto(s, place) == task' = [task EXCEPT ![s] = place]

(* Mutant: the channel is unbounded. *)
SendUnbounded(s, event) ==
    \/ /\ reader[s] = "reads"
       /\ channel' = [channel EXCEPT ![s] = Append(@, event)]
    \/ /\ reader[s] = "gone"
       /\ UNCHANGED channel

(* Mutant: a full channel drops the event (try_send). *)
SendOrDrop(s, event) ==
    \/ /\ reader[s] = "reads" /\ Len(channel[s]) < Capacity
       /\ channel' = [channel EXCEPT ![s] = Append(@, event)]
    \/ /\ reader[s] = "gone" \/ Len(channel[s]) = Capacity
       /\ UNCHANGED channel

(* Sender::send waits for room; once the receiver is dropped it fails, and *)
(* the failure is ignored.                                                 *)
Send(s, event) ==
    \/ /\ reader[s] = "reads" /\ Len(channel[s]) < Capacity
       /\ channel' = [channel EXCEPT ![s] = Append(@, event)]
    \/ /\ reader[s] = "gone"
       /\ UNCHANGED channel

Request(s) ==
    /\ task[s] = "idle"
    /\ Goto(s, "start")
    /\ UNCHANGED <<mutex, reply, next, channel, reader, seen>>

SendStart(s) ==
    /\ task[s] = "start"
    /\ Send(s, Start)
    /\ Goto(s, "lock")
    /\ UNCHANGED <<mutex, reply, next, reader, seen>>

Lock(s) ==
    /\ task[s] = "lock" /\ mutex = Nobody
    /\ mutex' = s
    /\ Goto(s, "turn")
    /\ UNCHANGED <<reply, next, channel, reader, seen>>

(* send_user_message: a reply of some chunks, or an error.                 *)
TurnSucceeds(s) ==
    /\ task[s] = "turn"
    /\ \E n \in 0..MaxChunks : reply' = [reply EXCEPT ![s] = n]
    /\ Goto(s, "emit")
    /\ UNCHANGED <<mutex, next, channel, reader, seen>>

TurnFails(s) ==
    /\ task[s] = "turn"
    /\ Goto(s, "fail")
    /\ UNCHANGED <<mutex, reply, next, channel, reader, seen>>

EmitDelta(s) ==
    /\ task[s] = "emit" /\ next[s] <= reply[s]
    /\ Send(s, Delta(next[s]))
    /\ next' = [next EXCEPT ![s] = @ + 1]
    /\ UNCHANGED <<mutex, task, reply, reader, seen>>

(* The last event: the task ends and drops the mutex and the sender.       *)
EmitDone(s) ==
    /\ task[s] = "emit" /\ next[s] > reply[s]
    /\ Send(s, Done)
    /\ Goto(s, "ended")
    /\ mutex' = Nobody
    /\ UNCHANGED <<reply, next, reader, seen>>

(* Mutant: a failed turn leaves the mutex locked. *)
EmitErrorLocked(s) ==
    /\ task[s] = "fail"
    /\ Send(s, Error)
    /\ Goto(s, "ended")
    /\ UNCHANGED <<mutex, reply, next, reader, seen>>

EmitError(s) ==
    /\ task[s] = "fail"
    /\ Send(s, Error)
    /\ Goto(s, "ended")
    /\ mutex' = Nobody
    /\ UNCHANGED <<reply, next, reader, seen>>

(* The event stream of the response. *)
Receive(s) ==
    /\ reader[s] = "reads" /\ channel[s] # <<>>
    /\ seen' = [seen EXCEPT ![s] = Append(@, Head(channel[s]))]
    /\ channel' = [channel EXCEPT ![s] = Tail(@)]
    /\ UNCHANGED <<mutex, task, reply, next, reader>>

(* Mutant: the stream ends with the task, whatever is left in the channel. *)
CloseEarly(s) ==
    /\ reader[s] = "reads" /\ task[s] = "ended"
    /\ reader' = [reader EXCEPT ![s] = "closed"]
    /\ UNCHANGED <<mutex, task, reply, next, channel, seen>>

Close(s) ==
    /\ reader[s] = "reads" /\ channel[s] = <<>> /\ task[s] = "ended"
    /\ reader' = [reader EXCEPT ![s] = "closed"]
    /\ UNCHANGED <<mutex, task, reply, next, channel, seen>>

HangUp(s) ==
    /\ reader[s] = "reads" /\ task[s] # "idle"
    /\ reader' = [reader EXCEPT ![s] = "gone"]
    /\ channel' = [channel EXCEPT ![s] = <<>>]
    /\ UNCHANGED <<mutex, task, reply, next, seen>>

Work(s) ==
    \/ SendStart(s) \/ Lock(s) \/ TurnSucceeds(s) \/ TurnFails(s)
    \/ EmitDelta(s) \/ EmitDone(s) \/ EmitError(s)

Next == \E s \in Streams :
    Request(s) \/ Work(s) \/ Receive(s) \/ Close(s) \/ HangUp(s)

Spec == Init /\ [][Next]_vars

(* The server runs its tasks, and the turn ends by its timeouts.           *)
FairTasks == Spec /\ \A s \in Streams : WF_vars(Work(s))

-----------------------------------------------------------------------------
(* Properties.                                                             *)

(* The events of a stream, had it nothing but time: start, every chunk in  *)
(* order, done; or start and error.                                        *)
Whole(s) == <<Start>> \o [i \in 1..reply[s] |-> Delta(i)] \o <<Done>>
Broken == <<Start, Error>>

(* A reader is given the chunks of the reply in order and without a gap,   *)
(* and never "done" before it has them all, however slow it reads.         *)
Orderly ==
    \A s \in Streams : IsPrefix(seen[s], Whole(s)) \/ IsPrefix(seen[s], Broken)

(* A reader that saw the stream close saw the end of it: the whole reply   *)
(* and "done", or the error.                                               *)
ClosedWhole ==
    \A s \in Streams :
        reader[s] = "closed" => seen[s] = Whole(s) \/ seen[s] = Broken

(* A channel whose task would have to wait. *)
Full(r) == reader[r] = "reads" /\ Len(channel[r]) = Capacity

(* Every stream's task ends and leaves the session to the next, unless a   *)
(* reader stops reading without hanging up and its channel stays full; a   *)
(* hang-up in the middle, or a failed turn, does not stop the session.     *)
EveryStreamEnds ==
    (\A r \in Streams : []<>~Full(r))
        => \A s \in Streams : task[s] # "idle" ~> task[s] = "ended"
=============================================================================
