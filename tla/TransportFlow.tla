--------------------------- MODULE TransportFlow ---------------------------
(***************************************************************************)
(* Flow control between a transport layer and the MAC below it, as the     *)
(* virtual and raw transports and the RF-pipe MAC do it.                   *)
(*                                                                         *)
(* The transport's reader thread takes frames from the device, and spends  *)
(* a token on each or puts it aside; the worker of its layer handles the   *)
(* MAC's token updates and sends what was put aside; and the NEM manager   *)
(* stops the transport.  All three go through the same unguarded state, so *)
(* a look at the count and what is done about it are separate steps, and a *)
(* decrement may use the value that was seen or the one that is there; an  *)
(* operation on the queue of frames is taken as one step.  The count is a  *)
(* u16; TokenModulus stands for 2^16.  down and up are the queues of the   *)
(* two layers.                                                             *)
(***************************************************************************)
EXTENDS Integers, Sequences

CONSTANTS
    Total,          \* flowcontroltokens of the MAC
    QueueCapacity,  \* QUEUE_CAPACITY of the MAC
    TokenModulus,   \* values of the transport's count
    MaxFrames,      \* bound on the frames from the device
    MaxRestarts     \* bound on the starts of the layers

VARIABLES
    flow_control_tokens,       \* the transport's count
    pending_transport_frames,  \* frames put aside
    reader,                    \* the reader thread: its step, and the count it saw
    worker,                    \* the transport's worker: its step, the count it saw, and
                               \* frames to send
    arrived,                   \* frames from the device so far
    down, up,                  \* frames to the MAC; token updates to the transport
    granting,                  \* start of the MAC has not told its tokens yet
    started, available_tokens, queue,  \* the MAC
    stopping,                  \* what stop of the NEM manager does next
    cancel,                    \* canceled of the transport's device
    starts,
    stranded                   \* history: a frame was put aside on a stale count

transport == <<flow_control_tokens, pending_transport_frames, reader, worker, arrived,
               stranded>>
mac == <<granting, started, available_tokens, queue>>
manager == <<stopping, cancel, starts>>
vars == <<transport, down, up, mac, manager>>

Init ==
    /\ flow_control_tokens = 0
    /\ pending_transport_frames = <<>>
    /\ reader = [at |-> "idle", saw |-> 0]
    /\ worker = [at |-> "idle", saw |-> 0, frames |-> <<>>]
    /\ arrived = 0
    /\ down = <<>> /\ up = <<>>
    /\ granting = FALSE
    /\ started = FALSE
    /\ available_tokens = Total
    /\ queue = <<>>
    /\ stopping = "no" /\ cancel = FALSE /\ starts = 1
    /\ stranded = FALSE

-----------------------------------------------------------------------------
(* The reader's loop: it polls the device unless it was canceled. *)
CheckCanceled ==
    /\ reader.at = "idle"
    /\ reader' = [reader EXCEPT !.at = IF cancel THEN "ended" ELSE "poll"]
    /\ UNCHANGED <<flow_control_tokens, pending_transport_frames, worker, arrived, stranded,
                   down, up, mac, manager>>

(* Nothing to read in time, or the device fails, which ends the thread. *)
PollTimesOut ==
    /\ reader.at = "poll"
    /\ \E at \in {"idle", "ended"} : reader' = [reader EXCEPT !.at = at]
    /\ UNCHANGED <<flow_control_tokens, pending_transport_frames, worker, arrived, stranded,
                   down, up, mac, manager>>

(* builtin_ethernet_downstream: a frame, and the look at the count. *)
ReadFrame ==
    /\ reader.at = "poll" /\ arrived < MaxFrames
    /\ arrived' = arrived + 1
    /\ reader' = [at |-> IF flow_control_tokens = 0 THEN "aside" ELSE "spend",
                  saw |-> flow_control_tokens]
    /\ UNCHANGED <<flow_control_tokens, pending_transport_frames, worker, stranded, down,
                   up, mac, manager>>

PutAside ==
    /\ reader.at = "aside"
    /\ pending_transport_frames' = Append(pending_transport_frames, arrived)
    /\ stranded' = (stranded \/ flow_control_tokens # 0)
    /\ reader' = [reader EXCEPT !.at = "idle"]
    /\ UNCHANGED <<flow_control_tokens, worker, arrived, down, up, mac, manager>>

(* A decrement of the count by a thread that saw saw. *)
Decrement(saw) ==
    \E value \in {saw, flow_control_tokens} :
      flow_control_tokens' = (value + TokenModulus - 1) % TokenModulus

SpendToken ==
    /\ reader.at = "spend"
    /\ Decrement(reader.saw)
    /\ reader' = [reader EXCEPT !.at = "send"]
    /\ UNCHANGED <<pending_transport_frames, worker, arrived, stranded, down, up, mac, manager>>

SendFrame ==
    /\ reader.at = "send"
    /\ down' = Append(down, arrived)
    /\ reader' = [reader EXCEPT !.at = "idle"]
    /\ UNCHANGED <<flow_control_tokens, pending_transport_frames, worker, arrived,
                   stranded, up, mac, manager>>

-----------------------------------------------------------------------------
(* builtin_upstream and release_transport_frames: the look at the count,   *)
(* the frame, and its token.                                               *)
TokenUpdate ==
    /\ worker.at = "idle" /\ up # <<>>
    /\ up' = Tail(up)
    /\ flow_control_tokens' = Head(up)
    /\ worker' = [at |-> "release", saw |-> 0, frames |-> <<>>]
    /\ UNCHANGED <<pending_transport_frames, reader, arrived, stranded, down, mac, manager>>

ReleaseLooks ==
    /\ worker.at = "release"
    /\ worker' = [worker EXCEPT !.at = IF flow_control_tokens = 0 THEN "send" ELSE "pop",
                                !.saw = flow_control_tokens]
    /\ UNCHANGED <<flow_control_tokens, pending_transport_frames, reader, arrived, stranded,
                   down, up, mac, manager>>

ReleasePops ==
    /\ worker.at = "pop"
    /\ IF pending_transport_frames = <<>>
         THEN /\ worker' = [worker EXCEPT !.at = "send"]
              /\ UNCHANGED pending_transport_frames
         ELSE /\ worker' = [worker EXCEPT
                              !.at = "spend",
                              !.frames = Append(@, Head(pending_transport_frames))]
              /\ pending_transport_frames' = Tail(pending_transport_frames)
    /\ UNCHANGED <<flow_control_tokens, reader, arrived, stranded, down, up, mac, manager>>

ReleaseSpends ==
    /\ worker.at = "spend"
    /\ Decrement(worker.saw)
    /\ worker' = [worker EXCEPT !.at = "release"]
    /\ UNCHANGED <<pending_transport_frames, reader, arrived, stranded, down, up, mac, manager>>

SendReleased ==
    /\ worker.at = "send"
    /\ IF worker.frames = <<>>
         THEN worker' = [worker EXCEPT !.at = "idle"] /\ UNCHANGED down
         ELSE /\ down' = Append(down, Head(worker.frames))
              /\ worker' = [worker EXCEPT !.frames = Tail(@)]
    /\ UNCHANGED <<flow_control_tokens, pending_transport_frames, reader, arrived,
                   stranded, up, mac, manager>>

-----------------------------------------------------------------------------
(* A count for the transport, whose layer refuses it once its queue is     *)
(* stopped.                                                                *)
Tell(tokens) ==
    up' = IF stopping \in {"mac", "mac queue", "stopped"} THEN up ELSE Append(up, tokens)

(***************************************************************************)
(* The MAC.  start tells the tokens once it has released its lock.         *)
(***************************************************************************)
Start ==
    /\ ~started /\ stopping = "no"
    /\ started' = TRUE
    /\ granting' = TRUE
    /\ available_tokens' = Total
    /\ UNCHANGED <<transport, down, up, queue, manager>>

GrantAtStart ==
    /\ granting
    /\ granting' = FALSE
    /\ Tell(Total)
    /\ UNCHANGED <<transport, down, started, available_tokens, queue, manager>>

(* process_downstream: refused when not started or out of tokens.  A full  *)
(* queue loses its oldest packet and gets its token back, of which nobody  *)
(* is told; the queue never holds more than its capacity, so the loop      *)
(* drops one packet at most.                                               *)
ProcessDownstream ==
    /\ down # <<>>
    /\ down' = Tail(down)
    /\ IF started /\ available_tokens # 0
         THEN IF Len(queue) < QueueCapacity
                THEN /\ available_tokens' = available_tokens - 1
                     /\ queue' = Append(queue, Head(down))
                ELSE /\ queue' = Append(Tail(queue), Head(down))
                     /\ UNCHANGED available_tokens
         ELSE UNCHANGED <<available_tokens, queue>>
    /\ UNCHANGED <<transport, up, granting, started, manager>>

(* drive_transmit: the packet's token comes back, and the count goes up. *)
Transmit ==
    /\ queue # <<>>
    /\ queue' = Tail(queue)
    /\ available_tokens' = available_tokens + 1
    /\ Tell(available_tokens')
    /\ UNCHANGED <<transport, down, granting, started, manager>>

-----------------------------------------------------------------------------
(***************************************************************************)
(* NemManager::stop, the transport first: builtin_stop forgets tokens and  *)
(* frames, cancels and joins the reader; then its queue is stopped, and    *)
(* the MAC and its queue.  Reader and worker go on meanwhile.              *)
(***************************************************************************)
ForgetTokens ==
    /\ started /\ ~granting /\ stopping = "no"
    /\ flow_control_tokens' = 0
    /\ stopping' = "frames"
    /\ UNCHANGED <<pending_transport_frames, reader, worker, arrived, stranded, down, up, mac,
                   cancel, starts>>

ForgetFrames ==
    /\ stopping = "frames"
    /\ pending_transport_frames' = <<>>
    /\ stopping' = "cancel"
    /\ UNCHANGED <<flow_control_tokens, reader, worker, arrived, stranded, down, up, mac,
                   cancel, starts>>

CancelReader ==
    /\ stopping = "cancel"
    /\ cancel' = TRUE
    /\ stopping' = "join"
    /\ UNCHANGED <<transport, down, up, mac, starts>>

JoinReader ==
    /\ stopping = "join" /\ reader.at = "ended"
    /\ stopping' = "queue"
    /\ UNCHANGED <<transport, down, up, mac, cancel, starts>>

StopTransportQueue ==
    /\ stopping = "queue" /\ worker.at = "idle"
    /\ up' = <<>>
    /\ stopping' = "mac"
    /\ UNCHANGED <<transport, down, mac, cancel, starts>>

StopMac ==
    /\ stopping = "mac"
    /\ started' = FALSE
    /\ queue' = <<>>
    /\ stopping' = "mac queue"
    /\ UNCHANGED <<transport, down, up, granting, available_tokens, cancel, starts>>

StopMacQueue ==
    /\ stopping = "mac queue"
    /\ down' = <<>>
    /\ stopping' = "stopped"
    /\ UNCHANGED <<transport, up, mac, cancel, starts>>

(* The layers are started once more, the transport first. *)
StartTransport ==
    /\ stopping = "stopped" /\ starts < MaxRestarts
    /\ starts' = starts + 1
    /\ stopping' = "no"
    /\ cancel' = FALSE
    /\ reader' = [at |-> "idle", saw |-> 0]
    /\ UNCHANGED <<flow_control_tokens, pending_transport_frames, worker, arrived, stranded,
                   down, up, mac>>

ReaderStep ==
    CheckCanceled \/ PollTimesOut \/ ReadFrame \/ PutAside \/ SpendToken \/ SendFrame

WorkerStep ==
    TokenUpdate \/ ReleaseLooks \/ ReleasePops \/ ReleaseSpends \/ SendReleased

MacStep == Start \/ GrantAtStart \/ ProcessDownstream \/ Transmit

StopStep ==
    \/ ForgetTokens \/ ForgetFrames \/ CancelReader \/ JoinReader \/ StopTransportQueue
    \/ StopMac \/ StopMacQueue \/ StartTransport

Next == ReaderStep \/ WorkerStep \/ MacStep \/ StopStep

Spec == Init /\ [][Next]_vars

-----------------------------------------------------------------------------
AtRest == /\ reader.at \in {"idle", "poll", "ended"} /\ worker.at = "idle"
          /\ started /\ ~granting /\ stopping = "no"
          /\ down = <<>> /\ up = <<>> /\ queue = <<>>

(* However the threads interleave, whatever update was lost or wrapped     *)
(* around, however late start told its tokens and whatever a stop left     *)
(* behind in the life before: once everything has come to rest, the        *)
(* transport has all the tokens again, and no frame waits for one, except  *)
(* a frame that was put aside on a count that was out of date.             *)
FlowSettles ==
    AtRest => /\ flow_control_tokens = Total
              /\ pending_transport_frames = <<>> \/ stranded
=============================================================================
