-------------------------- MODULE BoundaryEndpoint --------------------------
(***************************************************************************)
(* A boundary endpoint: the socket between a NEM's stack and a transport   *)
(* or platform in another process, its receive thread, and the NEM manager *)
(* that opens it, starts the layers and closes it, while a layer's worker  *)
(* sends through it.                                                       *)
(*                                                                         *)
(* A message is a number of units, the first of which are its header and   *)
(* tell its length.  Over TCP the units of a connection arrive in order,  *)
(* in chunks of any size, until the connection is lost; over UDP a message *)
(* arrives whole or not at all, in any order.  A message for a layer is    *)
(* queued, or, while the layer's queue is not started yet, the receive     *)
(* thread runs the layer's handler itself; a handler may answer through    *)
(* the same endpoint.  A send holds the endpoint's mutex, and over TCP the *)
(* stream's too, until the peer has taken it: only reads have a time       *)
(* limit.                                                                  *)
(***************************************************************************)
EXTENDS Integers, Sequences, FiniteSets

CONSTANTS
    Protocols,   \* subset of {"udp", "tcp"}
    HeaderLength,\* units of a header
    Lengths      \* length of each message of the peer; how many there are

VARIABLES
    protocol,
    manager,     \* where NemManager::start and stop are
    routed,      \* the route to the endpoint is in the runtime's table
    queue,       \* the layer's queue: "created", "running"
    holder,      \* who holds the endpoint's mutex
    sender,      \* where the layer's worker is with a send
    cancel,
    receiver,    \* where the receive thread is
    received,    \* units read and not yet dispatched
    wire,        \* units, or datagrams, on their way
    sent,        \* messages the peer has sent
    handed,      \* history: what was handed to the layer, last
    order        \* history: numbers of the messages handed over, oldest first

thread == <<receiver, received, handed, order>>
control == <<manager, routed, queue, holder, sender, cancel>>
vars == <<protocol, control, thread, wire, sent>>

Units(m) == [i \in 1..Lengths[m] |-> <<m, i>>]

Init ==
    /\ protocol \in Protocols
    /\ manager = "opening"
    /\ routed = FALSE
    /\ queue = "created"
    /\ holder = "nobody"
    /\ sender = "idle"
    /\ cancel = FALSE
    /\ receiver = IF protocol = "udp" THEN "reading" ELSE "waiting"
    /\ received = <<>>
    /\ wire = <<>>
    /\ sent = 0
    /\ handed = <<>>
    /\ order = <<>>

-----------------------------------------------------------------------------
(***************************************************************************)
(* The manager: start, and stop once started or when start fails.          *)
(***************************************************************************)
InsertRoute ==
    /\ manager = "opening" /\ ~routed
    /\ routed' = TRUE
    /\ UNCHANGED <<protocol, manager, queue, holder, sender, cancel, thread, wire, sent>>

StartQueue ==
    /\ manager = "opening" /\ routed
    /\ queue' = "running"
    /\ manager' = "started"
    /\ UNCHANGED <<protocol, routed, holder, sender, cancel, thread, wire, sent>>

(* Another endpoint cannot be opened, or a plugin fails to start. *)
StartFails ==
    /\ manager = "opening" /\ routed
    /\ manager' = "clearing"
    /\ UNCHANGED <<protocol, routed, queue, holder, sender, cancel, thread, wire, sent>>

Stop ==
    /\ manager = "started"
    /\ manager' = "clearing"
    /\ UNCHANGED <<protocol, routed, queue, holder, sender, cancel, thread, wire, sent>>

ClearRoutes ==
    /\ manager = "clearing"
    /\ routed' = FALSE
    /\ manager' = "closing"
    /\ UNCHANGED <<protocol, queue, holder, sender, cancel, thread, wire, sent>>

(* close: no more sends, the connection is shut down, the thread joined.   *)
(* What has arrived can still be read.                                     *)
Close ==
    /\ manager = "closing" /\ holder = "nobody"
    /\ holder' = "stop"
    /\ cancel' = TRUE
    /\ manager' = "joining"
    /\ UNCHANGED <<protocol, routed, queue, sender, thread, wire, sent>>

Join ==
    /\ manager = "joining" /\ receiver = "ended"
    /\ holder' = "nobody"
    /\ manager' = "stopped"
    /\ UNCHANGED <<protocol, routed, queue, sender, cancel, thread, wire, sent>>

-----------------------------------------------------------------------------
(***************************************************************************)
(* The peer and the network.                                               *)
(***************************************************************************)
Listening ==
    receiver \in {"reading", "blocked", "parsing", "handling", "direct", "locking", "writing"}

PeerSends ==
    /\ sent < Len(Lengths) /\ Listening
    /\ sent' = sent + 1
    /\ wire' = IF protocol = "udp" THEN Append(wire, Units(sent'))
               ELSE wire \o Units(sent')
    /\ UNCHANGED <<protocol, control, thread>>

LoseDatagram ==
    /\ protocol = "udp" /\ wire # <<>>
    /\ wire' = Tail(wire)
    /\ UNCHANGED <<protocol, control, thread, sent>>

-----------------------------------------------------------------------------
(***************************************************************************)
(* Sends.  A send is refused once the endpoint is closed, and over TCP     *)
(* while there is no connection.                                           *)
(***************************************************************************)
MaySend == ~cancel /\ (protocol = "tcp" => Listening \/ receiver = "leaving")

(* The layer's worker, with a route it looked up before. *)
SenderFindsRoute ==
    /\ sender = "idle" /\ routed /\ queue = "running"
    /\ sender' = "locking"
    /\ UNCHANGED <<protocol, manager, routed, queue, holder, cancel, thread, wire, sent>>

SenderLocks ==
    /\ sender = "locking" /\ holder = "nobody"
    /\ IF MaySend THEN sender' = "writing" /\ holder' = "sender"
                  ELSE sender' = "idle" /\ UNCHANGED holder
    /\ UNCHANGED <<protocol, manager, routed, queue, cancel, thread, wire, sent>>

SenderWrites ==
    /\ sender = "writing"
    /\ sender' = "idle"
    /\ holder' = "nobody"
    /\ UNCHANGED <<protocol, manager, routed, queue, cancel, thread, wire, sent>>

-----------------------------------------------------------------------------
(***************************************************************************)
(* The receive thread.                                                     *)
(***************************************************************************)
still == <<protocol, manager, routed, queue, sender, cancel, sent>>

(* The heads of the loops over connections and over reads. *)
CheckCancel ==
    /\ \/ receiver = "waiting" /\ receiver' = IF cancel THEN "ended" ELSE "accepting"
       \/ /\ receiver = "reading"
          /\ receiver' = IF ~cancel THEN "blocked"
                         ELSE IF protocol = "tcp" THEN "leaving" ELSE "ended"
    /\ UNCHANGED <<received, handed, order, wire, holder>> /\ UNCHANGED still

(* Nothing to accept, to connect to or to read in time. *)
TimesOut ==
    /\ \/ receiver = "accepting" /\ receiver' = "waiting"
       \/ receiver = "blocked" /\ receiver' = "reading"
    /\ UNCHANGED <<received, handed, order, wire, holder>> /\ UNCHANGED still

(* Slip: what was read from the connection before is kept. *)
ConnectKeeping ==
    /\ receiver = "accepting"
    /\ receiver' = "reading"
    /\ wire' = <<>>
    /\ UNCHANGED <<received, handed, order, holder>> /\ UNCHANGED still

(* A connection is accepted or made and becomes the active stream. *)
Connect ==
    /\ receiver = "accepting"
    /\ receiver' = "reading"
    /\ received' = <<>>
    /\ wire' = <<>>
    /\ UNCHANGED <<handed, order, holder>> /\ UNCHANGED still

(* The listener fails, which ends the thread. *)
AcceptFails ==
    /\ receiver = "accepting"
    /\ receiver' = "ended"
    /\ UNCHANGED <<received, handed, order, wire, holder>> /\ UNCHANGED still

(* The peer closes the connection or the read fails; what is on its way    *)
(* is lost.  Over UDP this ends the thread.                                *)
Disconnect ==
    /\ receiver = "blocked"
    /\ receiver' = IF protocol = "tcp" THEN "leaving" ELSE "ended"
    /\ wire' = <<>>
    /\ UNCHANGED <<received, handed, order, holder>> /\ UNCHANGED still

(* clear_active_stream wants the stream's mutex, which a writer holds. *)
ClearStream ==
    /\ receiver = "leaving" /\ sender # "writing"
    /\ receiver' = "waiting"
    /\ UNCHANGED <<received, handed, order, wire, holder>> /\ UNCHANGED still

Read(n) ==
    /\ receiver = "blocked" /\ wire # <<>>
    /\ receiver' = "parsing"
    /\ IF protocol = "udp"
         THEN /\ received' = wire[n]
              /\ wire' = SubSeq(wire, 1, n - 1) \o SubSeq(wire, n + 1, Len(wire))
         ELSE /\ received' = received \o SubSeq(wire, 1, n)
              /\ wire' = SubSeq(wire, n + 1, Len(wire))
    /\ UNCHANGED <<handed, order, holder>> /\ UNCHANGED still

MessageLength == Lengths[Head(received)[1]]

(* The header is read once all of it is there.  A length out of bounds     *)
(* would end the connection; no message of a peer has one.                 *)
HasMessage == Len(received) >= HeaderLength /\ Len(received) >= MessageLength

Dispatch ==
    /\ receiver = "parsing" /\ HasMessage
    /\ receiver' = "handling"
    /\ handed' = SubSeq(received, 1, MessageLength)
    /\ order' = Append(order, Head(received)[1])
    /\ received' = SubSeq(received, MessageLength + 1, Len(received))
    /\ UNCHANGED <<wire, holder>> /\ UNCHANGED still

ReadMore ==
    /\ receiver = "parsing" /\ ~HasMessage
    /\ receiver' = "reading"
    /\ UNCHANGED <<received, handed, order, wire, holder>> /\ UNCHANGED still

(* Slip: a message is always handled by the thread that received it. *)
NextOfAlways == "direct"

(* Invocation::process: queued, run here, or (queue stopped) refused. *)
NextOf == IF queue = "created" THEN "direct" ELSE "parsing"

ProcessMessage ==
    /\ receiver = "handling"
    /\ receiver' = NextOf
    /\ UNCHANGED <<received, handed, order, wire, holder>> /\ UNCHANGED still

(* The handler answers, and finds the endpoint's route, or it does not. *)
HandlerAnswers ==
    /\ receiver = "direct" /\ routed
    /\ receiver' = "locking"
    /\ UNCHANGED <<received, handed, order, wire, holder>> /\ UNCHANGED still

HandlerReturns ==
    /\ receiver = "direct"
    /\ receiver' = "parsing"
    /\ UNCHANGED <<received, handed, order, wire, holder>> /\ UNCHANGED still

HandlerLocks ==
    /\ receiver = "locking" /\ holder = "nobody"
    /\ IF MaySend THEN receiver' = "writing" /\ holder' = "receiver"
                  ELSE receiver' = "direct" /\ UNCHANGED holder
    /\ UNCHANGED <<received, handed, order, wire>> /\ UNCHANGED still

HandlerWrites ==
    /\ receiver = "writing"
    /\ receiver' = "direct"
    /\ holder' = "nobody"
    /\ UNCHANGED <<received, handed, order, wire>> /\ UNCHANGED still

ManagerStep ==
    InsertRoute \/ StartQueue \/ StartFails \/ Stop \/ ClearRoutes \/ Close \/ Join

SenderStep == SenderFindsRoute \/ SenderLocks \/ SenderWrites

ThreadStep ==
    \/ CheckCancel \/ TimesOut \/ Connect \/ AcceptFails \/ Disconnect \/ ClearStream
    \/ \E n \in 1..Len(wire) : Read(n)
    \/ Dispatch \/ ReadMore \/ ProcessMessage
    \/ HandlerAnswers \/ HandlerReturns \/ HandlerLocks \/ HandlerWrites

Next == ManagerStep \/ SenderStep \/ ThreadStep \/ PeerSends \/ LoseDatagram

Spec == Init /\ [][Next]_vars

(* The threads are scheduled, the handlers return, and accepts and reads   *)
(* time out; nothing is assumed of the peer, the network, new connections  *)
(* or a write to a stream.                                                 *)
ThreadProgress ==
    \/ CheckCancel \/ TimesOut \/ ClearStream
    \/ Dispatch \/ ReadMore \/ ProcessMessage
    \/ HandlerReturns \/ HandlerLocks \/ (protocol = "udp" /\ HandlerWrites)

SenderProgress == SenderLocks \/ (protocol = "udp" /\ SenderWrites)

StopProgress == ClearRoutes \/ Close \/ Join

FairSpec ==
    Spec /\ WF_vars(ThreadProgress) /\ WF_vars(SenderProgress) /\ WF_vars(StopProgress)

-----------------------------------------------------------------------------
(* However the stream is cut into reads and however often the connection   *)
(* is lost, what a layer is handed is one whole message of the peer; over  *)
(* TCP in the order sent, and none twice.                                  *)
HandedWhole ==
    /\ handed # <<>> => handed = Units(handed[1][1])
    /\ \A i, j \in 1..Len(order) :
         i < j => order[i] # order[j] /\ (protocol = "tcp" => order[i] < order[j])

(* The peer has not taken what is being written to the stream. *)
Writing == protocol = "tcp" /\ (sender = "writing" \/ receiver = "writing")

StopBegins == manager = "clearing"

(* The receive thread does not run a handler, nor will it. *)
Queued == queue = "running" /\ receiver \notin {"direct", "locking", "writing"}

(* stop joins the receive thread, and that thread waits for stop's mutex. *)
Deadlocked == receiver = "locking" /\ holder = "stop"

(* stop holds the endpoint's mutex while close joins the receive thread.   *)
(* Unless the peer leaves a write blocked for ever, close comes to an end  *)
(* whenever stop begins while the layer's queue runs and the receive       *)
(* thread is not running a handler itself.  Otherwise it comes to an end   *)
(* too, except in one way: the handler of a call made before the queue was *)
(* started waits for that mutex to send its answer.                        *)
CloseReturns ==
    []<>~Writing =>
      /\ StopBegins /\ Queued ~> manager = "stopped"
      /\ StopBegins ~> manager = "stopped" \/ Deadlocked
=============================================================================
