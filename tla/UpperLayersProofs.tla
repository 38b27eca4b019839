------------------------- MODULE UpperLayersProofs -------------------------
(***************************************************************************)
(* Proofs about the parts above and beside a MAC: the transport's tokens,  *)
(* the exported flow-control pair, the boundary endpoint and the           *)
(* comm-effect shim, each for every value of its constants.  A behaviour   *)
(* is about one part, so the inductive invariant says of every part what   *)
(* holds while the behaviour is about it.                                  *)
(***************************************************************************)
EXTENDS MCUpperLayers, SequenceTheorems, WellFoundedInduction, TLAPS

(***************************************************************************)
(* The transport.  Something is under way that will end in an update of    *)
(* the transport's count.                                                  *)
(***************************************************************************)
UpdateComing ==
    \/ reader.at = "send" \/ worker.frames # <<>>
    \/ down # <<>> \/ queue # <<>> \/ up # <<>> \/ granting \/ ~started \/ stopping # "no"

ReaderSteps == {"idle", "poll", "aside", "spend", "send", "ended"}

WorkerSteps == {"idle", "release", "pop", "spend", "send"}

TransportTypes ==
    /\ flow_control_tokens \in Nat
    /\ pending_transport_frames \in Seq(Nat)
    /\ reader \in [at : ReaderSteps, saw : Nat]
    /\ worker \in [at : WorkerSteps, saw : Nat, frames : Seq(Nat)]
    /\ arrived \in Nat /\ down \in Seq(Nat) /\ up \in Seq(Nat)
    /\ available_tokens \in Nat /\ queue \in Seq(Nat)

(* The MAC's tokens are with the packets in its queue or free; the last    *)
(* update of an empty queue tells all of them.                             *)
TokensPlaced ==
    /\ started => available_tokens + Len(queue) = Total
    /\ ~started => queue = <<>>
    /\ queue = <<>> /\ up # <<>> => up[Len(up)] = Total
    /\ stopping \in {"mac", "mac queue", "stopped"} => up = <<>>
    /\ stopping \in {"mac queue", "stopped"} => ~started

(* The worker has frames to send whenever it takes their tokens. *)
WorkerHolds ==
    /\ worker.at = "idle" => worker.frames = <<>>
    /\ worker.at = "spend" => worker.frames # <<>>

(* The transport's count is right, and frames wait for a reason, unless an *)
(* update is coming.                                                       *)
CountRight ==
    \/ UpdateComing
    \/ /\ flow_control_tokens = Total
       /\ ~stranded /\ pending_transport_frames # <<>> =>
            flow_control_tokens = 0 \/ worker.at \in {"release", "pop", "spend"}

TransportInv == TransportTypes /\ TokensPlaced /\ WorkerHolds /\ CountRight

(***************************************************************************)
(* The flow-control pair.  Covers(u, c, i, n): on the way u to the manager *)
(* the packets right behind the i-th message were spent from n tokens, and *)
(* when nothing but packets follows it, a client with c tokens, those of   *)
(* packets in hand included, has the rest of them.                         *)
(***************************************************************************)
PacketsOnly(u, i, k) == \A j \in (i + 1)..k : u[j].kind = "packet"

Covers(u, c, i, n) ==
    /\ \A k \in i..Len(u) : PacketsOnly(u, i, k) => k - i <= n
    /\ PacketsOnly(u, i, Len(u)) => c + (Len(u) - i) = n

(* A count that overtook no packet in hand. *)
Clean(m) == m.kind = "count" /\ m.hand = 0

(* Every clean count on the way covers the packets behind it. *)
CountsCover(u, c) == \A i \in 1..Len(u) : Clean(u[i]) => Covers(u, c, i, u[i].tokens)

FlowMessages == [kind : {"packet", "count"}, tokens : Nat, hand : Nat]

(* What the client may still send without a new count. *)
Budget == client_tokens + in_hand

FlowTypes ==
    /\ {tokens_available, total_tokens_available, shadow_token_count, last_tokens_update,
        in_service, client_tokens, in_hand} \subseteq Nat
    /\ ack_pending \in BOOLEAN /\ overtaken \in BOOLEAN /\ underflow \in BOOLEAN
    /\ up \in Seq(FlowMessages) /\ down \in Seq(Nat)

FlowInv ==
    /\ FlowTypes
    /\ total_tokens_available = 0 => tokens_available = 0
    /\ underflow => overtaken /\ ~ack_pending
    /\ total_tokens_available # 0 =>
         /\ ~underflow => shadow_token_count <= tokens_available
         /\ tokens_available <= total_tokens_available
         /\ tokens_available + in_service >= total_tokens_available
         /\ shadow_token_count = 0 => in_service > 0
         /\ ack_pending => shadow_token_count = last_tokens_update
         /\ ~ack_pending /\ ~overtaken => Covers(up, Budget, 0, shadow_token_count)
    /\ CountsCover(up, Budget)

(***************************************************************************)
(* The boundary endpoint.  The units that were read and those on their way *)
(* begin at the start of a message; Placed says where each of them is.     *)
(***************************************************************************)
Messages == 1..Len(Lengths)

MessageUnits == Messages \X Nat

(* Where the message of the k-th unit starts, less one. *)
Before(s, k) == k - s[k][2]

Placed(s) ==
    /\ \A k \in 1..Len(s) :
         /\ s[k][2] \in 1..Lengths[s[k][1]] /\ Before(s, k) >= 0
         /\ \A d \in 1..Lengths[s[k][1]] :
              Before(s, k) + d <= Len(s) => s[Before(s, k) + d] = <<s[k][1], d>>
    /\ \A j, k \in 1..Len(s) :
         j < k => s[j][1] < s[k][1] \/ (s[j][1] = s[k][1] /\ Before(s, j) = Before(s, k))

(* The last message is there to its end. *)
Whole(s) == \A k \in 1..Len(s) : Before(s, k) + Lengths[s[k][1]] <= Len(s)

BoundaryTypes ==
    /\ protocol \in {"udp", "tcp"}
    /\ sent \in 0..Len(Lengths) /\ order \in Seq(Messages)
    /\ received \in Seq(MessageUnits)
    /\ wire \in IF protocol = "tcp" THEN Seq(MessageUnits) ELSE Seq(Seq(MessageUnits))

(* What was handed over before: each message once, in order over TCP. *)
OrderOK ==
    /\ \A i \in 1..Len(order) : order[i] <= sent
    /\ \A i, j \in 1..Len(order) :
         i < j => order[i] # order[j] /\ (protocol = "tcp" => order[i] < order[j])

(* A stream s of messages up to n, all sent after those in o. *)
StreamOK(s, n, o) ==
    /\ Placed(s)
    /\ \A k \in 1..Len(s) : s[k][1] <= n /\ \A i \in 1..Len(o) : o[i] < s[k][1]

TcpInv ==
    B!Listening => StreamOK(received \o wire, sent, order) /\ Whole(received \o wire)

(* u is one of the first n messages, and none of those in o. *)
IsMessage(u, n, o) ==
    /\ u = B!Units(u[1][1]) /\ u[1][1] \in 1..n
    /\ \A i \in 1..Len(o) : o[i] # u[1][1]

(* Datagrams w of different messages. *)
AreMessages(w, n, o) ==
    /\ \A i \in 1..Len(w) : IsMessage(w[i], n, o)
    /\ \A i, j \in 1..Len(w) : i # j => w[i][1][1] # w[j][1][1]

UdpInv ==
    /\ AreMessages(wire, sent, order)
    /\ received # <<>> =>
         /\ IsMessage(received, sent, order) /\ receiver = "parsing"
         /\ \A i \in 1..Len(wire) : wire[i][1][1] # received[1][1]

BoundaryInv ==
    /\ BoundaryTypes
    /\ OrderOK
    /\ handed # <<>> => handed = B!Units(handed[1][1])
    /\ IF protocol = "tcp" THEN TcpInv ELSE UdpInv

(***************************************************************************)
(* The comm-effect shim.  Nothing of its present life was received after   *)
(* the end it remembers.                                                   *)
(***************************************************************************)
Outcomes == {"registration", "destination", "group", "no profile", "receive buffer",
             "effect", "timer", "scheduled", "passed"}

EffectTypes ==
    /\ now \in Nat /\ setting \in EffectSettings /\ life \in Nat \ {0}
    /\ EffectsOf({profiles[s] : s \in DOMAIN profiles})
    /\ \A s \in DOMAIN end_of_reception : end_of_reception[s] \in Nat
    /\ arrived \in Nat /\ outcome \in Seq(Outcomes) /\ Len(outcome) = arrived
    /\ \A c \in copies : c.id \in 1..arrived /\ c.at \in Int /\ c.earliest \in Int
    /\ \A r \in receptions : r.end \in Nat /\ r.span \in Nat /\ r.life \in 1..life

EffectInv ==
    /\ EffectTypes
    /\ E!EffectsKept
    /\ \A r \in receptions :
         r.life = life => /\ r.source \in DOMAIN end_of_reception
                          /\ r.end <= end_of_reception[r.source]

(* The inductive invariant. *)
IInv ==
    /\ part = "transport" => TransportInv
    /\ part = "flow" => FlowInv
    /\ part = "boundary" => BoundaryInv
    /\ part = "effect" => EffectInv

-----------------------------------------------------------------------------
(***************************************************************************)
(* Facts about sequences.                                                  *)
(***************************************************************************)
(* The first element of a sequence, and what is left. *)
LEMMA TakeFirst ==
  ASSUME NEW D, NEW s \in Seq(D), s # <<>>
  PROVE  /\ Head(s) \in D /\ Head(s) = s[1] /\ Tail(s) \in Seq(D)
         /\ Len(s) \in Nat \ {0} /\ Len(Tail(s)) = Len(s) - 1
         /\ \A k \in 1..Len(Tail(s)) : k + 1 \in 1..Len(s) /\ Tail(s)[k] = s[k + 1]
<1>1. Len(s) \in Nat \ {0}
  BY EmptySeq, LenProperties
<1> QED
  BY <1>1, HeadTailProperties

(* A sequence with one element more. *)
LEMMA AddLast ==
  ASSUME NEW D, NEW s \in Seq(D), NEW e \in D
  PROVE  /\ Append(s, e) \in Seq(D) /\ Append(s, e) # <<>>
         /\ Len(s) \in Nat /\ Len(Append(s, e)) = Len(s) + 1
         /\ Append(s, e)[Len(s) + 1] = e
         /\ \A k \in 1..Len(s) : Append(s, e)[k] = s[k]
  BY AppendProperties, LenProperties

(* A number added at the end. *)
LEMMA NumberAdded ==
  ASSUME NEW s \in Seq(Nat), NEW e \in Nat
  PROVE  Append(s, e) \in Seq(Nat) /\ Append(s, e) # <<>> /\ Len(Append(s, e)) = Len(s) + 1
  BY AddLast

-----------------------------------------------------------------------------
(***************************************************************************)
(* The transport.                                                          *)
(***************************************************************************)
(* The first state: nothing is started. *)
LEMMA TransportStarts ==
  ASSUME T!Init
  PROVE  TransportInv
<1> USE UpperAssumption DEF T!Init
<1>1. TransportTypes
  BY EmptySeq DEF TransportTypes, ReaderSteps, WorkerSteps
<1> QED
  BY <1>1 DEF TransportInv, TokensPlaced, WorkerHolds, CountRight, UpdateComing

(* The MAC has tokens. *)
LEMMA TokenFacts == Total \in Nat \ {0}
  BY UpperAssumption

LEMMA PlusZero == \A n \in Nat : n + 0 = n
  OBVIOUS

(* What a decrement of the counter leaves. *)
LEMMA Wrapped ==
  ASSUME NEW n \in Nat
  PROVE  (n + TokenModulus - 1) % TokenModulus \in Nat
<1>1. TokenModulus \in Nat /\ TokenModulus > 0
  BY UpperAssumption
<1>2. n + TokenModulus - 1 \in Nat
  BY <1>1
<1> QED
  BY <1>1, <1>2

LEMMA Decremented ==
  ASSUME TransportInv, NEW saw \in Nat, T!Decrement(saw)
  PROVE  flow_control_tokens' \in Nat
<1>1. PICK value \in {saw, flow_control_tokens} :
        flow_control_tokens' = (value + TokenModulus - 1) % TokenModulus
  BY DEF T!Decrement
<1>2. value \in Nat
  BY DEF TransportInv, TransportTypes
<1> QED
  BY <1>1, <1>2, Wrapped

(* The reader thread. *)
LEMMA ReaderKept ==
  ASSUME TransportInv, T!ReaderStep
  PROVE  TransportInv'
<1> USE TokenFacts DEF TransportInv, TokensPlaced, WorkerHolds, T!mac, T!manager
<1>t. reader \in [at : ReaderSteps, saw : Nat] /\ flow_control_tokens \in Nat
  BY DEF TransportTypes
<1>m. ASSUME UNCHANGED <<worker, up, T!mac, T!manager>>
      PROVE  TokensPlaced' /\ WorkerHolds'
  BY <1>m
<1>1. CASE T!CheckCanceled \/ T!PollTimesOut
  <2>1. /\ reader' \in [at : ReaderSteps, saw : Nat] /\ reader.at # "send"
        /\ UNCHANGED <<flow_control_tokens, pending_transport_frames, worker, arrived,
                       stranded, down, up, T!mac, T!manager>>
    BY <1>1, <1>t DEF T!CheckCanceled, T!PollTimesOut, ReaderSteps
  <2>2. TransportTypes'
    BY <2>1 DEF TransportTypes
  <2> QED
    BY <1>m, <2>1, <2>2 DEF CountRight, UpdateComing
<1>2. CASE T!ReadFrame
  <2>1. /\ reader' \in [at : ReaderSteps, saw : Nat] /\ reader.at # "send"
        /\ arrived' = arrived + 1
        /\ UNCHANGED <<flow_control_tokens, pending_transport_frames, worker,
                       stranded, down, up, T!mac, T!manager>>
    BY <1>2, <1>t DEF T!ReadFrame, ReaderSteps
  <2>a. arrived' \in Nat
    <3>1. arrived \in Nat
      BY DEF TransportTypes
    <3>2. arrived' = arrived + 1
      BY <2>1
    <3> HIDE DEF TransportInv, TokensPlaced, WorkerHolds
    <3> QED
      BY <3>1, <3>2
  <2>2. TransportTypes'
    BY <2>1, <2>a DEF TransportTypes
  <2> QED
    BY <1>m, <2>1, <2>2 DEF CountRight, UpdateComing
<1>3. CASE T!PutAside
  <2>1. /\ reader' \in [at : ReaderSteps, saw : Nat] /\ reader.at # "send"
        /\ pending_transport_frames' = Append(pending_transport_frames, arrived)
        /\ stranded' = (stranded \/ flow_control_tokens # 0)
        /\ UNCHANGED <<flow_control_tokens, worker, arrived, down, up, T!mac, T!manager>>
    BY <1>3, <1>t DEF T!PutAside, ReaderSteps
  <2>a. pending_transport_frames \in Seq(Nat) /\ arrived \in Nat
    BY DEF TransportTypes
  <2>b. Append(pending_transport_frames, arrived) \in Seq(Nat)
    BY <2>a, AddLast
  <2>2. pending_transport_frames' \in Seq(Nat)
    BY <2>1, <2>b
  <2>3. TransportTypes'
    BY <2>1, <2>2 DEF TransportTypes
  <2> QED
    BY <1>m, <2>1, <2>3 DEF CountRight, UpdateComing
<1>4. CASE T!SpendToken
  <2>1. /\ reader' \in [at : ReaderSteps, saw : Nat] /\ reader'.at = "send"
        /\ UNCHANGED <<pending_transport_frames, worker, arrived, stranded, down, up, T!mac,
                       T!manager>>
    BY <1>4, <1>t DEF T!SpendToken, ReaderSteps
  <2>2. flow_control_tokens' \in Nat
    BY <1>4, <1>t, Decremented DEF T!SpendToken
  <2>3. TransportTypes'
    BY <2>1, <2>2 DEF TransportTypes
  <2> QED
    BY <1>m, <2>1, <2>3 DEF CountRight, UpdateComing
<1>5. CASE T!SendFrame
  <2>1. /\ reader' \in [at : ReaderSteps, saw : Nat]
        /\ down' = Append(down, arrived)
        /\ UNCHANGED <<flow_control_tokens, pending_transport_frames, worker, arrived,
                       stranded, up, T!mac, T!manager>>
    BY <1>5, <1>t DEF T!SendFrame, ReaderSteps
  <2>a. down \in Seq(Nat) /\ arrived \in Nat
    BY DEF TransportTypes
  <2>b. Append(down, arrived) \in Seq(Nat) /\ Append(down, arrived) # <<>>
    BY <2>a, AddLast
  <2>2. down' \in Seq(Nat) /\ down' # <<>>
    BY <2>1, <2>b
  <2>3. TransportTypes'
    BY <2>1, <2>2 DEF TransportTypes
  <2> QED
    BY <1>m, <2>1, <2>2, <2>3 DEF CountRight, UpdateComing
<1> QED
  BY <1>1, <1>2, <1>3, <1>4, <1>5 DEF T!ReaderStep

(* The worker of the transport's layer. *)
LEMMA ReleaseKept ==
  ASSUME TransportInv, T!WorkerStep
  PROVE  TransportInv'
<1> USE TokenFacts DEF TransportInv, T!mac, T!manager
<1>t. /\ worker \in [at : WorkerSteps, saw : Nat, frames : Seq(Nat)] /\ worker.frames \in Seq(Nat)
      /\ flow_control_tokens \in Nat /\ up \in Seq(Nat) /\ down \in Seq(Nat)
      /\ pending_transport_frames \in Seq(Nat)
  BY DEF TransportTypes
<1>m. ASSUME UNCHANGED <<up, T!mac, T!manager>>
      PROVE  TokensPlaced'
  BY <1>m DEF TokensPlaced
<1>1. CASE T!TokenUpdate
  <2>0. /\ up # <<>> /\ up' = Tail(up) /\ flow_control_tokens' = Head(up)
        /\ worker' = [at |-> "release", saw |-> 0, frames |-> <<>>] /\ worker.at = "idle"
        /\ UNCHANGED <<pending_transport_frames, reader, arrived, stranded, down, T!mac,
                       T!manager>>
    BY <1>1 DEF T!TokenUpdate
  <2>1. /\ Head(up) \in Nat /\ Head(up) = up[1] /\ Tail(up) \in Seq(Nat)
        /\ Len(up) \in Nat \ {0} /\ Len(Tail(up)) = Len(up) - 1
        /\ \A k \in 1..Len(Tail(up)) : k + 1 \in 1..Len(up) /\ Tail(up)[k] = up[k + 1]
    BY <1>t, <2>0, TakeFirst
  <2>2. up' = <<>> => Len(up) = 1
    <3>1. up' = <<>> => Len(up') = 0
      OBVIOUS
    <3> QED
      BY <2>0, <2>1, <3>1
  <2>3. up' # <<>> => up'[Len(up')] = up[Len(up)]
    BY <2>0, <2>1, EmptySeq
  <2>4. worker' \in [at : WorkerSteps, saw : Nat, frames : Seq(Nat)]
    BY <2>0, EmptySeq DEF WorkerSteps
  <2>5. TransportTypes'
    BY <2>0, <2>1, <2>4 DEF TransportTypes
  <2>6. TokensPlaced'
    BY <2>0, <2>3 DEF TokensPlaced
  <2>7. WorkerHolds' /\ worker'.at = "release"
    BY <2>0 DEF WorkerHolds
  <2>8. ASSUME ~UpdateComing'
        PROVE  flow_control_tokens' = Total
    <3>1. up' = <<>> /\ queue = <<>>
      BY <2>0, <2>8 DEF UpdateComing
    <3> QED
      BY <2>0, <2>1, <2>2, <3>1 DEF TokensPlaced
  <2> QED
    BY <2>5, <2>6, <2>7, <2>8 DEF CountRight
<1>2. CASE T!ReleaseLooks
  <2>1. /\ worker' \in [at : WorkerSteps, saw : Nat, frames : Seq(Nat)]
        /\ worker'.at \in {"send", "pop"} /\ worker'.frames = worker.frames
        /\ worker'.at = "send" => flow_control_tokens = 0
        /\ UNCHANGED <<flow_control_tokens, pending_transport_frames, reader, arrived,
                       stranded, down, up, T!mac, T!manager>>
    BY <1>2, <1>t DEF T!ReleaseLooks, WorkerSteps
  <2>2. TransportTypes' /\ WorkerHolds'
    BY <2>1 DEF TransportTypes, WorkerHolds
  <2> QED
    BY <1>m, <2>1, <2>2 DEF CountRight, UpdateComing
<1>3. CASE T!ReleasePops
  <2>1. CASE pending_transport_frames = <<>>
    <3>1. /\ worker' \in [at : WorkerSteps, saw : Nat, frames : Seq(Nat)]
          /\ worker'.at = "send" /\ worker'.frames = worker.frames
          /\ UNCHANGED <<flow_control_tokens, pending_transport_frames, reader, arrived,
                         stranded, down, up, T!mac, T!manager>>
      BY <1>3, <1>t, <2>1 DEF T!ReleasePops, WorkerSteps
    <3>2. TransportTypes' /\ WorkerHolds'
      BY <3>1 DEF TransportTypes, WorkerHolds
    <3> QED
      BY <1>m, <2>1, <3>1, <3>2 DEF CountRight, UpdateComing
  <2>2. CASE pending_transport_frames # <<>>
    <3>1. /\ pending_transport_frames' = Tail(pending_transport_frames)
          /\ worker' = [worker EXCEPT !.at = "spend",
                          !.frames = Append(worker.frames, Head(pending_transport_frames))]
          /\ UNCHANGED <<flow_control_tokens, reader, arrived, stranded, down, up, T!mac,
                         T!manager>>
      BY <1>3, <2>2 DEF T!ReleasePops
    <3>2. Tail(pending_transport_frames) \in Seq(Nat) /\ Head(pending_transport_frames) \in Nat
      BY <1>t, <2>2, TakeFirst
    <3>3. /\ Append(worker.frames, Head(pending_transport_frames)) \in Seq(Nat)
          /\ Append(worker.frames, Head(pending_transport_frames)) # <<>>
      BY <1>t, <3>2, AddLast
    <3>4. /\ worker'.at = "spend" /\ worker'.frames # <<>>
          /\ worker' \in [at : WorkerSteps, saw : Nat, frames : Seq(Nat)]
      BY <1>t, <3>1, <3>3 DEF WorkerSteps
    <3>5. TransportTypes' /\ WorkerHolds' /\ CountRight'
      BY <3>1, <3>2, <3>4 DEF TransportTypes, WorkerHolds, CountRight, UpdateComing
    <3> QED
      BY <1>m, <3>1, <3>5
  <2> QED
    BY <2>1, <2>2
<1>4. CASE T!ReleaseSpends
  <2>1. /\ worker' \in [at : WorkerSteps, saw : Nat, frames : Seq(Nat)]
        /\ worker'.at = "release" /\ worker'.frames = worker.frames /\ worker.at = "spend"
        /\ UNCHANGED <<pending_transport_frames, reader, arrived, stranded, down, up, T!mac,
                       T!manager>>
    BY <1>4, <1>t DEF T!ReleaseSpends, WorkerSteps
  <2>2. flow_control_tokens' \in Nat
    BY <1>4, <1>t, Decremented DEF T!ReleaseSpends
  <2>3. TransportTypes' /\ WorkerHolds' /\ CountRight'
    BY <2>1, <2>2 DEF TransportTypes, WorkerHolds, CountRight, UpdateComing
  <2> QED
    BY <1>m, <2>1, <2>3
<1>5. CASE T!SendReleased
  <2>1. CASE worker.frames = <<>>
    <3>1. /\ worker' \in [at : WorkerSteps, saw : Nat, frames : Seq(Nat)]
          /\ worker'.at = "idle" /\ worker'.frames = <<>> /\ worker.at = "send"
          /\ UNCHANGED <<flow_control_tokens, pending_transport_frames, reader, arrived,
                         stranded, down, up, T!mac, T!manager>>
      BY <1>5, <1>t, <2>1 DEF T!SendReleased, WorkerSteps
    <3>2. TransportTypes' /\ WorkerHolds'
      BY <3>1 DEF TransportTypes, WorkerHolds
    <3> QED
      BY <1>m, <2>1, <3>1, <3>2 DEF CountRight, UpdateComing
  <2>2. CASE worker.frames # <<>>
    <3>1. Head(worker.frames) \in Nat /\ Tail(worker.frames) \in Seq(Nat)
      BY <1>t, <2>2, TakeFirst
    <3>2. /\ worker' = [worker EXCEPT !.frames = Tail(worker.frames)] /\ worker.at = "send"
          /\ down' = Append(down, Head(worker.frames))
          /\ UNCHANGED <<flow_control_tokens, pending_transport_frames, reader, arrived,
                         stranded, up, T!mac, T!manager>>
      BY <1>5, <2>2 DEF T!SendReleased
    <3>a. /\ Append(down, Head(worker.frames)) \in Seq(Nat)
          /\ Append(down, Head(worker.frames)) # <<>>
      BY <1>t, <3>1, NumberAdded, Zenon
    <3>3. down' \in Seq(Nat) /\ down' # <<>>
      BY <3>2, <3>a
    <3>4. worker'.at = "send" /\ worker' \in [at : WorkerSteps, saw : Nat, frames : Seq(Nat)]
      BY <1>t, <3>1, <3>2 DEF WorkerSteps
    <3>5. TransportTypes' /\ WorkerHolds' /\ CountRight'
      BY <3>2, <3>3, <3>4 DEF TransportTypes, WorkerHolds, CountRight, UpdateComing
    <3> QED
      BY <1>m, <3>2, <3>5
  <2> QED
    BY <2>1, <2>2
<1> QED
  BY <1>1, <1>2, <1>3, <1>4, <1>5 DEF T!WorkerStep

(* What the transport is told, if its queue runs. *)
LEMMA Told ==
  ASSUME TransportInv, NEW n \in Nat, T!Tell(n)
  PROVE  /\ up' \in Seq(Nat)
         /\ \/ up' # <<>> /\ up'[Len(up')] = n /\ stopping \notin {"mac", "mac queue", "stopped"}
            \/ up' = <<>> /\ stopping # "no"
<1>1. up \in Seq(Nat)
  BY DEF TransportInv, TransportTypes
<1>2. CASE stopping \in {"mac", "mac queue", "stopped"}
  BY <1>1, <1>2 DEF T!Tell, TransportInv, TokensPlaced
<1>3. CASE stopping \notin {"mac", "mac queue", "stopped"}
  <2>1. up' = Append(up, n)
    BY <1>3 DEF T!Tell
  <2>2. /\ Append(up, n) \in Seq(Nat) /\ Append(up, n) # <<>>
        /\ Len(Append(up, n)) = Len(up) + 1 /\ Append(up, n)[Len(up) + 1] = n
    BY <1>1, AppendProperties
  <2> QED
    BY <1>3, <2>1, <2>2
<1> QED
  BY <1>2, <1>3

(* The MAC. *)
LEMMA MacKept ==
  ASSUME TransportInv, T!MacStep
  PROVE  TransportInv'
<1> USE TokenFacts DEF TransportInv, T!transport, T!manager
<1>t. /\ queue \in Seq(Nat) /\ down \in Seq(Nat) /\ up \in Seq(Nat) /\ available_tokens \in Nat
      /\ Len(queue) \in Nat /\ (queue = <<>> => Len(queue) = 0)
      /\ Total \in Nat
  BY LenProperties DEF TransportTypes
<1>s. /\ started => available_tokens + Len(queue) = Total
      /\ ~started => queue = <<>>
  BY DEF TokensPlaced
<1>w. UNCHANGED <<flow_control_tokens, pending_transport_frames, reader, worker, arrived,
                  stranded, stopping>>
  BY DEF T!MacStep, T!Start, T!GrantAtStart, T!ProcessDownstream, T!Transmit
<1>h. WorkerHolds'
  BY <1>w DEF WorkerHolds
<1>1. CASE T!Start
  <2>1. /\ ~started /\ stopping = "no" /\ started' = TRUE /\ granting' = TRUE /\ available_tokens' = Total
        /\ UNCHANGED <<down, up, queue>>
    BY <1>1 DEF T!Start
  <2>a. available_tokens' + Len(queue') = Total
    BY <1>t, <1>s, <2>1
  <2>2. TokensPlaced' /\ TransportTypes' /\ UpdateComing'
    BY <1>t, <1>w, <2>1, <2>a DEF TokensPlaced, TransportTypes, UpdateComing
  <2> QED
    BY <1>h, <2>2 DEF CountRight
<1>2. CASE T!GrantAtStart
  <2>1. T!Tell(Total) /\ UNCHANGED <<down, started, available_tokens, queue>>
    BY <1>2 DEF T!GrantAtStart
  <2>2. /\ up' \in Seq(Nat)
        /\ \/ up' # <<>> /\ up'[Len(up')] = Total
              /\ stopping \notin {"mac", "mac queue", "stopped"}
           \/ up' = <<>> /\ stopping # "no"
    BY <2>1, Told
  <2>3. TokensPlaced' /\ TransportTypes' /\ UpdateComing'
    BY <1>t, <1>w, <2>1, <2>2 DEF TokensPlaced, TransportTypes, UpdateComing
  <2> QED
    BY <1>h, <2>3 DEF CountRight
<1>3. CASE T!ProcessDownstream
  <2>1. /\ Head(down) \in Nat /\ Tail(down) \in Seq(Nat) /\ down' = Tail(down)
        /\ UNCHANGED <<up, granting, started>>
    BY <1>3, <1>t, TakeFirst DEF T!ProcessDownstream
  <2>2. CASE started /\ available_tokens # 0
    <3>1. /\ queue' \in Seq(Nat) /\ queue' # <<>> /\ available_tokens' \in Nat
          /\ available_tokens' + Len(queue') = available_tokens + Len(queue)
      <4>1. CASE Len(queue) < QueueCapacity
        <5>1. queue' = Append(queue, Head(down)) /\ available_tokens' = available_tokens - 1
          BY <1>3, <2>2, <4>1 DEF T!ProcessDownstream
        <5>2. /\ Append(queue, Head(down)) \in Seq(Nat) /\ Append(queue, Head(down)) # <<>>
              /\ Len(Append(queue, Head(down))) = Len(queue) + 1
          BY <1>t, <2>1, NumberAdded, Zenon
        <5> QED
          BY <1>t, <2>2, <5>1, <5>2
      <4>2. CASE ~(Len(queue) < QueueCapacity)
        <5>1. queue' = Append(Tail(queue), Head(down)) /\ available_tokens' = available_tokens
          BY <1>3, <2>2, <4>2 DEF T!ProcessDownstream
        <5>2. queue # <<>>
          BY <1>t, <4>2, UpperAssumption
        <5>3. Tail(queue) \in Seq(Nat) /\ Len(Tail(queue)) = Len(queue) - 1
          BY <1>t, <5>2, TakeFirst
        <5>4. /\ Append(Tail(queue), Head(down)) \in Seq(Nat)
              /\ Append(Tail(queue), Head(down)) # <<>>
              /\ Len(Append(Tail(queue), Head(down))) = Len(Tail(queue)) + 1
          BY <2>1, <5>3, NumberAdded, Zenon
        <5> QED
          BY <1>t, <5>1, <5>3, <5>4
      <4> QED
        BY <4>1, <4>2
    <3>2. TokensPlaced' /\ TransportTypes' /\ UpdateComing'
      BY <1>w, <2>1, <2>2, <3>1 DEF TokensPlaced, TransportTypes, UpdateComing
    <3> QED
      BY <1>h, <3>2 DEF CountRight
  <2>3. CASE ~(started /\ available_tokens # 0)
    <3>1. UNCHANGED <<available_tokens, queue>>
      BY <1>3, <2>3 DEF T!ProcessDownstream
    <3>2. ~started \/ queue # <<>>
      BY <1>t, <1>s, <2>3, TokenFacts
    <3>3. TokensPlaced' /\ TransportTypes' /\ UpdateComing'
      BY <1>w, <2>1, <3>1, <3>2 DEF TokensPlaced, TransportTypes, UpdateComing
    <3> QED
      BY <1>h, <3>3 DEF CountRight
  <2> QED
    BY <2>2, <2>3
<1>4. CASE T!Transmit
  <2>1. /\ queue # <<>> /\ queue' = Tail(queue) /\ available_tokens' = available_tokens + 1
        /\ T!Tell(available_tokens') /\ UNCHANGED <<down, granting, started>>
    BY <1>4 DEF T!Transmit
  <2>2. /\ Tail(queue) \in Seq(Nat) /\ Len(queue) \in Nat \ {0}
        /\ Len(Tail(queue)) = Len(queue) - 1
    BY <1>t, <2>1, TakeFirst
  <2>3. available_tokens' \in Nat
    BY <1>t, <2>1
  <2>4. /\ up' \in Seq(Nat)
        /\ \/ up' # <<>> /\ up'[Len(up')] = available_tokens'
              /\ stopping \notin {"mac", "mac queue", "stopped"}
           \/ up' = <<>> /\ stopping # "no"
    BY <2>1, <2>3, Told
  <2>a. started
    BY <1>s, <2>1
  <2>5. started /\ available_tokens' + Len(queue') = Total
    <3>1. available_tokens + Len(queue) = Total
      BY <1>s, <2>a
    <3>a. available_tokens \in Nat /\ Len(queue) \in Nat /\ Total \in Nat
      BY <1>t
    <3> HIDE DEF TransportInv
    <3>2. (available_tokens + 1) + (Len(queue) - 1) = Total
      BY <3>a, <3>1
    <3> QED
      BY <2>1, <2>2, <2>a, <3>2
  <2>6. queue' = <<>> => available_tokens' = Total
    <3>3. available_tokens' + 0 = available_tokens'
      BY <2>3, PlusZero, Zenon
    <3> SUFFICES ASSUME queue' = <<>>
                 PROVE  available_tokens' = Total
      OBVIOUS
    <3>1. Len(queue') = 0
      OBVIOUS
    <3>2. available_tokens' + 0 = Total
      BY <2>5, <3>1
    <3> QED
      BY <3>2, <3>3, Zenon
  <2>7. TokensPlaced'
    BY <1>w, <2>1, <2>4, <2>5, <2>6 DEF TokensPlaced
  <2>8. TransportTypes' /\ UpdateComing'
    BY <1>w, <2>1, <2>2, <2>3, <2>4 DEF TransportTypes, UpdateComing
  <2> QED
    BY <1>h, <2>7, <2>8 DEF CountRight
<1> QED
  BY <1>1, <1>2, <1>3, <1>4 DEF T!MacStep

(* A stop, and the start of the transport: an update is coming with the    *)
(* next start of the MAC.                                                  *)
LEMMA StopKept ==
  ASSUME TransportInv, T!StopStep
  PROVE  TransportInv'
<1> USE DEF TransportInv, T!transport, T!mac
<1>t. /\ reader \in [at : ReaderSteps, saw : Nat] /\ pending_transport_frames \in Seq(Nat)
      /\ <<>> \in Seq(Nat) /\ down \in Seq(Nat) /\ up \in Seq(Nat) /\ queue \in Seq(Nat)
      /\ worker \in [at : WorkerSteps, saw : Nat, frames : Seq(Nat)]
      /\ flow_control_tokens \in Nat /\ arrived \in Nat /\ available_tokens \in Nat
  BY EmptySeq DEF TransportTypes
<1>r. reader' \in [at : ReaderSteps, saw : Nat]
  <2>1. UNCHANGED reader \/ reader' = [at |-> "idle", saw |-> 0]
    BY DEF T!StopStep, T!ForgetTokens, T!ForgetFrames, T!CancelReader, T!JoinReader,
           T!StopTransportQueue, T!StopMac, T!StopMacQueue, T!StartTransport
  <2> QED
    BY <1>t, <2>1 DEF ReaderSteps
<1>1. /\ UNCHANGED flow_control_tokens \/ flow_control_tokens' = 0
      /\ UNCHANGED pending_transport_frames \/ pending_transport_frames' = <<>>
      /\ UNCHANGED down \/ down' = <<>>
      /\ UNCHANGED up \/ up' = <<>>
      /\ UNCHANGED queue \/ queue' = <<>>
      /\ UNCHANGED <<worker, arrived, stranded, granting, available_tokens>>
  BY DEF T!StopStep, T!ForgetTokens, T!ForgetFrames, T!CancelReader, T!JoinReader,
         T!StopTransportQueue, T!StopMac, T!StopMacQueue, T!StartTransport
<1>2. TransportTypes' /\ WorkerHolds'
  <2>1. flow_control_tokens' \in Nat
    BY <1>t, <1>1
  <2>2. /\ pending_transport_frames' \in Seq(Nat)
        /\ down' \in Seq(Nat) /\ up' \in Seq(Nat) /\ queue' \in Seq(Nat)
    BY <1>t, <1>1, Zenon
  <2> QED
    BY <1>t, <1>r, <1>1, <2>1, <2>2 DEF TransportTypes, WorkerHolds
<1>3. CASE T!ForgetTokens \/ T!ForgetFrames \/ T!CancelReader \/ T!JoinReader
           \/ T!StopTransportQueue
  <2>1. /\ UNCHANGED <<queue, started, available_tokens>>
        /\ \/ UNCHANGED up /\ stopping' \in {"frames", "cancel", "join", "queue"}
           \/ up' = <<>> /\ stopping' = "mac"
    BY <1>3 DEF T!ForgetTokens, T!ForgetFrames, T!CancelReader, T!JoinReader,
                T!StopTransportQueue
  <2> QED
    BY <1>2, <2>1 DEF TokensPlaced, CountRight, UpdateComing
<1>4. CASE T!StopMac
  <2>1. /\ ~started' /\ queue' = <<>> /\ up' = <<>> /\ stopping' = "mac queue"
    BY <1>4 DEF T!StopMac, TokensPlaced
  <2>2. TokensPlaced'
    BY <2>1 DEF TokensPlaced
  <2>3. CountRight'
    BY <2>1 DEF CountRight, UpdateComing
  <2> QED
    BY <1>2, <2>2, <2>3
<1>5. CASE T!StopMacQueue
  <2>1. /\ UNCHANGED <<up, queue, started, available_tokens>> /\ up = <<>>
        /\ stopping' = "stopped" /\ ~started
    BY <1>5 DEF T!StopMacQueue, TokensPlaced
  <2> QED
    BY <1>2, <2>1 DEF TokensPlaced, CountRight, UpdateComing
<1>6. CASE T!StartTransport
  <2>1. /\ UNCHANGED <<up, queue, started, available_tokens>> /\ up = <<>>
        /\ stopping' = "no" /\ ~started
    BY <1>6 DEF T!StartTransport, TokensPlaced
  <2> QED
    BY <1>2, <2>1 DEF TokensPlaced, CountRight, UpdateComing
<1> QED
  BY <1>3, <1>4, <1>5, <1>6 DEF T!StopStep

(* Every step of the transport and the MAC below it. *)
LEMMA TransportKept ==
  ASSUME TransportInv, T!Next
  PROVE  TransportInv'
  BY ReaderKept, ReleaseKept, MacKept, StopKept DEF T!Next

(* At rest no update is coming, so the count is right and no frame waits.  *)
LEMMA TransportSettles ==
  ASSUME TransportInv
  PROVE  T!FlowSettles
<1> SUFFICES ASSUME T!AtRest
             PROVE  /\ flow_control_tokens = Total
                    /\ pending_transport_frames = <<>> \/ stranded
  BY DEF T!FlowSettles
<1>1. ~UpdateComing /\ worker.at = "idle"
  BY DEF T!AtRest, UpdateComing, TransportInv, WorkerHolds
<1>2. flow_control_tokens = Total /\ Total # 0
  BY <1>1, UpperAssumption DEF TransportInv, CountRight
<1> QED
  BY <1>1, <1>2 DEF TransportInv, CountRight

-----------------------------------------------------------------------------
(***************************************************************************)
(* The flow-control pair.                                                  *)
(***************************************************************************)
(* Messages have a kind and a count. *)
LEMMA MessageFacts ==
  ASSUME NEW u \in Seq(FlowMessages)
  PROVE  /\ Len(u) \in Nat
         /\ \A k \in 1..Len(u) : u[k].kind \in {"packet", "count"} /\ u[k].tokens \in Nat
<1>1. \A k \in 1..Len(u) : u[k] \in FlowMessages
  BY ElementOfSeq
<1> QED
  BY <1>1, LenProperties DEF FlowMessages

(* The first message is taken: what was covered behind it still is. *)
LEMMA CoversAfterTaking ==
  ASSUME NEW u \in Seq(FlowMessages), u # <<>>, NEW c \in Nat, NEW n \in Int,
         NEW i \in 0..(Len(u) - 1), Covers(u, c, i + 1, n)
  PROVE  Covers(Tail(u), c, i, n)
<1>1. /\ Len(u) \in Nat \ {0} /\ Len(Tail(u)) = Len(u) - 1
      /\ \A k \in 1..Len(Tail(u)) : Tail(u)[k] = u[k + 1]
  BY TakeFirst
<1>2. ASSUME NEW k \in i..Len(Tail(u)), PacketsOnly(Tail(u), i, k)
      PROVE  PacketsOnly(u, i + 1, k + 1)
  <2> SUFFICES ASSUME NEW j \in (i + 2)..(k + 1)
               PROVE  u[j].kind = "packet"
    BY <1>1 DEF PacketsOnly
  <2>1. j - 1 \in (i + 1)..k /\ j - 1 \in 1..Len(Tail(u)) /\ (j - 1) + 1 = j
    BY <1>1
  <2>2. Tail(u)[j - 1].kind = "packet"
    BY <1>2, <2>1 DEF PacketsOnly
  <2> QED
    BY <1>1, <2>1, <2>2
<1>3. ASSUME NEW k \in i..Len(Tail(u)), PacketsOnly(Tail(u), i, k)
      PROVE  k - i <= n
  <2>1. k + 1 \in (i + 1)..Len(u)
    BY <1>1
  <2>2. (k + 1) - (i + 1) <= n
    BY <1>2, <1>3, <2>1 DEF Covers
  <2> QED
    BY <1>1, <2>2
<1>4. ASSUME PacketsOnly(Tail(u), i, Len(Tail(u)))
      PROVE  c + (Len(Tail(u)) - i) = n
  <2>1. Len(Tail(u)) \in i..Len(Tail(u)) /\ Len(Tail(u)) + 1 = Len(u)
    BY <1>1
  <2>2. PacketsOnly(u, i + 1, Len(u))
    BY <1>2, <1>4, <2>1
  <2>3. c + (Len(u) - (i + 1)) = n
    BY <2>2 DEF Covers
  <2> QED
    BY <1>1, <2>3
<1> QED
  BY <1>3, <1>4 DEF Covers

(* A packet at the head is covered by what covers the whole way. *)
LEMMA CoversBehindPacket ==
  ASSUME NEW u \in Seq(FlowMessages), u # <<>>, NEW c \in Nat, NEW n \in Int,
         u[1].kind = "packet", Covers(u, c, 0, n)
  PROVE  n >= 1 /\ Covers(Tail(u), c, 0, n - 1)
<1>1. Len(u) \in Nat \ {0}
  BY TakeFirst
<1>2. \A k \in 1..Len(u) : PacketsOnly(u, 1, k) => PacketsOnly(u, 0, k)
  BY <1>1 DEF PacketsOnly
<1>3. n >= 1
  <2>1. PacketsOnly(u, 0, 1) /\ 1 \in 0..Len(u)
    BY <1>1 DEF PacketsOnly
  <2> QED
    BY <2>1 DEF Covers
<1>4. Covers(u, c, 0 + 1, n - 1)
  BY <1>1, <1>2 DEF Covers
<1>5. 0 \in 0..(Len(u) - 1) /\ n - 1 \in Int
  BY <1>1
<1> QED
  BY <1>3, <1>4, <1>5, CoversAfterTaking

(* A count taken from the head of the way covers what is left. *)
LEMMA CoversBehindCount ==
  ASSUME NEW u \in Seq(FlowMessages), u # <<>>, NEW c \in Nat,
         Clean(u[1]), CountsCover(u, c)
  PROVE  Covers(Tail(u), c, 0, u[1].tokens)
<1>1. Len(u) \in Nat \ {0} /\ 1 \in 1..Len(u) /\ 0 + 1 = 1 /\ 0 \in 0..(Len(u) - 1)
  BY TakeFirst
<1>2. u[1].tokens \in Int
  BY <1>1, MessageFacts
<1>3. Covers(u, c, 0 + 1, u[1].tokens)
  BY <1>1 DEF CountsCover
<1> QED
  BY <1>1, <1>2, <1>3, CoversAfterTaking

(* The counts behind the first message cover what they did. *)
LEMMA CountsAfterTaking ==
  ASSUME NEW u \in Seq(FlowMessages), u # <<>>, NEW c \in Nat, CountsCover(u, c)
  PROVE  CountsCover(Tail(u), c)
<1> SUFFICES ASSUME NEW i \in 1..Len(Tail(u)), Clean(Tail(u)[i])
             PROVE  Covers(Tail(u), c, i, Tail(u)[i].tokens)
  BY DEF CountsCover
<1>1. /\ Len(u) \in Nat \ {0} /\ Len(Tail(u)) = Len(u) - 1
      /\ i + 1 \in 1..Len(u) /\ Tail(u)[i] = u[i + 1]
  BY TakeFirst
<1>2. i \in 0..(Len(u) - 1) /\ u[i + 1].tokens \in Int
  BY <1>1, MessageFacts
<1>3. Covers(u, c, i + 1, u[i + 1].tokens)
  BY <1>1 DEF CountsCover
<1> QED
  BY <1>1, <1>2, <1>3, CoversAfterTaking

(* A count is added; a clean one says how many tokens the client has. *)
LEMMA CountAdded ==
  ASSUME NEW u \in Seq(FlowMessages), NEW c, NEW d \in Nat, NEW m \in FlowMessages,
         m.kind = "count", m.hand = 0 => m.tokens = d, CountsCover(u, c)
  PROVE  /\ CountsCover(Append(u, m), d)
         /\ \A n \in Int : Covers(u, c, 0, n) => Covers(Append(u, m), d, 0, n)
<1>1. /\ Len(u) \in Nat /\ Len(Append(u, m)) = Len(u) + 1 /\ Append(u, m)[Len(u) + 1] = m
      /\ \A k \in 1..Len(u) : Append(u, m)[k] = u[k]
  BY AddLast
<1>2. ASSUME NEW i \in 0..Len(u), NEW n \in Int, Covers(u, c, i, n)
      PROVE  Covers(Append(u, m), d, i, n)
  <2>1. ~PacketsOnly(Append(u, m), i, Len(u) + 1)
    <3>1. Len(u) + 1 \in (i + 1)..(Len(u) + 1)
      BY <1>1
    <3> QED
      BY <1>1, <3>1 DEF PacketsOnly
  <2>2. \A k \in i..Len(u) : PacketsOnly(Append(u, m), i, k) => PacketsOnly(u, i, k)
    BY <1>1 DEF PacketsOnly
  <2> QED
    BY <1>1, <1>2, <2>1, <2>2 DEF Covers
<1>3. Covers(Append(u, m), d, Len(u) + 1, d)
  BY <1>1 DEF Covers
<1>4. ASSUME NEW i \in 1..Len(Append(u, m)), Clean(Append(u, m)[i])
      PROVE  Covers(Append(u, m), d, i, Append(u, m)[i].tokens)
  <2>1. CASE i = Len(u) + 1
    BY <1>1, <1>3, <1>4, <2>1 DEF Clean
  <2>2. CASE i \in 1..Len(u)
    BY <1>1, <1>2, <1>4, <2>2, MessageFacts DEF CountsCover
  <2> QED
    BY <1>1, <2>1, <2>2
<1> QED
  BY <1>1, <1>2, <1>4 DEF CountsCover

(* A packet is added, for a token of the client. *)
LEMMA PacketAdded ==
  ASSUME NEW u \in Seq(FlowMessages), NEW c \in Nat \ {0},
         NEW m \in FlowMessages, m.kind = "packet", CountsCover(u, c)
  PROVE  /\ CountsCover(Append(u, m), c - 1)
         /\ \A n \in Int : Covers(u, c, 0, n) => Covers(Append(u, m), c - 1, 0, n)
<1>1. /\ Len(u) \in Nat /\ Len(Append(u, m)) = Len(u) + 1 /\ Append(u, m)[Len(u) + 1] = m
      /\ \A k \in 1..Len(u) : Append(u, m)[k] = u[k]
  BY AddLast
<1>2. ASSUME NEW i \in 0..Len(u), NEW n \in Int, Covers(u, c, i, n)
      PROVE  Covers(Append(u, m), c - 1, i, n)
  <2>1. PacketsOnly(Append(u, m), i, Len(u) + 1) => PacketsOnly(u, i, Len(u))
    BY <1>1 DEF PacketsOnly
  <2>2. \A k \in i..Len(u) : PacketsOnly(Append(u, m), i, k) => PacketsOnly(u, i, k)
    BY <1>1 DEF PacketsOnly
  <2>3. PacketsOnly(u, i, Len(u)) => c + (Len(u) - i) = n
    BY <1>2 DEF Covers
  <2>4. ASSUME NEW k \in i..(Len(u) + 1), PacketsOnly(Append(u, m), i, k)
        PROVE  k - i <= n
    <3>1. CASE k = Len(u) + 1
      BY <1>1, <2>1, <2>3, <2>4, <3>1
    <3>2. CASE k \in i..Len(u)
      BY <1>2, <2>2, <2>4, <3>2 DEF Covers
    <3> QED
      BY <1>1, <3>1, <3>2
  <2>5. PacketsOnly(Append(u, m), i, Len(u) + 1) => c - 1 + (Len(u) + 1 - i) = n
    BY <1>1, <2>1, <2>3
  <2> QED
    BY <1>1, <2>4, <2>5 DEF Covers
<1>3. ASSUME NEW i \in 1..Len(Append(u, m)), Clean(Append(u, m)[i])
      PROVE  Covers(Append(u, m), c - 1, i, Append(u, m)[i].tokens)
  <2>1. i \in 1..Len(u)
    BY <1>1, <1>3 DEF Clean
  <2> QED
    BY <1>1, <1>2, <1>3, <2>1, MessageFacts DEF CountsCover
<1> QED
  BY <1>1, <1>2, <1>3 DEF CountsCover

(* The first state: the manager waits for the client's answer. *)
LEMMA FlowStarts ==
  ASSUME F!Init
  PROVE  FlowInv
<1>1. FlowTypes
  <2>1. /\ ack_pending \in BOOLEAN /\ overtaken \in BOOLEAN /\ underflow \in BOOLEAN
    BY DEF F!Init
  <2>2. /\ up \in Seq(FlowMessages) /\ down \in Seq(Nat)
    BY EmptySeq DEF F!Init
  <2>3. {tokens_available, total_tokens_available, shadow_token_count, last_tokens_update,
         in_service, client_tokens, in_hand} \subseteq Nat
    BY DEF F!Init
  <2> QED
    BY <2>1, <2>2, <2>3 DEF FlowTypes
<1>2. Len(up) = 0
  BY EmptySeq DEF F!Init
<1> QED
  BY <1>1, <1>2 DEF F!Init, FlowInv, CountsCover

(* The steps of the manager leave the client alone. *)
LEMMA ManagerKept ==
  ASSUME FlowInv,
         \/ \E total \in Totals : F!ManagerStart(total)
         \/ F!ManagerStop \/ F!AddToken \/ F!RemoveToken \/ F!ManagerMessage
  PROVE  FlowInv'
<1>t. /\ up \in Seq(FlowMessages) /\ down \in Seq(Nat) /\ Budget \in Nat
      /\ client_tokens \in Nat /\ in_hand \in Nat
      /\ tokens_available \in Nat /\ total_tokens_available \in Nat
      /\ shadow_token_count \in Nat /\ last_tokens_update \in Nat /\ in_service \in Nat
      /\ ack_pending \in BOOLEAN /\ overtaken \in BOOLEAN /\ underflow \in BOOLEAN
      /\ CountsCover(up, Budget)
  BY DEF FlowInv, FlowTypes, Budget
<1>b. UNCHANGED <<client_tokens, in_hand>> /\ Budget' = Budget
  BY DEF F!ManagerStart, F!ManagerStop, F!AddToken, F!RemoveToken, F!ManagerMessage, F!client,
         Budget
<1>1. CASE \E total \in Totals : F!ManagerStart(total)
  <2> PICK total \in Totals : F!ManagerStart(total)
    BY <1>1
  <2>1. total \in Nat
    BY UpperAssumption
  <2>2. Append(down, total) \in Seq(Nat)
    BY <1>t, <2>1, AddLast
  <2>3. /\ total_tokens_available' = total /\ tokens_available' = total
        /\ shadow_token_count' = total /\ last_tokens_update' = total /\ ack_pending' = TRUE
        /\ underflow' = FALSE /\ down' = Append(down, total)
        /\ UNCHANGED <<in_service, overtaken, up>>
    BY DEF F!ManagerStart, F!UpdateShadowAndAck
  <2>4. FlowTypes'
    BY <1>t, <1>b, <2>1, <2>2, <2>3 DEF FlowTypes
  <2> QED
    BY <1>t, <1>b, <2>1, <2>3, <2>4 DEF FlowInv
<1>2. CASE F!ManagerStop
  <2>1. /\ total_tokens_available' = 0 /\ tokens_available' = 0 /\ shadow_token_count' = 0
        /\ underflow' = FALSE
        /\ UNCHANGED <<last_tokens_update, ack_pending, in_service, overtaken, up, down>>
    BY <1>2 DEF F!ManagerStop
  <2>2. FlowTypes'
    <3>1. {tokens_available, total_tokens_available, shadow_token_count, last_tokens_update,
           in_service, client_tokens, in_hand}' \subseteq Nat
      BY <1>t, <1>b, <2>1
    <3>2. /\ ack_pending' \in BOOLEAN /\ overtaken' \in BOOLEAN /\ underflow' \in BOOLEAN
          /\ up' \in Seq(FlowMessages) /\ down' \in Seq(Nat)
      BY <1>t, <2>1
    <3> QED
      BY <3>1, <3>2 DEF FlowTypes
  <2> QED
    BY <1>t, <1>b, <2>1, <2>2 DEF FlowInv
<1>3. CASE F!AddToken
  <2>1. tokens_available' \in Nat /\ in_service' \in Nat
    BY <1>3, <1>t DEF F!AddToken
  <2>2. Append(down, tokens_available') \in Seq(Nat)
    BY <1>t, <2>1, AddLast
  <2>3. UNCHANGED <<up, total_tokens_available, overtaken>>
    BY <1>3 DEF F!AddToken
  <2>4. total_tokens_available' = 0 => tokens_available' = 0
    BY <1>3, <1>t DEF F!AddToken, FlowInv
  <2>5. ASSUME total_tokens_available' # 0
        PROVE  /\ tokens_available' <= total_tokens_available'
               /\ tokens_available' + in_service' >= total_tokens_available'
               /\ tokens_available' > 0 /\ tokens_available' >= tokens_available
    BY <1>3, <1>t, <2>5 DEF F!AddToken, FlowInv
  <2>6. CASE shadow_token_count = 0 /\ tokens_available' > 0
    <3>1. /\ shadow_token_count' = tokens_available' /\ last_tokens_update' = tokens_available'
          /\ ack_pending' = TRUE /\ underflow' = FALSE /\ down' = Append(down, tokens_available')
      BY <1>3, <2>6 DEF F!AddToken, F!UpdateShadowAndAck
    <3>2. FlowTypes'
      BY <1>t, <1>b, <2>1, <2>2, <2>3, <3>1 DEF FlowTypes
    <3>3. CountsCover(up', Budget')
      BY <1>t, <1>b, <2>3
    <3> QED
      BY <2>1, <2>4, <2>5, <3>1, <3>2, <3>3 DEF FlowInv
  <2>7. CASE ~(shadow_token_count = 0 /\ tokens_available' > 0)
    <3>1. UNCHANGED <<shadow_token_count, last_tokens_update, ack_pending, underflow, down>>
      BY <1>3, <2>7 DEF F!AddToken
    <3>2. FlowTypes'
      BY <1>t, <1>b, <2>1, <2>3, <3>1 DEF FlowTypes
    <3>3. total_tokens_available # 0 => shadow_token_count # 0
      BY <2>3, <2>5, <2>7
    <3>4. CountsCover(up', Budget')
      BY <1>t, <1>b, <2>3
    <3>5. Covers(up, Budget, 0, shadow_token_count) =>
            Covers(up', Budget', 0, shadow_token_count')
      BY <1>b, <2>3, <3>1
    <3>6. total_tokens_available # 0 /\ ~underflow => shadow_token_count <= tokens_available'
      BY <1>t, <2>1, <2>3, <2>5 DEF FlowInv
    <3> QED
      BY <2>3, <2>4, <2>5, <3>1, <3>2, <3>3, <3>4, <3>5, <3>6 DEF FlowInv
  <2> QED
    BY <2>6, <2>7
<1>4. CASE F!RemoveToken
  <2>1. up # <<>> /\ Head(up) = up[1] /\ Tail(up) \in Seq(FlowMessages) /\ up' = Tail(up)
        /\ up[1].kind = "packet"
    BY <1>4, <1>t, TakeFirst DEF F!RemoveToken
  <2>2. CountsCover(up', Budget')
    BY <1>t, <1>b, <2>1, CountsAfterTaking
  <2>3. Covers(up, Budget, 0, shadow_token_count) =>
          shadow_token_count >= 1 /\ Covers(up', Budget', 0, shadow_token_count - 1)
    <3> SUFFICES ASSUME Covers(up, Budget, 0, shadow_token_count)
                 PROVE  shadow_token_count >= 1
                        /\ Covers(up', Budget', 0, shadow_token_count - 1)
      OBVIOUS
    <3>1. up \in Seq(FlowMessages) /\ Budget \in Nat /\ shadow_token_count \in Int
      BY <1>t
    <3>2. shadow_token_count >= 1 /\ Covers(Tail(up), Budget, 0, shadow_token_count - 1)
      BY <2>1, <3>1, CoversBehindPacket
    <3> QED
      BY <1>b, <2>1, <3>2
  <2>4. CASE F!MayTake
    <3>1. /\ ~ack_pending /\ tokens_available # 0
          /\ tokens_available' = tokens_available - 1
          /\ shadow_token_count' = IF shadow_token_count = 0 THEN TokenModulus - 1
                                                             ELSE shadow_token_count - 1
          /\ underflow' = (underflow \/ shadow_token_count = 0)
          /\ in_service' = in_service + 1
          /\ UNCHANGED <<total_tokens_available, last_tokens_update, ack_pending, overtaken,
                         down>>
      BY <1>4, <2>4 DEF F!RemoveToken, F!MayTake
    <3>2. /\ total_tokens_available # 0 /\ tokens_available <= total_tokens_available
          /\ tokens_available + in_service >= total_tokens_available
          /\ ~underflow => shadow_token_count <= tokens_available
          /\ ~overtaken => ~underflow /\ Covers(up, Budget, 0, shadow_token_count)
      BY <3>1 DEF FlowInv
    <3>3. /\ tokens_available' \in Nat /\ shadow_token_count' \in Nat /\ in_service' \in Nat
          /\ in_service' > 0 /\ tokens_available' + in_service' >= total_tokens_available
          /\ tokens_available' <= total_tokens_available
      BY <1>t, <3>1, <3>2, UpperAssumption
    <3>4. FlowTypes'
      BY <1>t, <1>b, <2>1, <3>1, <3>3 DEF FlowTypes
    <3>5. ASSUME ~overtaken
          PROVE  ~underflow' /\ Covers(up', Budget', 0, shadow_token_count')
      <4>1. shadow_token_count # 0
        BY <1>t, <2>3, <3>2, <3>5
      <4>2. shadow_token_count' = shadow_token_count - 1 /\ ~underflow'
        BY <3>1, <3>2, <3>5, <4>1
      <4>3. Covers(up', Budget', 0, shadow_token_count - 1)
        BY <2>3, <3>2, <3>5
      <4> QED
        BY <4>2, <4>3
    <3>6. ASSUME ~underflow'
          PROVE  shadow_token_count' <= tokens_available'
      <4>1. ~underflow /\ shadow_token_count # 0
        BY <3>1, <3>6
      <4>2. shadow_token_count' = shadow_token_count - 1
            /\ shadow_token_count <= tokens_available
        BY <3>1, <3>2, <4>1
      <4> QED
        BY <1>t, <3>1, <4>2
    <3> QED
      BY <1>t, <2>2, <3>1, <3>2, <3>3, <3>4, <3>5, <3>6 DEF FlowInv
  <2>5. CASE ~F!MayTake
    <3>1. UNCHANGED <<tokens_available, total_tokens_available, shadow_token_count,
                      last_tokens_update, ack_pending, in_service, overtaken, underflow,
                      down>>
      BY <1>4, <2>5 DEF F!RemoveToken
    <3>2. ~(total_tokens_available # 0 /\ ~ack_pending /\ ~overtaken)
      <4> SUFFICES ASSUME total_tokens_available # 0, ~ack_pending, ~overtaken
                   PROVE  FALSE
        OBVIOUS
      <4>1. tokens_available = 0
        BY <2>5 DEF F!MayTake
      <4>2. shadow_token_count = 0 /\ Covers(up, Budget, 0, shadow_token_count)
        BY <4>1, <1>t DEF FlowInv
      <4> QED
        BY <2>3, <4>2
    <3>3. FlowTypes'
      BY <1>t, <1>b, <2>1, <3>1 DEF FlowTypes
    <3> QED
      BY <1>t, <2>2, <3>1, <3>2, <3>3 DEF FlowInv
  <2> QED
    BY <2>4, <2>5
<1>5. CASE F!ManagerMessage
  <2>1. up # <<>> /\ Head(up) = up[1] /\ Tail(up) \in Seq(FlowMessages) /\ up' = Tail(up)
        /\ up[1].kind = "count" /\ up[1].tokens \in Nat
    <3>1. up # <<>> /\ up' = Tail(up) /\ Head(up).kind = "count"
      BY <1>5 DEF F!ManagerMessage
    <3>2. Head(up) = up[1] /\ Tail(up) \in Seq(FlowMessages) /\ Head(up) \in FlowMessages
      BY <1>t, <3>1, TakeFirst
    <3>3. Head(up).tokens \in Nat
      BY <3>2 DEF FlowMessages
    <3> QED
      BY <3>1, <3>2, <3>3
  <2>2. CountsCover(up', Budget')
    BY <1>t, <1>b, <2>1, CountsAfterTaking
  <2>3. up[1].hand = 0 => Covers(up', Budget', 0, up[1].tokens)
    BY <1>t, <1>b, <2>1, CoversBehindCount DEF Clean
  <2>4. CASE ack_pending /\ Head(up).tokens = last_tokens_update
    <3>1. /\ ack_pending' = FALSE /\ overtaken' = (up[1].hand # 0)
          /\ UNCHANGED <<tokens_available, total_tokens_available, shadow_token_count,
                         last_tokens_update, in_service, underflow, down>>
      BY <1>5, <2>1, <2>4 DEF F!ManagerMessage
    <3>2. ~underflow /\ (total_tokens_available # 0 => shadow_token_count = up[1].tokens)
      BY <2>1, <2>4 DEF FlowInv
    <3>3. FlowTypes'
      BY <1>t, <1>b, <2>1, <3>1 DEF FlowTypes
    <3>4. total_tokens_available' # 0 /\ ~overtaken' =>
            Covers(up', Budget', 0, shadow_token_count')
      BY <2>3, <3>1, <3>2
    <3> QED
      BY <1>t, <2>2, <3>1, <3>2, <3>3, <3>4 DEF FlowInv
  <2>5. CASE ~(ack_pending /\ Head(up).tokens = last_tokens_update)
    <3>1. Append(down, tokens_available) \in Seq(Nat)
      BY <1>t, AddLast
    <3>2. /\ shadow_token_count' = tokens_available /\ last_tokens_update' = tokens_available
          /\ ack_pending' = TRUE /\ underflow' = FALSE /\ down' = Append(down, tokens_available)
          /\ UNCHANGED <<tokens_available, total_tokens_available, in_service, overtaken>>
      BY <1>5, <2>5 DEF F!ManagerMessage, F!UpdateShadowAndAck
    <3>3. FlowTypes'
      BY <1>t, <1>b, <2>1, <3>1, <3>2 DEF FlowTypes
    <3>4. total_tokens_available # 0 /\ tokens_available = 0 => in_service > 0
      BY <1>t DEF FlowInv
    <3> QED
      BY <1>t, <2>2, <3>2, <3>3, <3>4 DEF FlowInv
  <2> QED
    BY <2>4, <2>5
<1> QED
  BY <1>1, <1>2, <1>3, <1>4, <1>5

(* The steps of the client. *)
LEMMA ClientKept ==
  ASSUME FlowInv,
         \/ F!ClientStart \/ F!ClientTakes \/ F!TransportSends \/ F!ClientMessage
         \/ F!ClientStop
  PROVE  FlowInv'
<1>t. /\ up \in Seq(FlowMessages) /\ down \in Seq(Nat) /\ Budget \in Nat
      /\ client_tokens \in Nat /\ in_hand \in Nat
      /\ shadow_token_count \in Nat /\ CountsCover(up, Budget)
  BY DEF FlowInv, FlowTypes, Budget
<1>k. ASSUME NEW t \in Nat
      PROVE  /\ F!Count(t) \in FlowMessages /\ F!Count(t).kind = "count"
             /\ F!Count(t).tokens = t /\ F!Count(t).hand = in_hand
  BY <1>t DEF F!Count, FlowMessages
<1>s. ASSUME up' \in Seq(FlowMessages), down' \in Seq(Nat), client_tokens' \in Nat,
             in_hand' \in Nat, CountsCover(up', Budget'), UNCHANGED F!manager,
             \A n \in Int : Covers(up, Budget, 0, n) => Covers(up', Budget', 0, n)
      PROVE  FlowInv'
  <2>1. UNCHANGED <<tokens_available, total_tokens_available, shadow_token_count,
                    last_tokens_update, ack_pending, in_service, overtaken, underflow>>
    BY <1>s DEF F!manager
  <2>2. FlowTypes'
    BY <1>s, <2>1 DEF FlowInv, FlowTypes
  <2>3. Covers(up, Budget, 0, shadow_token_count) =>
          Covers(up', Budget', 0, shadow_token_count')
    BY <1>s, <1>t, <2>1
  <2> QED
    BY <1>s, <1>t, <2>1, <2>2, <2>3 DEF FlowInv
<1>c. ASSUME NEW t \in Nat, up' = Append(up, F!Count(t)), client_tokens' = t,
             in_hand' = in_hand, down' \in Seq(Nat), UNCHANGED F!manager
      PROVE  FlowInv'
  <2>1. Budget' \in Nat /\ (F!Count(t).hand = 0 => F!Count(t).tokens = Budget')
    <3>1. Budget' = t + in_hand
      BY <1>c DEF Budget
    <3>2. F!Count(t).tokens = t /\ F!Count(t).hand = in_hand
      BY <1>k
    <3> QED
      BY <1>t, <3>1, <3>2
  <2> QED
    BY <1>c, <1>s, <1>t, <1>k, <2>1, CountAdded, AddLast
<1>1. CASE F!ClientStart
  <2>1. up' = Append(up, F!Count(client_tokens))
        /\ UNCHANGED <<client_tokens, in_hand, down, F!manager>>
    BY <1>1 DEF F!ClientStart
  <2> QED
    BY <1>c, <1>t, <2>1
<1>2. CASE F!ClientTakes
  <2>1. UNCHANGED <<up, down, F!manager>>
    BY <1>2 DEF F!ClientTakes
  <2>2. client_tokens' \in Nat /\ in_hand' \in Nat /\ Budget' = Budget
    BY <1>2, <1>t DEF F!ClientTakes, Budget
  <2> QED
    BY <1>s, <1>t, <2>1, <2>2
<1>3. CASE F!TransportSends
  <2>1. up' = Append(up, F!Packet) /\ UNCHANGED <<client_tokens, down, F!manager>>
    BY <1>3 DEF F!TransportSends
  <2>2. F!Packet \in FlowMessages /\ F!Packet.kind = "packet"
    BY DEF F!Packet, FlowMessages
  <2>3. in_hand' \in Nat /\ Budget \in Nat \ {0} /\ Budget' = Budget - 1
    BY <1>3, <1>t DEF F!TransportSends, Budget
  <2> QED
    BY <1>s, <1>t, <2>1, <2>2, <2>3, PacketAdded, AddLast
<1>4. CASE F!ClientMessage
  <2>1. /\ Head(down) \in Nat /\ Tail(down) \in Seq(Nat) /\ down' = Tail(down)
    BY <1>4, <1>t, TakeFirst DEF F!ClientMessage
  <2>2. up' = Append(up, F!Count(Head(down))) /\ client_tokens' = Head(down)
        /\ UNCHANGED <<in_hand, F!manager>>
    BY <1>4 DEF F!ClientMessage
  <2> QED
    BY <1>c, <2>1, <2>2
<1>5. CASE F!ClientStop
  <2>1. UNCHANGED <<up, down, client_tokens, in_hand, F!manager>> /\ Budget' = Budget
    BY <1>5 DEF F!ClientStop, Budget
  <2> QED
    BY <1>s, <1>t, <2>1
<1> QED
  BY <1>1, <1>2, <1>3, <1>4, <1>5

(* Every step of the pair. *)
LEMMA FlowKept ==
  ASSUME FlowInv, F!Next
  PROVE  FlowInv'
  BY ManagerKept, ClientKept DEF F!Next

(* Confirmed and with nothing on the way, the two sides agree. *)
LEMMA FlowAgrees ==
  ASSUME FlowInv
  PROVE  F!CreditsAgree
<1>1. ~overtaken => ~underflow
  BY DEF FlowInv
<1>2. ASSUME up = <<>>, in_hand = 0, ~overtaken, ~ack_pending, total_tokens_available # 0
      PROVE  /\ client_tokens = shadow_token_count
             /\ client_tokens = 0 => in_service > 0
  <2>1. Covers(up, Budget, 0, shadow_token_count) /\ client_tokens \in Nat
    BY <1>2 DEF FlowInv, FlowTypes
  <2>2. Len(up) = 0 /\ Budget = client_tokens
    BY <1>2, <2>1, EmptySeq DEF Budget
  <2>3. client_tokens = shadow_token_count
    BY <2>1, <2>2 DEF Covers, PacketsOnly
  <2> QED
    BY <1>2, <2>3 DEF FlowInv
<1> QED
  BY <1>1, <1>2 DEF F!CreditsAgree

-----------------------------------------------------------------------------
(***************************************************************************)
(* The comm-effect shim.                                                   *)
(***************************************************************************)
(* A set of natural numbers has a least one. *)
LEMMA Least ==
  ASSUME NEW D, D \subseteq Nat, D # {}
  PROVE  \E i \in D : \A j \in D : i <= j
<1> DEFINE R == {ss \in Nat \X Nat : ss[1] < ss[2]}
<1>1. R = OpToRel(<, Nat)
  BY DEF OpToRel
<1>2. IsWellFoundedOn(R, Nat)
  BY <1>1, NatLessThanWellFounded
<1> HIDE DEF R
<1>3. PICK i \in D : \A j \in D : ~(<<j, i>> \in R)
  BY <1>2, WFMin
<1>4. ASSUME NEW j \in D
      PROVE  i <= j
  <2>1. i \in Nat /\ j \in Nat
    OBVIOUS
  <2>2. <<j, i>> \in Nat \X Nat /\ <<j, i>>[1] = j /\ <<j, i>>[2] = i
    BY <2>1
  <2>3. ~(j < i)
    BY <1>3, <2>2 DEF R
  <2> QED
    BY <2>1, <2>3
<1> QED
  BY <1>4

(* The first state: nothing was received. *)
LEMMA EffectStarts ==
  ASSUME E!Init
  PROVE  EffectInv
<1> USE DEF E!Init
<1>1. outcome \in Seq(Outcomes) /\ Len(outcome) = 0
  BY EmptySeq
<1>2. DOMAIN profiles = {} /\ DOMAIN end_of_reception = {}
  BY DEF E!None
<1>3. EffectTypes
  BY <1>1, <1>2 DEF EffectTypes, EffectsOf
<1>4. E!EffectsKept
  BY <1>1 DEF E!EffectsKept
<1> QED
  BY <1>3, <1>4 DEF EffectInv

(* An effect that a packet meets is one of the filters' or of the events'. *)
LEMMA EffectMet ==
  ASSUME EffectInv, NEW source, NEW frame, NEW effect \in E!EffectOf(source, frame)
  PROVE  /\ {effect.latency, effect.jitter, effect.loss, effect.duplicate} \subseteq Nat
         /\ {effect.unicast, effect.broadcast} \subseteq Nat
<1>1. CASE E!MatchingFilters(frame) # {}
  <2> DEFINE D == E!MatchingFilters(frame)
             first == CHOOSE i \in D : \A j \in D : i <= j
  <2>1. D \subseteq 1..Len(setting.filters) /\ D \subseteq Nat
    BY DEF E!MatchingFilters
  <2>2. \E i \in D : \A j \in D : i <= j
    BY <1>1, <2>1, Least
  <2>3. first \in D
    BY <2>2
  <2>4. effect = setting.filters[first].effect
    BY <1>1 DEF E!EffectOf
  <2> HIDE DEF D, first
  <2>5. setting \in EffectSettings
    BY DEF EffectInv, EffectTypes
  <2>6. EffectsOf({setting.filters[i].effect : i \in 1..Len(setting.filters)})
    BY <2>5, UpperAssumption
  <2> QED
    BY <2>1, <2>3, <2>4, <2>6 DEF EffectsOf
<1>2. CASE E!MatchingFilters(frame) = {}
  <2>1. source \in DOMAIN profiles /\ effect = profiles[source]
    BY <1>2 DEF E!EffectOf
  <2>2. EffectsOf({profiles[s] : s \in DOMAIN profiles})
    BY DEF EffectInv, EffectTypes
  <2> QED
    BY <2>1, <2>2 DEF EffectsOf
<1> QED
  BY <1>1, <1>2

(* The time a packet takes is not negative. *)
LEMMA SpanFacts ==
  ASSUME NEW effect, {effect.unicast, effect.broadcast} \subseteq Nat, NEW frame \in Frames
  PROVE  E!ReceptionTime(effect, frame) \in Nat
<1>1. frame.size \in Nat
  BY UpperAssumption
<1>2. \A n \in Nat \ {0} : frame.size \div n \in Nat
  BY <1>1
<1> QED
  BY <1>2 DEF E!ReceptionTime

(* No copy is due before its latency and its jitter allow. *)
LEMMA CopyFacts ==
  ASSUME NEW effect, {effect.latency, effect.jitter} \subseteq Nat, NEW end \in Nat,
         now \in Nat, NEW at \in E!Expirations(effect, end)
  PROVE  at \in Int /\ at >= end + effect.latency - effect.jitter
<1>1. effect.latency \in Nat /\ effect.jitter \in Nat
  OBVIOUS
<1>2. CASE effect.jitter = 0
  BY <1>1, <1>2 DEF E!Expirations
<1>3. CASE effect.jitter # 0
  <2>1. PICK j \in -effect.jitter..(effect.jitter - 1) :
          at = E!Later(end + effect.latency + j, IF j < 0 THEN now ELSE 0)
    BY <1>3 DEF E!Expirations
  <2>2. j \in Int /\ j >= -effect.jitter
    BY <1>1
  <2> QED
    BY <1>1, <2>1, <2>2 DEF E!Later
<1> QED
  BY <1>2, <1>3

(* As many copies as the draws come to. *)
LEMMA TaskFacts ==
  ASSUME NEW effect, effect.duplicate \in Nat
  PROVE  E!TaskCounts(effect) \subseteq Nat
<1>1. effect.duplicate \div 100 \in Nat
  OBVIOUS
<1> QED
  BY <1>1 DEF E!TaskCounts

(* A packet that is dropped or passed at once. *)
LEMMA NotReceived ==
  ASSUME EffectInv, NEW reason \in Outcomes, reason # "scheduled",
         outcome' = Append(outcome, reason), arrived' = arrived + 1,
         UNCHANGED <<now, setting, life, profiles, end_of_reception, copies, receptions>>
  PROVE  EffectInv'
<1>1. /\ outcome \in Seq(Outcomes) /\ Len(outcome) = arrived /\ arrived \in Nat
      /\ \A c \in copies : c.id \in 1..arrived /\ c.at \in Int /\ c.earliest \in Int
  BY DEF EffectInv, EffectTypes
<1>2. /\ outcome' \in Seq(Outcomes) /\ Len(outcome') = arrived'
      /\ outcome'[arrived'] = reason /\ \A k \in 1..arrived : outcome'[k] = outcome[k]
  BY <1>1, AddLast
<1>3. \A c \in copies : c.id \in 1..arrived'
  BY <1>1
<1>4. EffectTypes'
  BY <1>1, <1>2, <1>3 DEF EffectInv, EffectTypes
<1>5. \A i \in 1..Len(outcome') :
        outcome'[i] = "scheduled" => i \in 1..Len(outcome) /\ outcome[i] = "scheduled"
  BY <1>1, <1>2
<1>6. E!EffectsKept'
  BY <1>5 DEF EffectInv, E!EffectsKept
<1> QED
  BY <1>4, <1>6 DEF EffectInv

(* A packet that is received, and its copies. *)
LEMMA Received ==
  ASSUME EffectInv, NEW source, NEW frame \in Frames,
         NEW effect \in E!EffectOf(source, frame),
         ~E!BufferFull(source), E!WithEffect(source, effect, frame), arrived' = arrived + 1,
         UNCHANGED <<now, setting, life, profiles>>
  PROVE  EffectInv'
<1> DEFINE end == E!EndOf(source, effect, frame)
           span == E!ReceptionTime(effect, frame)
           new == [source |-> source, life |-> life, end |-> end, span |-> span]
<1>1. /\ now \in Nat /\ life \in Nat /\ arrived \in Nat
      /\ outcome \in Seq(Outcomes) /\ Len(outcome) = arrived
      /\ \A s \in DOMAIN end_of_reception : end_of_reception[s] \in Nat
      /\ \A c \in copies : c.id \in 1..arrived /\ c.at \in Int /\ c.earliest \in Int
      /\ \A q \in receptions : q.end \in Nat /\ q.span \in Nat /\ q.life \in 1..life
      /\ setting \in EffectSettings
  BY DEF EffectInv, EffectTypes
<1>2. /\ {effect.latency, effect.jitter, effect.loss, effect.duplicate} \subseteq Nat
      /\ {effect.unicast, effect.broadcast} \subseteq Nat
  BY EffectMet
<1>3. span \in Nat
  BY <1>2, SpanFacts
<1>4. /\ end \in Nat /\ end >= now + span
      /\ source \in DOMAIN end_of_reception => end >= end_of_reception[source] + span
      /\ \/ source \in DOMAIN end_of_reception /\ end = end_of_reception[source] + span
         \/ end = now + span
  <2> HIDE DEF span
  <2>1. end = E!Later(now, IF source \in DOMAIN end_of_reception
                             THEN end_of_reception[source] ELSE now) + span
    BY DEF E!EndOf, span
  <2> HIDE DEF end
  <2> QED
    BY <1>1, <1>3, <2>1 DEF E!Later
<1>5. /\ end_of_reception' = [s \in DOMAIN end_of_reception \cup {source} |->
                                IF s = source THEN end ELSE end_of_reception[s]]
      /\ receptions' = receptions \cup {new}
  BY DEF E!WithEffect
<1>6. PICK n \in E!TaskCounts(effect) :
        \E at \in [1..n -> E!Expirations(effect, end)], failed \in SUBSET (1..n) :
          /\ copies' = copies \cup
               {[id |-> arrived', copy |-> c, at |-> at[c],
                 earliest |-> end + effect.latency - effect.jitter] : c \in (1..n) \ failed}
          /\ outcome' = Append(outcome, E!Scheduling(n, failed))
  BY DEF E!WithEffect
<1> HIDE DEF end, span
<1>7. PICK at \in [1..n -> E!Expirations(effect, end)], failed \in SUBSET (1..n) :
        /\ copies' = copies \cup
             {[id |-> arrived', copy |-> c, at |-> at[c],
               earliest |-> end + effect.latency - effect.jitter] : c \in (1..n) \ failed}
        /\ outcome' = Append(outcome, E!Scheduling(n, failed))
  BY <1>6
<1>8. n \in Nat
  BY <1>2, TaskFacts
<1>9. /\ outcome' \in Seq(Outcomes) /\ Len(outcome') = arrived'
      /\ outcome'[arrived'] = E!Scheduling(n, failed)
      /\ \A k \in 1..arrived : outcome'[k] = outcome[k]
  <2>1. E!Scheduling(n, failed) \in Outcomes
    BY DEF Outcomes, E!Scheduling
  <2> QED
    BY <1>1, <1>7, <2>1, AddLast
<1>10. \A c \in 1..n : at[c] \in Int /\ at[c] >= end + effect.latency - effect.jitter
  BY <1>1, <1>2, <1>4, CopyFacts
<1>11. \A c \in copies' : \/ c \in copies
                          \/ /\ c.id = arrived' /\ c.at \in Int
                             /\ c.earliest = end + effect.latency - effect.jitter
                             /\ c.at >= c.earliest
  BY <1>7, <1>10
<1>12. end + effect.latency - effect.jitter \in Int
  BY <1>2, <1>4
<1>13. \A s \in DOMAIN end_of_reception' : end_of_reception'[s] \in Nat
  BY <1>1, <1>4, <1>5
<1>14. \A c \in copies' : c.id \in 1..arrived' /\ c.at \in Int /\ c.earliest \in Int
  BY <1>1, <1>11, <1>12
<1>15. \A q \in receptions' : q.end \in Nat /\ q.span \in Nat /\ q.life \in 1..life'
  <2>1. life >= 1
    BY DEF EffectInv, EffectTypes
  <2> QED
    BY <1>1, <1>3, <1>4, <1>5, <2>1
<1>16. EffectTypes'
  BY <1>1, <1>9, <1>13, <1>14, <1>15 DEF EffectInv, EffectTypes
<1>17. ASSUME NEW q \in receptions, q.life = life, q.source = source
       PROVE  source \in DOMAIN end_of_reception /\ q.end <= end_of_reception[source]
  BY <1>17 DEF EffectInv
<1>18. \A q \in receptions' : q.life = life' => /\ q.source \in DOMAIN end_of_reception'
                                                /\ q.end <= end_of_reception'[q.source]
  <2> SUFFICES ASSUME NEW q \in receptions', q.life = life
               PROVE  /\ q.source \in DOMAIN end_of_reception'
                      /\ q.end <= end_of_reception'[q.source]
    OBVIOUS
  <2>1. CASE q = new
    BY <1>4, <1>5, <2>1
  <2>2. CASE q \in receptions /\ q.source = source
    <3>1. q.end <= end
      BY <1>1, <1>3, <1>4, <1>17, <2>2
    <3> QED
      BY <1>5, <2>2, <3>1
  <2>3. CASE q \in receptions /\ q.source # source
    BY <1>5, <2>3 DEF EffectInv
  <2> QED
    BY <1>5, <2>1, <2>2, <2>3
<1>19. ASSUME NEW p \in receptions', NEW q \in receptions', p.source = q.source,
              p.life = q.life, p.end < q.end
       PROVE  p.end <= q.end - q.span
  <2>1. CASE p \in receptions /\ q \in receptions
    BY <1>19, <2>1 DEF EffectInv, E!EffectsKept
  <2>2. CASE p \in receptions /\ q = new
    BY <1>1, <1>3, <1>4, <1>17, <1>19, <2>2
  <2>3. CASE p = new /\ q \in receptions
    BY <1>1, <1>3, <1>4, <1>17, <1>19, <2>3
  <2>4. CASE p = new /\ q = new
    BY <1>4, <1>19, <2>4
  <2> QED
    BY <1>5, <2>1, <2>2, <2>3, <2>4
<1>20. ASSUME setting'.buffer # 0, NEW q \in receptions',
              q.source \in DOMAIN end_of_reception', q.life = life',
              q.end = end_of_reception'[q.source]
       PROVE  q.end - now' <= setting'.buffer + q.span
  <2>1. setting.buffer \in Nat /\ setting'.buffer = setting.buffer
    BY <1>1, UpperAssumption
  <2>2. CASE q = new
    <3>1. source \in DOMAIN end_of_reception =>
            end_of_reception[source] - now <= setting.buffer
      BY <1>1, <1>20, <2>1 DEF E!BufferFull
    <3> QED
      BY <1>1, <1>3, <1>4, <2>1, <2>2, <3>1
  <2>3. CASE q \in receptions /\ q.source = source
    <3>1. q.end = end
      BY <1>5, <1>20, <2>3
    <3>2. source \in DOMAIN end_of_reception /\ q.end <= end_of_reception[source]
      BY <1>17, <1>20, <2>3
    <3>3. CASE q.end = end_of_reception[source]
      BY <1>20, <2>1, <2>3, <3>2, <3>3 DEF EffectInv, E!EffectsKept
    <3>4. CASE q.end # end_of_reception[source]
      BY <1>1, <1>3, <1>4, <3>1, <3>2, <3>4
    <3> QED
      BY <3>3, <3>4
  <2>4. CASE q \in receptions /\ q.source # source
    <3>1. q.source \in DOMAIN end_of_reception /\ q.end = end_of_reception[q.source]
      BY <1>5, <1>20, <2>4
    <3> QED
      BY <1>20, <2>1, <2>4, <3>1 DEF EffectInv, E!EffectsKept
  <2> QED
    BY <1>5, <2>2, <2>3, <2>4
<1>21. \A c \in copies' : c.at >= c.earliest
  BY <1>11 DEF EffectInv, E!EffectsKept
<1>22. ASSUME NEW i \in 1..Len(outcome'), outcome'[i] = "scheduled"
       PROVE  \E c \in copies' : c.id = i
  <2>1. CASE i = arrived'
    <3>1. n # 0 /\ failed = {}
      BY <1>9, <1>22, <2>1 DEF E!Scheduling
    <3>a. 1 \in 1..n
      BY <1>8, <3>1
    <3> DEFINE c == [id |-> arrived', copy |-> 1, at |-> at[1],
                     earliest |-> end + effect.latency - effect.jitter]
    <3>2. c \in copies' /\ c.id = arrived'
      BY <1>7, <3>1, <3>a
    <3> QED
      BY <2>1, <3>2
  <2>2. CASE i # arrived'
    <3>1. i \in 1..Len(outcome) /\ outcome[i] = "scheduled"
      BY <1>1, <1>9, <1>22, <2>2
    <3> QED
      BY <1>7, <3>1 DEF EffectInv, E!EffectsKept
  <2> QED
    BY <2>1, <2>2
<1>23. E!EffectsKept'
  BY <1>19, <1>20, <1>21, <1>22 DEF E!EffectsKept
<1> QED
  BY <1>16, <1>18, <1>23 DEF EffectInv

(* Every step of the shim. *)
LEMMA EffectKept ==
  ASSUME EffectInv, E!Next
  PROVE  EffectInv'
<1>1. CASE \E s \in Sources, f \in Frames, group \in BOOLEAN : E!Upstream(s, f, group)
  <2> PICK s \in Sources, f \in Frames, group \in BOOLEAN : E!Upstream(s, f, group)
    BY <1>1
  <2>1. arrived' = arrived + 1 /\ UNCHANGED <<now, setting, life, profiles>>
    BY DEF E!Upstream
  <2>2. \/ \E reason \in {"destination", "group"} : E!Drop(reason)
        \/ E!WithoutEffect
        \/ \E effect \in E!EffectOf(s, f) : E!WithEffect(s, effect, f)
    BY DEF E!Upstream
  <2>3. CASE \E reason \in {"destination", "group"} : E!Drop(reason)
    BY <2>1, <2>3, NotReceived DEF E!Drop, Outcomes
  <2>4. CASE E!WithoutEffect
    <3> DEFINE reason == IF default_connectivity THEN "passed" ELSE "no profile"
    <3>1. reason \in Outcomes /\ reason # "scheduled"
      BY DEF Outcomes
    <3>2. outcome' = Append(outcome, reason)
      BY <2>4 DEF E!WithoutEffect
    <3>3. UNCHANGED <<end_of_reception, copies, receptions>>
      BY <2>4 DEF E!WithoutEffect
    <3> HIDE DEF reason
    <3> QED
      BY <2>1, <3>1, <3>2, <3>3, NotReceived
  <2>5. ASSUME NEW effect \in E!EffectOf(s, f), E!WithEffect(s, effect, f)
        PROVE  EffectInv'
    <3>1. CASE E!BufferFull(s)
      BY <2>1, <2>5, <3>1, NotReceived DEF E!WithEffect, E!Drop, Outcomes
    <3>2. CASE ~E!BufferFull(s)
      BY <2>1, <2>5, <3>2, Received
    <3> QED
      BY <3>1, <3>2
  <2> QED
    BY <2>2, <2>3, <2>4, <2>5
<1>2. CASE E!UpstreamUnmarked
  BY <1>2, NotReceived DEF E!UpstreamUnmarked, E!Drop, Outcomes
<1>3. CASE \E c \in copies : E!Timed(c)
  <2> PICK c \in copies : E!Timed(c)
    BY <1>3
  <2>1. /\ outcome \in Seq(Outcomes) /\ Len(outcome) = arrived /\ arrived \in Nat
        /\ c.id \in 1..arrived
    BY DEF EffectInv, EffectTypes
  <2>2. outcome' = [outcome EXCEPT ![c.id] = "passed"] /\ copies' = copies \ {c}
        /\ UNCHANGED <<now, setting, life, profiles, end_of_reception, arrived, receptions>>
    BY DEF E!Timed
  <2>3. /\ outcome' \in Seq(Outcomes) /\ Len(outcome') = arrived
        /\ \A i \in 1..arrived : outcome'[i] = IF i = c.id THEN "passed" ELSE outcome[i]
    <3>1. "passed" \in Outcomes
      BY DEF Outcomes
    <3> QED
      BY <2>1, <2>2, <3>1, ExceptSeq
  <2>4. EffectTypes'
    BY <2>2, <2>3 DEF EffectInv, EffectTypes
  <2>5. \A i \in 1..Len(outcome') : outcome'[i] = "scheduled" => \E d \in copies' : d.id = i
    BY <2>1, <2>2, <2>3 DEF EffectInv, E!EffectsKept
  <2>6. E!EffectsKept'
    BY <2>2, <2>5 DEF EffectInv, E!EffectsKept
  <2> QED
    BY <2>2, <2>4, <2>6 DEF EffectInv
<1>4. CASE \E named \in SUBSET Sources, e \in Effects : E!Event(named, e)
  <2> PICK named \in SUBSET Sources, e \in Effects : E!Event(named, e)
    BY <1>4
  <2>1. EffectsOf({profiles'[s] : s \in DOMAIN profiles'})
    <3>1. EffectsOf(Effects) /\ EffectsOf({profiles[s] : s \in DOMAIN profiles})
      BY UpperAssumption DEF EffectInv, EffectTypes
    <3>2. \A s \in DOMAIN profiles' :
            profiles'[s] \in Effects \/ (s \in DOMAIN profiles /\ profiles'[s] = profiles[s])
      BY DEF E!Event
    <3> QED
      BY <3>1, <3>2 DEF EffectsOf
  <2> QED
    BY <2>1 DEF E!Event, EffectInv, EffectTypes, E!EffectsKept
<1>5. CASE E!Stop
  <2>1. life' \in Nat \ {0} /\ \A q \in receptions : q.life \in 1..life' /\ q.life # life'
    BY <1>5 DEF E!Stop, EffectInv, EffectTypes
  <2>2. /\ DOMAIN end_of_reception' = {}
        /\ UNCHANGED <<now, setting, profiles, copies, arrived, receptions, outcome>>
    BY <1>5 DEF E!Stop, E!None
  <2>3. EffectTypes'
    BY <2>1, <2>2 DEF EffectInv, EffectTypes
  <2> QED
    BY <2>1, <2>2, <2>3 DEF EffectInv, E!EffectsKept
<1>6. CASE E!StopQueue \/ E!Start
  BY <1>6 DEF E!StopQueue, E!Start, EffectInv, EffectTypes, E!EffectsKept
<1>7. CASE E!Tick
  <2>1. now \in Nat /\ now' = now + 1
    BY <1>7 DEF E!Tick, EffectInv, EffectTypes
  <2>2. \A q \in receptions : \A b \in Nat :
          q.end - now <= b + q.span => q.end - now' <= b + q.span
    BY <2>1 DEF EffectInv, EffectTypes
  <2>3. setting.buffer \in Nat
    BY UpperAssumption DEF EffectInv, EffectTypes
  <2> QED
    BY <1>7, <2>1, <2>2, <2>3, SMTT(30) DEF E!Tick, E!shim, EffectInv, EffectTypes, E!EffectsKept
<1> QED
  BY <1>1, <1>2, <1>3, <1>4, <1>5, <1>6, <1>7 DEF E!Next

-----------------------------------------------------------------------------
(***************************************************************************)
(* The boundary endpoint: units and streams.                               *)
(***************************************************************************)
(* The lengths of messages. *)
LEMMA LengthFacts ==
  ASSUME NEW m \in Messages
  PROVE  /\ Lengths[m] \in Nat \ {0} /\ Lengths[m] >= HeaderLength
         /\ HeaderLength \in Nat \ {0} /\ m \in Nat \ {0}
<1>1. Lengths \in Seq(Nat) /\ Len(Lengths) \in Nat
  BY UpperAssumption, LenProperties
<1>2. Lengths[m] \in Nat
  BY <1>1, ElementOfSeq DEF Messages
<1> QED
  BY <1>1, <1>2, UpperAssumption DEF Messages

(* The units of a message. *)
LEMMA UnitsFacts ==
  ASSUME NEW m \in Messages
  PROVE  /\ B!Units(m) \in Seq(MessageUnits) /\ Len(B!Units(m)) = Lengths[m]
         /\ \A d \in 1..Lengths[m] : B!Units(m)[d] = <<m, d>>
         /\ B!Units(m) # <<>> /\ B!Units(m)[1][1] = m
<1>1. Lengths[m] \in Nat \ {0}
  BY LengthFacts
<1>2. \A d \in 1..Lengths[m] : <<m, d>> \in MessageUnits
  BY <1>1 DEF MessageUnits
<1>3. B!Units(m) \in [1..Lengths[m] -> MessageUnits]
  BY <1>2 DEF B!Units
<1>4. B!Units(m) \in Seq(MessageUnits)
  BY <1>1, <1>3, SeqDef
<1>5. DOMAIN B!Units(m) = 1..Lengths[m] /\ DOMAIN B!Units(m) = 1..Len(B!Units(m))
  BY <1>3, <1>4, LenProperties
<1>6. Len(B!Units(m)) = Lengths[m]
  BY <1>1, <1>4, <1>5, LenProperties
<1>7. \A d \in 1..Lengths[m] : B!Units(m)[d] = <<m, d>>
  BY DEF B!Units
<1>8. B!Units(m) # <<>> /\ 1 \in 1..Lengths[m]
  BY <1>1, <1>6
<1> QED
  BY <1>4, <1>6, <1>7, <1>8

(* What a unit is. *)
LEMMA UnitFacts ==
  ASSUME NEW s \in Seq(MessageUnits)
  PROVE  /\ Len(s) \in Nat
         /\ \A k \in 1..Len(s) : /\ s[k] \in MessageUnits
                                 /\ s[k][1] \in Messages /\ s[k][1] \in Nat /\ s[k][2] \in Nat
                                 /\ Lengths[s[k][1]] \in Nat \ {0}
<1>1. \A k \in 1..Len(s) : s[k] \in MessageUnits
  BY ElementOfSeq
<1>2. \A k \in 1..Len(s) : s[k][1] \in Messages /\ s[k][2] \in Nat
  BY <1>1 DEF MessageUnits
<1> QED
  BY <1>1, <1>2, LenProperties, LengthFacts

(* The peer sends a message of a higher number. *)
LEMMA StreamGrows ==
  ASSUME NEW s \in Seq(MessageUnits), Placed(s), Whole(s), NEW m \in Messages,
         \A k \in 1..Len(s) : s[k][1] < m
  PROVE  Placed(s \o B!Units(m)) /\ Whole(s \o B!Units(m))
<1> DEFINE t == s \o B!Units(m)
           n == Len(s)
           L == Lengths[m]
<1>1. L \in Nat \ {0} /\ n \in Nat /\ m \in Nat
  BY LengthFacts, UnitFacts
<1>2. /\ t \in Seq(MessageUnits) /\ Len(t) = n + L
      /\ \A k \in 1..n : t[k] = s[k]
      /\ \A d \in 1..L : t[n + d] = <<m, d>>
  <2>1. /\ B!Units(m) \in Seq(MessageUnits) /\ Len(B!Units(m)) = L
        /\ \A d \in 1..L : B!Units(m)[d] = <<m, d>>
    BY UnitsFacts
  <2>2. /\ t \in Seq(MessageUnits) /\ Len(t) = n + L
        /\ \A i \in 1..(n + L) : t[i] = IF i <= n THEN s[i] ELSE B!Units(m)[i - n]
    BY <2>1, ConcatProperties
  <2> HIDE DEF t, n, L
  <2>3. \A k \in 1..n : k \in 1..(n + L) /\ k <= n
    BY <1>1
  <2>4. \A d \in 1..L : n + d \in 1..(n + L) /\ ~(n + d <= n) /\ (n + d) - n = d
    BY <1>1
  <2> QED
    BY <2>1, <2>2, <2>3, <2>4
<1> HIDE DEF t, L
<1>3. \A k \in 1..Len(t) : k \in 1..n \/ \E d \in 1..L : k = n + d /\ t[k] = <<m, d>>
  <2> SUFFICES ASSUME NEW k \in 1..Len(t), k \notin 1..n
               PROVE  \E d \in 1..L : k = n + d /\ t[k] = <<m, d>>
    OBVIOUS
  <2>1. k - n \in 1..L /\ k = n + (k - n)
    BY <1>1, <1>2
  <2> QED
    BY <1>2, <2>1
<1>4. \A k \in 1..n : Before(t, k) = Before(s, k)
  BY <1>2 DEF Before
<1>5. \A d \in 1..L : t[n + d][1] = m /\ t[n + d][2] = d /\ Before(t, n + d) = n
  <2> SUFFICES ASSUME NEW d \in 1..L
               PROVE  t[n + d][1] = m /\ t[n + d][2] = d /\ Before(t, n + d) = n
    OBVIOUS
  <2>1. t[n + d][1] = m /\ t[n + d][2] = d
    BY <1>2
  <2>2. d \in Nat /\ (n + d) - d = n
    BY <1>1
  <2> QED
    BY <2>1, <2>2 DEF Before
<1>6. ASSUME NEW k \in 1..Len(t)
      PROVE  /\ t[k][2] \in 1..Lengths[t[k][1]] /\ Before(t, k) >= 0
             /\ \A d \in 1..Lengths[t[k][1]] :
                  Before(t, k) + d <= Len(t) => t[Before(t, k) + d] = <<t[k][1], d>>
             /\ Before(t, k) + Lengths[t[k][1]] <= Len(t)
  <2>1. CASE k \in 1..n
    <3>1. /\ t[k] = s[k] /\ Before(t, k) = Before(s, k) /\ Before(s, k) >= 0
          /\ s[k][2] \in 1..Lengths[s[k][1]]
          /\ Before(s, k) + Lengths[s[k][1]] <= n
          /\ \A d \in 1..Lengths[s[k][1]] :
               Before(s, k) + d <= n => s[Before(s, k) + d] = <<s[k][1], d>>
      BY <1>2, <1>4, <2>1, SMTT(30) DEF Placed, Whole
    <3>2. Lengths[s[k][1]] \in Nat /\ Before(s, k) \in Int /\ n <= Len(t)
      BY <1>1, <1>2, <2>1, UnitFacts DEF Before
    <3>3. ASSUME NEW d \in 1..Lengths[s[k][1]]
          PROVE  t[Before(s, k) + d] = <<s[k][1], d>>
      <4>1. Before(s, k) + d <= n /\ Before(s, k) + d \in 1..n
        BY <1>1, <3>1, <3>2, SMTT(30)
      <4> QED
        BY <1>2, <3>1, <4>1
    <3>4. Before(s, k) + Lengths[s[k][1]] <= Len(t)
      BY <1>1, <1>2, <3>1, <3>2
    <3> QED
      BY <3>1, <3>3, <3>4
  <2>2. CASE k \notin 1..n
    <3>1. PICK d \in 1..L : k = n + d
      BY <1>3, <2>2
    <3>2. t[k][1] = m /\ t[k][2] = d /\ Before(t, k) = n
      BY <1>5, <3>1
    <3> QED
      BY <1>1, <1>2, <3>2 DEF L
  <2> QED
    BY <2>1, <2>2
<1>7. ASSUME NEW j \in 1..Len(t), NEW k \in 1..Len(t), j < k
      PROVE  t[j][1] < t[k][1] \/ (t[j][1] = t[k][1] /\ Before(t, j) = Before(t, k))
  <2>1. CASE j \in 1..n /\ k \in 1..n
    BY <1>2, <1>4, <1>7, <2>1 DEF Placed
  <2>2. CASE j \in 1..n /\ k \notin 1..n
    <3>1. t[j] = s[j]
      BY <1>2, <2>2
    <3>2. PICK d \in 1..L : k = n + d
      BY <1>3, <2>2
    <3>3. t[k][1] = m
      BY <1>5, <3>2
    <3> QED
      BY <2>2, <3>1, <3>3
  <2>3. CASE j \notin 1..n
    <3>1. k \notin 1..n
      BY <1>1, <1>7, <2>3
    <3>2. PICK d \in 1..L : j = n + d
      BY <1>3, <2>3
    <3>3. PICK e \in 1..L : k = n + e
      BY <1>3, <3>1
    <3>4. t[n + d][1] = m /\ Before(t, n + d) = n /\ t[n + e][1] = m /\ Before(t, n + e) = n
      BY <1>5
    <3> QED
      BY <3>2, <3>3, <3>4
  <2> QED
    BY <2>1, <2>2, <2>3
<1> QED
  BY <1>6, <1>7 DEF Placed, Whole, t

(* What is left of a stream that is cut off. *)
LEMMA StreamCut ==
  ASSUME NEW s \in Seq(MessageUnits), Placed(s), NEW t \in Seq(MessageUnits),
         Len(t) <= Len(s), \A k \in 1..Len(t) : t[k] = s[k]
  PROVE  Placed(t)
<1>1. Len(t) \in Nat /\ Len(s) \in Nat
  BY UnitFacts
<1>2. \A k \in 1..Len(t) : k \in 1..Len(s) /\ Before(t, k) = Before(s, k)
  BY <1>1 DEF Before
<1>3. ASSUME NEW k \in 1..Len(t), NEW d \in 1..Lengths[t[k][1]], Before(t, k) + d <= Len(t)
      PROVE  t[Before(t, k) + d] = <<t[k][1], d>>
  <2>1. /\ t[k] = s[k] /\ Before(s, k) >= 0 /\ Before(t, k) = Before(s, k)
        /\ s[k][2] \in Nat /\ k \in 1..Len(s)
    BY <1>2, UnitFacts, SMTT(30) DEF Placed
  <2>2. Before(s, k) \in Nat /\ d \in Nat \ {0}
    BY <2>1, UnitFacts DEF Before
  <2>3. Before(s, k) + d \in 1..Len(t) /\ Before(s, k) + d <= Len(s)
    BY <1>1, <1>3, <2>1, <2>2
  <2> QED
    BY <2>1, <2>3 DEF Placed
<1> QED
  BY <1>2, <1>3 DEF Placed

(* The first message of a stream is taken. *)
LEMMA StreamTaken ==
  ASSUME NEW s \in Seq(MessageUnits), s # <<>>, Placed(s), NEW m, m = s[1][1],
         Lengths[m] <= Len(s), NEW t \in Seq(MessageUnits),
         Len(t) = Len(s) - Lengths[m], \A k \in 1..Len(t) : t[k] = s[k + Lengths[m]]
  PROVE  /\ m \in Messages /\ \A d \in 1..Lengths[m] : s[d] = <<m, d>>
         /\ Placed(t) /\ (Whole(s) => Whole(t))
         /\ \A k \in 1..Len(t) : m < t[k][1]
<1> DEFINE L == Lengths[m]
<1>1. Len(s) \in Nat \ {0} /\ Len(t) \in Nat /\ 1 \in 1..Len(s)
  BY TakeFirst, UnitFacts
<1>2. m \in Messages /\ m \in Nat /\ L \in Nat \ {0} /\ s[1][2] \in Nat
  BY <1>1, UnitFacts
<1>3. s[1][2] = 1 /\ Before(s, 1) = 0
  BY <1>1, <1>2 DEF Placed, Before
<1>4. \A d \in 1..L : s[d] = <<m, d>>
  <2> SUFFICES ASSUME NEW d \in 1..L
               PROVE  s[d] = <<m, d>>
    OBVIOUS
  <2>1. 0 + d = d /\ d <= Len(s)
    BY <1>2
  <2> QED
    BY <1>1, <1>3, <2>1 DEF Placed
<1>a. Len(t) = Len(s) - L
  OBVIOUS
<1> HIDE DEF L
<1>5. \A k \in 1..Len(t) : k + L \in 1..Len(s) /\ k + L > 1 /\ t[k] = s[k + L]
  <2>1. \A ns, nt, l, k \in Int :
          nt = ns - l /\ l > 0 /\ k \in 1..nt => k + l \in 1..ns /\ k + l > 1
    OBVIOUS
  <2>2. Len(s) \in Int /\ Len(t) \in Int /\ L \in Int /\ L > 0
    BY <1>1, <1>2
  <2>3. \A k \in 1..Len(t) : k + L \in 1..Len(s) /\ k + L > 1
    BY <1>a, <2>1, <2>2
  <2>4. \A k \in 1..Len(t) : t[k] = s[k + L]
    BY DEF L
  <2> QED
    BY <2>3, <2>4
<1>6. ASSUME NEW k \in (L + 1)..Len(s)
      PROVE  /\ k \in 1..Len(s) /\ m < s[k][1] /\ Before(s, k) \in Nat /\ Before(s, k) >= L
             /\ s[k][2] \in 1..Lengths[s[k][1]]
  <2>1. /\ k \in 1..Len(s) /\ 1 < k /\ k \in Nat /\ k > L
    BY <1>1, <1>2
  <2>2. s[k][1] \in Nat /\ s[k][2] \in Nat /\ s[k][2] \in 1..Lengths[s[k][1]]
        /\ Before(s, k) >= 0 /\ Lengths[s[k][1]] \in Nat \ {0}
    BY <2>1, UnitFacts, SMTT(30) DEF Placed
  <2>3. Before(s, k) = k - s[k][2] /\ Before(s, k) \in Nat
    BY <2>1, <2>2 DEF Before
  <2>4. m < s[k][1]
    <3>1. m < s[k][1] \/ (m = s[k][1] /\ Before(s, k) = 0)
      BY <1>1, <1>3, <2>1 DEF Placed
    <3>2. ~(m = s[k][1] /\ Before(s, k) = 0)
      BY <1>2, <2>1, <2>2, <2>3, SMTT(30) DEF L
    <3> QED
      BY <3>1, <3>2
  <2>5. Before(s, k) + 1 <= Len(s) /\ 1 \in 1..Lengths[s[k][1]]
    BY <1>1, <2>1, <2>2, <2>3, SMTT(30)
  <2>6. s[Before(s, k) + 1] = <<s[k][1], 1>>
    BY <2>1, <2>5 DEF Placed
  <2>7. Before(s, k) + 1 \notin 1..L
    <3> SUFFICES ASSUME Before(s, k) + 1 \in 1..L
                 PROVE  FALSE
      OBVIOUS
    <3>1. s[Before(s, k) + 1] = <<m, Before(s, k) + 1>>
      BY <1>4
    <3>2. m = s[k][1]
      BY <2>6, <3>1
    <3> QED
      BY <1>2, <2>2, <2>4, <3>2
  <2> QED
    BY <1>2, <2>1, <2>2, <2>3, <2>4, <2>7
<1>7. ASSUME NEW k \in 1..Len(t)
      PROVE  /\ k + L \in (L + 1)..Len(s) /\ Before(t, k) = Before(s, k + L) - L
             /\ Before(s, k + L) \in Nat /\ Before(t, k) >= 0
             /\ m < t[k][1] /\ t[k][2] \in 1..Lengths[t[k][1]]
  <2>1. k + L \in (L + 1)..Len(s)
    BY <1>1, <1>2, <1>5
  <2>2. t[k] = s[k + L] /\ t[k][2] \in Nat
    BY <1>5, UnitFacts
  <2>3. Before(t, k) = Before(s, k + L) - L
    <3>1. k - t[k][2] = ((k + L) - t[k][2]) - L
      <4>1. \A x, y, l \in Int : x - y = ((x + l) - y) - l
        OBVIOUS
      <4>2. k \in Int /\ t[k][2] \in Int /\ L \in Int
        BY <1>2, <2>2
      <4> QED
        BY <4>1, <4>2
    <3> QED
      BY <2>2, <3>1 DEF Before
  <2>4. Before(s, k + L) \in Nat /\ Before(s, k + L) >= L
    BY <1>6, <2>1
  <2> QED
    <3>1. Before(t, k) >= 0
      BY <1>2, <2>3, <2>4
    <3>2. m < t[k][1] /\ t[k][2] \in 1..Lengths[t[k][1]]
      BY <1>6, <2>1, <2>2
    <3> QED
      BY <2>1, <2>3, <2>4, <3>1, <3>2
<1>8. ASSUME NEW k \in 1..Len(t), NEW d \in 1..Lengths[t[k][1]], Before(t, k) + d <= Len(t)
      PROVE  t[Before(t, k) + d] = <<t[k][1], d>>
  <2>1. /\ t[k] = s[k + L] /\ k + L \in 1..Len(s) /\ d \in Nat \ {0}
        /\ Before(t, k) = Before(s, k + L) - L /\ Before(s, k + L) \in Nat
        /\ Before(t, k) >= 0
    BY <1>5, <1>7, UnitFacts, SMTT(30)
  <2>2. /\ Before(s, k + L) + d <= Len(s) /\ Before(t, k) + d \in 1..Len(t)
        /\ (Before(t, k) + d) + L = Before(s, k + L) + d
    <3> DEFINE bt == Before(t, k)
               bs == Before(s, k + L)
    <3>1. bs \in Nat /\ bt = bs - L /\ bt >= 0 /\ bt + d <= Len(t) /\ d \in Nat \ {0}
      BY <1>8, <2>1
    <3> HIDE DEF bt, bs
    <3>2. \A ns, nt, l, x, y, z \in Int :
            nt = ns - l /\ y = x - l /\ y >= 0 /\ y + z <= nt /\ z > 0 =>
              x + z <= ns /\ y + z \in 1..nt /\ (y + z) + l = x + z
      OBVIOUS
    <3>3. Len(s) \in Int /\ Len(t) \in Int /\ L \in Int /\ bs \in Int /\ bt \in Int
          /\ d \in Int /\ d > 0
      BY <1>1, <1>2, <3>1, SMTT(30)
    <3>4. bs + d <= Len(s) /\ bt + d \in 1..Len(t) /\ (bt + d) + L = bs + d
      BY <1>a, <3>1, <3>2, <3>3
    <3> QED
      BY <3>4 DEF bt, bs
  <2>3. s[Before(s, k + L) + d] = <<s[k + L][1], d>>
    BY <2>1, <2>2 DEF Placed
  <2>4. t[Before(t, k) + d] = s[(Before(t, k) + d) + L]
    BY <1>5, <2>2
  <2> QED
    BY <2>1, <2>2, <2>3, <2>4
<1>9. ASSUME NEW j \in 1..Len(t), NEW k \in 1..Len(t), j < k
      PROVE  t[j][1] < t[k][1] \/ (t[j][1] = t[k][1] /\ Before(t, j) = Before(t, k))
  <2>1. j + L < k + L /\ j + L \in 1..Len(s) /\ k + L \in 1..Len(s)
    BY <1>2, <1>5, <1>9
  <2>2. \/ s[j + L][1] < s[k + L][1]
        \/ s[j + L][1] = s[k + L][1] /\ Before(s, j + L) = Before(s, k + L)
    BY <2>1 DEF Placed
  <2> QED
    BY <1>5, <1>7, <2>2
<1>10. Placed(t)
  BY <1>7, <1>8, <1>9 DEF Placed
<1>11. ASSUME Whole(s), NEW k \in 1..Len(t)
       PROVE  Before(t, k) + Lengths[t[k][1]] <= Len(t)
  <2>1. Before(s, k + L) + Lengths[s[k + L][1]] <= Len(s)
    BY <1>5, <1>11 DEF Whole
  <2>2. Lengths[t[k][1]] \in Nat
    BY UnitFacts
  <2> QED
    <3>1. /\ t[k] = s[k + L] /\ Before(t, k) = Before(s, k + L) - L
          /\ Before(s, k + L) \in Nat
      BY <1>5, <1>7
    <3>2. \A ns, nt, l, x, y, z \in Int :
            nt = ns - l /\ y = x - l /\ x + z <= ns => y + z <= nt
      OBVIOUS
    <3>3. /\ Len(s) \in Int /\ Len(t) \in Int /\ L \in Int /\ Before(s, k + L) \in Int
          /\ Before(t, k) \in Int /\ Lengths[t[k][1]] \in Int
      BY <1>1, <1>2, <2>2, <3>1, SMTT(30)
    <3> QED
      BY <1>a, <2>1, <3>1, <3>2, <3>3, SMTT(30)
<1> QED
  BY <1>2, <1>4, <1>7, <1>10, <1>11 DEF Whole, L

-----------------------------------------------------------------------------
(***************************************************************************)
(* The boundary endpoint: its steps.                                       *)
(***************************************************************************)
(* The empty stream. *)
LEMMA NoStream ==
  ASSUME NEW n, NEW o
  PROVE  /\ StreamOK(<<>>, n, o) /\ Whole(<<>>) /\ AreMessages(<<>>, n, o)
         /\ \A D : <<>> \in Seq(D)
<1>1. Len(<<>>) = 0 /\ \A D : <<>> \in Seq(D)
  BY EmptySeq
<1>2. 1..Len(<<>>) = {}
  BY <1>1
<1> QED
  BY <1>1, <1>2 DEF StreamOK, Placed, Whole, AreMessages

(* A datagram is one message. *)
LEMMA DatagramFacts ==
  ASSUME NEW n \in 0..Len(Lengths), NEW o, NEW u, IsMessage(u, n, o)
  PROVE  /\ u[1][1] \in Messages /\ u[1][1] \in Nat /\ u = B!Units(u[1][1])
         /\ u \in Seq(MessageUnits) /\ u # <<>> /\ Len(u) = Lengths[u[1][1]]
<1>1. Len(Lengths) \in Nat
  BY UpperAssumption, LenProperties
<1>2. u[1][1] \in Messages /\ u = B!Units(u[1][1])
  BY <1>1 DEF IsMessage, Messages
<1> QED
  BY <1>2, UnitsFacts, LengthFacts

(* The first state: nothing was sent. *)
LEMMA BoundaryStarts ==
  ASSUME B!Init
  PROVE  BoundaryInv
<1>1. Len(Lengths) \in Nat /\ Protocols \subseteq {"udp", "tcp"}
  BY UpperAssumption, LenProperties
<1>2. BoundaryTypes
  <2>1. /\ order \in Seq(Messages) /\ received \in Seq(MessageUnits)
        /\ wire \in Seq(MessageUnits) /\ wire \in Seq(Seq(MessageUnits))
    BY NoStream DEF B!Init
  <2>2. sent = 0 /\ 0 \in 0..Len(Lengths)
    BY <1>1 DEF B!Init
  <2>3. protocol \in {"udp", "tcp"}
    BY <1>1 DEF B!Init
  <2> QED
    BY <2>1, <2>2, <2>3 DEF BoundaryTypes
<1>3. OrderOK
  <2>1. Len(order) = 0
    BY EmptySeq DEF B!Init
  <2> QED
    BY <2>1 DEF OrderOK
<1>4. protocol = "tcp" => ~B!Listening
  BY DEF B!Init, B!Listening
<1>5. UdpInv
  BY NoStream DEF B!Init, UdpInv
<1> QED
  BY <1>2, <1>3, <1>4, <1>5 DEF B!Init, BoundaryInv, TcpInv

(* Steps that leave the messages alone. *)
LEMMA BoundaryQuiet ==
  ASSUME BoundaryInv, UNCHANGED <<protocol, received, handed, order, wire, sent>>,
         protocol = "tcp" /\ B!Listening' => B!Listening,
         protocol = "udp" /\ received # <<>> => receiver' = "parsing"
  PROVE  BoundaryInv'
<1>1. BoundaryTypes' /\ OrderOK'
  BY DEF BoundaryInv, BoundaryTypes, OrderOK
<1>2. CASE protocol = "tcp"
  <2>1. TcpInv'
    BY <1>2 DEF BoundaryInv, TcpInv
  <2> QED
    BY <1>1, <1>2, <2>1 DEF BoundaryInv
<1>3. CASE protocol # "tcp"
  <2>1. protocol = "udp"
    BY <1>3 DEF BoundaryInv, BoundaryTypes
  <2>2. UdpInv'
    BY <1>3, <2>1 DEF BoundaryInv, UdpInv
  <2> QED
    BY <1>1, <1>3, <2>2 DEF BoundaryInv
<1> QED
  BY <1>2, <1>3

(* Steps that empty the wire: nothing is left to join to what comes next.  *)
LEMMA BoundaryCut ==
  ASSUME BoundaryInv, UNCHANGED <<protocol, handed, order, sent>>, wire' = <<>>,
         received' = <<>> \/ (received' = received /\ protocol = "tcp" /\ ~B!Listening')
  PROVE  BoundaryInv'
<1>1. /\ received' \in Seq(MessageUnits)
      /\ wire' \in Seq(MessageUnits) /\ wire' \in Seq(Seq(MessageUnits))
  BY NoStream DEF BoundaryInv, BoundaryTypes
<1>2. BoundaryTypes' /\ OrderOK'
  BY <1>1 DEF BoundaryInv, BoundaryTypes, OrderOK
<1>3. CASE protocol = "tcp"
  <2>1. ASSUME received' = <<>>
        PROVE  TcpInv'
    <3>1. received' \o wire' = <<>>
      BY <1>1, <2>1, ConcatEmptySeq
    <3>2. StreamOK(<<>>, sent', order') /\ Whole(<<>>)
      BY NoStream
    <3>3. StreamOK(received' \o wire', sent', order') /\ Whole(received' \o wire')
      BY <3>1, <3>2
    <3> QED
      BY <3>3 DEF TcpInv
  <2>2. ASSUME ~B!Listening'
        PROVE  TcpInv'
    BY <2>2 DEF TcpInv
  <2>3. TcpInv'
    BY <2>1, <2>2
  <2> QED
    BY <1>2, <1>3, <2>3 DEF BoundaryInv
<1>4. CASE protocol # "tcp"
  <2>1. AreMessages(wire', sent', order') /\ received' = <<>>
    BY <1>4, NoStream
  <2>2. UdpInv'
    BY <2>1 DEF UdpInv
  <2> QED
    BY <1>2, <1>4, <2>2 DEF BoundaryInv
<1> QED
  BY <1>3, <1>4

(* The peer sends its next message. *)
LEMMA PeerSendsKept ==
  ASSUME BoundaryInv, B!PeerSends
  PROVE  BoundaryInv'
<1> DEFINE m == sent + 1
<1>1. /\ sent \in Nat /\ m \in Messages /\ m \in Nat /\ sent' = m /\ m \in 0..Len(Lengths)
      /\ Len(Lengths) \in Nat
  <2>1. Len(Lengths) \in Nat
    BY UpperAssumption, LenProperties
  <2>2. sent \in 0..Len(Lengths) /\ sent < Len(Lengths) /\ sent' = m
    BY DEF BoundaryInv, BoundaryTypes, B!PeerSends
  <2> QED
    BY <2>1, <2>2 DEF Messages
<1> HIDE DEF m
<1>2. /\ B!Units(m) \in Seq(MessageUnits) /\ Len(B!Units(m)) = Lengths[m]
      /\ \A d \in 1..Lengths[m] : B!Units(m)[d] = <<m, d>>
      /\ B!Units(m) # <<>> /\ B!Units(m)[1][1] = m
      /\ Lengths[m] \in Nat \ {0}
  BY <1>1, UnitsFacts, LengthFacts
<1>3. /\ UNCHANGED <<protocol, received, handed, order, receiver>> /\ B!Listening
      /\ wire' = IF protocol = "udp" THEN Append(wire, B!Units(m)) ELSE wire \o B!Units(m)
  BY <1>1 DEF B!PeerSends, B!thread
<1>4. OrderOK' /\ \A i \in 1..Len(order) : order[i] \in Nat /\ order[i] < m
  <2>1. \A i \in 1..Len(order) : order[i] \in Messages /\ order[i] <= sent
    BY ElementOfSeq DEF BoundaryInv, BoundaryTypes, OrderOK
  <2>2. \A i \in 1..Len(order) : order[i] \in Nat
    BY <2>1, LengthFacts
  <2>3. \A i \in 1..Len(order) : order[i] < m /\ order[i] <= m
    BY <1>1, <2>1, <2>2 DEF m
  <2> QED
    BY <1>1, <1>3, <2>2, <2>3 DEF BoundaryInv, OrderOK
<1>5. CASE protocol = "tcp"
  <2>1. /\ received \in Seq(MessageUnits) /\ wire \in Seq(MessageUnits)
        /\ wire' = wire \o B!Units(m)
    BY <1>3, <1>5 DEF BoundaryInv, BoundaryTypes
  <2> DEFINE s == received \o wire
  <2>2. s \in Seq(MessageUnits) /\ received' \o wire' = s \o B!Units(m)
    <3>1. (received \o wire) \o B!Units(m) = received \o (wire \o B!Units(m))
      BY <1>2, <2>1, ConcatAssociative, SMTT(30)
    <3>2. s \in Seq(MessageUnits)
      BY <2>1, ConcatProperties
    <3> QED
      BY <1>3, <2>1, <3>1, <3>2
  <2>3. StreamOK(s, sent, order) /\ Whole(s)
    BY <1>3, <1>5 DEF BoundaryInv, TcpInv
  <2> HIDE DEF s
  <2>4. \A k \in 1..Len(s) : s[k][1] \in Nat /\ s[k][1] <= sent /\ s[k][1] < m
    <3>1. \A k \in 1..Len(s) : s[k][1] \in Nat /\ s[k][1] <= sent
      BY <2>2, <2>3, UnitFacts DEF StreamOK
    <3> QED
      BY <1>1, <3>1 DEF m
  <2>5. Placed(s \o B!Units(m)) /\ Whole(s \o B!Units(m))
    BY <1>1, <2>2, <2>3, <2>4, StreamGrows DEF StreamOK
  <2>6. ASSUME NEW k \in 1..Len(s \o B!Units(m))
        PROVE  /\ (s \o B!Units(m))[k][1] <= m
               /\ \A i \in 1..Len(order) : order[i] < (s \o B!Units(m))[k][1]
    <3>1. /\ Len(s \o B!Units(m)) = Len(s) + Lengths[m] /\ Len(s) \in Nat
          /\ (s \o B!Units(m))[k] = IF k <= Len(s) THEN s[k] ELSE B!Units(m)[k - Len(s)]
      BY <1>2, <2>2, ConcatProperties, LenProperties
    <3>2. CASE k <= Len(s)
      <4>1. (s \o B!Units(m))[k] = s[k] /\ k \in 1..Len(s)
        BY <3>1, <3>2
      <4> QED
        BY <1>1, <2>3, <2>4, <4>1 DEF StreamOK
    <3>3. CASE ~(k <= Len(s))
      <4>1. (s \o B!Units(m))[k] = B!Units(m)[k - Len(s)] /\ k - Len(s) \in 1..Lengths[m]
        BY <1>2, <3>1, <3>3
      <4>2. (s \o B!Units(m))[k][1] = m
        BY <1>2, <4>1
      <4> QED
        BY <1>1, <1>4, <4>2
    <3> QED
      BY <3>2, <3>3
  <2>7. StreamOK(received' \o wire', sent', order') /\ Whole(received' \o wire')
    BY <1>1, <1>3, <2>2, <2>5, <2>6 DEF StreamOK
  <2>8. TcpInv'
    BY <2>7 DEF TcpInv
  <2>9. BoundaryTypes'
    <3>1. wire' \in Seq(MessageUnits)
      BY <1>2, <2>1, ConcatProperties
    <3> QED
      BY <1>1, <1>3, <1>5, <3>1 DEF BoundaryInv, BoundaryTypes
  <2> QED
    BY <1>3, <1>4, <1>5, <2>8, <2>9 DEF BoundaryInv
<1>6. CASE protocol # "tcp"
  <2>1. /\ protocol = "udp" /\ wire \in Seq(Seq(MessageUnits))
        /\ wire' = Append(wire, B!Units(m))
    BY <1>3, <1>6 DEF BoundaryInv, BoundaryTypes
  <2>2. /\ wire' \in Seq(Seq(MessageUnits)) /\ Len(wire) \in Nat /\ Len(wire') = Len(wire) + 1
        /\ wire'[Len(wire) + 1] = B!Units(m)
        /\ \A k \in 1..Len(wire) : wire'[k] = wire[k]
    BY <1>2, <2>1, AddLast
  <2>3. \A k \in 1..Len(wire') : k \in 1..Len(wire) \/ k = Len(wire) + 1
    BY <2>2
  <2>4. AreMessages(wire, sent, order)
    BY <1>6 DEF BoundaryInv, UdpInv
  <2>5. \A u : IsMessage(u, sent, order) =>
                 IsMessage(u, m, order) /\ u[1][1] # m
    BY <1>1 DEF IsMessage, m
  <2>6. IsMessage(B!Units(m), m, order)
    <3>1. m \in 1..m
      BY <1>1 DEF Messages
    <3>2. \A i \in 1..Len(order) : order[i] # m
      BY <1>1, <1>4
    <3> QED
      BY <1>2, <3>1, <3>2 DEF IsMessage
  <2>7. \A i \in 1..Len(wire) : IsMessage(wire[i], m, order) /\ wire[i][1][1] # m
    BY <2>4, <2>5 DEF AreMessages
  <2>8. AreMessages(wire', sent', order')
    <3>1. \A i \in 1..Len(wire') : IsMessage(wire'[i], m, order)
      BY <2>2, <2>3, <2>6, <2>7
    <3>2. ASSUME NEW i \in 1..Len(wire'), NEW j \in 1..Len(wire'), i # j
          PROVE  wire'[i][1][1] # wire'[j][1][1]
      <4>1. CASE i \in 1..Len(wire) /\ j \in 1..Len(wire)
        BY <2>2, <2>4, <3>2, <4>1 DEF AreMessages
      <4>2. CASE i \in 1..Len(wire) /\ j \notin 1..Len(wire)
        <5>1. j = Len(wire) + 1
          BY <2>3, <4>2
        <5>2. wire'[j][1][1] = m /\ wire'[i] = wire[i]
          BY <1>2, <2>2, <4>2, <5>1
        <5> QED
          BY <2>7, <4>2, <5>2
      <4>3. CASE i \notin 1..Len(wire)
        <5>1. i = Len(wire) + 1 /\ j \in 1..Len(wire)
          BY <2>3, <3>2, <4>3
        <5>2. wire'[i][1][1] = m /\ wire'[j] = wire[j]
          BY <1>2, <2>2, <5>1
        <5> QED
          BY <2>7, <5>1, <5>2
      <4> QED
        BY <4>1, <4>2, <4>3
    <3> QED
      BY <1>1, <1>3, <3>1, <3>2 DEF AreMessages
  <2>9. received # <<>> =>
          /\ IsMessage(received, m, order) /\ receiver = "parsing" /\ received[1][1] # m
          /\ \A i \in 1..Len(wire) : wire[i][1][1] # received[1][1]
    BY <1>6, <2>5 DEF BoundaryInv, UdpInv
  <2>10. received # <<>> => \A i \in 1..Len(wire') : wire'[i][1][1] # received[1][1]
    BY <1>2, <2>2, <2>3, <2>9
  <2>11. UdpInv'
    BY <1>1, <1>3, <2>8, <2>9, <2>10 DEF UdpInv
  <2>12. BoundaryTypes'
    BY <1>1, <1>3, <1>6, <2>2 DEF BoundaryInv, BoundaryTypes
  <2> QED
    BY <1>3, <1>4, <1>6, <2>11, <2>12 DEF BoundaryInv
<1> QED
  BY <1>5, <1>6

(* v are the datagrams w without the x-th. *)
Without(v, w, x) ==
    /\ w \in Seq(Seq(MessageUnits)) /\ v \in Seq(Seq(MessageUnits))
    /\ x \in 1..Len(w) /\ Len(v) = Len(w) - 1
    /\ \A k \in 1..Len(v) : v[k] = w[IF k < x THEN k ELSE k + 1]

(* What is left of them are messages still. *)
LEMMA DatagramTaken ==
  ASSUME NEW w, NEW v, NEW n, NEW o, NEW x, Without(v, w, x), AreMessages(w, n, o)
  PROVE  /\ AreMessages(v, n, o)
         /\ \A k \in 1..Len(v) : /\ v[k][1][1] # w[x][1][1]
                                 /\ \E i \in 1..Len(w) : v[k] = w[i]
<1> DEFINE From(k) == IF k < x THEN k ELSE k + 1
<1>1. Len(w) \in Nat /\ Len(v) \in Nat
  BY LenProperties DEF Without
<1>2. /\ \A k \in 1..Len(v) : From(k) \in 1..Len(w) /\ From(k) # x
      /\ \A j, k \in 1..Len(v) : j # k => From(j) # From(k)
  <2>1. x \in 1..Len(w) /\ Len(v) = Len(w) - 1
    BY DEF Without
  <2> QED
    BY <1>1, <2>1
<1>3. \A k \in 1..Len(v) : v[k] = w[From(k)]
  BY DEF Without
<1> HIDE DEF From
<1>4. \A k \in 1..Len(v) : IsMessage(v[k], n, o)
  BY <1>2, <1>3 DEF AreMessages
<1>5. \A i, j \in 1..Len(w) : i # j => w[i][1][1] # w[j][1][1]
  BY DEF AreMessages
<1>6. ASSUME NEW j \in 1..Len(v), NEW k \in 1..Len(v), j # k
      PROVE  v[j][1][1] # v[k][1][1]
  <2>1. From(j) # From(k) /\ From(j) \in 1..Len(w) /\ From(k) \in 1..Len(w)
    BY <1>2, <1>6
  <2>2. w[From(j)][1][1] # w[From(k)][1][1]
    BY <1>5, <2>1
  <2> QED
    BY <1>3, <2>2
<1>7. AreMessages(v, n, o)
  BY <1>4, <1>6 DEF AreMessages
<1>8. ASSUME NEW k \in 1..Len(v)
      PROVE  v[k][1][1] # w[x][1][1]
  <2>1. From(k) # x /\ From(k) \in 1..Len(w) /\ x \in 1..Len(w)
    BY <1>2 DEF Without
  <2>2. w[From(k)][1][1] # w[x][1][1]
    BY <1>5, <2>1
  <2> QED
    BY <1>3, <2>2
<1>9. \A k \in 1..Len(v) : \E i \in 1..Len(w) : v[k] = w[i]
  BY <1>2, <1>3
<1> QED
  BY <1>7, <1>8, <1>9

(* A datagram is lost. *)
LEMMA LossKept ==
  ASSUME BoundaryInv, B!LoseDatagram
  PROVE  BoundaryInv'
<1>1. /\ protocol = "udp" /\ wire # <<>> /\ wire' = Tail(wire)
      /\ UNCHANGED <<protocol, received, handed, order, receiver, sent>>
  BY DEF B!LoseDatagram, B!thread
<1>2. wire \in Seq(Seq(MessageUnits)) /\ UdpInv
  BY <1>1 DEF BoundaryInv, BoundaryTypes
<1>3. /\ wire' \in Seq(Seq(MessageUnits)) /\ 1 \in 1..Len(wire) /\ Len(wire') = Len(wire) - 1
      /\ \A k \in 1..Len(wire') : k \in Nat \ {0} /\ wire'[k] = wire[k + 1]
  BY <1>1, <1>2, TakeFirst
<1>4. Without(wire', wire, 1)
  <2>a. \A k \in Nat \ {0} : ~(k < 1)
    OBVIOUS
  <2>1. \A k \in 1..Len(wire') : wire'[k] = wire[IF k < 1 THEN k ELSE k + 1]
    BY <1>3, <2>a, ZenonT(30)
  <2> QED
    BY <1>2, <1>3, <2>1 DEF Without
<1>5. /\ AreMessages(wire', sent, order)
      /\ \A k \in 1..Len(wire') : \E i \in 1..Len(wire) : wire'[k] = wire[i]
  <2>1. AreMessages(wire, sent, order)
    BY <1>2 DEF UdpInv
  <2> QED
    BY <1>4, <2>1, DatagramTaken
<1>6. UdpInv'
  BY <1>1, <1>2, <1>5 DEF UdpInv
<1>7. BoundaryTypes' /\ OrderOK'
  BY <1>1, <1>3 DEF BoundaryInv, BoundaryTypes, OrderOK
<1> QED
  BY <1>1, <1>6, <1>7 DEF BoundaryInv

(* The thread reads the n-th datagram, or the next n units. *)
LEMMA ReadKept ==
  ASSUME BoundaryInv, NEW n \in 1..Len(wire), B!Read(n)
  PROVE  BoundaryInv'
<1>1. /\ B!Listening /\ receiver' = "parsing" /\ UNCHANGED <<protocol, handed, order, sent>>
  BY DEF B!Read, B!still, B!Listening
<1>2. CASE protocol = "tcp"
  <2>1. /\ received \in Seq(MessageUnits) /\ wire \in Seq(MessageUnits)
        /\ received' = received \o SubSeq(wire, 1, n) /\ wire' = SubSeq(wire, n + 1, Len(wire))
    BY <1>2 DEF B!Read, BoundaryInv, BoundaryTypes
  <2>2. Len(wire) \in Nat /\ n \in Nat
    BY <2>1, LenProperties
  <2> DEFINE a == SubSeq(wire, 1, n)
             b == SubSeq(wire, n + 1, Len(wire))
  <2>3. /\ a \in Seq(MessageUnits) /\ b \in Seq(MessageUnits) /\ a \o b = wire
        /\ received \o a \in Seq(MessageUnits)
    <3>1. /\ a \in Seq(MessageUnits) /\ Len(a) = n
          /\ \A i \in 1..n : a[i] = wire[i]
      BY <2>1, <2>2, SubSeqProperties
    <3>2. /\ b \in Seq(MessageUnits) /\ Len(b) = Len(wire) - n
          /\ \A i \in 1..(Len(wire) - n) : b[i] = wire[n + i]
      BY <2>1, <2>2, SubSeqProperties
    <3>3. /\ a \o b \in Seq(MessageUnits) /\ Len(a \o b) = Len(wire)
          /\ \A i \in 1..Len(wire) : (a \o b)[i] = IF i <= n THEN a[i] ELSE b[i - n]
      BY <2>2, <3>1, <3>2, ConcatProperties
    <3> HIDE DEF a, b
    <3>4. \A i \in 1..Len(wire) : (a \o b)[i] = wire[i]
      <4> SUFFICES ASSUME NEW i \in 1..Len(wire)
                   PROVE  (a \o b)[i] = wire[i]
        OBVIOUS
      <4>1. CASE i <= n
        BY <2>2, <3>1, <3>3, <4>1
      <4>2. CASE ~(i <= n)
        <5>1. i - n \in 1..(Len(wire) - n) /\ n + (i - n) = i
          BY <2>2, <4>2
        <5> QED
          BY <3>2, <3>3, <4>2, <5>1
      <4> QED
        BY <4>1, <4>2
    <3>5. a \o b = wire
      BY <2>1, <3>3, <3>4, SeqEqual
    <3> QED
      BY <2>1, <3>1, <3>2, <3>5, ConcatProperties
  <2>4. received' \o wire' = received \o wire
    <3> HIDE DEF a, b
    <3>2. /\ received \in Seq(MessageUnits) /\ a \in Seq(MessageUnits)
          /\ b \in Seq(MessageUnits)
      BY <2>1, <2>3
    <3>1. (received \o a) \o b = received \o (a \o b)
      BY <3>2, ConcatAssociative, SMTT(30)
    <3> QED
      BY <2>1, <2>3, <3>1 DEF a, b
  <2>5. StreamOK(received \o wire, sent, order) /\ Whole(received \o wire)
    BY <1>1, <1>2 DEF BoundaryInv, TcpInv
  <2>6. StreamOK(received' \o wire', sent', order') /\ Whole(received' \o wire')
    BY <1>1, <2>4, <2>5
  <2>7. TcpInv'
    BY <2>6 DEF TcpInv
  <2>8. BoundaryTypes' /\ OrderOK'
    BY <1>1, <1>2, <2>1, <2>3 DEF BoundaryInv, BoundaryTypes, OrderOK
  <2> QED
    BY <1>1, <1>2, <2>7, <2>8 DEF BoundaryInv
<1>3. CASE protocol # "tcp"
  <2>1. /\ protocol = "udp" /\ wire \in Seq(Seq(MessageUnits)) /\ received' = wire[n]
        /\ wire' = SubSeq(wire, 1, n - 1) \o SubSeq(wire, n + 1, Len(wire)) /\ UdpInv
    BY <1>3 DEF B!Read, BoundaryInv, BoundaryTypes
  <2>2. Len(wire) \in Nat /\ n \in Nat
    BY <2>1, LenProperties
  <2>3. received' \in Seq(MessageUnits)
    BY <2>1, ElementOfSeq
  <2>4. /\ wire' \in Seq(Seq(MessageUnits)) /\ Len(wire') = Len(wire) - 1
        /\ \A k \in 1..Len(wire') : wire'[k] = wire[IF k < n THEN k ELSE k + 1]
    <3> DEFINE a == SubSeq(wire, 1, n - 1)
               b == SubSeq(wire, n + 1, Len(wire))
    <3>1. /\ a \in Seq(Seq(MessageUnits)) /\ Len(a) = n - 1
          /\ \A i \in 1..(n - 1) : a[i] = wire[i]
      BY <2>1, <2>2, SubSeqProperties
    <3>2. /\ b \in Seq(Seq(MessageUnits)) /\ Len(b) = Len(wire) - n
          /\ \A i \in 1..(Len(wire) - n) : b[i] = wire[n + i]
      BY <2>1, <2>2, SubSeqProperties
    <3> HIDE DEF a, b
    <3>a. (n - 1) + (Len(wire) - n) = Len(wire) - 1
      BY <2>2
    <3>b. /\ a \o b \in Seq(Seq(MessageUnits)) /\ Len(a \o b) = Len(a) + Len(b)
          /\ \A i \in 1..(Len(a) + Len(b)) :
               (a \o b)[i] = IF i <= Len(a) THEN a[i] ELSE b[i - Len(a)]
      BY <3>1, <3>2, ConcatProperties
    <3>3. /\ a \o b \in Seq(Seq(MessageUnits)) /\ Len(a \o b) = Len(wire) - 1
          /\ \A i \in 1..(Len(wire) - 1) :
               (a \o b)[i] = IF i <= n - 1 THEN a[i] ELSE b[i - (n - 1)]
      BY <3>1, <3>2, <3>a, <3>b
    <3>4. ASSUME NEW k \in 1..(Len(wire) - 1)
          PROVE  (a \o b)[k] = wire[IF k < n THEN k ELSE k + 1]
      <4>1. CASE k < n
        BY <2>2, <3>1, <3>3, <4>1
      <4>2. CASE ~(k < n)
        <5>1. k - (n - 1) \in 1..(Len(wire) - n) /\ n + (k - (n - 1)) = k + 1
              /\ ~(k <= n - 1)
          BY <2>2, <4>2
        <5> QED
          BY <3>2, <3>3, <4>2, <5>1
      <4> QED
        BY <4>1, <4>2
    <3>5. wire' = a \o b
      BY <2>1 DEF a, b
    <3> QED
      BY <3>3, <3>4, <3>5
  <2>5. /\ AreMessages(wire', sent, order)
        /\ \A k \in 1..Len(wire') : wire'[k][1][1] # wire[n][1][1]
    <3>1. AreMessages(wire, sent, order)
      BY <2>1 DEF UdpInv
    <3>2. Without(wire', wire, n)
      BY <2>1, <2>4 DEF Without
    <3> QED
      BY <3>1, <3>2, DatagramTaken
  <2>6. IsMessage(wire[n], sent, order)
    BY <2>1 DEF UdpInv, AreMessages
  <2>7. UdpInv'
    BY <1>1, <2>1, <2>5, <2>6 DEF UdpInv
  <2>8. BoundaryTypes' /\ OrderOK'
    BY <1>1, <2>1, <2>3, <2>4 DEF BoundaryInv, BoundaryTypes, OrderOK
  <2> QED
    BY <1>1, <1>3, <2>7, <2>8 DEF BoundaryInv
<1> QED
  BY <1>2, <1>3

(* Over UDP what was read is one message, and there is a message in it. *)
LEMMA DatagramRead ==
  ASSUME BoundaryInv, protocol # "tcp", received # <<>>
  PROVE  /\ IsMessage(received, sent, order) /\ received[1][1] \in Messages
         /\ received = B!Units(received[1][1]) /\ Len(received) = Lengths[received[1][1]]
         /\ B!MessageLength = Len(received) /\ B!HasMessage
<1>1. IsMessage(received, sent, order) /\ sent \in 0..Len(Lengths)
  BY DEF BoundaryInv, UdpInv, BoundaryTypes
<1>2. /\ received[1][1] \in Messages /\ received = B!Units(received[1][1])
      /\ received \in Seq(MessageUnits) /\ Len(received) = Lengths[received[1][1]]
  BY <1>1, DatagramFacts
<1>3. Head(received) = received[1]
  BY <1>2, TakeFirst
<1>4. B!MessageLength = Len(received)
  BY <1>2, <1>3 DEF B!MessageLength
<1>5. Lengths[received[1][1]] >= HeaderLength /\ Len(received) \in Nat
  BY <1>2, LengthFacts
<1> QED
  BY <1>1, <1>2, <1>4, <1>5 DEF B!HasMessage

(* The first message of what was read is handed over. *)
LEMMA DispatchKept ==
  ASSUME BoundaryInv, B!Dispatch
  PROVE  BoundaryInv'
<1> DEFINE m == Head(received)[1]
           L == Lengths[m]
<1>1. /\ B!Listening /\ received \in Seq(MessageUnits) /\ UNCHANGED <<protocol, sent, wire>>
      /\ handed' = SubSeq(received, 1, L) /\ order' = Append(order, m)
      /\ received' = SubSeq(received, L + 1, Len(received))
      /\ Len(received) >= HeaderLength /\ Len(received) >= L
  BY DEF B!Dispatch, B!still, B!Listening, B!MessageLength, B!HasMessage, BoundaryInv,
         BoundaryTypes
<1>2. /\ Len(received) \in Nat \ {0} /\ m = received[1][1] /\ m \in Messages /\ m \in Nat
      /\ L \in Nat \ {0} /\ received # <<>> /\ 1 \in 1..Len(received)
  <2>1. HeaderLength \in Nat \ {0} /\ Len(received) \in Nat
    BY <1>1, UpperAssumption, LenProperties
  <2>2. received # <<>> /\ Len(received) \in Nat \ {0}
    BY <1>1, <2>1, EmptySeq
  <2>3. m = received[1][1] /\ 1 \in 1..Len(received)
    BY <1>1, <2>2, TakeFirst
  <2>4. m \in Messages
    BY <1>1, <2>3, UnitFacts
  <2> QED
    BY <2>2, <2>3, <2>4, LengthFacts
<1> HIDE DEF m, L
<1>3. /\ handed' \in Seq(MessageUnits) /\ Len(handed') = L
      /\ \A k \in 1..L : handed'[k] = received[k] /\ k \in 1..Len(received)
  BY <1>1, <1>2, SubSeqProperties
<1>4. /\ received' \in Seq(MessageUnits) /\ Len(received') = Len(received) - L
      /\ \A k \in 1..(Len(received) - L) : received'[k] = received[L + k]
  BY <1>1, <1>2, SubSeqProperties
<1>5. /\ order \in Seq(Messages) /\ order' \in Seq(Messages) /\ Len(order) \in Nat
      /\ Len(order') = Len(order) + 1 /\ order'[Len(order) + 1] = m
      /\ \A i \in 1..Len(order) : order'[i] = order[i]
      /\ \A i \in 1..Len(order) : order[i] \in Nat
  <2>1. order \in Seq(Messages)
    BY DEF BoundaryInv, BoundaryTypes
  <2>2. \A i \in 1..Len(order) : order[i] \in Messages
    BY <2>1, ElementOfSeq
  <2>3. \A i \in 1..Len(order) : order[i] \in Nat
    BY <2>2, LengthFacts
  <2>4. order' = Append(order, m)
    BY <1>1
  <2> QED
    BY <1>2, <2>1, <2>3, <2>4, AddLast
<1>6. sent \in 0..Len(Lengths) /\ sent \in Nat /\ OrderOK
  BY UpperAssumption, LenProperties DEF BoundaryInv, BoundaryTypes
<1>7. \A i \in 1..Len(order') : i \in 1..Len(order) \/ i = Len(order) + 1
  BY <1>5
<1>8. ASSUME m <= sent,
             \A i \in 1..Len(order) : order[i] # m /\ (protocol = "tcp" => order[i] < m)
      PROVE  OrderOK'
  <2>1. \A i \in 1..Len(order') : order'[i] <= sent'
    BY <1>1, <1>5, <1>6, <1>7, <1>8 DEF OrderOK
  <2>2. ASSUME NEW i \in 1..Len(order'), NEW j \in 1..Len(order'), i < j
        PROVE  order'[i] # order'[j] /\ (protocol = "tcp" => order'[i] < order'[j])
    <3>1. i \in 1..Len(order)
      BY <1>5, <1>7, <2>2
    <3>2. CASE j \in 1..Len(order)
      BY <1>5, <1>6, <2>2, <3>1, <3>2 DEF OrderOK
    <3>3. CASE j \notin 1..Len(order)
      <4>1. j = Len(order) + 1
        BY <1>7, <3>3
      <4> QED
        BY <1>5, <1>8, <3>1, <4>1
    <3> QED
      BY <3>2, <3>3
  <2> QED
    BY <1>1, <2>1, <2>2 DEF OrderOK
<1>9. ASSUME \A d \in 1..L : received[d] = <<m, d>>
      PROVE  handed' = B!Units(m) /\ handed'[1][1] = m
  <2>1. /\ B!Units(m) \in Seq(MessageUnits) /\ Len(B!Units(m)) = L
        /\ \A d \in 1..L : B!Units(m)[d] = <<m, d>>
        /\ B!Units(m)[1][1] = m
    BY <1>2, UnitsFacts DEF L
  <2>2. \A d \in 1..L : handed'[d] = B!Units(m)[d]
    BY <1>3, <1>9, <2>1
  <2>3. handed' = B!Units(m)
    BY <1>3, <2>1, <2>2, SeqEqual
  <2> QED
    BY <2>1, <2>3
<1>10. BoundaryTypes'
  BY <1>1, <1>4, <1>5 DEF BoundaryInv, BoundaryTypes
<1>11. CASE protocol = "tcp"
  <2> DEFINE s == received \o wire
             t == received' \o wire'
  <2>1. StreamOK(s, sent, order) /\ Whole(s) /\ wire \in Seq(MessageUnits)
    BY <1>1, <1>11 DEF BoundaryInv, BoundaryTypes, TcpInv
  <2>2. /\ s \in Seq(MessageUnits) /\ Len(s) = Len(received) + Len(wire) /\ Len(wire) \in Nat
        /\ \A k \in 1..Len(s) : s[k] = IF k <= Len(received) THEN received[k]
                                       ELSE wire[k - Len(received)]
    BY <1>1, <2>1, ConcatProperties, LenProperties
  <2>3. /\ t \in Seq(MessageUnits) /\ Len(t) = Len(received') + Len(wire)
        /\ \A k \in 1..Len(t) : t[k] = IF k <= Len(received') THEN received'[k]
                                       ELSE wire[k - Len(received')]
    BY <1>1, <1>4, <2>1, ConcatProperties, LenProperties
  <2> HIDE DEF s, t
  <2>4. /\ s # <<>> /\ m = s[1][1] /\ Lengths[m] <= Len(s) /\ 1 \in 1..Len(s)
        /\ Len(t) = Len(s) - Lengths[m]
    <3>1. Len(s) \in Nat \ {0} /\ L <= Len(s) /\ 1 \in 1..Len(s) /\ 1 <= Len(received)
          /\ Len(t) = Len(s) - L
      BY <1>1, <1>2, <1>4, <2>2, <2>3
    <3>2. s # <<>>
      BY <3>1, EmptySeq
    <3>3. s[1] = received[1]
      BY <2>2, <3>1
    <3> QED
      BY <1>2, <3>1, <3>2, <3>3 DEF L
  <2>5. ASSUME NEW k \in 1..Len(t)
        PROVE  t[k] = s[k + L]
    <3>1. k \in Nat \ {0} /\ k + L \in 1..Len(s) /\ L + k = k + L
      BY <1>1, <1>2, <1>4, <2>2, <2>3
    <3>2. CASE k <= Len(received) - L
      <4>1. k \in 1..(Len(received) - L) /\ k <= Len(received') /\ k + L <= Len(received)
        BY <1>1, <1>2, <1>4, <3>1, <3>2
      <4>2. t[k] = received'[k] /\ s[k + L] = received[k + L]
        BY <2>2, <2>3, <3>1, <4>1
      <4> QED
        BY <1>4, <3>1, <4>1, <4>2
    <3>3. CASE ~(k <= Len(received) - L)
      <4>1. /\ ~(k <= Len(received')) /\ ~(k + L <= Len(received))
            /\ k - Len(received') = (k + L) - Len(received)
        <5>1. \A k0, l, a, b \in Int : b = a - l /\ ~(k0 <= a - l) =>
                ~(k0 <= b) /\ ~(k0 + l <= a) /\ k0 - b = (k0 + l) - a
          OBVIOUS
        <5>2. k \in Int /\ L \in Int /\ Len(received) \in Int /\ Len(received') \in Int
          BY <1>2, <1>4, <3>1
        <5> QED
          BY <1>4, <3>3, <5>1, <5>2
      <4> QED
        BY <2>2, <2>3, <3>1, <4>1
    <3> QED
      BY <3>2, <3>3
  <2>6. Placed(s) /\ \A k \in 1..Len(t) : t[k] = s[k + Lengths[m]]
    BY <2>1, <2>5 DEF StreamOK, L
  <2>7. /\ \A d \in 1..Lengths[m] : s[d] = <<m, d>>
        /\ Placed(t) /\ (Whole(s) => Whole(t))
        /\ \A k \in 1..Len(t) : m < t[k][1]
    BY <2>2, <2>3, <2>4, <2>6, StreamTaken, ZenonT(30)
  <2>8. \A d \in 1..L : received[d] = <<m, d>>
    <3>1. \A d \in 1..L : d \in 1..Len(s) /\ d <= Len(received)
      BY <1>1, <1>2, <2>2
    <3> QED
      BY <2>2, <2>7, <3>1 DEF L
  <2>9. m <= sent /\ \A i \in 1..Len(order) : order[i] < m /\ order[i] # m
    <3>1. m <= sent /\ \A i \in 1..Len(order) : order[i] < m
      BY <2>1, <2>4 DEF StreamOK
    <3> QED
      BY <1>2, <1>5, <3>1
  <2>10. OrderOK'
    BY <1>8, <2>9
  <2>11. handed' = B!Units(handed'[1][1])
    BY <1>9, <2>8
  <2>12. ASSUME NEW k \in 1..Len(t)
         PROVE  t[k][1] <= sent' /\ \A i \in 1..Len(order') : order'[i] < t[k][1]
    <3>1. k + L \in 1..Len(s) /\ t[k] = s[k + L]
      <4>1. Len(t) = Len(s) - L /\ L \in Nat /\ Len(s) \in Nat
        BY <1>2, <2>2, <2>4, LenProperties DEF L
      <4>2. k + L \in 1..Len(s)
        BY <4>1
      <4> QED
        BY <2>5, <4>2
    <3>2. t[k][1] <= sent /\ \A i \in 1..Len(order) : order[i] < t[k][1]
      BY <2>1, <3>1 DEF StreamOK
    <3> QED
      BY <1>1, <1>5, <1>7, <2>7, <3>2
  <2>13. StreamOK(t, sent', order') /\ Whole(t)
    BY <1>1, <2>1, <2>7, <2>12 DEF StreamOK
  <2>14. TcpInv'
    BY <2>13 DEF TcpInv, t
  <2> QED
    BY <1>1, <1>10, <1>11, <2>10, <2>11, <2>14 DEF BoundaryInv
<1>12. CASE protocol # "tcp"
  <2>1. /\ IsMessage(received, sent, order) /\ received = B!Units(m)
        /\ Len(received) = L /\ UdpInv
    BY <1>2, <1>12, DatagramRead DEF BoundaryInv, L
  <2>2. \A d \in 1..L : received[d] = <<m, d>>
    BY <1>2, <2>1, UnitsFacts DEF L
  <2>3. handed' = B!Units(handed'[1][1])
    BY <1>9, <2>2
  <2>4. received' = <<>>
    <3>1. Len(received') = 0
      BY <1>2, <1>4, <2>1
    <3> QED
      BY <1>4, <3>1, EmptySeq
  <2>5. m <= sent /\ \A i \in 1..Len(order) : order[i] # m
    BY <1>2, <1>6, <2>1 DEF IsMessage
  <2>6. OrderOK'
    BY <1>8, <1>12, <2>5
  <2>7. \A i \in 1..Len(wire) : IsMessage(wire[i], sent, order) /\ wire[i][1][1] # m
    BY <1>2, <2>1 DEF UdpInv, AreMessages
  <2>8. \A u : IsMessage(u, sent, order) /\ u[1][1] # m => IsMessage(u, sent, order')
    BY <1>5, <1>7 DEF IsMessage
  <2>9. AreMessages(wire', sent', order')
    BY <1>1, <2>1, <2>7, <2>8, ZenonT(30) DEF UdpInv, AreMessages
  <2>10. UdpInv'
    BY <2>4, <2>9 DEF UdpInv
  <2> QED
    BY <1>1, <1>10, <1>12, <2>3, <2>6, <2>10 DEF BoundaryInv
<1> QED
  BY <1>11, <1>12

(* The steps of the manager and of the layer's worker. *)
LEMMA BoundaryManagerKept ==
  ASSUME BoundaryInv, B!ManagerStep \/ B!SenderStep
  PROVE  BoundaryInv'
<1>1. UNCHANGED <<protocol, received, handed, order, wire, sent, receiver>>
  BY DEF B!ManagerStep, B!InsertRoute, B!StartQueue, B!StartFails, B!Stop, B!ClearRoutes,
         B!Close, B!Join, B!SenderStep, B!SenderFindsRoute, B!SenderLocks, B!SenderWrites,
         B!thread
<1>2. B!Listening' => B!Listening
  BY <1>1 DEF B!Listening
<1>3. protocol = "udp" /\ received # <<>> => receiver = "parsing"
  BY DEF BoundaryInv, UdpInv
<1> QED
  BY <1>1, <1>2, <1>3, BoundaryQuiet

(* The steps of the receive thread. *)
LEMMA BoundaryThreadKept ==
  ASSUME BoundaryInv, B!ThreadStep
  PROVE  BoundaryInv'
<1>1. protocol = "udp" /\ received # <<>> => receiver = "parsing"
  BY DEF BoundaryInv, UdpInv
<1>2. CASE B!Connect
  <2>1. /\ UNCHANGED <<protocol, handed, order, sent>> /\ wire' = <<>> /\ received' = <<>>
    BY <1>2 DEF B!Connect, B!still
  <2> QED
    BY <2>1, BoundaryCut
<1>3. CASE B!Disconnect
  <2>1. /\ UNCHANGED <<protocol, handed, order, sent, received>> /\ wire' = <<>>
        /\ receiver = "blocked" /\ ~B!Listening'
    BY <1>3 DEF B!Disconnect, B!still, B!Listening
  <2>2. received = <<>> \/ protocol = "tcp"
    BY <1>1, <2>1 DEF BoundaryInv, BoundaryTypes
  <2> QED
    BY <2>1, <2>2, BoundaryCut
<1>4. CASE \E n \in 1..Len(wire) : B!Read(n)
  BY <1>4, ReadKept
<1>5. CASE B!Dispatch
  BY <1>5, DispatchKept
<1>6. CASE B!ReadMore
  <2>1. /\ UNCHANGED <<protocol, received, handed, order, wire, sent>>
        /\ receiver = "parsing" /\ ~B!HasMessage
    BY <1>6 DEF B!ReadMore, B!still
  <2>2. ~(protocol = "udp" /\ received # <<>>)
    BY <2>1, DatagramRead
  <2>3. B!Listening
    BY <2>1 DEF B!Listening
  <2> QED
    BY <2>1, <2>2, <2>3, BoundaryQuiet
<1>7. CASE \/ B!ProcessMessage \/ B!HandlerAnswers \/ B!HandlerReturns
           \/ B!HandlerLocks \/ B!HandlerWrites
  <2>1. /\ UNCHANGED <<protocol, received, handed, order, wire, sent>>
        /\ receiver \in {"handling", "direct", "locking", "writing"}
    BY <1>7 DEF B!ProcessMessage, B!HandlerAnswers, B!HandlerReturns, B!HandlerLocks,
                B!HandlerWrites, B!still
  <2>2. B!Listening /\ receiver # "parsing"
    BY <2>1 DEF B!Listening
  <2> QED
    BY <1>1, <2>1, <2>2, BoundaryQuiet
<1>8. CASE B!CheckCancel \/ B!TimesOut \/ B!AcceptFails \/ B!ClearStream
  <2>1. /\ UNCHANGED <<protocol, received, handed, order, wire, sent>>
        /\ receiver # "parsing"
        /\ \/ receiver \in {"reading", "blocked"}
           \/ receiver' \in {"ended", "accepting", "waiting"}
    BY <1>8 DEF B!CheckCancel, B!TimesOut, B!AcceptFails, B!ClearStream, B!still
  <2>2. B!Listening' => B!Listening
    BY <2>1 DEF B!Listening
  <2> QED
    BY <1>1, <2>1, <2>2, BoundaryQuiet
<1> QED
  BY <1>2, <1>3, <1>4, <1>5, <1>6, <1>7, <1>8 DEF B!ThreadStep

(* Every step of the endpoint. *)
LEMMA BoundaryKept ==
  ASSUME BoundaryInv, B!Next
  PROVE  BoundaryInv'
  BY BoundaryManagerKept, BoundaryThreadKept, PeerSendsKept, LossKept DEF B!Next

-----------------------------------------------------------------------------
(***************************************************************************)
(* All parts together.                                                     *)
(***************************************************************************)
(* The invariant holds in the first state. *)
LEMMA InitIInv == Init => IInv
  BY TransportStarts, FlowStarts, BoundaryStarts, EffectStarts DEF Init, IInv

(* A step of one part keeps the invariant of that part. *)
LEMMA NextIInv == IInv /\ [Next]_vars => IInv'
<1> SUFFICES ASSUME IInv, [Next]_vars
             PROVE  IInv'
  OBVIOUS
<1>1. CASE part = "transport" /\ T!Next /\ UNCHANGED part
  BY <1>1, TransportKept DEF IInv
<1>2. CASE part = "flow" /\ F!Next /\ UNCHANGED part
  BY <1>2, FlowKept DEF IInv
<1>3. CASE part = "boundary" /\ B!Next /\ UNCHANGED part
  BY <1>3, BoundaryKept DEF IInv
<1>4. CASE part = "effect" /\ E!Next /\ UNCHANGED part
  BY <1>4, EffectKept DEF IInv
<1>5. CASE part = "scenario" /\ UNCHANGED part
  BY <1>5 DEF IInv
<1>6. CASE UNCHANGED vars
  <2>1. UNCHANGED part
    BY <1>6 DEF vars
  <2>2. TransportInv => TransportInv'
    BY <1>6 DEF vars, transportOnly, TransportInv, TransportTypes, TokensPlaced, WorkerHolds,
                CountRight, UpdateComing
  <2>3. FlowInv => FlowInv'
    BY <1>6 DEF vars, flowOnly, FlowInv, FlowTypes, Budget
  <2>4. BoundaryInv => BoundaryInv'
    BY <1>6 DEF vars, boundaryOnly, BoundaryInv, BoundaryTypes, OrderOK, TcpInv, UdpInv,
                B!Listening
  <2>5. EffectInv => EffectInv'
    BY <1>6 DEF vars, effectOnly, EffectInv, EffectTypes, E!EffectsKept
  <2> QED
    BY <2>1, <2>2, <2>3, <2>4, <2>5 DEF IInv
<1> QED
  BY <1>1, <1>2, <1>3, <1>4, <1>5, <1>6 DEF Next, OthersOfBoundary

(* In every behaviour of every part, the invariant of the part holds.      *)
THEOREM Invariance == Spec => []IInv
  BY InitIInv, NextIInv, PTL DEF Spec

(* For any number of frames, tokens and restarts, whatever update is lost  *)
(* to the transport's unguarded decrement and whenever it wraps around:    *)
(* once all is at rest the transport has all tokens of the MAC, and only a *)
(* frame put aside on a count out of date waits.  And for any number of    *)
(* starts, restarts and packets of the flow-control pair: while the count  *)
(* confirmed last overtook no packet in hand, the manager's shadow count   *)
(* does not wrap, and manager and client agree when nothing is on its way. *)
THEOREM TokensComeRight == Spec => []TokensAgree
<1>1. IInv => TokensAgree
  BY TransportSettles, FlowAgrees DEF IInv, TokensAgree
<1> QED
  BY <1>1, Invariance, PTL

(* However the reads cut the stream and however often a connection is lost *)
(* or the endpoint closed, a layer is handed whole messages of any lengths *)
(* and any number, each once, and in the order sent over TCP.              *)
THEOREM WholeMessages == Spec => []HandedWhole
<1>1. IInv => HandedWhole
  BY DEF IInv, BoundaryInv, OrderOK, HandedWhole, B!HandedWhole
<1> QED
  BY <1>1, Invariance, PTL

(* For any effects, filters, packets and restarts of the comm-effect shim: *)
(* the packets of a source are received one after the other, what waits is *)
(* bounded by the receive buffer and one packet, no copy comes up before   *)
(* its own reception, latency and jitter allow, and every packet that is   *)
(* reported as scheduled still has a copy to come.                         *)
THEOREM EffectsAreKept == Spec => []EffectsKept
<1>1. IInv => EffectsKept
  BY DEF IInv, EffectInv, EffectsKept
<1> QED
  BY <1>1, Invariance, PTL
=============================================================================
