---------------------------- MODULE FlowControl ----------------------------
(***************************************************************************)
(* The flow-control manager of a MAC and the flow-control client of a      *)
(* transport, the pair the library exports.  The manager answers for its   *)
(* tokens by sending an absolute count; the client takes it and sends it   *)
(* back; until then the manager lets no packet through.  The shadow count  *)
(* is what the client is thought to have left.  Packets and counts of the  *)
(* client travel in order (up), and so do the counts of the manager        *)
(* (down).  A transport takes a token and sends the packet later, so a     *)
(* count may overtake packets it has in hand: hand, in a count, is how     *)
(* many (history, nobody reads it).                                        *)
(***************************************************************************)
EXTENDS Integers, Sequences

CONSTANTS
    Totals,      \* token counts the MAC may start with
    MaxRestarts, \* bound on the starts of each side
    MaxSends,    \* bound on the packets
    TokenModulus \* 2^16: the shadow count is a u16

VARIABLES
    tokens_available, total_tokens_available, shadow_token_count,
    last_tokens_update, ack_pending,       \* the manager
    in_service,      \* packets the MAC has taken and not finished
    client_tokens, waiting, cancel,        \* the client
    in_hand,         \* packets whose token is spent and that are not sent yet
    up, down,
    starts, client_starts, sends,
    overtaken,       \* history: the count confirmed last overtook packets in hand
    underflow        \* history: the shadow count wrapped since it was last set

manager == <<tokens_available, total_tokens_available, shadow_token_count,
             last_tokens_update, ack_pending, in_service, overtaken, underflow>>
client == <<client_tokens, waiting, cancel, in_hand, client_starts, sends>>
vars == <<manager, client, up, down, starts>>

Init ==
    /\ tokens_available = 0 /\ total_tokens_available = 0
    /\ shadow_token_count = 0 /\ last_tokens_update = 0
    /\ ack_pending = TRUE
    /\ in_service = 0
    /\ client_tokens = 0 /\ waiting = FALSE /\ cancel = FALSE /\ in_hand = 0
    /\ up = <<>> /\ down = <<>>
    /\ starts = 0 /\ client_starts = 0 /\ sends = 0
    /\ overtaken = FALSE /\ underflow = FALSE

-----------------------------------------------------------------------------
(* update_shadow_and_ack, when tokens tokens are available; the MAC sends  *)
(* the count.                                                              *)
UpdateShadowAndAck(tokens) ==
    /\ shadow_token_count' = tokens
    /\ last_tokens_update' = tokens
    /\ ack_pending' = TRUE
    /\ underflow' = FALSE
    /\ down' = Append(down, tokens)

ManagerStart(total) ==
    /\ starts < MaxRestarts /\ total_tokens_available = 0
    /\ starts' = starts + 1
    /\ total_tokens_available' = total
    /\ tokens_available' = total
    /\ UpdateShadowAndAck(total)
    /\ UNCHANGED <<in_service, overtaken, client, up>>

ManagerStop ==
    /\ total_tokens_available # 0
    /\ total_tokens_available' = 0
    /\ tokens_available' = 0
    /\ shadow_token_count' = 0
    /\ underflow' = FALSE
    /\ UNCHANGED <<last_tokens_update, ack_pending, in_service, overtaken, client, up,
                   down, starts>>

(* add_token: the MAC is done with a packet. *)
AddToken ==
    /\ in_service > 0
    /\ in_service' = in_service - 1
    /\ tokens_available' = IF tokens_available + 1 <= total_tokens_available
                             THEN tokens_available + 1 ELSE tokens_available
    /\ IF shadow_token_count = 0 /\ tokens_available' > 0
         THEN UpdateShadowAndAck(tokens_available')
         ELSE UNCHANGED <<shadow_token_count, last_tokens_update, ack_pending, underflow,
                          down>>
    /\ UNCHANGED <<total_tokens_available, overtaken, client, up, starts>>

(* Slip: a packet is let through whether or not the count was confirmed. *)
MayTakeUnconfirmed == tokens_available # 0

MayTake == ~ack_pending /\ tokens_available # 0

(* remove_token: a packet from the client; it is let through or dropped.   *)
(* The release build wraps the u16 below zero.                             *)
RemoveToken ==
    /\ up # <<>> /\ Head(up).kind = "packet"
    /\ up' = Tail(up)
    /\ IF MayTake
         THEN /\ tokens_available' = tokens_available - 1
              /\ shadow_token_count' = IF shadow_token_count = 0 THEN TokenModulus - 1
                                                            ELSE shadow_token_count - 1
              /\ underflow' = (underflow \/ shadow_token_count = 0)
              /\ in_service' = in_service + 1
         ELSE UNCHANGED <<tokens_available, shadow_token_count, underflow, in_service>>
    /\ UNCHANGED <<total_tokens_available, last_tokens_update, ack_pending, overtaken, client,
                   down, starts>>

(* process_flow_control_message of the manager. *)
ManagerMessage ==
    /\ up # <<>> /\ Head(up).kind = "count"
    /\ up' = Tail(up)
    /\ IF ack_pending /\ Head(up).tokens = last_tokens_update
         THEN /\ ack_pending' = FALSE
              /\ overtaken' = (Head(up).hand # 0)
              /\ UNCHANGED <<shadow_token_count, last_tokens_update, underflow, down>>
         ELSE UpdateShadowAndAck(tokens_available) /\ UNCHANGED overtaken
    /\ UNCHANGED <<tokens_available, total_tokens_available, in_service, client, starts>>

-----------------------------------------------------------------------------
Count(tokens) == [kind |-> "count", tokens |-> tokens, hand |-> in_hand]

Packet == [kind |-> "packet", tokens |-> 0, hand |-> 0]

ClientStart ==
    /\ client_starts < MaxRestarts
    /\ client_starts' = client_starts + 1
    /\ up' = Append(up, Count(client_tokens))
    /\ UNCHANGED <<client_tokens, waiting, cancel, in_hand, sends, manager, down, starts>>

(* remove_token of the client: spends a token or waits for one. *)
ClientTakes ==
    /\ ~cancel /\ sends < MaxSends
    /\ IF client_tokens = 0
         THEN /\ waiting' = TRUE
              /\ UNCHANGED <<client_tokens, in_hand, sends>>
         ELSE /\ waiting' = FALSE
              /\ client_tokens' = client_tokens - 1
              /\ in_hand' = in_hand + 1
              /\ sends' = sends + 1
    /\ UNCHANGED <<cancel, client_starts, manager, up, down, starts>>

(* The transport sends the packet it took a token for, with no lock held. *)
TransportSends ==
    /\ in_hand > 0
    /\ in_hand' = in_hand - 1
    /\ up' = Append(up, Packet)
    /\ UNCHANGED <<client_tokens, waiting, cancel, client_starts, sends, manager, down, starts>>

(* process_flow_control_message of the client. *)
ClientMessage ==
    /\ down # <<>>
    /\ down' = Tail(down)
    /\ client_tokens' = Head(down)
    /\ up' = Append(up, Count(Head(down)))
    /\ UNCHANGED <<waiting, cancel, in_hand, client_starts, sends, manager, starts>>

ClientStop ==
    /\ ~cancel
    /\ cancel' = TRUE
    /\ waiting' = FALSE
    /\ UNCHANGED <<client_tokens, in_hand, client_starts, sends, manager, up, down, starts>>

Next ==
    \/ \E total \in Totals : ManagerStart(total)
    \/ ManagerStop
    \/ AddToken
    \/ RemoveToken
    \/ ManagerMessage
    \/ ClientStart
    \/ ClientTakes
    \/ TransportSends
    \/ ClientMessage
    \/ ClientStop

Spec == Init /\ [][Next]_vars

-----------------------------------------------------------------------------
(* Whatever counts cross each other on the way, after whatever restart: as *)
(* long as the count the manager confirmed last did not overtake packets   *)
(* the transport had in hand, the manager never takes a token from the     *)
(* client's share that the client did not have (the u16 shadow count does  *)
(* not wrap), and once both directions are empty and the count is          *)
(* confirmed, the two sides agree; a client without tokens then has a      *)
(* packet in service whose end will bring it some.  So a count that        *)
(* overtook nothing repairs whatever an earlier one spoilt.                *)
CreditsAgree ==
    ~overtaken =>
      /\ ~underflow
      /\ /\ up = <<>> /\ down = <<>> /\ in_hand = 0
         /\ ~ack_pending /\ total_tokens_available # 0
         => /\ client_tokens = shadow_token_count
            /\ client_tokens = 0 => in_service > 0
=============================================================================
