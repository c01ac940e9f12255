-------------------------- MODULE EnvelopeExchange --------------------------
(***************************************************************************)
(* One inference request from the client through the relay to the gateway  *)
(* and back (client/src/agent.rs, relay/src/main.rs, gateway/src/main.rs,  *)
(* common/src/envelope.rs).  The turns of several sessions are under way   *)
(* at once.                                                                *)
(*                                                                         *)
(* The path between client and gateway keeps nothing in order: `wire` is   *)
(* the set of all envelopes it has carried, and any of them may be         *)
(* delivered, to either side, any number of times or never; it may also    *)
(* put the header of one envelope on the body of another.  The gateway is  *)
(* known by its promise alone: its ticket state is OneTimeTicket, which    *)
(* InferGateway implements.  What comes out at the client is OneTimeTicket *)
(* again, between turns and tickets.  The gateway's ticket verifier is one *)
(* of three (gateway/src/actum.rs, common/src/zk.rs, verifier_halo2); the  *)
(* Actum service it may ask is honest, and its payments become final in    *)
(* their own time.                                                         *)
(*                                                                         *)
(* Encryption is ideal: a body opens under exactly the direction and the   *)
(* transcript it was sealed for.  What a turn draws afresh (request id,    *)
(* client nonce, ephemeral key) is named by the turn.                      *)
(***************************************************************************)
EXTENDS Naturals

CONSTANTS
    Turns,          \* the client's turns
    Tickets,        \* the tickets, by replay key
    TicketOf,       \* the ticket each turn carries; two may carry one
    LabelOf,        \* the turn whose commitment and class that ticket names
    BoughtFor,      \* the turn the payment behind each ticket was made for
    ClassOf,        \* the token class of each turn's session
    Verifiers,      \* the verifiers the gateway may be configured with
    Handlers,       \* the gateway's handlers, one per envelope it is given
    RequestLens,    \* bounds: the lengths of request and response JSON
    ResponseLens,
    Faults          \* {"mix"}, or {} for a path that mixes no fields

Classes == {"c256", "c512"}

ASSUME TurnsAssumption == Turns # {}
ASSUME TicketAssumption == TicketOf \in [Turns -> Tickets]
ASSUME LabelAssumption == LabelOf \in [Turns -> Turns]
ASSUME BoughtAssumption == BoughtFor \in [Tickets -> Turns]
ASSUME VerifiersAssumption == Verifiers \subseteq {"actum", "dummy", "halo2"}
ASSUME ClassAssumption == ClassOf \in [Turns -> Classes]
ASSUME LensAssumption == RequestLens \subseteq Nat /\ ResponseLens \subseteq Nat
ASSUME FaultsAssumption == Faults \subseteq {"mix"}

VARIABLES
    turn,       \* where each turn is
    given,      \* the payload each turn's client accepted
    wire,       \* the envelopes the path has carried
    handler,    \* where each handler is
    serving,    \* the request each handler opened
    spent,      \* the gateway's tickets, as OneTimeTicket has them
    served,
    verifier,   \* the gateway's verifier
    final       \* the tickets whose payment is final

client == <<turn, given>>
gateway == <<handler, serving>>
tickets == <<spent, served>>
payments == <<verifier, final>>
vars == <<client, wire, gateway, tickets, payments>>

-----------------------------------------------------------------------------
(* common/src/token.rs *)

RequestBytes == [c256 |-> 8192, c512 |-> 12288]
ResponseBytes == [c256 |-> 8192, c512 |-> 16384]
Lengths == {RequestBytes[c] : c \in Classes} \cup {ResponseBytes[c] : c \in Classes}

(* Mutant: the payload is sealed as long as it is. *)
ResizedNot(len, n) == [length |-> len, whole |-> TRUE]

(* Vec::resize: what is longer is cut off, what is shorter is filled up    *)
(* with zeros.                                                             *)
Resized(len, n) ==
    LET kept == IF len < n THEN len ELSE n
        zeros == IF len < n THEN n - len ELSE 0
    IN  [length |-> kept + zeros, whole |-> kept = len]

(* Mutant: nothing is refused, only what is shorter is resized. *)
PadToLenShort(len, target) ==
    {IF len < target THEN Resized(len, target) ELSE Resized(len, len)}

(* pad_to_len: a payload over the target is refused.  trim_zero_padding    *)
(* takes off the zeros and no more, as JSON does not end in one.           *)
PadToLen(len, target) == IF len > target THEN {} ELSE {Resized(len, target)}

-----------------------------------------------------------------------------
(* common/src/envelope.rs *)

Header == [class : Classes, id : Turns, nonce : Turns, eph : Turns]
HeaderOf(t) == [class |-> ClassOf[t], id |-> t, nonce |-> t, eph |-> t]

Request(t) == [kind |-> "request", of |-> t]
Kinds == {"request", "ok", "err"}
Payload == [kind : Kinds, of : Turns]

(* Mutant: request id and class are not bound. *)
BoundToKeyOnly(direction, h) == <<direction, h.nonce, h.eph>>

(* What derive_key and aad_bytes bind a body to: the direction and every   *)
(* field of the header.  The shared secret is a function of eph.           *)
Bound(direction, h) == <<direction, h.class, h.id, h.nonce, h.eph>>

Sealed(direction, h, payload, body) ==
    [header |-> h, key |-> Bound(direction, h), payload |-> payload,
     length |-> body.length, whole |-> body.whole]

Envelope ==
    [header : Header, payload : Payload, length : Lengths, whole : BOOLEAN,
     key : {"request", "response"} \X Classes \X Turns \X Turns \X Turns]

(* Half a payload is no JSON. *)
Opens(direction, h, e) == e.key = Bound(direction, h) /\ e.whole

(* The envelopes the path can deliver. *)
Mixed ==
    LET headers == {e.header : e \in wire}
    IN  {[e EXCEPT !.header = h] : e \in wire, h \in
            [class : {g.class : g \in headers}, id : {g.id : g \in headers},
             nonce : {g.nonce : g \in headers}, eph : {g.eph : g \in headers}]}
Deliverable == IF "mix" \in Faults THEN Mixed ELSE wire

-----------------------------------------------------------------------------
TurnPlaces == {"idle", "waiting", "answered", "refused", "failed"}
HandlerPlaces == {"idle", "open", "paying", "sealed", "plain", "gone"}

TypeOK ==
    /\ turn \in [Turns -> TurnPlaces]
    /\ given \in [Turns -> Payload]
    /\ wire \subseteq Envelope
    /\ handler \in [Handlers -> HandlerPlaces]
    /\ serving \in [Handlers -> [header : Header, of : Turns]]
    /\ spent \subseteq Tickets
    /\ served \in [Tickets -> SUBSET Handlers]
    /\ verifier \in Verifiers
    /\ final \subseteq Tickets

Gate == INSTANCE OneTimeTicket WITH Keys <- Tickets, Tasks <- Handlers

Init ==
    /\ turn = [t \in Turns |-> "idle"]
    /\ given = [t \in Turns |-> Request(t)]
    /\ wire = {}
    /\ handler = [h \in Handlers |-> "idle"]
    /\ LET any == CHOOSE t \in Turns : TRUE
       IN  serving = [h \in Handlers |-> [header |-> HeaderOf(any), of |-> any]]
    /\ Gate!Init
    /\ verifier \in Verifiers
    /\ final = {}

-----------------------------------------------------------------------------
(* The client: send_user_message from sealing on. *)

Ask(t) ==
    /\ turn[t] = "idle"
    /\ \E len \in RequestLens :
          \E body \in PadToLen(len, RequestBytes[ClassOf[t]]) :
              wire' = wire \cup
                    {Sealed("request", HeaderOf(t), Request(t), body)}
    /\ turn' = [turn EXCEPT ![t] = "waiting"]
    /\ UNCHANGED <<given, gateway, tickets, payments>>

(* The request does not fit its class: the turn fails, its ticket unused.  *)
AskTooLarge(t) ==
    /\ turn[t] = "idle"
    /\ \E len \in RequestLens : PadToLen(len, RequestBytes[ClassOf[t]]) = {}
    /\ turn' = [turn EXCEPT ![t] = "failed"]
    /\ UNCHANGED <<given, wire, gateway, tickets, payments>>

(* Mutant: only the echoed header is compared. *)
AcceptsEcho(t, e) == e.header = HeaderOf(t) /\ e.payload.kind # "request"

(* open_response compares every header field with the turn's own, opens    *)
(* the body with the turn's own keys, and the payload must parse as one of *)
(* the gateway's and carry the turn's request id.                          *)
Accepts(t, e) ==
    /\ e.header = HeaderOf(t)
    /\ Opens("response", HeaderOf(t), e)
    /\ e.payload.kind # "request"
    /\ e.payload.of = t

(* The relay returns an envelope, and the client reads it. *)
Accept(t) ==
    /\ turn[t] = "waiting"
    /\ \E e \in Deliverable :
          /\ Accepts(t, e)
          /\ given' = [given EXCEPT ![t] = e.payload]
          /\ turn' = [turn EXCEPT
                ![t] = IF e.payload.kind = "ok" THEN "answered" ELSE "refused"]
    /\ UNCHANGED <<wire, gateway, tickets, payments>>

(* No acceptable answer: an envelope that is not the turn's, an HTTP error *)
(* (the relay's 502 or 504, the gateway's 400 or 500), or no answer in     *)
(* time.  Whatever the gateway still does for the turn is not taken back.  *)
Fail(t) ==
    /\ turn[t] = "waiting"
    /\ turn' = [turn EXCEPT ![t] = "failed"]
    /\ UNCHANGED <<given, wire, gateway, tickets, payments>>

-----------------------------------------------------------------------------
(* The gateway.  A handler is given any envelope the path delivers. *)

Receive(h) ==
    /\ handler[h] = "idle"
    /\ \E e \in Deliverable :
          /\ Opens("request", e.header, e)
          /\ serving' = [serving EXCEPT
                ![h] = [header |-> e.header, of |-> e.payload.of]]
    /\ handler' = [handler EXCEPT ![h] = "open"]
    /\ UNCHANGED <<client, wire, tickets, payments>>

ReceiveUnreadable(h) ==
    /\ handler[h] = "idle"
    /\ \E e \in Deliverable : ~Opens("request", e.header, e)
    /\ handler' = [handler EXCEPT ![h] = "plain"]
    /\ UNCHANGED <<client, wire, serving, tickets, payments>>

Ticket(h) == TicketOf[serving[h].of]

(* What the Actum service finds about the payment of a ticket, whatever    *)
(* request the gateway asks about.                                         *)
Finding(k) ==
    [finalized |-> k \in final, of |-> BoughtFor[k],
     class |-> ClassOf[BoughtFor[k]]]

(* The ticket names the commitment of the very request that carries it; a  *)
(* commitment (authorization_commitment) is as good as its turn.           *)
NamesRequest(t) == LabelOf[t] = t

(* Mutant: the echoed commitment and class are not looked at. *)
ActumTakesAny(t) == NamesRequest(t) /\ Finding(TicketOf[t]).finalized

(* ActumVerifier: the finding, too, must be about this request. *)
ActumAuthorizes(t) ==
    LET f == Finding(TicketOf[t])
    IN  /\ NamesRequest(t)
        /\ f.finalized /\ f.of = t /\ f.class = ClassOf[LabelOf[t]]

(* DummyVerifier takes any ticket; Halo2PlonkVerifier, a skeleton, none.   *)
DummyAuthorizes(t) == TRUE
Halo2Authorizes(t) == FALSE

Authorizes(t) ==
    \/ verifier = "actum" /\ ActumAuthorizes(t)
    \/ verifier = "dummy" /\ DummyAuthorizes(t)
    \/ verifier = "halo2" /\ Halo2Authorizes(t)

(* One class in the envelope, the request and the ticket; then the         *)
(* verifier is asked.  A verifier that is down or refuses is a Refuse.     *)
Authorize(h) ==
    LET t == serving[h].of
    IN  /\ handler[h] = "open"
        /\ serving[h].header.class = ClassOf[t]
        /\ ClassOf[LabelOf[t]] = ClassOf[t]
        /\ Authorizes(t)
        /\ handler' = [handler EXCEPT ![h] = "paying"]
        /\ UNCHANGED <<client, wire, serving, tickets, payments>>

(* mark_nullifier_spent, for a provider call that succeeded. *)
Spend(h) ==
    /\ handler[h] = "paying"
    /\ Gate!Spend({Ticket(h)})
    /\ UNCHANGED <<client, wire, gateway, payments>>

(* finalize_encrypted_response: the payload is sealed for the header of    *)
(* the request.                                                            *)
Answer(h, kind) ==
    LET header == serving[h].header
    IN  /\ \E len \in ResponseLens :
              \E body \in PadToLen(len, ResponseBytes[header.class]) :
                  wire' = wire \cup
                        {Sealed("response", header,
                                [kind |-> kind, of |-> serving[h].of], body)}
        /\ handler' = [handler EXCEPT ![h] = "sealed"]

(* Mutant: the result leaves before its ticket is marked spent. *)
ServeUnpaid(h) ==
    /\ handler[h] = "paying"
    /\ Answer(h, "ok")
    /\ UNCHANGED <<client, serving, tickets, payments>>

(* The provider's result, for a ticket that is spent and pays nothing else.*)
Serve(h) ==
    /\ handler[h] = "paying"
    /\ Gate!Serve(h, Ticket(h))
    /\ Answer(h, "ok")
    /\ UNCHANGED <<client, serving, payments>>

(* The result does not fit its class: a plain HTTP 500, the ticket spent.  *)
ServeTooLarge(h) ==
    /\ handler[h] = "paying" /\ Ticket(h) \in spent
    /\ \E len \in ResponseLens :
          PadToLen(len, ResponseBytes[serving[h].header.class]) = {}
    /\ handler' = [handler EXCEPT ![h] = "plain"]
    /\ UNCHANGED <<client, wire, serving, tickets, payments>>

(* Any error of infer_canonical, double_spend among them. *)
Refuse(h) ==
    /\ handler[h] \in {"open", "paying"}
    /\ Answer(h, "err")
    /\ UNCHANGED <<client, serving, tickets, payments>>

(* The relay gave up and closed the connection, or the gateway crashed. *)
Drop(h) ==
    /\ handler[h] \in {"open", "paying"}
    /\ handler' = [handler EXCEPT ![h] = "gone"]
    /\ UNCHANGED <<client, wire, serving, tickets, payments>>

(* A payment becomes final, for good.  Only Actum knows of payments. *)
Settle(k) ==
    /\ verifier = "actum" /\ k \notin final
    /\ final' = final \cup {k}
    /\ UNCHANGED <<client, wire, gateway, tickets, verifier>>

Next ==
    \/ \E t \in Turns : Ask(t) \/ AskTooLarge(t) \/ Accept(t) \/ Fail(t)
    \/ \E h \in Handlers :
          \/ Receive(h) \/ ReceiveUnreadable(h) \/ Authorize(h) \/ Spend(h)
          \/ Serve(h) \/ ServeTooLarge(h) \/ Refuse(h) \/ Drop(h)
    \/ \E k \in Tickets : Settle(k)

Spec == Init /\ [][Next]_vars

-----------------------------------------------------------------------------
(* Properties.                                                             *)

(* A turn that was answered or refused got what a handler sealed for this  *)
(* very turn, however late, twice or astray the path delivers              *)
(* (open_response, and the request id inside the payload).                 *)
OwnAnswer ==
    \A t \in Turns :
        turn[t] \in {"answered", "refused"} =>
            \E h \in Handlers :
                /\ handler[h] = "sealed" /\ serving[h].of = t
                /\ turn[t] = "answered" <=> h \in served[TicketOf[t]]

(* "The gateway authenticates this field": it never works on a request     *)
(* under another id, class, nonce or key than the client sealed it for, so *)
(* the class it bills and pads for is the client's.                        *)
OpenedAsSealed ==
    \A h \in Handlers :
        handler[h] \in {"open", "paying", "sealed"} =>
            serving[h].header = HeaderOf(serving[h].of)

(* "Binding substitutions ... fail closed before the model provider is     *)
(* called": with the Actum verifier a turn is answered only for a payment  *)
(* that is final and was made for this very turn; a ticket taken along to  *)
(* another turn, relabelled or not, answers none (ActumVerifier::verify).  *)
BoughtAnswers ==
    verifier = "actum" =>
        \A t \in Turns : turn[t] = "answered" =>
            TicketOf[t] \in final /\ BoughtFor[TicketOf[t]] = t

(* Of a body the path sees its length, and two of one class and direction  *)
(* have the same, a refusal and a result too, from the shortest payload to *)
(* the longest that fits; it is not had by cutting any off (pad_to_len on  *)
(* both sides).                                                            *)
SizesHideContent ==
    /\ \A e, f \in wire :
          e.key[1] = f.key[1] /\ e.header.class = f.header.class
              => e.length = f.length
    /\ \A e \in wire : e.whole

(* The promise to the client, through the path: at most one turn is ever   *)
(* answered for a ticket, and only once the gateway has it spent for good. *)
EndToEnd == INSTANCE OneTimeTicket WITH
    Keys <- Tickets, Tasks <- Turns,
    served <- [k \in Tickets |->
                  {t \in Turns : turn[t] = "answered" /\ TicketOf[t] = k}]

PaidAnswers == EndToEnd!Spec
=============================================================================
