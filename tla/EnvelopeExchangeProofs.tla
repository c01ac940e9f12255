----------------------- MODULE EnvelopeExchangeProofs -----------------------
(***************************************************************************)
(* What holds of EnvelopeExchange for every set of turns, tickets and      *)
(* handlers, any lengths, with and without a path that mixes headers, and  *)
(* under each of the verifiers.                                            *)
(***************************************************************************)
EXTENDS EnvelopeExchange, TLAPS

-----------------------------------------------------------------------------
(* Type correctness.                                                       *)

(* The header of a turn is a header.                                       *)
LEMMA HeaderType == \A t \in Turns : HeaderOf(t) \in Header
BY ClassAssumption DEF HeaderOf, Header

Full(n) == [length |-> n, whole |-> TRUE]

(* What is not refused is filled up to the target, and all there.          *)
LEMMA PaddedWhole ==
    ASSUME NEW len \in Nat, NEW target \in Nat, NEW body \in PadToLen(len, target)
    PROVE  body = Full(target)
<1> DEFINE kept == IF len < target THEN len ELSE target
<1> DEFINE zeros == IF len < target THEN target - len ELSE 0
<1>1. len <= target /\ body = Resized(len, target) BY DEF PadToLen
<1>2. kept = len BY <1>1
<1>3. kept + zeros = target BY <1>1
<1>4. Resized(len, target) = [length |-> kept + zeros, whole |-> kept = len]
  BY DEF Resized
<1> HIDE DEF kept, zeros
<1>5. (kept = len) = TRUE BY <1>2
<1> QED BY <1>1, <1>3, <1>4, <1>5 DEF Full

(* Every size of a class is a natural number.                              *)
LEMMA SizesType ==
    \A c \in Classes : RequestBytes[c] \in Nat /\ ResponseBytes[c] \in Nat
BY DEF Classes, RequestBytes, ResponseBytes

(* What is sealed at the class's length is an envelope.                    *)
LEMMA SealedType ==
    ASSUME NEW d \in {"request", "response"}, NEW h \in Header,
           NEW p \in Payload, NEW n \in Lengths
    PROVE  Sealed(d, h, p, Full(n)) \in Envelope
BY DEF Sealed, Envelope, Header, Bound, Full

(* A turn that asks seals a full request, ...                              *)
LEMMA AskSeals ==
    ASSUME NEW t \in Turns, Ask(t)
    PROVE  wire' = wire \cup {Sealed("request", HeaderOf(t), Request(t),
                                    Full(RequestBytes[ClassOf[t]]))}
<1> DEFINE target == RequestBytes[ClassOf[t]]
<1>1. target \in Nat BY ClassAssumption, SizesType
<1> HIDE DEF target
<1>2. PICK len \in RequestLens : \E body \in PadToLen(len, target) :
          wire' = wire \cup {Sealed("request", HeaderOf(t), Request(t), body)}
  BY DEF Ask, target
<1>3. PICK body \in PadToLen(len, target) :
          wire' = wire \cup {Sealed("request", HeaderOf(t), Request(t), body)}
  BY <1>2
<1>4. body = Full(target) BY <1>1, LensAssumption, PaddedWhole
<1> QED BY <1>3, <1>4 DEF target

(* ... and a handler that answers a full response.                         *)
LEMMA AnswerSeals ==
    ASSUME TypeOK, NEW h \in Handlers, NEW kind, Answer(h, kind)
    PROVE  wire' = wire \cup
              {Sealed("response", serving[h].header,
                      [kind |-> kind, of |-> serving[h].of],
                      Full(ResponseBytes[serving[h].header.class]))}
<1> DEFINE target == ResponseBytes[serving[h].header.class]
           answer(body) == Sealed("response", serving[h].header,
                                  [kind |-> kind, of |-> serving[h].of], body)
<1>1. target \in Nat
  <2>1. serving[h].header.class \in Classes BY DEF TypeOK, Header
  <2> QED BY <2>1, SizesType
<1> HIDE DEF target
<1>2. PICK len \in ResponseLens : \E body \in PadToLen(len, target) :
          wire' = wire \cup {answer(body)}
  BY DEF Answer, target
<1>3. PICK body \in PadToLen(len, target) : wire' = wire \cup {answer(body)}
  BY <1>2
<1>4. body = Full(target) BY <1>1, LensAssumption, PaddedWhole
<1> QED BY <1>3, <1>4 DEF target

(* What the path delivers was sealed by one of the two sides, up to its    *)
(* header.                                                                 *)
LEMMA DeliveredType ==
    ASSUME TypeOK, NEW e \in Deliverable
    PROVE  /\ e \in Envelope
           /\ \E f \in wire : e.key = f.key /\ e.payload = f.payload
<1>1. CASE "mix" \in Faults
  <2>1. e \in Mixed BY <1>1 DEF Deliverable
  <2>2. PICK f \in wire, h \in
            [class : {g.class : g \in {d.header : d \in wire}},
             id : {g.id : g \in {d.header : d \in wire}},
             nonce : {g.nonce : g \in {d.header : d \in wire}},
             eph : {g.eph : g \in {d.header : d \in wire}}] :
               e = [f EXCEPT !.header = h]
    BY <2>1 DEF Mixed
  <2>3. f \in Envelope /\ \A d \in wire : d.header \in Header
    BY DEF TypeOK, Envelope
  <2>4. h \in Header BY <2>3 DEF Header
  <2> QED BY <2>2, <2>3, <2>4 DEF Envelope
<1>2. CASE "mix" \notin Faults BY <1>2 DEF Deliverable, TypeOK
<1> QED BY <1>1, <1>2

(* An answer puts one more envelope on the wire and seals its handler.     *)
LEMMA AnswerType ==
    ASSUME TypeOK, NEW h \in Handlers, NEW kind \in {"ok", "err"},
           Answer(h, kind)
    PROVE  /\ wire' \subseteq Envelope
           /\ handler' \in [Handlers -> HandlerPlaces]
<1>1. serving[h].header \in Header /\ serving[h].of \in Turns
  BY DEF TypeOK
<1>2. ResponseBytes[serving[h].header.class] \in Lengths
  BY <1>1 DEF Header, Lengths
<1>3. [kind |-> kind, of |-> serving[h].of] \in Payload
  BY <1>1 DEF Payload, Kinds
<1>4. wire' \subseteq Envelope
  BY <1>1, <1>2, <1>3, AnswerSeals, SealedType DEF TypeOK
<1> QED BY <1>4 DEF Answer, TypeOK, HandlerPlaces

(* Every reachable state has the declared types.                           *)
THEOREM TypeCorrect == Spec => []TypeOK
<1>1. Init => TypeOK
  <2> SUFFICES ASSUME Init PROVE TypeOK OBVIOUS
  <2>1. (CHOOSE t \in Turns : TRUE) \in Turns BY TurnsAssumption
  <2> QED BY <2>1, HeaderType
          DEF Init, TypeOK, TurnPlaces, HandlerPlaces, Request, Payload, Kinds,
              Gate!Init
<1>2. TypeOK /\ [Next]_vars => TypeOK'
  <2> SUFFICES ASSUME TypeOK, [Next]_vars PROVE TypeOK' OBVIOUS
  <2> USE DEF TypeOK, client, gateway, tickets, payments, TurnPlaces,
              HandlerPlaces
  <2>1. ASSUME NEW t \in Turns, Ask(t) PROVE TypeOK'
    <3>1. Request(t) \in Payload BY DEF Request, Payload, Kinds
    <3>2. RequestBytes[ClassOf[t]] \in Lengths
      BY ClassAssumption DEF Lengths
    <3>3. wire' \subseteq Envelope
      BY <2>1, <3>1, <3>2, HeaderType, AskSeals, SealedType
    <3> QED BY <2>1, <3>3 DEF Ask
  <2>2. ASSUME NEW t \in Turns, AskTooLarge(t) PROVE TypeOK'
    BY <2>2 DEF AskTooLarge
  <2>3. ASSUME NEW t \in Turns, Accept(t) PROVE TypeOK'
    <3>1. \A e \in Deliverable : e.payload \in Payload
      BY DeliveredType DEF Envelope
    <3> QED BY <2>3, <3>1 DEF Accept
  <2>4. ASSUME NEW t \in Turns, Fail(t) PROVE TypeOK'
    BY <2>4 DEF Fail
  <2>5. ASSUME NEW h \in Handlers, Receive(h) PROVE TypeOK'
    <3>1. \A e \in Deliverable : e.header \in Header /\ e.payload.of \in Turns
      BY DeliveredType DEF Envelope, Payload
    <3> QED BY <2>5, <3>1 DEF Receive
  <2>6. ASSUME NEW h \in Handlers, ReceiveUnreadable(h) PROVE TypeOK'
    BY <2>6 DEF ReceiveUnreadable
  <2>7. ASSUME NEW h \in Handlers, Authorize(h) PROVE TypeOK'
    BY <2>7 DEF Authorize
  <2>8. ASSUME NEW h \in Handlers, Spend(h) PROVE TypeOK'
    BY <2>8, TicketAssumption DEF Spend, Gate!Spend, Ticket
  <2>9. ASSUME NEW h \in Handlers, Serve(h) PROVE TypeOK'
    BY <2>9, AnswerType, TicketAssumption DEF Serve, Gate!Serve, Ticket
  <2>10. ASSUME NEW h \in Handlers, ServeTooLarge(h) PROVE TypeOK'
    BY <2>10 DEF ServeTooLarge
  <2>11. ASSUME NEW h \in Handlers, Refuse(h) PROVE TypeOK'
    BY <2>11, AnswerType DEF Refuse
  <2>12. ASSUME NEW h \in Handlers, Drop(h) PROVE TypeOK'
    BY <2>12 DEF Drop
  <2>13. ASSUME NEW k \in Tickets, Settle(k) PROVE TypeOK'
    BY <2>13 DEF Settle
  <2>14. CASE UNCHANGED vars BY <2>14 DEF vars
  <2> QED BY <2>1, <2>2, <2>3, <2>4, <2>5, <2>6, <2>7, <2>8, <2>9, <2>10,
             <2>11, <2>12, <2>13, <2>14 DEF Next
<1> QED BY <1>1, <1>2, PTL DEF Spec

-----------------------------------------------------------------------------
(* Whose answer it is.                                                     *)

(* A handler has sealed an answer of this kind for turn t.  Whether it was *)
(* a result is read from the ticket state.                                 *)
AnsweredBy(h, t, kind) ==
    /\ handler[h] = "sealed" /\ serving[h].of = t
    /\ kind = "ok" <=> h \in served[TicketOf[t]]

(* The ticket of turn t was bought for it, as far as the verifier can tell. *)
Bought(t) ==
    verifier = "actum" => TicketOf[t] \in final /\ BoughtFor[TicketOf[t]] = t

(* What is on the wire was sealed by a turn, or by a handler for a turn.   *)
Genuine(e) ==
    LET t == e.payload.of
    IN  /\ e.whole
        /\ \/ /\ e.payload.kind = "request"
              /\ e.key = Bound("request", HeaderOf(t))
              /\ e.length = RequestBytes[e.header.class]
           \/ /\ e.payload.kind \in {"ok", "err"}
              /\ e.key = Bound("response", HeaderOf(t))
              /\ e.length = ResponseBytes[e.header.class]
              /\ \E h \in Handlers : AnsweredBy(h, t, e.payload.kind)

WireInv == \A e \in wire : Genuine(e)

(* A handler that serves a ticket sealed a result for a turn that carries  *)
(* it, the only one; what is paid or being paid was bought.                *)
ServeInv ==
    /\ \A k \in Tickets : \A h \in served[k] :
          /\ handler[h] = "sealed" /\ TicketOf[serving[h].of] = k
          /\ k \in spent /\ served[k] = {h}
          /\ Bought(serving[h].of)
    /\ \A h \in Handlers : handler[h] = "paying" => Bought(serving[h].of)

PathInv == OpenedAsSealed /\ ServeInv /\ WireInv /\ OwnAnswer

(* Only serving changes the ticket state of a handler, and nothing changes *)
(* a handler that has sealed its answer.                                   *)
LEMMA SealedStays ==
    ASSUME TypeOK, [Next]_vars, NEW h \in Handlers, handler[h] = "sealed"
    PROVE  /\ handler'[h] = "sealed" /\ serving'[h] = serving[h]
           /\ \A k \in Tickets : h \in served'[k] <=> h \in served[k]
<1> USE DEF TypeOK, client, gateway, tickets, payments, Gate!Spend, Gate!Serve,
            Answer
<1>1. ASSUME NEW t \in Turns, Ask(t) \/ AskTooLarge(t) \/ Accept(t) \/ Fail(t)
      PROVE  UNCHANGED <<handler, serving, served>>
  BY <1>1 DEF Ask, AskTooLarge, Accept, Fail
<1>2. ASSUME NEW g \in Handlers,
             \/ Receive(g) \/ ReceiveUnreadable(g) \/ Authorize(g) \/ Spend(g)
             \/ ServeTooLarge(g) \/ Refuse(g) \/ Drop(g)
      PROVE  /\ served' = served
             /\ handler'[h] = "sealed" /\ serving'[h] = serving[h]
  BY <1>2 DEF Receive, ReceiveUnreadable, Authorize, Spend, ServeTooLarge,
              Refuse, Drop
<1>3. ASSUME NEW g \in Handlers, Serve(g)
      PROVE  /\ handler'[h] = "sealed" /\ serving'[h] = serving[h]
             /\ \A k \in Tickets : h \in served'[k] <=> h \in served[k]
  <2>1. g # h BY <1>3 DEF Serve
  <2> QED BY <1>3, <2>1, TicketAssumption DEF Serve, Ticket
<1>4. ASSUME NEW k \in Tickets, Settle(k)
      PROVE  UNCHANGED <<handler, serving, served>>
  BY <1>4 DEF Settle
<1>5. CASE UNCHANGED vars BY <1>5 DEF vars
<1> QED BY <1>1, <1>2, <1>3, <1>4, <1>5 DEF Next

(* An answer once sealed stays one.                                        *)
LEMMA AnswerStays ==
    ASSUME TypeOK, [Next]_vars, NEW h \in Handlers, NEW t \in Turns, NEW kind,
           AnsweredBy(h, t, kind)
    PROVE  AnsweredBy(h, t, kind)'
BY SealedStays, TicketAssumption DEF AnsweredBy

(* So does a genuine envelope.                                             *)
LEMMA GenuineStays ==
    ASSUME TypeOK, [Next]_vars, NEW e \in Envelope, Genuine(e)
    PROVE  Genuine(e)'
<1>1. e.payload.of \in Turns BY DEF Envelope, Payload
<1> QED BY <1>1, AnswerStays DEF Genuine

(* An envelope opened as a request was sealed as one, by the turn that its *)
(* header names.                                                           *)
LEMMA OpenedRequest ==
    ASSUME TypeOK, WireInv, NEW e \in Deliverable, Opens("request", e.header, e)
    PROVE  e.header = HeaderOf(e.payload.of)
<1>1. e.header \in Header BY DeliveredType DEF Envelope
<1>2. PICK f \in wire : e.key = f.key /\ e.payload = f.payload
  BY DeliveredType
<1>3. f.key[1] = "request" BY <1>2 DEF Opens, Bound
<1>4. f.key = Bound("request", HeaderOf(f.payload.of))
  BY <1>3 DEF WireInv, Genuine, Bound
<1>5. Bound("request", e.header) = Bound("request", HeaderOf(e.payload.of))
  BY <1>2, <1>4 DEF Opens
<1> QED BY <1>1, <1>5 DEF Bound, HeaderOf, Header

(* An envelope that a turn accepts was sealed by a handler for that turn.  *)
LEMMA AcceptedAnswer ==
    ASSUME TypeOK, WireInv, NEW t \in Turns, NEW e \in Deliverable,
           Accepts(t, e)
    PROVE  /\ e.payload.kind \in {"ok", "err"}
           /\ \E h \in Handlers : AnsweredBy(h, t, e.payload.kind)
<1>1. PICK f \in wire : e.key = f.key /\ e.payload = f.payload
  BY DeliveredType
<1>2. Genuine(f) BY DEF WireInv
<1> QED BY <1>1, <1>2 DEF Genuine, Accepts

(* What a step adds to the wire is genuine.                                *)
LEMMA WireStep ==
    ASSUME TypeOK, OpenedAsSealed, ServeInv, WireInv, [Next]_vars, TypeOK'
    PROVE  WireInv'
<1> SUFFICES ASSUME NEW e \in wire', e \notin wire PROVE Genuine(e)'
  BY GenuineStays DEF WireInv, TypeOK
<1> USE DEF client, gateway, tickets, payments
<1>1. CASE \E t \in Turns : Ask(t)
  <2>1. PICK t \in Turns : Ask(t) BY <1>1
  <2>2. e = Sealed("request", HeaderOf(t), Request(t),
                   Full(RequestBytes[ClassOf[t]]))
    BY <2>1, AskSeals
  <2> QED BY <2>2 DEF Genuine, Sealed, Request, HeaderOf, Full
<1>2. ASSUME NEW h \in Handlers, NEW kind \in {"ok", "err"}, Answer(h, kind),
             handler[h] \in {"open", "paying"}, UNCHANGED serving,
             kind = "ok" <=> h \in served'[TicketOf[serving[h].of]]
      PROVE  Genuine(e)'
  <2>1. serving[h].header = HeaderOf(serving[h].of)
    BY <1>2 DEF OpenedAsSealed
  <2>2. AnsweredBy(h, serving[h].of, kind)'
    BY <1>2 DEF AnsweredBy, Answer, TypeOK
  <2>3. /\ e.header = HeaderOf(serving[h].of)
        /\ e.key = Bound("response", HeaderOf(serving[h].of))
        /\ e.payload = [kind |-> kind, of |-> serving[h].of]
        /\ e.length = ResponseBytes[e.header.class] /\ e.whole
    BY <1>2, <2>1, AnswerSeals DEF Sealed, Full
  <2> QED BY <1>2, <2>2, <2>3 DEF Genuine
<1>3. ASSUME NEW h \in Handlers, Serve(h) PROVE Genuine(e)'
  <2>1. h \in served'[TicketOf[serving[h].of]]
    BY <1>3, TicketAssumption DEF Serve, Gate!Serve, Ticket, TypeOK
  <2> QED BY <1>2, <1>3, <2>1 DEF Serve
<1>4. ASSUME NEW h \in Handlers, Refuse(h) PROVE Genuine(e)'
  <2>1. h \notin served[TicketOf[serving[h].of]]
    BY <1>4, TicketAssumption DEF Refuse, ServeInv, TypeOK
  <2> QED BY <1>2, <1>4, <2>1 DEF Refuse
<1>5. ASSUME \A t \in Turns : ~Ask(t),
             \A h \in Handlers : ~Serve(h) /\ ~Refuse(h)
      PROVE  wire' = wire
  BY <1>5 DEF Next, vars, AskTooLarge, Accept, Fail, Receive, ReceiveUnreadable,
     Authorize, Spend, ServeTooLarge, Drop, Settle
<1> QED BY <1>1, <1>3, <1>4, <1>5

(* The request a handler works on is as its client sealed it.              *)
LEMMA OpenedStep ==
    ASSUME TypeOK, OpenedAsSealed, WireInv, [Next]_vars
    PROVE  OpenedAsSealed'
<1> SUFFICES ASSUME NEW h \in Handlers,
                    handler'[h] \in {"open", "paying", "sealed"}
             PROVE  serving'[h].header = HeaderOf(serving'[h].of)
  BY DEF OpenedAsSealed
<1> USE DEF TypeOK, client, gateway, tickets, payments, OpenedAsSealed, Answer
<1>1. CASE Receive(h)
  <2>1. PICK e \in Deliverable :
           /\ Opens("request", e.header, e)
           /\ serving' = [serving EXCEPT
                 ![h] = [header |-> e.header, of |-> e.payload.of]]
    BY <1>1 DEF Receive
  <2> QED BY <2>1, OpenedRequest
<1>2. CASE ~Receive(h)
  <2>1. /\ serving'[h] = serving[h]
        /\ handler[h] \in {"open", "paying", "sealed"}
    BY <1>2 DEF Next, vars, Ask, AskTooLarge, Accept, Fail, Receive,
       ReceiveUnreadable, Authorize, Spend, Serve, ServeTooLarge, Refuse, Drop,
       Settle
  <2> QED BY <2>1
<1> QED BY <1>1, <1>2

(* The verifier stays and payments are final. *)
LEMMA PaymentsStay ==
    ASSUME [Next]_vars
    PROVE  verifier' = verifier /\ final \subseteq final'
BY DEF client, gateway, tickets, payments, Next, vars, Ask, AskTooLarge,
   Accept, Fail, Receive, ReceiveUnreadable, Authorize, Spend, Serve,
   ServeTooLarge, Refuse, Drop, Settle

(* A ticket is served once, after it is spent, to one who bought it.       *)
LEMMA ServeStep ==
    ASSUME TypeOK, ServeInv, [Next]_vars, TypeOK'
    PROVE  ServeInv'
<1> USE DEF client, gateway, tickets, payments
<1>1. spent \subseteq spent'
  BY DEF Next, vars, Ask, AskTooLarge, Accept, Fail, Receive, ReceiveUnreadable,
     Authorize, Spend, Serve, ServeTooLarge, Refuse, Drop, Settle,
     Gate!Spend, Gate!Serve
<1>2. ASSUME NEW h \in Handlers, handler'[h] = "paying"
      PROVE  Bought(serving[h].of)'
  <2>1. CASE handler[h] = "paying"
    <3>1. serving'[h] = serving[h]
      BY <1>2, <2>1 DEF Next, vars, Ask, AskTooLarge, Accept, Fail, Receive,
         ReceiveUnreadable, Authorize, Spend, Serve, ServeTooLarge, Refuse,
         Drop, Settle, TypeOK
    <3>2. Bought(serving[h].of) BY <2>1 DEF ServeInv
    <3> QED BY <3>1, <3>2, PaymentsStay DEF Bought
  <2>2. CASE handler[h] # "paying"
    <3>1. Authorize(h)
      BY <1>2, <2>2 DEF Next, vars, Ask, AskTooLarge, Accept, Fail, Receive,
         ReceiveUnreadable, Authorize, Spend, Serve, ServeTooLarge, Refuse,
         Drop, Settle, Answer, TypeOK
    <3>2. Authorizes(serving[h].of) /\ UNCHANGED <<serving, verifier, final>>
      BY <3>1 DEF Authorize
    <3> QED BY <3>2 DEF Authorizes, ActumAuthorizes, NamesRequest,
            Halo2Authorizes, Finding, Bought
  <2> QED BY <2>1, <2>2
<1>3. ASSUME NEW k \in Tickets, NEW h \in served'[k], h \in served[k],
             served'[k] = served[k]
      PROVE  /\ handler'[h] = "sealed" /\ TicketOf[serving'[h].of] = k
             /\ k \in spent' /\ served'[k] = {h}
             /\ Bought(serving[h].of)'
  <2>1. /\ handler[h] = "sealed" /\ TicketOf[serving[h].of] = k
        /\ k \in spent /\ served[k] = {h}
        /\ Bought(serving[h].of)
    BY <1>3 DEF ServeInv
  <2>2. h \in Handlers BY <1>3 DEF TypeOK
  <2>3. handler'[h] = "sealed" /\ serving'[h] = serving[h]
    BY <2>1, <2>2, SealedStays
  <2> QED BY <1>1, <1>3, <2>1, <2>3, PaymentsStay DEF Bought
<1>4. ASSUME NEW g \in Handlers, Serve(g) PROVE ServeInv'
  <2>1. /\ Ticket(g) \in Tickets /\ Ticket(g) \in spent
        /\ served[Ticket(g)] = {}
        /\ served' = [served EXCEPT ![Ticket(g)] = {g}]
        /\ handler'[g] = "sealed" /\ serving' = serving
        /\ handler[g] = "paying" /\ UNCHANGED <<verifier, final>>
    BY <1>4, TicketAssumption DEF Serve, Gate!Serve, Answer, Ticket, TypeOK
  <2>2. Bought(serving[g].of) BY <2>1 DEF ServeInv
  <2>3. Bought(serving[g].of)' BY <2>1, <2>2, PaymentsStay DEF Bought
  <2>4. ASSUME NEW k \in Tickets, NEW h \in served'[k]
        PROVE  /\ handler'[h] = "sealed" /\ TicketOf[serving'[h].of] = k
               /\ k \in spent' /\ served'[k] = {h}
               /\ Bought(serving[h].of)'
    <3>1. CASE k = Ticket(g)
      BY <1>1, <2>1, <2>3, <2>4, <3>1 DEF TypeOK, Ticket
    <3>2. CASE k # Ticket(g)
      <4>1. served'[k] = served[k] BY <2>1, <3>2 DEF TypeOK
      <4> QED BY <1>3, <2>4, <4>1
    <3> QED BY <3>1, <3>2
  <2> QED BY <1>2, <2>4 DEF ServeInv
<1>5. CASE \A g \in Handlers : ~Serve(g)
  <2>1. served' = served
    BY <1>5 DEF Next, vars, Ask, AskTooLarge, Accept, Fail, Receive,
       ReceiveUnreadable, Authorize, Spend, ServeTooLarge, Refuse, Drop,
       Settle, Gate!Spend
  <2> QED BY <1>2, <1>3, <2>1 DEF ServeInv
<1> QED BY <1>4, <1>5

(* Only by accepting an envelope does a turn come to an answer. *)
LEMMA AnswerAccepted ==
    ASSUME TypeOK, [Next]_vars, NEW t \in Turns,
           turn'[t] \in {"answered", "refused"}, turn'[t] # turn[t]
    PROVE  Accept(t)
<1> USE DEF TypeOK, client, gateway, tickets, payments
<1>1. ASSUME NEW u \in Turns, Ask(u) \/ AskTooLarge(u) \/ Fail(u)
      PROVE  FALSE
  BY <1>1 DEF Ask, AskTooLarge, Fail
<1>2. ASSUME NEW u \in Turns, Accept(u) PROVE u = t
  BY <1>2 DEF Accept
<1>3. ASSUME NEW h \in Handlers,
             \/ Receive(h) \/ ReceiveUnreadable(h) \/ Authorize(h) \/ Spend(h)
             \/ Serve(h) \/ ServeTooLarge(h) \/ Refuse(h) \/ Drop(h)
      PROVE  FALSE
  BY <1>3 DEF Receive, ReceiveUnreadable, Authorize, Spend, Serve,
              ServeTooLarge, Refuse, Drop
<1>4. ASSUME NEW k \in Tickets, Settle(k) PROVE FALSE
  BY <1>4 DEF Settle
<1> QED BY <1>1, <1>2, <1>3, <1>4 DEF Next, vars

(* Who was answered keeps an answer that was sealed for it.                *)
LEMMA OwnAnswerStep ==
    ASSUME TypeOK, WireInv, OwnAnswer, [Next]_vars
    PROVE  OwnAnswer'
<1> SUFFICES ASSUME NEW t \in Turns, NEW kind \in {"ok", "err"},
                    turn'[t] = IF kind = "ok" THEN "answered" ELSE "refused"
             PROVE  \E h \in Handlers : AnsweredBy(h, t, kind)'
  <2>1. ASSUME NEW t \in Turns, turn'[t] = "answered",
               \E h \in Handlers : AnsweredBy(h, t, "ok")'
        PROVE  \E h \in Handlers :
                  /\ handler'[h] = "sealed" /\ serving'[h].of = t
                  /\ turn'[t] = "answered" <=> h \in served'[TicketOf[t]]
    BY <2>1 DEF AnsweredBy
  <2>2. ASSUME NEW t \in Turns, turn'[t] = "refused",
               \E h \in Handlers : AnsweredBy(h, t, "err")'
        PROVE  \E h \in Handlers :
                  /\ handler'[h] = "sealed" /\ serving'[h].of = t
                  /\ turn'[t] = "answered" <=> h \in served'[TicketOf[t]]
    BY <2>2 DEF AnsweredBy
  <2> QED BY <2>1, <2>2 DEF OwnAnswer
<1>1. CASE Accept(t)
  <2>1. PICK e \in Deliverable :
           /\ Accepts(t, e)
           /\ turn' = [turn EXCEPT
                 ![t] = IF e.payload.kind = "ok" THEN "answered" ELSE "refused"]
    BY <1>1 DEF Accept
  <2>2. /\ e.payload.kind \in {"ok", "err"}
        /\ \E h \in Handlers : AnsweredBy(h, t, e.payload.kind)
    BY <2>1, AcceptedAnswer
  <2>3. e.payload.kind = kind BY <2>1, <2>2 DEF TypeOK
  <2> QED BY <2>2, <2>3, AnswerStays
<1>2. CASE ~Accept(t)
  <2>1. turn'[t] = turn[t] BY <1>2, AnswerAccepted
  <2>2. \E h \in Handlers : AnsweredBy(h, t, kind)
    BY <2>1 DEF OwnAnswer, AnsweredBy
  <2> QED BY <2>2, AnswerStays
<1> QED BY <1>1, <1>2

(* All four hold together, always.                                         *)
LEMMA PathCorrect == Spec => []PathInv
<1>1. Init => PathInv
  BY DEF Init, PathInv, OpenedAsSealed, ServeInv, WireInv, OwnAnswer, Gate!Init
<1>2. TypeOK /\ TypeOK' /\ PathInv /\ [Next]_vars => PathInv'
  BY OpenedStep, ServeStep, WireStep, OwnAnswerStep DEF PathInv
<1> QED BY <1>1, <1>2, TypeCorrect, PTL DEF Spec

(* A turn accepts only an answer that a handler sealed for this very turn  *)
(* (ClientCryptoContext::open_response).                                   *)
THEOREM AnswersOwn == Spec => []OwnAnswer
BY PathCorrect, PTL DEF PathInv

(* The gateway works on every request under the header its client sealed   *)
(* it with (open_request_at_gateway, aad_bytes).                           *)
THEOREM OpensAsSealed == Spec => []OpenedAsSealed
BY PathCorrect, PTL DEF PathInv

(* With the Actum verifier, only the turn a final payment was made for is  *)
(* answered (ActumVerifier::verify).                                       *)
THEOREM AnswersBought == Spec => []BoughtAnswers
<1>1. TypeOK /\ PathInv => BoughtAnswers
  BY TicketAssumption DEF TypeOK, PathInv, OwnAnswer, ServeInv, Bought,
     BoughtAnswers
<1> QED BY <1>1, TypeCorrect, PathCorrect, PTL

(* Whatever the sizes of requests, results and refusals, what is sealed is *)
(* filled up to its class's size, and nothing is cut off: the lengths on   *)
(* the path depend on class and direction alone.                           *)
THEOREM LengthsHide == Spec => []SizesHideContent
<1>1. WireInv => SizesHideContent
  BY DEF WireInv, Genuine, Bound, SizesHideContent
<1> QED BY <1>1, PathCorrect, PTL DEF PathInv

(* The promise of OneTimeTicket reaches the client through the path: at    *)
(* most one turn is answered for a ticket, and only when it is spent.      *)
THEOREM KeepsPromise == Spec => PaidAnswers
<1>1. Init => EndToEnd!Init
  BY DEF Init, Gate!Init, EndToEnd!Init
<1>2. TypeOK /\ PathInv /\ PathInv' /\ [Next]_vars
        => [EndToEnd!Next]_(EndToEnd!vars)
  <2> SUFFICES ASSUME TypeOK, PathInv, PathInv', [Next]_vars
               PROVE  EndToEnd!Next \/ UNCHANGED EndToEnd!vars
    OBVIOUS
  <2> DEFINE answered(k) == {t \in Turns : turn[t] = "answered" /\ TicketOf[t] = k}
  <2> USE DEF TypeOK, client, gateway, tickets, payments
  <2>1. CASE \E t \in Turns : turn[t] = "waiting" /\ turn'[t] = "answered"
    <3>1. PICK t \in Turns : turn[t] = "waiting" /\ turn'[t] = "answered"
      BY <2>1
    <3>2. Accept(t) BY <3>1, AnswerAccepted
    <3>3. turn' = [turn EXCEPT ![t] = "answered"] /\ UNCHANGED tickets
      BY <3>1, <3>2 DEF Accept
    <3>4. TicketOf[t] \in Tickets BY TicketAssumption
    <3>5. PICK h \in Handlers :
             serving'[h].of = t /\ h \in served'[TicketOf[t]]
      BY <3>1 DEF PathInv, OwnAnswer
    <3>6. /\ TicketOf[t] \in spent /\ served'[TicketOf[t]] = {h}
      BY <3>3, <3>4, <3>5 DEF PathInv, ServeInv
    <3>7. ASSUME NEW u \in Turns, turn[u] = "answered",
                 TicketOf[u] = TicketOf[t]
          PROVE  FALSE
      <4>1. turn'[u] = "answered" /\ u # t BY <3>1, <3>3, <3>7
      <4>2. PICK g \in Handlers :
               serving'[g].of = u /\ g \in served'[TicketOf[t]]
        BY <3>7, <4>1 DEF PathInv, OwnAnswer
      <4> QED BY <3>5, <3>6, <4>1, <4>2
    <3>8. answered(TicketOf[t]) = {} BY <3>7
    <3>9. \A k \in Tickets :
            answered(k)' = IF k = TicketOf[t] THEN {t} ELSE answered(k)
      <4>1. ASSUME NEW k \in Tickets, k # TicketOf[t]
            PROVE  answered(k)' = answered(k)
        BY <3>3, <4>1
      <4>2. answered(TicketOf[t])' = {t} BY <3>3, <3>7
      <4> QED BY <4>1, <4>2
    <3>10. [k \in Tickets |-> answered(k)]'
             = [[k \in Tickets |-> answered(k)] EXCEPT ![TicketOf[t]] = {t}]
      <4> HIDE DEF answered
      <4> QED BY <3>4, <3>9
    <3>11. EndToEnd!Serve(t, TicketOf[t])
      BY <3>3, <3>4, <3>6, <3>8, <3>10 DEF EndToEnd!Serve
    <3> QED BY <3>4, <3>11 DEF EndToEnd!Next
  <2>2. CASE ~ \E t \in Turns : turn[t] = "waiting" /\ turn'[t] = "answered"
    <3>1. \A t \in Turns : turn'[t] = "answered" <=> turn[t] = "answered"
      BY <2>2 DEF Next, vars, Ask, AskTooLarge, Accept, Fail, Receive,
         ReceiveUnreadable, Authorize, Spend, Serve, ServeTooLarge, Refuse,
         Drop, Settle
    <3>2. [k \in Tickets |-> answered(k)]' = [k \in Tickets |-> answered(k)]
      BY <3>1
    <3>3. spent' = spent \/ \E K \in SUBSET Tickets : spent' = spent \cup K
      BY TicketAssumption DEF Next, vars, Ask, AskTooLarge, Accept, Fail,
         Receive, ReceiveUnreadable, Authorize, Spend, Serve, ServeTooLarge,
         Refuse, Drop, Settle, Gate!Spend, Gate!Serve, Ticket
    <3> QED BY <3>2, <3>3 DEF EndToEnd!Next, EndToEnd!Spend, EndToEnd!vars
  <2> QED BY <2>1, <2>2
<1> QED BY <1>1, <1>2, TypeCorrect, PathCorrect, PTL
        DEF Spec, PaidAnswers, EndToEnd!Spec
=============================================================================
