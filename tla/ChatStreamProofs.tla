--------------------------- MODULE ChatStreamProofs ---------------------------
(***************************************************************************)
(* What a reader of ChatStream is given, for any number of streams, any    *)
(* capacity of the channel and replies of any length.                      *)
(*                                                                         *)
(* What a reader has seen and what is still in its channel are one         *)
(* sequence: Receive does not change it, Send adds the next event, HangUp  *)
(* cuts it short.  The invariant says how far that sequence follows what   *)
(* the task is to send.  The last section is about the mutex: nothing but  *)
(* a reader can stop a session.                                            *)
(***************************************************************************)
EXTENDS ChatStream, SequenceTheorems, TLAPS

(* The events of a whole reply, place by place. *)
Plan(s) ==
    [i \in 1..(reply[s] + 2) |->
        IF i = 1 THEN Start ELSE IF i = reply[s] + 2 THEN Done ELSE Delta(i - 1)]

(* A sequence that agrees with another one as far as it goes. *)
Follows(q, plan) ==
    /\ Len(q) <= Len(plan)
    /\ \A i \in 1..Len(q) : q[i] = plan[i]

Given(s) == seen[s] \o channel[s]

Early == {"idle", "start", "lock", "turn", "fail"}

(* How far a task is: where it may still fail, at most "start" was given;  *)
(* then the chunks before the next one; and at the end all or the error.   *)
(* Only of a reader that hung up can some of it be missing.                *)
Following(s) ==
    LET given == Given(s) IN
    /\ task[s] \in Early => next[s] = 1 /\ Len(given) <= 1
    /\ task[s] \in {"idle", "start"} => Len(given) = 0
    /\ task[s] \in Early \cup {"emit"} => Follows(given, Plan(s))
    /\ task[s] = "emit" => next[s] <= reply[s] + 1 /\ Len(given) <= next[s]
    /\ task[s] = "ended" => Follows(given, Plan(s)) \/ Follows(given, Broken)
    /\ reader[s] # "gone" =>
          /\ task[s] \in {"lock", "turn", "fail"} => Len(given) = 1
          /\ task[s] = "emit" => Len(given) = next[s]
          /\ task[s] = "ended" =>
                \/ Follows(given, Plan(s)) /\ Len(given) = reply[s] + 2
                \/ Follows(given, Broken) /\ Len(given) = 2
    /\ reader[s] = "closed" => task[s] = "ended" /\ channel[s] = <<>>

IInv == TypeOK /\ \A s \in Streams : Following(s)

-----------------------------------------------------------------------------
(* Type correctness.                                                       *)

(* Whatever the capacity, no channel exceeds it. *)
LEMMA TypeStep == TypeOK /\ [Next]_vars => TypeOK'
<1> USE NobodyAssumption, CapacityAssumption, ChunksAssumption
<1> SUFFICES ASSUME TypeOK, [Next]_vars PROVE TypeOK' OBVIOUS
<1> USE DEF TypeOK, Goto, Tasks
<1>1. ASSUME NEW s \in Streams, NEW e \in Event, Send(s, e)
      PROVE  /\ channel' \in [Streams -> Seq(Event)]
             /\ \A r \in Streams : Len(channel'[r]) <= Capacity
  <2>1. CASE UNCHANGED channel BY <2>1
  <2>2. CASE Len(channel[s]) < Capacity
               /\ channel' = [channel EXCEPT ![s] = Append(@, e)]
    <3>1. Append(channel[s], e) \in Seq(Event)
            /\ Len(Append(channel[s], e)) = Len(channel[s]) + 1
      BY <1>1
    <3> QED BY <2>2, <3>1
  <2> QED BY <1>1, <2>1, <2>2 DEF Send
<1>2. ASSUME NEW s \in Streams, Request(s) PROVE TypeOK'
  BY <1>2 DEF Request
<1>3. ASSUME NEW s \in Streams, SendStart(s) PROVE TypeOK'
  <2>1. Start \in Event BY DEF Event
  <2> QED BY <1>1, <1>3, <2>1 DEF SendStart
<1>4. ASSUME NEW s \in Streams, Lock(s) PROVE TypeOK'
  BY <1>4 DEF Lock
<1>5. ASSUME NEW s \in Streams, TurnSucceeds(s) PROVE TypeOK'
  BY <1>5 DEF TurnSucceeds
<1>6. ASSUME NEW s \in Streams, TurnFails(s) PROVE TypeOK'
  BY <1>6 DEF TurnFails
<1>7. ASSUME NEW s \in Streams, EmitDelta(s) PROVE TypeOK'
  <2>1. next[s] \in 1..MaxChunks BY <1>7 DEF EmitDelta
  <2>2. Delta(next[s]) \in Event BY <2>1 DEF Event
  <2> QED BY <1>1, <1>7, <2>1, <2>2, SMTT(30) DEF EmitDelta
<1>8. ASSUME NEW s \in Streams, EmitDone(s) PROVE TypeOK'
  <2>1. Done \in Event BY DEF Event
  <2> QED BY <1>1, <1>8, <2>1 DEF EmitDone
<1>9. ASSUME NEW s \in Streams, EmitError(s) PROVE TypeOK'
  <2>1. Error \in Event BY DEF Event
  <2> QED BY <1>1, <1>9, <2>1 DEF EmitError
<1>10. ASSUME NEW s \in Streams, Receive(s) PROVE TypeOK'
  <2>1. /\ Head(channel[s]) \in Event
        /\ Tail(channel[s]) \in Seq(Event)
        /\ Len(Tail(channel[s])) <= Capacity
    BY <1>10 DEF Receive
  <2>2. Append(seen[s], Head(channel[s])) \in Seq(Event)
    BY <2>1
  <2> QED BY <1>10, <2>1, <2>2 DEF Receive
<1>11. ASSUME NEW s \in Streams, Close(s) PROVE TypeOK'
  BY <1>11 DEF Close
<1>12. ASSUME NEW s \in Streams, HangUp(s) PROVE TypeOK'
  BY <1>12 DEF HangUp
<1>13. CASE UNCHANGED vars BY <1>13 DEF vars
<1> QED
  BY <1>2, <1>3, <1>4, <1>5, <1>6, <1>7, <1>8, <1>9, <1>10, <1>11, <1>12,
     <1>13 DEF Next, Work

(* The types hold of every run, and no channel exceeds its capacity. *)
THEOREM TypeCorrect == Spec => []TypeOK
<1> USE NobodyAssumption, CapacityAssumption, ChunksAssumption
<1>1. Init => TypeOK
  BY DEF Init, TypeOK, Tasks, Event
<1> QED BY <1>1, TypeStep, PTL DEF Spec

-----------------------------------------------------------------------------
(* Sequences.                                                              *)

(* What IsPrefix and equality ask for, place by place. *)
LEMMA FollowsIsPrefix ==
    ASSUME NEW q \in Seq(Event), NEW p \in Seq(Event), Follows(q, p)
    PROVE  /\ IsPrefix(q, p)
           /\ Len(q) = Len(p) => q = p
<1>1. /\ Len(q) \in Nat /\ Len(p) \in Nat /\ Len(q) <= Len(p)
      /\ \A i \in 1..Len(q) : q[i] = p[i]
      /\ \A i \in 1..Len(q) : q[i] \in Event /\ p[i] \in Event
  BY DEF Follows
<1>2. /\ SubSeq(q, 1, Len(q)) \in Seq(Event)
      /\ Len(SubSeq(q, 1, Len(q))) = Len(q)
      /\ \A i \in 1..Len(q) : SubSeq(q, 1, Len(q))[i] = q[i]
  BY <1>1
<1>3. /\ SubSeq(p, 1, Len(q)) \in Seq(Event)
      /\ Len(SubSeq(p, 1, Len(q))) = Len(q)
      /\ \A i \in 1..Len(q) : SubSeq(p, 1, Len(q))[i] = p[i]
  BY <1>1
<1>4. SubSeq(q, 1, Len(q)) = SubSeq(p, 1, Len(q))
  BY <1>1, <1>2, <1>3, SeqEqual
<1>5. Len(q) = Len(p) => q = p
  BY <1>1, SeqEqual
<1> QED BY <1>1, <1>4, <1>5 DEF IsPrefix

(* A plan is the whole reply. *)
LEMMA PlanIsWhole ==
    ASSUME TypeOK, NEW s \in Streams
    PROVE  /\ Plan(s) \in Seq(Event) /\ Len(Plan(s)) = reply[s] + 2
           /\ Plan(s) = Whole(s)
<1> DEFINE deltas == [i \in 1..reply[s] |-> Delta(i)]
<1> USE ChunksAssumption
<1>1. /\ reply[s] \in Nat /\ reply[s] <= MaxChunks
      /\ \A i \in 1..reply[s] : Delta(i) \in Event
      /\ Start \in Event /\ Done \in Event
  BY DEF TypeOK, Event
<1>2. /\ deltas \in Seq(Event) /\ Len(deltas) = reply[s]
      /\ \A i \in 1..reply[s] : deltas[i] = Delta(i)
  BY <1>1
<1>3. Plan(s) \in Seq(Event) /\ Len(Plan(s)) = reply[s] + 2
  <2>1. \A i \in 1..(reply[s] + 2) : Plan(s)[i] \in Event
    <3> SUFFICES ASSUME NEW i \in 1..(reply[s] + 2) PROVE Plan(s)[i] \in Event
      OBVIOUS
    <3>1. i # 1 /\ i # reply[s] + 2 => Delta(i - 1) \in Event BY <1>1
    <3> QED BY <1>1, <3>1 DEF Plan
  <2>2. Plan(s) \in [1..(reply[s] + 2) -> Event] BY <2>1 DEF Plan
  <2> QED BY <1>1, <2>2
<1>4. /\ <<Start>> \o deltas \in Seq(Event)
      /\ Len(<<Start>> \o deltas) = reply[s] + 1
      /\ \A i \in 1..(reply[s] + 1) : (<<Start>> \o deltas)[i] =
            IF i = 1 THEN Start ELSE Delta(i - 1)
  <2> HIDE DEF deltas
  <2>1. <<Start>> \in Seq(Event) /\ Len(<<Start>>) = 1 /\ <<Start>>[1] = Start
    BY <1>1
  <2>2. \A i \in 1..(1 + reply[s]) : (<<Start>> \o deltas)[i] =
            IF i <= 1 THEN <<Start>>[i] ELSE deltas[i - 1]
    <3>1. Len(deltas) = reply[s] /\ Len(<<Start>>) = 1 BY <1>2, <2>1
    <3>2. \A i \in 1..(Len(<<Start>>) + Len(deltas)) : (<<Start>> \o deltas)[i] =
            IF i <= Len(<<Start>>) THEN <<Start>>[i]
                                   ELSE deltas[i - Len(<<Start>>)]
      BY <1>2, <2>1, ConcatProperties
    <3> QED BY <3>1, <3>2
  <2>3. <<Start>> \o deltas \in Seq(Event)
        /\ Len(<<Start>> \o deltas) = reply[s] + 1
    BY <1>1, <1>2, <2>1, ConcatProperties
  <2>4. \A i \in 2..(1 + reply[s]) : deltas[i - 1] = Delta(i - 1)
    BY <1>1, <1>2
  <2>5. ASSUME NEW i \in 1..(reply[s] + 1)
        PROVE  (<<Start>> \o deltas)[i] = IF i = 1 THEN Start ELSE Delta(i - 1)
    <3>1. CASE i = 1 BY <1>1, <2>1, <2>2, <3>1
    <3>2. CASE i # 1
      <4>1. /\ i \in 1..(1 + reply[s]) /\ i \in 2..(1 + reply[s])
            /\ ~(i <= 1)
        BY <1>1, <3>2
      <4> QED BY <2>2, <2>4, <3>2, <4>1
    <3> QED BY <3>1, <3>2
  <2> QED BY <2>3, <2>5
<1>5. /\ Whole(s) \in Seq(Event) /\ Len(Whole(s)) = reply[s] + 2
      /\ \A i \in 1..(reply[s] + 2) : Whole(s)[i] = Plan(s)[i]
  <2> DEFINE front == <<Start>> \o deltas
  <2>1. <<Done>> \in Seq(Event) /\ Len(<<Done>>) = 1 /\ <<Done>>[1] = Done
    BY <1>1
  <2>2. Whole(s) = front \o <<Done>> BY DEF Whole
  <2> HIDE DEF front
  <2>3. front \in Seq(Event) /\ Len(front) = reply[s] + 1
        /\ \A i \in 1..(reply[s] + 1) : front[i] =
              IF i = 1 THEN Start ELSE Delta(i - 1)
    BY <1>4 DEF front
  <2>4. /\ front \o <<Done>> \in Seq(Event)
        /\ Len(front \o <<Done>>) = reply[s] + 2
        /\ \A i \in 1..(reply[s] + 2) : (front \o <<Done>>)[i] =
              IF i <= reply[s] + 1 THEN front[i] ELSE <<Done>>[i - (reply[s] + 1)]
    BY <1>1, <2>1, <2>3, ConcatProperties
  <2>5. ASSUME NEW i \in 1..(reply[s] + 2)
        PROVE  (front \o <<Done>>)[i] = Plan(s)[i]
    <3>1. CASE i <= reply[s] + 1 BY <1>1, <2>3, <2>4, <3>1 DEF Plan
    <3>2. CASE i = reply[s] + 2 BY <1>1, <2>1, <2>4, <3>2 DEF Plan
    <3>3. i <= reply[s] + 1 \/ i = reply[s] + 2
      <4>1. reply[s] \in Nat BY <1>1
      <4> QED BY <4>1
    <3> QED BY <3>1, <3>2, <3>3
  <2> QED BY <2>2, <2>4, <2>5
<1> QED BY <1>3, <1>5, SeqEqual

(* Send: one event more. *)
LEMMA GivenLonger ==
    ASSUME NEW a \in Seq(Event), NEW b \in Seq(Event), NEW e \in Event,
           NEW p \in Seq(Event), Follows(a \o b, p),
           Len(a \o b) < Len(p), p[Len(a \o b) + 1] = e
    PROVE  /\ Follows(a \o Append(b, e), p)
           /\ Len(a \o Append(b, e)) = Len(a \o b) + 1
<1>1. /\ Append(b, e) \in Seq(Event) /\ Len(Append(b, e)) = Len(b) + 1
      /\ \A i \in 1..Len(b) : Append(b, e)[i] = b[i]
      /\ Append(b, e)[Len(b) + 1] = e
  OBVIOUS
<1>2. /\ Len(a \o b) = Len(a) + Len(b)
      /\ \A i \in 1..(Len(a) + Len(b)) : (a \o b)[i] =
            IF i <= Len(a) THEN a[i] ELSE b[i - Len(a)]
  BY ConcatProperties
<1>3. /\ Len(a \o Append(b, e)) = Len(a) + Len(b) + 1
      /\ \A i \in 1..(Len(a) + Len(b) + 1) : (a \o Append(b, e))[i] =
            IF i <= Len(a) THEN a[i] ELSE Append(b, e)[i - Len(a)]
  BY <1>1, ConcatProperties
<1>4. Len(a) \in Nat /\ Len(b) \in Nat OBVIOUS
<1>5. ASSUME NEW i \in 1..(Len(a) + Len(b) + 1)
      PROVE  (a \o Append(b, e))[i] = p[i]
  <2>1. CASE i <= Len(a) + Len(b)
    <3>1. (a \o b)[i] = p[i] BY <1>2, <1>4, <2>1 DEF Follows
    <3>2. CASE i <= Len(a) BY <1>2, <1>3, <1>4, <2>1, <3>1, <3>2
    <3>3. CASE ~(i <= Len(a))
      <4>1. i - Len(a) \in 1..Len(b) BY <1>4, <2>1, <3>3
      <4> QED BY <1>1, <1>2, <1>3, <1>4, <2>1, <3>1, <3>3, <4>1
    <3> QED BY <3>2, <3>3
  <2>2. CASE i = Len(a) + Len(b) + 1
    <3>1. i - Len(a) = Len(b) + 1 /\ ~(i <= Len(a)) BY <1>4, <2>2
    <3> QED BY <1>1, <1>2, <1>3, <2>2, <3>1
  <2> QED BY <1>4, <2>1, <2>2
<1>6. Len(a \o Append(b, e)) = Len(a \o b) + 1 BY <1>2, <1>3, <1>4
<1>7. Len(p) \in Nat OBVIOUS
<1> QED BY <1>2, <1>3, <1>4, <1>5, <1>6, <1>7 DEF Follows

(* Receive: the same events. *)
LEMMA GivenSame ==
    ASSUME NEW a \in Seq(Event), NEW b \in Seq(Event), b # <<>>
    PROVE  Append(a, Head(b)) \o Tail(b) = a \o b
<1> DEFINE c == Append(a, Head(b))
<1>1. /\ Head(b) \in Event /\ Head(b) = b[1]
      /\ Tail(b) \in Seq(Event) /\ Len(Tail(b)) = Len(b) - 1
      /\ \A i \in 1..(Len(b) - 1) : Tail(b)[i] = b[i + 1]
      /\ Len(b) \in Nat \ {0} /\ Len(a) \in Nat
  OBVIOUS
<1>2. /\ c \in Seq(Event) /\ Len(c) = Len(a) + 1
      /\ \A i \in 1..Len(a) : c[i] = a[i]
      /\ c[Len(a) + 1] = b[1]
  BY <1>1
<1> HIDE DEF c
<1>3. /\ a \o b \in Seq(Event) /\ Len(a \o b) = Len(a) + Len(b)
      /\ \A i \in 1..(Len(a) + Len(b)) : (a \o b)[i] =
            IF i <= Len(a) THEN a[i] ELSE b[i - Len(a)]
  BY ConcatProperties
<1>4. /\ c \o Tail(b) \in Seq(Event) /\ Len(c \o Tail(b)) = Len(a) + Len(b)
      /\ \A i \in 1..(Len(a) + Len(b)) : (c \o Tail(b))[i] =
            IF i <= Len(a) + 1 THEN c[i] ELSE Tail(b)[i - (Len(a) + 1)]
  <2> DEFINE d == Tail(b)
  <2>1. d \in Seq(Event) /\ Len(d) = Len(b) - 1 BY <1>1
  <2> HIDE DEF d
  <2>2. /\ c \o d \in Seq(Event) /\ Len(c \o d) = Len(c) + Len(d)
        /\ \A i \in 1..(Len(c) + Len(d)) : (c \o d)[i] =
              IF i <= Len(c) THEN c[i] ELSE d[i - Len(c)]
    BY <1>2, <2>1, ConcatProperties
  <2>3. Len(c) + Len(d) = Len(a) + Len(b) BY <1>1, <1>2, <2>1
  <2>4. /\ c \o d \in Seq(Event) /\ Len(c \o d) = Len(a) + Len(b)
        /\ \A i \in 1..(Len(a) + Len(b)) : (c \o d)[i] =
              IF i <= Len(a) + 1 THEN c[i] ELSE d[i - (Len(a) + 1)]
    BY <1>2, <2>2, <2>3
  <2> QED BY <2>4 DEF d
<1>5. ASSUME NEW i \in 1..(Len(a) + Len(b))
      PROVE  (c \o Tail(b))[i] = (a \o b)[i]
  <2>1. CASE i <= Len(a) BY <1>1, <1>2, <1>3, <1>4, <2>1
  <2>2. CASE i = Len(a) + 1
    <3>1. i - Len(a) = 1 /\ ~(i <= Len(a)) BY <1>1, <2>2
    <3> QED BY <1>1, <1>2, <1>3, <1>4, <2>2, <3>1
  <2>3. CASE i > Len(a) + 1
    <3>1. /\ i - (Len(a) + 1) \in 1..(Len(b) - 1)
          /\ (i - (Len(a) + 1)) + 1 = i - Len(a)
          /\ ~(i <= Len(a)) /\ ~(i <= Len(a) + 1)
      BY <1>1, <2>3
    <3> QED BY <1>1, <1>3, <1>4, <3>1
  <2>4. Len(a) \in Nat BY <1>1
  <2>5. i <= Len(a) \/ i = Len(a) + 1 \/ i > Len(a) + 1 BY <2>4
  <2> QED BY <2>1, <2>2, <2>3, <2>5
<1>6. Len(c \o Tail(b)) = Len(a \o b)
      /\ \A i \in 1..Len(c \o Tail(b)) : (c \o Tail(b))[i] = (a \o b)[i]
  BY <1>3, <1>4, <1>5
<1>7. c \o Tail(b) = a \o b BY <1>3, <1>4, <1>6, SeqEqual
<1> QED BY <1>7 DEF c

(* HangUp: fewer events. *)
LEMMA GivenCut ==
    ASSUME NEW a \in Seq(Event), NEW b \in Seq(Event)
    PROVE  /\ a \o <<>> = a /\ Len(a) <= Len(a \o b)
           /\ \A p \in Seq(Event) : Follows(a \o b, p) => Follows(a, p)
<1>1. a \o <<>> = a BY ConcatEmptySeq
<1>2. /\ Len(a \o b) = Len(a) + Len(b)
      /\ \A i \in 1..(Len(a) + Len(b)) : (a \o b)[i] =
            IF i <= Len(a) THEN a[i] ELSE b[i - Len(a)]
      /\ Len(a) \in Nat /\ Len(b) \in Nat
  BY ConcatProperties
<1>3. ASSUME NEW p \in Seq(Event), Follows(a \o b, p) PROVE Follows(a, p)
  BY <1>2, <1>3 DEF Follows
<1> QED BY <1>1, <1>2, <1>3

-----------------------------------------------------------------------------
(* The invariant.                                                          *)

(* The types of one stream, and of what its task is to send. *)
LEMMA StreamTypes ==
    ASSUME TypeOK, NEW s \in Streams
    PROVE  /\ seen[s] \in Seq(Event) /\ channel[s] \in Seq(Event)
           /\ Given(s) \in Seq(Event) /\ Len(Given(s)) \in Nat
           /\ reply[s] \in Nat /\ next[s] \in Nat \ {0}
           /\ Plan(s) \in Seq(Event) /\ Len(Plan(s)) = reply[s] + 2
           /\ \A i \in 1..(reply[s] + 2) : Plan(s)[i] =
                IF i = 1 THEN Start
                         ELSE IF i = reply[s] + 2 THEN Done ELSE Delta(i - 1)
           /\ Broken \in Seq(Event) /\ Len(Broken) = 2
           /\ Broken[1] = Start /\ Broken[2] = Error
<1> USE ChunksAssumption
<1>1. seen[s] \in Seq(Event) /\ channel[s] \in Seq(Event) BY DEF TypeOK
<1>2. Given(s) \in Seq(Event) /\ Len(Given(s)) \in Nat
  <2>1. seen[s] \o channel[s] \in Seq(Event) BY <1>1, ConcatProperties
  <2>2. Len(seen[s] \o channel[s]) \in Nat BY <2>1, LenProperties
  <2> QED BY <2>1, <2>2 DEF Given
<1>3. reply[s] \in Nat /\ next[s] \in Nat \ {0} BY DEF TypeOK
<1>4. /\ Broken \in Seq(Event) /\ Len(Broken) = 2
      /\ Broken[1] = Start /\ Broken[2] = Error
  BY DEF Broken, Event
<1>5. \A i \in 1..(reply[s] + 2) : Plan(s)[i] =
          IF i = 1 THEN Start
                   ELSE IF i = reply[s] + 2 THEN Done ELSE Delta(i - 1)
  BY DEF Plan
<1> QED BY <1>1, <1>2, <1>3, <1>4, <1>5, PlanIsWhole

(* A stream whose own state stays has its invariant still. *)
LEMMA StreamUntouched ==
    ASSUME NEW r \in Streams, Following(r),
           task'[r] = task[r], reply'[r] = reply[r], next'[r] = next[r],
           channel'[r] = channel[r], reader'[r] = reader[r], seen'[r] = seen[r]
    PROVE  Following(r)'
<1>1. Given(r)' = Given(r) BY DEF Given
<1>2. Plan(r)' = Plan(r) BY DEF Plan
<1>3. Broken' = Broken BY DEF Broken
<1> QED BY <1>1, <1>2, <1>3 DEF Following, Early

(* Sending adds the next event, or nothing once the reader hung up. *)
LEMMA SendGives ==
    ASSUME TypeOK, NEW s \in Streams, NEW e \in Event, Send(s, e),
           seen'[s] = seen[s], reader[s] \in {"reads", "gone"},
           NEW p \in Seq(Event), Follows(Given(s), p),
           reader[s] = "reads" =>
              Len(Given(s)) < Len(p) /\ p[Len(Given(s)) + 1] = e
    PROVE  /\ Follows(Given(s)', p)
           /\ reader[s] = "reads" => Len(Given(s)') = Len(Given(s)) + 1
           /\ reader[s] = "gone" => Len(Given(s)') = Len(Given(s))
<1>1. CASE reader[s] = "reads"
  <2>1. channel'[s] = Append(channel[s], e) BY <1>1 DEF Send, TypeOK
  <2>2. seen[s] \in Seq(Event) /\ channel[s] \in Seq(Event) BY StreamTypes
  <2> QED BY <1>1, <2>1, <2>2, GivenLonger, ZenonT(40) DEF Given
<1>2. CASE reader[s] = "gone" BY <1>2 DEF Send, Given
<1> QED BY <1>1, <1>2

(* A step that only moves the task among places where nothing is to be     *)
(* sent yet.                                                               *)
LEMMA TaskMoves ==
    ASSUME TypeOK, NEW s \in Streams, Following(s),
           \/ task[s] = "idle" /\ task'[s] = "start"
           \/ task[s] = "lock" /\ task'[s] = "turn"
           \/ task[s] = "turn" /\ task'[s] = "fail",
           UNCHANGED <<reply, next, channel, reader, seen>>
    PROVE  Following(s)'
<1>1. Given(s)' = Given(s) /\ Plan(s)' = Plan(s) BY DEF Given, Plan
<1>2. UNCHANGED <<reply, next, channel, reader, seen>> OBVIOUS
<1> QED BY <1>1, <1>2 DEF Following, Early

(* Each step of a stream keeps the stream's invariant. *)
LEMMA StreamStep ==
    ASSUME TypeOK, TypeOK', NEW s \in Streams, Following(s),
           Request(s) \/ Work(s) \/ Receive(s) \/ Close(s) \/ HangUp(s)
    PROVE  Following(s)'
<1> USE ChunksAssumption
<1>1. CASE Request(s) BY <1>1, TaskMoves DEF Request, Goto, TypeOK
<1>2. CASE SendStart(s)
  <2>1. /\ task[s] = "start" /\ task'[s] = "lock" /\ Send(s, Start)
        /\ UNCHANGED <<reply, next, reader, seen>>
    BY <1>2 DEF SendStart, Goto, TypeOK
  <2>2. /\ next[s] = 1 /\ Len(Given(s)) = 0 /\ Follows(Given(s), Plan(s))
        /\ reader[s] \in {"reads", "gone"}
    BY <2>1 DEF Following, Early, TypeOK
  <2>3. Start \in Event BY DEF Event
  <2>4. /\ Plan(s) \in Seq(Event) /\ Len(Plan(s)) > 0 /\ Plan(s)[1] = Start
    <3>1. reply[s] \in Nat BY StreamTypes
    <3>2. 1 \in 1..(reply[s] + 2) BY <3>1
    <3> QED BY <3>1, <3>2, StreamTypes
  <2>5. Len(Given(s)) < Len(Plan(s)) /\ Plan(s)[Len(Given(s)) + 1] = Start
    <3>1. Len(Given(s)) + 1 = 1 BY <2>2
    <3> QED BY <2>2, <2>4, <3>1
  <2>6. /\ Follows(Given(s)', Plan(s))
        /\ reader[s] = "reads" => Len(Given(s)') = Len(Given(s)) + 1
        /\ reader[s] = "gone" => Len(Given(s)') = Len(Given(s))
    BY <2>1, <2>2, <2>3, <2>4, <2>5, SendGives
  <2>7. Len(Given(s)') <= 1 /\ (reader[s] = "reads" => Len(Given(s)') = 1)
    <3>1. Len(Given(s)) = 0 BY <2>2
    <3>2. CASE reader[s] = "reads"
      <4>1. Len(Given(s)') = Len(Given(s)) + 1 BY <2>6, <3>2
      <4>2. Len(Given(s)') = 1 BY <3>1, <4>1
      <4> QED BY <4>2
    <3>3. CASE reader[s] = "gone"
      <4>1. Len(Given(s)') = Len(Given(s)) BY <2>6, <3>3
      <4>2. Len(Given(s)') = 0 BY <3>1, <4>1
      <4> QED BY <3>3, <4>2
    <3> QED BY <2>2, <3>2, <3>3
  <2>8. Plan(s)' = Plan(s) BY <2>1 DEF Plan
  <2> QED BY <2>1, <2>2, <2>6, <2>7, <2>8 DEF Following, Early
<1>3. CASE Lock(s) BY <1>3, TaskMoves DEF Lock, Goto, TypeOK
<1>4. CASE TurnSucceeds(s)
  <2>1. /\ task[s] = "turn" /\ task'[s] = "emit"
        /\ UNCHANGED <<next, channel, reader, seen>>
    BY <1>4 DEF TurnSucceeds, Goto, TypeOK
  <2>2. Given(s)' = Given(s) BY <2>1 DEF Given
  <2>3. /\ next[s] = 1 /\ Len(Given(s)) <= 1 /\ Follows(Given(s), Plan(s))
        /\ reader[s] # "gone" => Len(Given(s)) = 1
        /\ reader[s] # "closed"
    BY <2>1 DEF Following, Early
  <2>4. Plan(s)[1] = Start /\ Len(Given(s)) \in Nat BY StreamTypes, SMTT(30)
  <2>5. reply'[s] \in Nat /\ Plan(s)'[1] = Start /\ Len(Plan(s)') = reply'[s] + 2
    <3>1. reply'[s] \in Nat BY DEF TypeOK
    <3> QED BY <3>1 DEF Plan
  <2>6. Follows(Given(s), Plan(s)')
    BY <2>3, <2>4, <2>5 DEF Follows
  <2> QED BY <2>1, <2>2, <2>3, <2>5, <2>6 DEF Following, Early
<1>5. CASE TurnFails(s) BY <1>5, TaskMoves DEF TurnFails, Goto, TypeOK
<1>6. CASE EmitDelta(s)
  <2>1. /\ task[s] = "emit" /\ task'[s] = "emit" /\ next[s] <= reply[s]
        /\ next'[s] = next[s] + 1 /\ Send(s, Delta(next[s]))
        /\ UNCHANGED <<reply, reader, seen>>
    BY <1>6 DEF EmitDelta, TypeOK
  <2>2. /\ Follows(Given(s), Plan(s)) /\ Len(Given(s)) <= next[s]
        /\ reader[s] # "gone" => Len(Given(s)) = next[s]
        /\ reader[s] \in {"reads", "gone"}
    BY <2>1 DEF Following, Early, TypeOK
  <2>3. next[s] \in 1..MaxChunks BY <2>1 DEF TypeOK
  <2>4. Delta(next[s]) \in Event BY <2>3 DEF Event
  <2>5. /\ Plan(s) \in Seq(Event) /\ next[s] < Len(Plan(s))
        /\ Plan(s)[next[s] + 1] = Delta(next[s])
    <3>1. reply[s] \in Nat /\ next[s] \in Nat \ {0} BY StreamTypes
    <3>2. /\ next[s] + 1 \in 1..(reply[s] + 2) /\ next[s] + 1 # 1
          /\ next[s] + 1 # reply[s] + 2 /\ (next[s] + 1) - 1 = next[s]
      BY <2>1, <3>1
    <3> QED BY <3>1, <3>2, StreamTypes, SMTT(30)
  <2>6. /\ Follows(Given(s)', Plan(s))
        /\ reader[s] = "reads" => Len(Given(s)') = Len(Given(s)) + 1
        /\ reader[s] = "gone" => Len(Given(s)') = Len(Given(s))
    BY <2>1, <2>2, <2>4, <2>5, SendGives
  <2>7. Plan(s)' = Plan(s) BY <2>1 DEF Plan
  <2>8. /\ next'[s] <= reply'[s] + 1 /\ Len(Given(s)') <= next'[s]
        /\ reader'[s] # "gone" => Len(Given(s)') = next'[s]
    <3>1. next[s] \in Nat /\ reply[s] \in Nat /\ Len(Given(s)) \in Nat
      BY StreamTypes
    <3> QED BY <2>1, <2>2, <2>6, <3>1
  <2> QED BY <2>1, <2>2, <2>6, <2>7, <2>8 DEF Following, Early
<1>7. CASE EmitDone(s)
  <2>1. /\ task[s] = "emit" /\ task'[s] = "ended" /\ next[s] > reply[s]
        /\ Send(s, Done) /\ UNCHANGED <<reply, reader, seen>>
    BY <1>7 DEF EmitDone, Goto, TypeOK
  <2>2. next[s] \in Nat /\ reply[s] \in Nat BY StreamTypes
  <2>3. /\ Follows(Given(s), Plan(s)) /\ next[s] = reply[s] + 1
        /\ reader[s] # "gone" => Len(Given(s)) = next[s]
        /\ reader[s] \in {"reads", "gone"} /\ Len(Given(s)) <= next[s]
    <3>1. /\ Follows(Given(s), Plan(s)) /\ next[s] <= reply[s] + 1
          /\ reader[s] # "gone" => Len(Given(s)) = next[s]
          /\ reader[s] # "closed" /\ Len(Given(s)) <= next[s]
      BY <2>1 DEF Following, Early
    <3>2. reader[s] \in {"reads", "gone"} BY <3>1 DEF TypeOK
    <3> QED BY <2>1, <2>2, <3>1, <3>2
  <2>4. Done \in Event BY DEF Event
  <2>5. /\ Plan(s) \in Seq(Event) /\ Len(Plan(s)) = next[s] + 1
        /\ Plan(s)[next[s] + 1] = Done
    <3>1. next[s] + 1 = reply[s] + 2 /\ next[s] + 1 \in 1..(reply[s] + 2)
          /\ next[s] + 1 # 1
      BY <2>2, <2>3
    <3> QED BY <3>1, StreamTypes
  <2>6. /\ Follows(Given(s)', Plan(s))
        /\ reader[s] = "reads" => Len(Given(s)') = next[s] + 1
    BY <2>1, <2>2, <2>3, <2>4, <2>5, SendGives
  <2>7. Plan(s)' = Plan(s) BY <2>1 DEF Plan
  <2> QED BY <2>1, <2>2, <2>3, <2>6, <2>7 DEF Following, Early
<1>8. CASE EmitError(s)
  <2>1. /\ task[s] = "fail" /\ task'[s] = "ended"
        /\ Send(s, Error) /\ UNCHANGED <<reply, reader, seen>>
    BY <1>8 DEF EmitError, Goto, TypeOK
  <2>2. /\ Follows(Given(s), Plan(s)) /\ Len(Given(s)) <= 1
        /\ reader[s] # "gone" => Len(Given(s)) = 1
        /\ reader[s] \in {"reads", "gone"}
    BY <2>1 DEF Following, Early, TypeOK
  <2>3. Error \in Event BY DEF Event
  <2>4. /\ Broken \in Seq(Event) /\ Len(Broken) = 2
        /\ Broken[1] = Start /\ Broken[2] = Error /\ Plan(s)[1] = Start
        /\ Len(Given(s)) \in Nat
    <3>1. reply[s] \in Nat BY StreamTypes
    <3>2. 1 \in 1..(reply[s] + 2) BY <3>1
    <3> QED BY <3>2, StreamTypes
  <2>5. Follows(Given(s), Broken) BY <2>2, <2>4 DEF Follows
  <2>8. reader[s] = "reads" =>
          Len(Given(s)) < Len(Broken) /\ Broken[Len(Given(s)) + 1] = Error
    BY <2>2, <2>4
  <2>6. /\ Follows(Given(s)', Broken)
        /\ reader[s] = "reads" => Len(Given(s)') = 2
    <3>1. /\ Follows(Given(s)', Broken)
          /\ reader[s] = "reads" => Len(Given(s)') = Len(Given(s)) + 1
      BY <2>1, <2>2, <2>3, <2>4, <2>5, <2>8, SendGives
    <3>2. ASSUME reader[s] = "reads" PROVE Len(Given(s)') = 2
      <4>1. Len(Given(s)) = 1 BY <2>2, <3>2
      <4>2. Len(Given(s)') = Len(Given(s)) + 1 BY <3>1, <3>2
      <4> QED BY <4>1, <4>2
    <3> QED BY <3>1, <3>2
  <2>7. Broken' = Broken BY DEF Broken
  <2> QED BY <2>1, <2>2, <2>6, <2>7 DEF Following, Early
<1>9. CASE Receive(s)
  <2>1. /\ reader[s] = "reads" /\ channel[s] # <<>>
        /\ seen'[s] = Append(seen[s], Head(channel[s]))
        /\ channel'[s] = Tail(channel[s])
        /\ UNCHANGED <<task, reply, next, reader>>
    BY <1>9 DEF Receive, TypeOK
  <2>2. seen[s] \in Seq(Event) /\ channel[s] \in Seq(Event) BY StreamTypes
  <2>3. Given(s)' = Given(s) BY <2>1, <2>2, GivenSame DEF Given
  <2>4. Plan(s)' = Plan(s) /\ Broken' = Broken BY <2>1 DEF Plan, Broken
  <2> QED BY <2>1, <2>3, <2>4 DEF Following, Early
<1>10. CASE Close(s)
  <2>1. /\ task[s] = "ended" /\ channel[s] = <<>> /\ reader[s] # "gone"
        /\ UNCHANGED <<task, reply, next, channel, seen>>
    BY <1>10 DEF Close
  <2>2. Given(s)' = Given(s) /\ Plan(s)' = Plan(s) /\ Broken' = Broken
    BY <2>1 DEF Given, Plan, Broken
  <2> QED BY <2>1, <2>2 DEF Following, Early
<1>11. CASE HangUp(s)
  <2>1. /\ reader'[s] = "gone" /\ channel'[s] = <<>>
        /\ UNCHANGED <<task, reply, next, seen>>
    BY <1>11 DEF HangUp, TypeOK
  <2>2. seen[s] \in Seq(Event) /\ channel[s] \in Seq(Event)
        /\ Len(Given(s)) \in Nat /\ Plan(s) \in Seq(Event)
        /\ Broken \in Seq(Event) /\ next[s] \in Nat
    BY StreamTypes
  <2>3. /\ Given(s)' = seen[s] /\ Len(seen[s]) <= Len(Given(s))
        /\ \A p \in Seq(Event) : Follows(Given(s), p) => Follows(seen[s], p)
    BY <2>1, <2>2, GivenCut DEF Given
  <2>4. Plan(s)' = Plan(s) /\ Broken' = Broken BY <2>1 DEF Plan, Broken
  <2>5. /\ \A n \in Nat : Len(Given(s)) <= n => Len(Given(s)') <= n
        /\ Len(Given(s)) = 0 => Len(Given(s)') = 0
    <3>1. Len(seen[s]) \in Nat BY <2>2
    <3> QED BY <2>2, <2>3, <3>1
  <2>6. /\ Follows(Given(s), Plan(s)) => Follows(Given(s)', Plan(s))
        /\ Follows(Given(s), Broken) => Follows(Given(s)', Broken)
    BY <2>2, <2>3
  <2> QED BY <2>1, <2>2, <2>4, <2>5, <2>6 DEF Following, Early
<1> QED
  BY <1>1, <1>2, <1>3, <1>4, <1>5, <1>6, <1>7, <1>8, <1>9, <1>10, <1>11 DEF Work

(* The types and the streams' invariant, of every step.                    *)
LEMMA IInvStep == IInv /\ [Next]_vars => IInv'
<1> SUFFICES ASSUME IInv, [Next]_vars PROVE IInv' OBVIOUS
<1>1. TypeOK /\ TypeOK' BY TypeStep DEF IInv
<1>2. ASSUME NEW r \in Streams PROVE Following(r)'
  <2>1. Following(r) BY DEF IInv
  <2>2. CASE UNCHANGED vars BY <2>1, <2>2, StreamUntouched DEF vars
  <2>3. ASSUME NEW s \in Streams,
               Request(s) \/ Work(s) \/ Receive(s) \/ Close(s) \/ HangUp(s)
        PROVE  Following(r)'
    <3>1. CASE r = s BY <1>1, <2>1, <2>3, <3>1, StreamStep
    <3>2. CASE r # s
      <4>1. /\ task'[r] = task[r] /\ reply'[r] = reply[r] /\ next'[r] = next[r]
            /\ channel'[r] = channel[r] /\ reader'[r] = reader[r]
            /\ seen'[r] = seen[r]
        BY <1>1, <2>3, <3>2
        DEF TypeOK, Goto, Send, Request, Work, SendStart, Lock, TurnSucceeds,
            TurnFails, EmitDelta, EmitDone, EmitError, Receive, Close, HangUp
      <4> QED BY <2>1, <4>1, StreamUntouched
    <3> QED BY <3>1, <3>2
  <2> QED BY <2>2, <2>3 DEF Next
<1> QED BY <1>1, <1>2 DEF IInv

LEMMA Invariance == Spec => []IInv
<1> USE NobodyAssumption, CapacityAssumption, ChunksAssumption
<1>1. Init => IInv
  <2> SUFFICES ASSUME Init PROVE IInv OBVIOUS
  <2>1. TypeOK BY DEF Init, TypeOK, Tasks, Event
  <2>2. ASSUME NEW s \in Streams PROVE Following(s)
    <3>1. /\ task[s] = "idle" /\ next[s] = 1 /\ reader[s] = "reads"
          /\ seen[s] = <<>> /\ channel[s] = <<>>
      BY DEF Init
    <3>2. Len(Given(s)) = 0 BY <3>1 DEF Given
    <3>3. Len(Plan(s)) \in Nat BY <2>1, StreamTypes
    <3>4. Follows(Given(s), Plan(s)) BY <3>2, <3>3 DEF Follows
    <3> QED BY <3>1, <3>2, <3>4 DEF Following, Early
  <2> QED BY <2>1, <2>2 DEF IInv
<1> QED BY <1>1, IInvStep, PTL DEF Spec

-----------------------------------------------------------------------------
(* The theorems.                                                           *)

(* Every reader is given the chunks in order and without a gap, and "done" *)
(* only after the last: sends that wait for room in the channel, a reader  *)
(* of any pace and one that hangs up do not change that.                   *)
THEOREM InOrder == Spec => []Orderly
<1>1. IInv => Orderly
  <2> SUFFICES ASSUME IInv, NEW s \in Streams
               PROVE  IsPrefix(seen[s], Whole(s)) \/ IsPrefix(seen[s], Broken)
    BY DEF Orderly
  <2>1. TypeOK /\ Following(s) BY DEF IInv
  <2>2. /\ seen[s] \in Seq(Event) /\ channel[s] \in Seq(Event)
        /\ Plan(s) \in Seq(Event) /\ Broken \in Seq(Event)
        /\ Plan(s) = Whole(s)
    BY <2>1, StreamTypes, PlanIsWhole
  <2>3. Follows(Given(s), Plan(s)) \/ Follows(Given(s), Broken)
    BY <2>1 DEF Following, Early, TypeOK, Tasks
  <2>4. Follows(seen[s], Plan(s)) \/ Follows(seen[s], Broken)
    BY <2>2, <2>3, GivenCut DEF Given
  <2> QED BY <2>2, <2>4, FollowsIsPrefix
<1> QED BY <1>1, Invariance, PTL

(* A reader that saw the stream close has the whole reply and "done", or   *)
(* "start" and "error": the channel is drained before the stream ends.     *)
THEOREM WholeAtClose == Spec => []ClosedWhole
<1>1. IInv => ClosedWhole
  <2> SUFFICES ASSUME IInv, NEW s \in Streams, reader[s] = "closed"
               PROVE  seen[s] = Whole(s) \/ seen[s] = Broken
    BY DEF ClosedWhole
  <2>1. TypeOK /\ Following(s) BY DEF IInv
  <2>2. /\ seen[s] \in Seq(Event) /\ channel[s] \in Seq(Event)
        /\ Plan(s) \in Seq(Event) /\ Len(Plan(s)) = reply[s] + 2
        /\ Broken \in Seq(Event) /\ Len(Broken) = 2
        /\ Plan(s) = Whole(s)
    BY <2>1, StreamTypes, PlanIsWhole
  <2>3. /\ channel[s] = <<>>
        /\ \/ Follows(Given(s), Plan(s)) /\ Len(Given(s)) = reply[s] + 2
           \/ Follows(Given(s), Broken) /\ Len(Given(s)) = 2
    BY <2>1 DEF Following
  <2>4. Given(s) = seen[s] BY <2>2, <2>3, GivenCut DEF Given
  <2> QED BY <2>2, <2>3, <2>4, FollowsIsPrefix
<1> QED BY <1>1, Invariance, PTL
-----------------------------------------------------------------------------
(* Nobody stands still but for a reader.                                   *)

Holding == {"turn", "emit", "fail"}
Sending == {"start", "emit", "fail"}

(* Who holds the mutex is in a turn or hands out its events, and the other *)
(* way round; the task that ends drops it.                                 *)
MutexHeld ==
    /\ mutex # Nobody => mutex \in Streams /\ task[mutex] \in Holding
    /\ \A s \in Streams : task[s] \in Holding => mutex = s

LEMMA MutexStep == TypeOK /\ MutexHeld /\ [Next]_vars => MutexHeld'
<1> USE NobodyAssumption DEF TypeOK, MutexHeld, Goto, Holding
<1> SUFFICES ASSUME TypeOK, MutexHeld, [Next]_vars PROVE MutexHeld' OBVIOUS
<1>1. ASSUME NEW s \in Streams, Work(s) PROVE MutexHeld'
  <2>1. CASE SendStart(s) BY <2>1 DEF SendStart
  <2>2. CASE Lock(s) BY <2>2 DEF Lock
  <2>3. CASE TurnSucceeds(s) BY <2>3 DEF TurnSucceeds
  <2>4. CASE TurnFails(s) BY <2>4 DEF TurnFails
  <2>5. CASE EmitDelta(s) BY <2>5 DEF EmitDelta
  <2>6. CASE EmitDone(s) BY <2>6 DEF EmitDone
  <2>7. CASE EmitError(s) BY <2>7 DEF EmitError
  <2> QED BY <1>1, <2>1, <2>2, <2>3, <2>4, <2>5, <2>6, <2>7 DEF Work
<1>2. ASSUME NEW s \in Streams, Request(s) PROVE MutexHeld'
  BY <1>2 DEF Request
<1>3. ASSUME NEW s \in Streams, Receive(s) \/ Close(s) \/ HangUp(s)
      PROVE  MutexHeld'
  BY <1>3 DEF Receive, Close, HangUp
<1>4. CASE UNCHANGED vars BY <1>4 DEF vars
<1> QED BY <1>1, <1>2, <1>3, <1>4 DEF Next

(* One reply at a time is handed out; a task that waits for the session    *)
(* waits for one that does not, and a task that cannot send has a reader   *)
(* that is there and keeps the channel full.                               *)
OnlyReadersStall ==
    /\ \A r, s \in Streams :
            task[r] \in Holding /\ task[s] \in Holding => r = s
    /\ \A s \in Streams :
            task[s] = "lock" /\ mutex # Nobody => task[mutex] \in Holding
    /\ \A s \in Streams :
            task[s] \in Sending /\ ~Full(s) =>
                \/ reader[s] = "gone"
                \/ reader[s] = "reads" /\ Len(channel[s]) < Capacity

(* Turns end by their timeouts, so what stops a session is a reader that   *)
(* neither reads nor hangs up, and nothing else: no stream closes under a  *)
(* task that still sends, and none ends with the mutex.                    *)
THEOREM ReadersStall == Spec => []OnlyReadersStall
<1>1. Init => MutexHeld BY DEF Init, MutexHeld, Holding
<1>2. IInv /\ MutexHeld => OnlyReadersStall
  <2> SUFFICES ASSUME IInv, MutexHeld PROVE OnlyReadersStall OBVIOUS
  <2>1. \A r, s \in Streams :
            task[r] \in Holding /\ task[s] \in Holding => r = s
    BY DEF MutexHeld
  <2>2. mutex # Nobody => task[mutex] \in Holding BY DEF MutexHeld
  <2>3. ASSUME NEW s \in Streams, task[s] \in Sending, ~Full(s)
        PROVE  \/ reader[s] = "gone"
               \/ reader[s] = "reads" /\ Len(channel[s]) < Capacity
    <3>1. reader[s] # "closed" BY <2>3 DEF IInv, Following, Sending
    <3>2. reader[s] \in {"reads", "gone"} BY <3>1 DEF IInv, TypeOK
    <3>3. Len(channel[s]) <= Capacity /\ Len(channel[s]) \in Nat
      BY DEF IInv, TypeOK
    <3> QED BY <2>3, <3>2, <3>3, CapacityAssumption DEF Full
  <2> QED BY <2>1, <2>2, <2>3 DEF OnlyReadersStall
<1>3. IInv => TypeOK BY DEF IInv
<1> QED BY <1>1, <1>2, <1>3, MutexStep, Invariance, PTL DEF Spec
=============================================================================
