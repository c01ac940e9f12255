--------------------------- MODULE FileTicketsProofs ---------------------------
(***************************************************************************)
(* The ticket file hands no ticket out twice, for any tickets, any number  *)
(* of calls, any requests, crashes and failed writes.                      *)
(*                                                                         *)
(* A ticket of a call in the middle of persist is in neither the list nor  *)
(* with another call; the file may still have it, but is truncated before  *)
(* the call is remembered, and nobody else takes the mutex until then.     *)
(***************************************************************************)
EXTENDS FileTickets, SequenceTheorems, WellFoundedInduction, TLAPS

Persisting == {c \in Calls : pc[c] \in {"truncate", "write"}}

(* No ticket is listed twice, a call in persist has its ticket alone, and  *)
(* the file is empty while it is torn.                                     *)
TakenInv ==
    /\ IsInjective(tickets) /\ IsInjective(file.list)
    /\ \A c \in Persisting :
          /\ lock = c /\ up
          /\ got[c] \notin Range(tickets)
          /\ \A d \in Remembered : got[c] # got[d]
    /\ ~up => lock = Nobody

IInv == TypeOK /\ TakenInv /\ NoReuse

-----------------------------------------------------------------------------
(* Sequences.                                                              *)

(* The places of a sequence have a first one. *)
LEMMA First ==
    ASSUME NEW T, T \subseteq Nat, T # {}
    PROVE  \E i \in T : \A j \in T : i <= j
<1> DEFINE less == OpToRel(<, Nat)
<1>1. IsWellFoundedOn(less, Nat) BY NatLessThanWellFounded, Zenon
<1>2. PICK i \in T : \A j \in T : <<j, i>> \notin less
  <2> HIDE DEF less
  <2> QED BY <1>1, WFMin
<1>3. ASSUME NEW j \in T PROVE i <= j
  <2>1. i \in Nat /\ j \in Nat OBVIOUS
  <2>2. ~(j < i) BY <1>2, <2>1 DEF OpToRel
  <2> QED BY <2>1, <2>2
<1> QED BY <1>3

(* RemoveAt, place by place. *)
LEMMA RemoveAtPlaces ==
    ASSUME NEW S, NEW s \in Seq(S), NEW i \in 1..Len(s)
    PROVE  /\ RemoveAt(s, i) \in Seq(S)
           /\ Len(RemoveAt(s, i)) = Len(s) - 1
           /\ \A j \in 1..(Len(s) - 1) :
                 RemoveAt(s, i)[j] = IF j < i THEN s[j] ELSE s[j + 1]
<1> DEFINE a == SubSeq(s, 1, i - 1)
           b == SubSeq(s, i + 1, Len(s))
<1>1. Len(s) \in Nat /\ i \in Nat /\ 1 <= i /\ i <= Len(s) OBVIOUS
<1>2. /\ a \in Seq(S) /\ Len(a) = i - 1
      /\ \A j \in 1..(i - 1) : a[j] = s[j]
  BY <1>1
<1>3. /\ b \in Seq(S) /\ Len(b) = Len(s) - i
      /\ \A j \in 1..(Len(s) - i) : b[j] = s[i + j]
  <2>1. b \in Seq(S) BY <1>1
  <2>2. Len(b) = Len(s) - i BY <1>1
  <2>3. \A j \in 1..(Len(s) - i) : b[j] = s[i + j] BY <1>1
  <2> QED BY <2>1, <2>2, <2>3
<1>4. RemoveAt(s, i) = a \o b BY DEF RemoveAt
<1> HIDE DEF a, b
<1>5. /\ a \o b \in Seq(S) /\ Len(a \o b) = Len(a) + Len(b)
      /\ \A j \in 1..(Len(a) + Len(b)) :
            (a \o b)[j] = IF j <= Len(a) THEN a[j] ELSE b[j - Len(a)]
  BY <1>2, <1>3, ConcatProperties
<1>6. Len(a) + Len(b) = Len(s) - 1 BY <1>1, <1>2, <1>3
<1>7. ASSUME NEW j \in 1..(Len(s) - 1)
      PROVE  (a \o b)[j] = IF j < i THEN s[j] ELSE s[j + 1]
  <2>1. CASE j < i BY <1>1, <1>2, <1>5, <1>6, <2>1
  <2>2. CASE ~(j < i)
    <3>1. /\ j - (i - 1) \in 1..(Len(s) - i) /\ i + (j - (i - 1)) = j + 1
          /\ ~(j <= i - 1)
      BY <1>1, <2>2
    <3>2. (a \o b)[j] = b[j - (i - 1)] BY <1>2, <1>5, <1>6, <3>1
    <3>3. b[j - (i - 1)] = s[j + 1] BY <1>3, <3>1
    <3> QED BY <2>2, <3>2, <3>3
  <2> QED BY <2>1, <2>2
<1> QED BY <1>4, <1>5, <1>6, <1>7

(* What is left of a list without repetitions has none, and has the rest.  *)
LEMMA RemoveAtLeaves ==
    ASSUME NEW S, NEW s \in Seq(S), NEW i \in 1..Len(s), IsInjective(s)
    PROVE  /\ RemoveAt(s, i) \in Seq(S) /\ IsInjective(RemoveAt(s, i))
           /\ Range(RemoveAt(s, i)) \subseteq Range(s) \ {s[i]}
<1> DEFINE r == RemoveAt(s, i)
           At(j) == IF j < i THEN j ELSE j + 1
<1>1. Len(s) \in Nat /\ i \in Nat /\ DOMAIN s = 1..Len(s) OBVIOUS
<1>2. /\ r \in Seq(S) /\ Len(r) = Len(s) - 1
      /\ \A j \in 1..(Len(s) - 1) : r[j] = IF j < i THEN s[j] ELSE s[j + 1]
  BY RemoveAtPlaces
<1> HIDE DEF r
<1>3. DOMAIN r = 1..(Len(s) - 1) BY <1>2
<1>4. ASSUME NEW j \in DOMAIN r
      PROVE  r[j] = s[At(j)] /\ At(j) \in DOMAIN s /\ At(j) # i
  BY <1>1, <1>2, <1>3
<1>5. IsInjective(r)
  <2> SUFFICES ASSUME NEW j \in DOMAIN r, NEW k \in DOMAIN r, r[j] = r[k]
               PROVE  j = k
    BY DEF IsInjective
  <2>1. s[At(j)] = s[At(k)] /\ At(j) \in DOMAIN s /\ At(k) \in DOMAIN s
    BY <1>4
  <2>2. At(j) = At(k)
    <3> HIDE DEF At
    <3> QED BY <2>1 DEF IsInjective
  <2>3. j \in Nat /\ k \in Nat BY <1>1, <1>3
  <2> QED BY <1>1, <2>2, <2>3
<1>6. ASSUME NEW j \in DOMAIN r PROVE r[j] \in Range(s) /\ r[j] # s[i]
  <2>1. r[j] = s[At(j)] /\ At(j) \in DOMAIN s /\ At(j) # i BY <1>4
  <2> HIDE DEF At
  <2>2. i \in DOMAIN s BY <1>1
  <2>3. s[At(j)] # s[i] BY <2>1, <2>2 DEF IsInjective
  <2> QED BY <2>1, <2>3 DEF Range
<1>7. Range(r) \subseteq Range(s) \ {s[i]} BY <1>6 DEF Range
<1> QED BY <1>2, <1>5, <1>7 DEF r

(* Where there is a ticket the choice is one of them. *)
LEMMA ChosenListed ==
    ASSUME TypeOK, tickets # <<>>, NEW c \in Calls
    PROVE  /\ Chosen(c) \in 1..Len(tickets)
           /\ tickets[Chosen(c)] \in Tickets
           /\ tickets[Chosen(c)] \in Range(tickets)
<1> DEFINE ofClass == {i \in DOMAIN tickets :
                          ClassOf[RootOf[tickets[i]]] = ClassOf[ask[c]]}
           from == IF ofClass = {} THEN DOMAIN tickets ELSE ofClass
<1>1. tickets \in Seq(Tickets) /\ Len(tickets) \in Nat \ {0}
      /\ DOMAIN tickets = 1..Len(tickets)
  BY DEF TypeOK
<1>2. 1 \in DOMAIN tickets BY <1>1
<1>3. from # {} /\ from \subseteq DOMAIN tickets BY <1>2
<1>4. from \subseteq Nat BY <1>1, <1>3
<1>5. Chosen(c) = CHOOSE i \in from : \A j \in from : i <= j BY DEF Chosen
<1> HIDE DEF from
<1>6. Chosen(c) \in from BY <1>3, <1>4, <1>5, First
<1>7. Chosen(c) \in 1..Len(tickets) BY <1>1, <1>3, <1>6
<1> HIDE DEF Tickets
<1> QED BY <1>1, <1>7 DEF Range

-----------------------------------------------------------------------------
(* Type correctness.                                                       *)

LEMMA TypeStep == TypeOK /\ TakenInv /\ [Next]_vars => TypeOK'
<1> USE NobodyAssumption
<1> SUFFICES ASSUME TypeOK, TakenInv, [Next]_vars PROVE TypeOK' OBVIOUS
<1> USE DEF TypeOK, Goto, Places
<1>1. ASSUME NEW c \in Calls, Ask(c) PROVE TypeOK'
  BY <1>1 DEF Ask
<1>2. ASSUME NEW c \in Calls, TakeNone(c) PROVE TypeOK'
  BY <1>2 DEF TakeNone, HasLock
<1>3. ASSUME NEW c \in Calls, TakeUnbound(c) PROVE TypeOK'
  <2>1. RemoveAt(tickets, Chosen(c)) \in Seq(Tickets)
    BY <1>3, ChosenListed, RemoveAtLeaves DEF TakeUnbound, TakenInv
  <2> QED BY <1>3, <2>1 DEF TakeUnbound, HasLock
<1>4. ASSUME NEW c \in Calls, TakeBound(c) PROVE TypeOK'
  <2>1. /\ RemoveAt(tickets, Chosen(c)) \in Seq(Tickets)
        /\ tickets[Chosen(c)] \in Tickets
    BY <1>4, ChosenListed, RemoveAtLeaves DEF TakeBound, TakenInv
  <2> QED BY <1>4, <2>1 DEF TakeBound, HasLock
<1>5. ASSUME NEW c \in Calls, Truncate(c) PROVE TypeOK'
  BY <1>5 DEF Truncate
<1>6. ASSUME NEW c \in Calls, Write(c) PROVE TypeOK'
  BY <1>6 DEF Write
<1>7. ASSUME NEW c \in Calls, PersistFails(c) PROVE TypeOK'
  BY <1>7 DEF PersistFails
<1>8. CASE Crash
  <2>1. /\ ~up' /\ tickets' = <<>> /\ lock' = Nobody
        /\ \A c \in Calls : pc'[c] \notin {"truncate", "write"}
        /\ pc' \in [Calls -> Places] /\ UNCHANGED <<file, ask, got>>
    BY <1>8 DEF Crash
  <2>2. tickets' \in Seq(Tickets)
    <3> HIDE DEF TypeOK, Tickets
    <3> QED BY <2>1
  <2>3. \A c \in Calls : pc'[c] \in {"truncate", "write"} => lock' = c
    BY <2>1
  <2>4. /\ file' = file /\ ask' = ask /\ got' = got /\ lock' = Nobody
        /\ up' \in BOOLEAN /\ pc' \in [Calls -> Places]
    BY <1>8, <2>1 DEF Crash
  <2> QED BY <2>1, <2>2, <2>3, <2>4
<1>9. CASE Load BY <1>9 DEF Load
<1>10. CASE UNCHANGED vars BY <1>10 DEF vars
<1> QED
  BY <1>1, <1>2, <1>3, <1>4, <1>5, <1>6, <1>7, <1>8, <1>9, <1>10 DEF Next

-----------------------------------------------------------------------------
(* The invariant.                                                          *)

(* A call takes a ticket off the list: whoever has one keeps it alone, and *)
(* the one that was taken is nobody's.                                     *)
LEMMA ListShrinks ==
    ASSUME IInv, NEW c \in Calls, HasLock(c), tickets # <<>>,
           tickets' = RemoveAt(tickets, Chosen(c))
    PROVE  /\ IsInjective(tickets')
           /\ Range(tickets') \subseteq Range(tickets) \ {tickets[Chosen(c)]}
           /\ Persisting = {}
           /\ \A d \in Remembered : got[d] # tickets[Chosen(c)]
<1>1. TypeOK /\ TakenInv /\ NoReuse BY DEF IInv
<1>2. /\ Chosen(c) \in 1..Len(tickets) /\ tickets \in Seq(Tickets)
      /\ tickets[Chosen(c)] \in Range(tickets)
  BY <1>1, ChosenListed DEF TypeOK
<1>3. IsInjective(tickets') /\ Range(tickets') \subseteq Range(tickets) \ {tickets[Chosen(c)]}
  BY <1>1, <1>2, RemoveAtLeaves DEF TakenInv
<1>4. Persisting = {}
  BY <1>1, NobodyAssumption DEF HasLock, TakenInv, Persisting
<1> QED BY <1>1, <1>2, <1>3, <1>4 DEF NoReuse

(* A call that only waits, or ends without a ticket, changes nothing that  *)
(* the invariant is about.                                                 *)
LEMMA CallMoves ==
    ASSUME IInv, NEW c \in Calls, NEW place,
           place \in {"waiting", "refused", "empty"},
           pc[c] \in {"idle", "waiting"}, Goto(c, place),
           UNCHANGED <<file, tickets, lock, up, got>>
    PROVE  (TakenInv /\ NoReuse)'
<1>1. pc' = [pc EXCEPT ![c] = place] /\ pc \in [Calls -> Places]
  BY DEF Goto, IInv, TypeOK
<1>2. Persisting' = Persisting /\ Remembered' = Remembered
  BY <1>1 DEF Persisting, Remembered
<1> QED BY <1>2 DEF IInv, TakenInv, NoReuse

(* Every step keeps the invariant.                                         *)
LEMMA TakenStep == IInv /\ [Next]_vars => (TakenInv /\ NoReuse)'
<1> SUFFICES ASSUME IInv, [Next]_vars PROVE (TakenInv /\ NoReuse)' OBVIOUS
<1>0. TypeOK /\ TakenInv /\ NoReuse BY DEF IInv
<1>1. ASSUME NEW c \in Calls, Ask(c) PROVE (TakenInv /\ NoReuse)'
  BY <1>1, CallMoves DEF Ask
<1>2. ASSUME NEW c \in Calls, TakeNone(c) PROVE (TakenInv /\ NoReuse)'
  BY <1>2, CallMoves DEF TakeNone, HasLock
<1>3. ASSUME NEW c \in Calls, TakeUnbound(c) PROVE (TakenInv /\ NoReuse)'
  <2>1. /\ IsInjective(tickets') /\ Range(tickets') \subseteq Range(tickets)
        /\ Persisting = {}
    BY <1>3, ListShrinks DEF TakeUnbound
  <2>2. pc' = [pc EXCEPT ![c] = "refused"] /\ pc[c] = "waiting"
        /\ UNCHANGED <<file, lock, up, got>>
    BY <1>3 DEF TakeUnbound, Goto, HasLock
  <2>3. Persisting' = {} /\ Remembered' = Remembered
    BY <1>0, <2>1, <2>2 DEF Persisting, Remembered, TypeOK
  <2> QED BY <1>0, <2>1, <2>2, <2>3 DEF TakenInv, NoReuse
<1>4. ASSUME NEW c \in Calls, TakeBound(c) PROVE (TakenInv /\ NoReuse)'
  <2> DEFINE t == tickets[Chosen(c)]
  <2>1. /\ IsInjective(tickets') /\ Range(tickets') \subseteq Range(tickets) \ {t}
        /\ Persisting = {} /\ \A d \in Remembered : got[d] # t
    BY <1>4, ListShrinks DEF TakeBound
  <2>2. /\ pc' = [pc EXCEPT ![c] = "truncate"] /\ pc[c] = "waiting"
        /\ got' = [got EXCEPT ![c] = t] /\ lock' = c
        /\ UNCHANGED <<file, up>> /\ up
    BY <1>4 DEF TakeBound, Goto, HasLock
  <2> HIDE DEF t
  <2>3. Persisting' = {c} /\ Remembered' = Remembered /\ c \notin Remembered
    BY <1>0, <2>1, <2>2 DEF Persisting, Remembered, TypeOK
  <2>4. got'[c] = t /\ \A d \in Remembered : got'[d] = got[d]
    BY <1>0, <2>2, <2>3 DEF TypeOK, Remembered
  <2>5. TakenInv' BY <1>0, <2>1, <2>2, <2>3, <2>4 DEF TakenInv
  <2>6. NoReuse' BY <1>0, <2>1, <2>2, <2>3, <2>4 DEF NoReuse
  <2> QED BY <2>5, <2>6
<1>5. ASSUME NEW c \in Calls, Truncate(c) PROVE (TakenInv /\ NoReuse)'
  <2>1. /\ pc' = [pc EXCEPT ![c] = "write"] /\ pc[c] = "truncate"
        /\ file'.list = <<>> /\ UNCHANGED <<tickets, lock, up, got>>
    BY <1>5 DEF Truncate, Goto
  <2>2. Persisting' = Persisting /\ Remembered' = Remembered
    BY <1>0, <2>1 DEF Persisting, Remembered, TypeOK
  <2>3. IsInjective(file'.list) /\ Range(file'.list) = {}
    BY <2>1 DEF IsInjective, Range
  <2> QED BY <1>0, <2>1, <2>2, <2>3 DEF TakenInv, NoReuse
<1>6. ASSUME NEW c \in Calls, Write(c) PROVE (TakenInv /\ NoReuse)'
  <2>1. /\ pc' = [pc EXCEPT ![c] = "handed"] /\ pc[c] = "write"
        /\ file'.list = tickets /\ lock' = Nobody
        /\ UNCHANGED <<tickets, up, got>>
    BY <1>6 DEF Write, Goto
  <2>2. c \in Persisting BY <2>1 DEF Persisting
  <2>3. \A d \in Persisting : d = c BY <1>0, <2>2 DEF TakenInv
  <2>4. Persisting' = {} /\ Remembered' = Remembered \cup {c}
    BY <1>0, <2>1, <2>3 DEF Persisting, Remembered, TypeOK
  <2>5. up BY <1>0, <2>2 DEF TakenInv
  <2>6. TakenInv' BY <1>0, <2>1, <2>4, <2>5 DEF TakenInv
  <2>7. NoReuse' BY <1>0, <2>1, <2>2, <2>4 DEF TakenInv, NoReuse
  <2> QED BY <2>6, <2>7
<1>7. ASSUME NEW c \in Calls, PersistFails(c) PROVE (TakenInv /\ NoReuse)'
  <2>1. /\ pc' = [pc EXCEPT ![c] = "unsaved"]
        /\ pc[c] \in {"truncate", "write"} /\ lock' = Nobody
        /\ UNCHANGED <<file, tickets, up, got>>
    BY <1>7 DEF PersistFails, Goto
  <2>2. c \in Persisting BY <2>1 DEF Persisting
  <2>3. \A d \in Persisting : d = c BY <1>0, <2>2 DEF TakenInv
  <2>4. Persisting' = {} /\ Remembered' = Remembered
    BY <1>0, <2>1, <2>3 DEF Persisting, Remembered, TypeOK
  <2> QED BY <1>0, <2>1, <2>4 DEF TakenInv, NoReuse
<1>8. CASE Crash
  <2>1. /\ pc' = [c \in Calls |-> IF pc[c] \in {"waiting", "truncate", "write"}
                                  THEN "gone" ELSE pc[c]]
        /\ tickets' = <<>> /\ lock' = Nobody /\ UNCHANGED <<file, got>>
    BY <1>8 DEF Crash
  <2>2. Persisting' = {} /\ Remembered' = Remembered
    BY <2>1 DEF Persisting, Remembered
  <2>3. IsInjective(tickets') /\ Range(tickets') = {}
    BY <2>1 DEF IsInjective, Range
  <2> QED BY <1>0, <2>1, <2>2, <2>3 DEF TakenInv, NoReuse
<1>9. CASE Load
  <2>1. /\ ~up /\ up' /\ tickets' = file.list
        /\ UNCHANGED <<file, lock, got, pc>>
    BY <1>9 DEF Load
  <2>2. Persisting' = {} /\ Remembered' = Remembered
    BY <1>0, <2>1 DEF TakenInv, Persisting, Remembered
  <2> QED BY <1>0, <2>1, <2>2 DEF TakenInv, NoReuse
<1>10. CASE UNCHANGED vars
  BY <1>0, <1>10 DEF vars, TakenInv, NoReuse, Persisting, Remembered
<1> QED
  BY <1>1, <1>2, <1>3, <1>4, <1>5, <1>6, <1>7, <1>8, <1>9, <1>10 DEF Next

LEMMA Invariance == Spec => []IInv
<1>1. Init => IInv
  <2> SUFFICES ASSUME Init PROVE IInv OBVIOUS
  <2>1. /\ Issued \in Seq(Tickets) /\ Head(Issued) \in Tickets
        /\ IsInjective(Issued)
    <3> HIDE DEF Tickets
    <3> QED BY IssuedAssumption
  <2>2. TypeOK BY <2>1 DEF Init, TypeOK, Places
  <2>3. Persisting = {} /\ Remembered = {}
    BY DEF Init, Persisting, Remembered
  <2> QED BY <2>1, <2>2, <2>3 DEF Init, IInv, TakenInv, NoReuse
<1>2. IInv /\ [Next]_vars => IInv' BY TypeStep, TakenStep DEF IInv
<1> QED BY <1>1, <1>2, PTL DEF Spec

-----------------------------------------------------------------------------
(* The theorems.                                                           *)

(* Every reachable state of the ticket file and its callers has the        *)
(* declared types, and whoever is in persist has the mutex.                *)
THEOREM TypeCorrect == Spec => []TypeOK
<1>1. IInv => TypeOK BY DEF IInv
<1> QED BY <1>1, Invariance, PTL

(* A ticket that was handed out and written off is with one call only, and *)
(* comes back neither to the list nor to the file: whatever crashes, fails *)
(* or calls at the same time.                                              *)
THEOREM NeverTwice == Spec => []NoReuse
<1>1. IInv => NoReuse BY DEF IInv
<1> QED BY <1>1, Invariance, PTL
=============================================================================
