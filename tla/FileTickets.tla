----------------------------- MODULE FileTickets -----------------------------
(***************************************************************************)
(* The client's file of issued tickets (client/src/tickets.rs): one        *)
(* FileTicketSource, shared by all sessions, takes a ticket out of its     *)
(* list, writes the rest back to the file and hands the ticket out.        *)
(*                                                                         *)
(* A ticket is bound to the commitment of one request, and a commitment    *)
(* fixes the request's class (common/src/types.rs, authorization_commit-   *)
(* ment): the issuer is honest, a ticket has the class it is bound to.     *)
(***************************************************************************)
EXTENDS Naturals, Sequences, SequencesExt

CONSTANTS
    Issued,     \* the tickets of the file, a sequence without repetitions
    RootOf,     \* the commitment each ticket is bound to
    ClassOf,    \* the class each commitment fixes
    Asks,       \* the commitments of the requests that may be made
    Calls,      \* the calls of next_ticket that may be made
    Nobody,
    Faults      \* the disturbances allowed, a subset of FaultKinds

FaultKinds == {"crash", "io"}
Tickets == Range(Issued)

ASSUME IssuedAssumption ==
    Issued \in Seq(Tickets) /\ Issued # <<>> /\ IsInjective(Issued)
ASSUME NobodyAssumption == Nobody \notin Calls
ASSUME FaultsAssumption == Faults \subseteq FaultKinds

VARIABLES
    file,       \* the ticket file: torn, or what it lists
    tickets,    \* FileTicketSource.tickets
    lock,       \* who holds its mutex
    up,         \* whether the client runs
    ask,        \* the commitment each call asks a ticket for
    got,        \* the ticket each call took
    pc

vars == <<file, tickets, lock, up, ask, got, pc>>

Places == {"idle", "waiting", "truncate", "write", "handed", "refused",
           "unsaved", "empty", "gone"}

TypeOK ==
    /\ file \in [torn : BOOLEAN, list : Seq(Tickets)]
    /\ tickets \in Seq(Tickets)
    /\ lock \in Calls \cup {Nobody}
    /\ up \in BOOLEAN
    /\ ask \in [Calls -> Asks]
    /\ got \in [Calls -> Tickets]
    /\ pc \in [Calls -> Places]
    /\ \A c \in Calls : pc[c] \in {"truncate", "write"} => lock = c
    /\ ~up => tickets = <<>>

Init ==
    /\ file = [torn |-> FALSE, list |-> Issued]
    /\ tickets = Issued
    /\ lock = Nobody
    /\ up = TRUE
    /\ ask \in [Calls -> Asks]
    /\ got = [c \in Calls |-> Head(Issued)]
    /\ pc = [c \in Calls |-> "idle"]

Goto(c, place) == pc' = [pc EXCEPT ![c] = place]

Ask(c) ==
    /\ up /\ pc[c] = "idle"
    /\ Goto(c, "waiting")
    /\ UNCHANGED <<file, tickets, lock, up, ask, got>>

(* The first ticket of the request's class, or else the first.             *)
Chosen(c) ==
    LET ofClass == {i \in DOMAIN tickets :
                        ClassOf[RootOf[tickets[i]]] = ClassOf[ask[c]]}
        from == IF ofClass = {} THEN DOMAIN tickets ELSE ofClass
    IN  CHOOSE i \in from : \A j \in from : i <= j

HasLock(c) == up /\ pc[c] = "waiting" /\ lock = Nobody

TakeNone(c) ==
    /\ HasLock(c) /\ tickets = <<>>
    /\ Goto(c, "empty")
    /\ UNCHANGED <<file, tickets, lock, up, ask, got>>

(* A ticket bound to another request is dropped, in memory only.           *)
TakeUnbound(c) ==
    /\ HasLock(c) /\ tickets # <<>>
    /\ RootOf[tickets[Chosen(c)]] # ask[c]
    /\ tickets' = RemoveAt(tickets, Chosen(c))
    /\ Goto(c, "refused")
    /\ UNCHANGED <<file, lock, up, ask, got>>

(* Mutant: the mutex is given back before the file is written. *)
TakeUnlocked(c) ==
    /\ HasLock(c) /\ tickets # <<>>
    /\ RootOf[tickets[Chosen(c)]] = ask[c]
    /\ got' = [got EXCEPT ![c] = tickets[Chosen(c)]]
    /\ tickets' = RemoveAt(tickets, Chosen(c))
    /\ Goto(c, "truncate")
    /\ UNCHANGED <<file, lock, up, ask>>

TakeBound(c) ==
    /\ HasLock(c) /\ tickets # <<>>
    /\ RootOf[tickets[Chosen(c)]] = ask[c]
    /\ got' = [got EXCEPT ![c] = tickets[Chosen(c)]]
    /\ tickets' = RemoveAt(tickets, Chosen(c))
    /\ lock' = c
    /\ Goto(c, "truncate")
    /\ UNCHANGED <<file, up, ask>>

(* persist, under the mutex: the file is truncated, then written.          *)
Truncate(c) ==
    /\ pc[c] = "truncate"
    /\ file' = [torn |-> TRUE, list |-> <<>>]
    /\ Goto(c, "write")
    /\ UNCHANGED <<tickets, lock, up, ask, got>>

(* Mutant: the list is written as it was before the ticket was removed. *)
WriteBefore(c) ==
    /\ pc[c] = "write"
    /\ file' = [torn |-> FALSE, list |-> Append(tickets, got[c])]
    /\ lock' = Nobody
    /\ Goto(c, "handed")
    /\ UNCHANGED <<tickets, up, ask, got>>

Write(c) ==
    /\ pc[c] = "write"
    /\ file' = [torn |-> FALSE, list |-> tickets]
    /\ lock' = Nobody
    /\ Goto(c, "handed")
    /\ UNCHANGED <<tickets, up, ask, got>>

(* "Best-effort persistence": the ticket is handed out all the same.       *)
PersistFails(c) ==
    /\ "io" \in Faults
    /\ pc[c] \in {"truncate", "write"}
    /\ lock' = Nobody
    /\ Goto(c, "unsaved")
    /\ UNCHANGED <<file, tickets, up, ask, got>>

Crash ==
    /\ "crash" \in Faults /\ up
    /\ up' = FALSE /\ tickets' = <<>> /\ lock' = Nobody
    /\ pc' = [c \in Calls |-> IF pc[c] \in {"waiting", "truncate", "write"}
                              THEN "gone" ELSE pc[c]]
    /\ UNCHANGED <<file, ask, got>>

(* load: a client whose ticket file is torn does not start.                *)
Load ==
    /\ ~up /\ ~file.torn
    /\ up' = TRUE /\ tickets' = file.list
    /\ UNCHANGED <<file, lock, ask, got, pc>>

Next ==
    \/ \E c \in Calls :
          \/ Ask(c) \/ TakeNone(c) \/ TakeUnbound(c) \/ TakeBound(c)
          \/ Truncate(c) \/ Write(c) \/ PersistFails(c)
    \/ Crash \/ Load

Spec == Init /\ [][Next]_vars

-----------------------------------------------------------------------------
(* Properties.                                                             *)

(* The calls a ticket was handed to that the file knows of.                *)
Remembered == {c \in Calls : pc[c] = "handed"}

(* Once the file was written without a ticket that was handed out, nobody  *)
(* else who is remembered has it, and neither the list nor a file that a   *)
(* restart would accept has it back: not after a crash in the middle of a  *)
(* later write, not after a write that failed.                             *)
NoReuse ==
    /\ \A c, d \in Remembered : c # d => got[c] # got[d]
    /\ \A c \in Remembered :
          got[c] \notin Range(tickets) \cup Range(file.list)
=============================================================================
