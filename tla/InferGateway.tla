---------------------------- MODULE InferGateway ----------------------------
(***************************************************************************)
(* The gateway's handler for one encrypted inference request               *)
(* (gateway/src/main.rs, infer and infer_canonical) and the sled database  *)
(* in which it keeps one entry per ticket nullifier.                       *)
(*                                                                         *)
(* Many handlers run at once on a thread pool.  Each is a small program    *)
(* over `pc`; a step is one call that reads or changes shared state: a     *)
(* compare-and-swap, a get, a flush, a clock read, an awaited answer.      *)
(* Database calls are synchronous, so a handler can be dropped (its client *)
(* or relay went away) only where it awaits.                               *)
(*                                                                         *)
(* sled keeps its tree in memory and a log on disk.  A flush makes all     *)
(* that was logged before it durable; sled also flushes by itself.  After  *)
(* a crash the gateway restarts from the durable copy and every handler    *)
(* that was running is lost.                                               *)
(***************************************************************************)
EXTENDS Naturals

CONSTANTS
    Tasks,      \* the requests that may arrive
    Keys,       \* the replay keys of the tickets they carry
    TTL,        \* nullifier_pending_ttl_ms
    Horizon,    \* bound: no request arrives or takes its timestamp later
    MaxTime,    \* bound of the wall clock
    Faults      \* the disturbances allowed, a subset of FaultKinds

FaultKinds == {"crash", "cancel", "db", "clock", "verifier", "provider"}

ASSUME TTLAssumption == TTL \in Nat
ASSUME TimeAssumption == Horizon \in Nat /\ MaxTime \in Nat
ASSUME FaultsAssumption == Faults \subseteq FaultKinds

VARIABLES
    clock,      \* the wall clock, in milliseconds
    mem,        \* the database as the handlers see it: an entry per key
    disk,       \* what survives a crash
    pc,         \* where each request's handler is
    key,        \* the replay key of the request's ticket
    pend,       \* the timestamp in the handler's pending value
    seen,       \* the entry read on the slow path of reserve_nullifier
    reply       \* the payload the handler will seal: "ok" or an error code

db == <<mem, disk>>
vars == <<clock, mem, disk, pc, key, pend, seen, reply>>

-----------------------------------------------------------------------------
(* Database entries.  An entry is a status byte and a timestamp; nothing   *)
(* in it says which request wrote it.  No code reads the timestamp of a    *)
(* spent entry, so all spent entries are alike here.                       *)

Entry == [st : {"free", "p", "s"}, ts : Nat]
Free == [st |-> "free", ts |-> 0]
Pending(ts) == [st |-> "p", ts |-> ts]
Spent == [st |-> "s", ts |-> 0]

(* Mutant: the operands of the subtraction swapped. *)
ExpiredSwapped(ts) == ts > clock + TTL

(* now.saturating_sub(ts) > pending_ttl_ms *)
Expired(ts) == clock > ts + TTL

-----------------------------------------------------------------------------
(* Where a handler can be. *)

Awaiting == {"verify", "provider", "finalize"}
Working == {"encode", "fastcas", "fastflush", "get", "check", "slowcas",
            "slowflush", "releasecas", "releaseflush", "markcas", "markflush"}
Ended == {"sealed", "plain", "gone"}
Places == {"idle"} \cup Awaiting \cup Working \cup Ended

ErrorCodes == {"bad_request", "invalid_ticket", "internal", "double_spend",
               "upstream"}
Replies == {"none", "ok"} \cup ErrorCodes

(* A request holds its key from the moment its compare-and-swap succeeded  *)
(* until it releases the key or marks it spent.                            *)
Holding == {"fastflush", "slowflush", "provider", "releasecas", "markcas"}

TypeOK ==
    /\ clock \in Nat
    /\ mem \in [Keys -> Entry]
    /\ disk \in [Keys -> Entry]
    /\ pc \in [Tasks -> Places]
    /\ key \in [Tasks -> Keys]
    /\ pend \in [Tasks -> Nat]
    /\ seen \in [Tasks -> Entry]
    /\ reply \in [Tasks -> Replies]

Init ==
    /\ clock = 0
    /\ mem = [k \in Keys |-> Free]
    /\ disk = mem
    /\ pc = [t \in Tasks |-> "idle"]
    /\ key \in [Tasks -> Keys]
    /\ pend = [t \in Tasks |-> 0]
    /\ seen = [t \in Tasks |-> Free]
    /\ reply = [t \in Tasks |-> "none"]

Goto(t, place) == pc' = [pc EXCEPT ![t] = place]

(* The handler has its payload and goes on to finalize_encrypted_response. *)
Answer(t, r) ==
    /\ Goto(t, "finalize")
    /\ reply' = [reply EXCEPT ![t] = r]

(* One successful compare-and-swap on the entry of t's key. *)
Swap(t, old, new) ==
    /\ mem[key[t]] = old
    /\ mem' = [mem EXCEPT ![key[t]] = new]

-----------------------------------------------------------------------------
(* infer: the request arrives and is decrypted. *)

Arrive(t) ==
    /\ pc[t] = "idle" /\ clock <= Horizon
    /\ Goto(t, "verify")
    /\ UNCHANGED <<clock, db, key, pend, seen, reply>>

(* It cannot be decrypted or parsed: answered in plain text. *)
ArriveUnreadable(t) ==
    /\ pc[t] = "idle" /\ clock <= Horizon
    /\ Goto(t, "plain")
    /\ UNCHANGED <<clock, db, key, pend, seen, reply>>

(* Class mismatch, prompt too large, streaming asked for. *)
ArriveInvalid(t) ==
    /\ pc[t] = "idle" /\ clock <= Horizon
    /\ Answer(t, "bad_request")
    /\ UNCHANGED <<clock, db, key, pend, seen>>

(* The answer of the ticket verifier. *)
Verified(t) ==
    /\ pc[t] = "verify"
    /\ Goto(t, "encode")
    /\ UNCHANGED <<clock, db, key, pend, seen, reply>>

NotVerified(t) ==
    /\ pc[t] = "verify" /\ "verifier" \in Faults
    /\ \E r \in {"invalid_ticket", "internal"} : Answer(t, r)
    /\ UNCHANGED <<clock, db, key, pend, seen>>

(* pending_val takes the time before reserve_nullifier starts. *)
EncodePending(t) ==
    /\ pc[t] = "encode"
    /\ pend' = [pend EXCEPT ![t] = clock]
    /\ Goto(t, "fastcas")
    /\ UNCHANGED <<clock, db, key, seen, reply>>

-----------------------------------------------------------------------------
(* reserve_nullifier *)

FastCasWins(t) ==
    /\ pc[t] = "fastcas"
    /\ Swap(t, Free, Pending(pend[t]))
    /\ Goto(t, "fastflush")
    /\ UNCHANGED <<clock, disk, key, pend, seen, reply>>

FastCasLoses(t) ==
    /\ pc[t] = "fastcas"
    /\ mem[key[t]] # Free
    /\ Goto(t, "get")
    /\ UNCHANGED <<clock, db, key, pend, seen, reply>>

(* Mutant: the provider is called before the reservation is flushed. *)
ReserveNoFlush(t) ==
    /\ pc[t] \in {"fastflush", "slowflush"}
    /\ Goto(t, "provider")
    /\ UNCHANGED <<clock, db, key, pend, seen, reply>>

(* The flush that precedes the provider call, on either path. *)
ReserveFlush(t) ==
    /\ pc[t] \in {"fastflush", "slowflush"}
    /\ disk' = mem
    /\ Goto(t, "provider")
    /\ UNCHANGED <<clock, mem, key, pend, seen, reply>>

GetExisting(t) ==
    /\ pc[t] = "get"
    /\ seen' = [seen EXCEPT ![t] = mem[key[t]]]
    /\ Goto(t, "check")
    /\ UNCHANGED <<clock, db, key, pend, reply>>

(* Mutant: any pending entry may be replaced. *)
ReplaceableEarly(e) == e.st = "p"

(* Only a pending entry older than the TTL may be replaced. *)
Replaceable(e) == e.st = "p" /\ Expired(e.ts)

CheckStale(t) ==
    /\ pc[t] = "check" /\ Replaceable(seen[t])
    /\ Goto(t, "slowcas")
    /\ UNCHANGED <<clock, db, key, pend, seen, reply>>

(* Mutant: the reservation is retried until the key is free. *)
CheckUsedRetries(t) ==
    /\ pc[t] = "check" /\ ~Replaceable(seen[t])
    /\ Goto(t, "fastcas")
    /\ UNCHANGED <<clock, db, key, pend, seen, reply>>

CheckUsed(t) ==
    /\ pc[t] = "check" /\ ~Replaceable(seen[t])
    /\ Answer(t, "double_spend")
    /\ UNCHANGED <<clock, db, key, pend, seen>>

(* Mutant: the stale entry is cleared and the new one set, uncompared. *)
SlowCasUncompared(t) ==
    /\ pc[t] = "slowcas"
    /\ mem' = [mem EXCEPT ![key[t]] = Pending(pend[t])]
    /\ Goto(t, "slowflush")
    /\ UNCHANGED <<clock, disk, key, pend, seen, reply>>

SlowCasWins(t) ==
    /\ pc[t] = "slowcas"
    /\ Swap(t, seen[t], Pending(pend[t]))
    /\ Goto(t, "slowflush")
    /\ UNCHANGED <<clock, disk, key, pend, seen, reply>>

SlowCasLoses(t) ==
    /\ pc[t] = "slowcas"
    /\ mem[key[t]] # seen[t]
    /\ Answer(t, "double_spend")
    /\ UNCHANGED <<clock, db, key, pend, seen>>

-----------------------------------------------------------------------------
(* call_provider, and what follows either answer. *)

ProviderSucceeds(t) ==
    /\ pc[t] = "provider"
    /\ Goto(t, "markcas")
    /\ UNCHANGED <<clock, db, key, pend, seen, reply>>

ProviderFails(t) ==
    /\ pc[t] = "provider" /\ "provider" \in Faults
    /\ Goto(t, "releasecas")
    /\ UNCHANGED <<clock, db, key, pend, seen, reply>>

(* Mutants: the entry is removed whatever it is; or marked spent. *)
ReleaseUncompared(t) ==
    /\ pc[t] = "releasecas"
    /\ mem' = [mem EXCEPT ![key[t]] = Free]
    /\ Goto(t, "releaseflush")
    /\ UNCHANGED <<clock, disk, key, pend, seen, reply>>

ReleaseSpends(t) ==
    /\ pc[t] = "releasecas"
    /\ Swap(t, Pending(pend[t]), Spent)
    /\ Goto(t, "releaseflush")
    /\ UNCHANGED <<clock, disk, key, pend, seen, reply>>

(* release_pending_nullifier; a failure is logged and otherwise ignored. *)
ReleaseCasWins(t) ==
    /\ pc[t] = "releasecas"
    /\ Swap(t, Pending(pend[t]), Free)
    /\ Goto(t, "releaseflush")
    /\ UNCHANGED <<clock, disk, key, pend, seen, reply>>

ReleaseCasLoses(t) ==
    /\ pc[t] = "releasecas"
    /\ mem[key[t]] # Pending(pend[t])
    /\ Answer(t, "upstream")
    /\ UNCHANGED <<clock, db, key, pend, seen>>

ReleaseFlush(t) ==
    /\ pc[t] = "releaseflush"
    /\ disk' = mem
    /\ Answer(t, "upstream")
    /\ UNCHANGED <<clock, mem, key, pend, seen>>

(* Mutants: the mark is an insert; the mark is answered before a flush. *)
MarkUncompared(t) ==
    /\ pc[t] = "markcas"
    /\ mem' = [mem EXCEPT ![key[t]] = Spent]
    /\ Goto(t, "markflush")
    /\ UNCHANGED <<clock, disk, key, pend, seen, reply>>

MarkNoFlush(t) ==
    /\ pc[t] = "markflush"
    /\ Answer(t, "ok")
    /\ UNCHANGED <<clock, db, key, pend, seen>>

(* mark_nullifier_spent; only a success carries the provider's result. *)
MarkCasWins(t) ==
    /\ pc[t] = "markcas"
    /\ Swap(t, Pending(pend[t]), Spent)
    /\ Goto(t, "markflush")
    /\ UNCHANGED <<clock, disk, key, pend, seen, reply>>

MarkCasLoses(t) ==
    /\ pc[t] = "markcas"
    /\ mem[key[t]] # Pending(pend[t])
    /\ Answer(t, "internal")
    /\ UNCHANGED <<clock, db, key, pend, seen>>

MarkFlush(t) ==
    /\ pc[t] = "markflush"
    /\ disk' = mem
    /\ Answer(t, "ok")
    /\ UNCHANGED <<clock, mem, key, pend, seen>>

(* Any database call may return an error; it changes nothing, and what an  *)
(* earlier compare-and-swap left in memory stays there.                    *)
DbError(t) ==
    /\ "db" \in Faults
    /\ \/ /\ pc[t] \in {"fastcas", "fastflush", "get", "slowcas", "slowflush",
                        "markcas", "markflush"}
          /\ Answer(t, "internal")
       \/ /\ pc[t] \in {"releasecas", "releaseflush"}
          /\ Answer(t, "upstream")
    /\ UNCHANGED <<clock, db, key, pend, seen>>

-----------------------------------------------------------------------------
(* finalize_encrypted_response, after its delays: seal the payload. *)

Seal(t) ==
    /\ pc[t] = "finalize"
    /\ Goto(t, "sealed")
    /\ UNCHANGED <<clock, db, key, pend, seen, reply>>

(* The payload is larger than the class's response size: a plain HTTP 500. *)
SealTooLarge(t) ==
    /\ pc[t] = "finalize" /\ reply[t] = "ok"
    /\ Goto(t, "plain")
    /\ UNCHANGED <<clock, db, key, pend, seen, reply>>

(* What a handler does by itself once its request was read. *)
Step(t) ==
    \/ Verified(t) \/ NotVerified(t) \/ EncodePending(t)
    \/ FastCasWins(t) \/ FastCasLoses(t) \/ ReserveFlush(t)
    \/ GetExisting(t) \/ CheckStale(t) \/ CheckUsed(t)
    \/ SlowCasWins(t) \/ SlowCasLoses(t)
    \/ ProviderSucceeds(t) \/ ProviderFails(t)
    \/ ReleaseCasWins(t) \/ ReleaseCasLoses(t) \/ ReleaseFlush(t)
    \/ MarkCasWins(t) \/ MarkCasLoses(t) \/ MarkFlush(t)
    \/ DbError(t) \/ Seal(t) \/ SealTooLarge(t)

-----------------------------------------------------------------------------
(* The environment. *)

(* The connection is gone: the handler's future is dropped at an await. *)
Cancel(t) ==
    /\ "cancel" \in Faults
    /\ pc[t] \in Awaiting
    /\ Goto(t, "gone")
    /\ UNCHANGED <<clock, db, key, pend, seen, reply>>

(* The process dies and restarts from what is durable. *)
Crash ==
    /\ "crash" \in Faults
    /\ mem' = disk
    /\ pc' = [t \in Tasks |-> IF pc[t] \in Awaiting \cup Working
                              THEN "gone" ELSE pc[t]]
    /\ UNCHANGED <<clock, disk, key, pend, seen, reply>>

(* sled's own periodic flush. *)
BackgroundFlush ==
    /\ disk' = mem
    /\ UNCHANGED <<clock, mem, pc, key, pend, seen, reply>>

(* Time passes.  Past Horizon the clock waits for the requests that have   *)
(* not taken their timestamp, so that MaxTime bounds no reservation.       *)
Tick ==
    /\ clock < MaxTime
    /\ clock >= Horizon => \A t \in Tasks : pc[t] \notin {"verify", "encode"}
    /\ clock' = clock + 1
    /\ UNCHANGED <<db, pc, key, pend, seen, reply>>

(* Mutant: a clock before the epoch is not read as 0. *)
SetBackPastEpoch ==
    /\ "clock" \in Faults
    /\ clock' = clock - 1
    /\ UNCHANGED <<db, pc, key, pend, seen, reply>>

(* SystemTime is not monotone: the clock can be set back. *)
SetBack ==
    /\ "clock" \in Faults
    /\ clock > 0
    /\ clock' = clock - 1
    /\ UNCHANGED <<db, pc, key, pend, seen, reply>>

Next ==
    \/ \E t \in Tasks :
          \/ Arrive(t) \/ ArriveUnreadable(t) \/ ArriveInvalid(t)
          \/ Step(t)
          \/ Cancel(t)
    \/ Crash \/ BackgroundFlush \/ Tick \/ SetBack

Spec == Init /\ [][Next]_vars

(* A handler that can go on does: database calls return, and the HTTP      *)
(* clients of the verifier and of the provider have timeouts.  Time passes.*)
Fairness ==
    /\ \A t \in Tasks : WF_vars(Step(t))
    /\ WF_vars(Tick)

FairSpec == Spec /\ Fairness

-----------------------------------------------------------------------------
(* Properties.                                                             *)

(* The requests that got the provider's result for key k, and those of     *)
(* them whose sealed response left the gateway.                            *)
Winners(k) == {t \in Tasks : key[t] = k /\ reply[t] = "ok"}
Served(k) == {t \in Winners(k) : pc[t] = "sealed"}

(* However handlers interleave, are dropped, time out, lose their database *)
(* or crash, at most one request gets a provider result for one ticket     *)
(* (reserve_nullifier's compare-and-swaps and mark_nullifier_spent).       *)
AtMostOneServed == \A k \in Keys : \A t, u \in Winners(k) : t = u

(* A durable spent mark is never undone: neither the release of a          *)
(* reservation, nor the replacement of a stale one, nor a restart.         *)
SpentForGood == [][\A k \in Keys : disk[k] = Spent => disk'[k] = Spent]_vars

(* Whoever's ticket is marked spent, there is a request with that ticket   *)
(* that may have paid with it: it got its result (or only failed to seal   *)
(* it), lost its database or was lost itself.  A ticket is not spent when  *)
(* all its requests were told of a failed provider or a refusal (the       *)
(* release on the error path of infer_canonical).  Which of them spent it  *)
(* an entry does not say.                                                  *)
Payer(t) ==
    \/ pc[t] \in {"markflush", "gone"}
    \/ reply[t] = "ok"
    \/ reply[t] = "internal" /\ "db" \in Faults

PaidOnlyBySuccess ==
    \A k \in Keys : mem[k] = Spent => \E t \in Tasks : key[t] = k /\ Payer(t)

(* While a reservation is younger than the TTL nobody else takes, releases *)
(* or spends the key (the exact-value compare-and-swaps), although entries *)
(* do not name their owner.  Needs a clock that is not set back.           *)
FreshHold ==
    \A t \in Tasks :
        pc[t] \in Holding /\ ~Expired(pend[t])
            => mem[key[t]] = Pending(pend[t])

(* Two requests call the provider on one ticket only if the reservation of *)
(* one of them has outlived the TTL.                                       *)
ExclusiveProvider ==
    \A t, u \in Tasks :
        pc[t] = "provider" /\ pc[u] = "provider" /\ key[t] = key[u] /\ t # u
            => Expired(pend[t]) \/ Expired(pend[u])

(* "Replay reservation happens before provider execution": while the       *)
(* provider runs under a fresh reservation, a restart would find it.       *)
DurableReservation ==
    \A t \in Tasks :
        pc[t] = "provider" /\ ~Expired(pend[t])
            => disk[key[t]] = Pending(pend[t])

(* Every request that arrived is answered, in cipher or in plain text, or  *)
(* its connection is lost: no retry loop, no wait for another's key.       *)
EveryRequestEnds == \A t \in Tasks : pc[t] # "idle" ~> pc[t] \in Ended

(* "A crash mid-request doesn't permanently brick a ticket": a reservation *)
(* that its owner never resolves can be replaced in the end.               *)
NotBricked ==
    \A k \in Keys :
        mem[k].st = "p" ~> mem[k].st # "p" \/ Replaceable(mem[k])

(* The promise of OneTimeTicket, read from the durable copy.               *)
Ticket == INSTANCE OneTimeTicket WITH
    spent <- {k \in Keys : disk[k] = Spent},
    served <- [k \in Keys |-> Served(k)]

OneTime == Ticket!Spec
==============================================================================
