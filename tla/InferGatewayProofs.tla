-------------------------- MODULE InferGatewayProofs --------------------------
(***************************************************************************)
(* What holds of InferGateway for every set of requests and tickets, every *)
(* TTL and every bound.  TypeCorrect is used by all that follows.  The     *)
(* SpendInv part covers every fault, the HoldInv part needs a clock that   *)
(* is never set back.                                                      *)
(***************************************************************************)
EXTENDS InferGateway, TLAPS

-----------------------------------------------------------------------------
(* Type correctness.                                                       *)

(* No handler step breaks the types: every action of a request keeps the   *)
(* database entries, the places and the replies in their sets.             *)
LEMMA StepType ==
    ASSUME TypeOK, NEW t \in Tasks, Step(t) PROVE TypeOK'
<1> USE DEF TypeOK, Goto, Answer, Swap, db, Entry, Free, Pending, Spent,
            Places, Awaiting, Working, Ended, Replies, ErrorCodes
<1>1. CASE Verified(t) BY <1>1 DEF Verified
<1>2. CASE NotVerified(t) BY <1>2 DEF NotVerified
<1>3. CASE EncodePending(t) BY <1>3 DEF EncodePending
<1>4. CASE FastCasWins(t) BY <1>4 DEF FastCasWins
<1>5. CASE FastCasLoses(t) BY <1>5 DEF FastCasLoses
<1>6. CASE ReserveFlush(t) BY <1>6 DEF ReserveFlush
<1>7. CASE GetExisting(t) BY <1>7 DEF GetExisting
<1>8. CASE CheckStale(t) BY <1>8 DEF CheckStale
<1>9. CASE CheckUsed(t) BY <1>9 DEF CheckUsed
<1>10. CASE SlowCasWins(t) BY <1>10 DEF SlowCasWins
<1>11. CASE SlowCasLoses(t) BY <1>11 DEF SlowCasLoses
<1>12. CASE ProviderSucceeds(t) BY <1>12 DEF ProviderSucceeds
<1>13. CASE ProviderFails(t) BY <1>13 DEF ProviderFails
<1>14. CASE ReleaseCasWins(t) BY <1>14 DEF ReleaseCasWins
<1>15. CASE ReleaseCasLoses(t) BY <1>15 DEF ReleaseCasLoses
<1>16. CASE ReleaseFlush(t) BY <1>16 DEF ReleaseFlush
<1>17. CASE MarkCasWins(t) BY <1>17 DEF MarkCasWins
<1>18. CASE MarkCasLoses(t) BY <1>18 DEF MarkCasLoses
<1>19. CASE MarkFlush(t) BY <1>19 DEF MarkFlush
<1>20. CASE DbError(t) BY <1>20 DEF DbError
<1>21. CASE Seal(t) BY <1>21 DEF Seal
<1>22. CASE SealTooLarge(t) BY <1>22 DEF SealTooLarge
<1> QED
  BY <1>1, <1>2, <1>3, <1>4, <1>5, <1>6, <1>7, <1>8, <1>9, <1>10, <1>11,
     <1>12, <1>13, <1>14, <1>15, <1>16, <1>17, <1>18, <1>19, <1>20, <1>21,
     <1>22 DEF Step

(* Every reachable state has the declared types, whatever the instance.    *)
THEOREM TypeCorrect == Spec => []TypeOK
<1>1. Init => TypeOK
  BY DEF Init, TypeOK, Entry, Free, Places, Replies
<1>2. TypeOK /\ [Next]_vars => TypeOK'
  <2> SUFFICES ASSUME TypeOK, [Next]_vars PROVE TypeOK' OBVIOUS
  <2> USE DEF TypeOK, Goto, Answer, db, Places, Awaiting, Working, Ended,
              Replies, ErrorCodes
  <2>1. ASSUME NEW t \in Tasks, Arrive(t) PROVE TypeOK' BY <2>1 DEF Arrive
  <2>2. ASSUME NEW t \in Tasks, ArriveUnreadable(t) PROVE TypeOK'
    BY <2>2 DEF ArriveUnreadable
  <2>3. ASSUME NEW t \in Tasks, ArriveInvalid(t) PROVE TypeOK'
    BY <2>3 DEF ArriveInvalid
  <2>4. ASSUME NEW t \in Tasks, Cancel(t) PROVE TypeOK' BY <2>4 DEF Cancel
  <2>5. CASE Crash BY <2>5 DEF Crash
  <2>6. CASE BackgroundFlush BY <2>6 DEF BackgroundFlush
  <2>7. CASE Tick BY <2>7 DEF Tick
  <2>8. CASE SetBack BY <2>8 DEF SetBack
  <2>9. CASE UNCHANGED vars BY <2>9 DEF vars
  <2> QED BY StepType, <2>1, <2>2, <2>3, <2>4, <2>5, <2>6, <2>7, <2>8, <2>9
          DEF Next
<1> QED BY <1>1, <1>2, PTL DEF Spec

-----------------------------------------------------------------------------
(* One winner per ticket.                                                  *)

(* A request claims its ticket from the compare-and-swap that marks it     *)
(* spent: its provider result is on the way out, or is out.                *)
Claims(t) == pc[t] = "markflush" \/ reply[t] = "ok"

(* AtMostOneServed is not inductive: nothing in it stops a second request  *)
(* from passing mark_nullifier_spent.  What stops it is that the entry is  *)
(* spent, in memory from the compare-and-swap on and on disk before the    *)
(* result is answered, so that a crash cannot bring back "pending".        *)
SpendInv ==
    /\ \A k \in Keys : disk[k] = Spent => mem[k] = Spent
    /\ \A t \in Tasks : pc[t] = "markflush" => mem[key[t]] = Spent
    /\ \A t \in Tasks : reply[t] = "ok" => disk[key[t]] = Spent
    /\ \A t, u \in Tasks :
          Claims(t) /\ Claims(u) /\ key[t] = key[u] => t = u

(* The slow path replaces pending entries only: the check of the status    *)
(* byte still holds of the value the compare-and-swap expects.             *)
SeenInv == \A t \in Tasks : pc[t] = "slowcas" => seen[t].st = "p"

(* SeenInv is inductive: only CheckStale leads to the slow compare-and-swap*)
(* and only GetExisting changes what was read.                             *)
LEMMA SeenStep ==
    ASSUME TypeOK, SeenInv, [Next]_vars PROVE SeenInv'
<1> USE DEF TypeOK, SeenInv, Goto, Answer, Replaceable
<1>1. ASSUME NEW t \in Tasks, Step(t) PROVE SeenInv'
  <2>1. CASE CheckStale(t) BY <2>1 DEF CheckStale
  <2>2. CASE GetExisting(t) BY <2>2 DEF GetExisting
  <2>3. CASE Verified(t) \/ NotVerified(t) \/ EncodePending(t)
    BY <2>3 DEF Verified, NotVerified, EncodePending
  <2>4. CASE FastCasWins(t) \/ FastCasLoses(t) \/ ReserveFlush(t)
    BY <2>4 DEF FastCasWins, FastCasLoses, ReserveFlush
  <2>5. CASE CheckUsed(t) \/ SlowCasWins(t) \/ SlowCasLoses(t)
    BY <2>5 DEF CheckUsed, SlowCasWins, SlowCasLoses
  <2>6. CASE ProviderSucceeds(t) \/ ProviderFails(t) \/ DbError(t)
    BY <2>6 DEF ProviderSucceeds, ProviderFails, DbError
  <2>7. CASE ReleaseCasWins(t) \/ ReleaseCasLoses(t) \/ ReleaseFlush(t)
    BY <2>7 DEF ReleaseCasWins, ReleaseCasLoses, ReleaseFlush
  <2>8. CASE MarkCasWins(t) \/ MarkCasLoses(t) \/ MarkFlush(t)
    BY <2>8 DEF MarkCasWins, MarkCasLoses, MarkFlush
  <2>9. CASE Seal(t) \/ SealTooLarge(t)
    BY <2>9 DEF Seal, SealTooLarge
  <2> QED BY <1>1, <2>1, <2>2, <2>3, <2>4, <2>5, <2>6, <2>7, <2>8, <2>9
          DEF Step
<1>2. ASSUME NEW t \in Tasks,
             Arrive(t) \/ ArriveUnreadable(t) \/ ArriveInvalid(t) \/ Cancel(t)
      PROVE  SeenInv'
  BY <1>2 DEF Arrive, ArriveUnreadable, ArriveInvalid, Cancel
<1>3. CASE Crash \/ BackgroundFlush \/ Tick \/ SetBack \/ UNCHANGED vars
  BY <1>3 DEF Crash, BackgroundFlush, Tick, SetBack, vars
<1> QED BY <1>1, <1>2, <1>3 DEF Next

(* The three kinds of entry are different values. *)
LEMMA EntriesDiffer ==
    ASSUME NEW ts \in Nat
    PROVE  Free # Spent /\ Pending(ts) # Spent /\ Pending(ts) # Free
BY DEF Free, Spent, Pending

(* A step that leaves the database and the keys alone and creates no claim *)
(* keeps SpendInv: most steps of the handler are like this.                *)
LEMMA QuietStep ==
    ASSUME TypeOK, SpendInv, UNCHANGED <<db, key>>,
           \A u \in Tasks : pc'[u] = "markflush" => pc[u] = "markflush",
           \A u \in Tasks : reply'[u] = "ok" => reply[u] = "ok"
    PROVE  SpendInv'
<1>1. \A u \in Tasks : Claims(u)' => Claims(u)
  BY DEF Claims
<1> QED BY <1>1 DEF SpendInv, db

(* A step that only changes unspent entries in memory, or makes memory     *)
(* durable, keeps SpendInv too.                                            *)
LEMMA EntryStep ==
    ASSUME TypeOK, SpendInv, UNCHANGED key,
           \A k \in Keys : mem[k] = Spent => mem'[k] = Spent,
           disk' = disk \/ disk' = mem, mem' = mem \/ disk' = disk,
           \A u \in Tasks : pc'[u] = "markflush" => pc[u] = "markflush",
           \A u \in Tasks : reply'[u] = "ok" => reply[u] = "ok"
    PROVE  SpendInv'
<1>1. \A u \in Tasks : Claims(u)' => Claims(u)
  BY DEF Claims
<1>2. \A u \in Tasks : key[u] \in Keys
  BY DEF TypeOK
<1>3. \A k \in Keys : disk[k] = Spent => disk'[k] = Spent
  BY DEF SpendInv
<1>4. \A k \in Keys : disk'[k] = Spent => mem'[k] = Spent
  BY DEF SpendInv
<1> QED BY <1>1, <1>2, <1>3, <1>4 DEF SpendInv

(* The step that matters: whoever marks the entry spent found it pending,  *)
(* so nobody else claims it.                                               *)
LEMMA MarkStep ==
    ASSUME TypeOK, SpendInv, NEW t \in Tasks, MarkCasWins(t)
    PROVE  SpendInv'
<1> USE DEF MarkCasWins, Swap, Goto
<1>1. key[t] \in Keys /\ pend[t] \in Nat
  BY DEF TypeOK
<1>2. mem[key[t]] # Spent /\ disk[key[t]] # Spent
  BY <1>1, EntriesDiffer DEF SpendInv
<1>3. mem' = [mem EXCEPT ![key[t]] = Spent]
  OBVIOUS
<1>4. \A u \in Tasks : Claims(u) => key[u] # key[t]
  BY <1>2 DEF Claims, SpendInv
<1>5. \A u \in Tasks : Claims(u)' => u = t \/ Claims(u)
  BY DEF Claims, TypeOK
<1>6. \A k \in Keys : mem[k] = Spent => mem'[k] = Spent
  BY <1>3 DEF TypeOK
<1>7. mem'[key[t]] = Spent
  BY <1>1, <1>3 DEF TypeOK
<1>8. (\A k \in Keys : disk[k] = Spent => mem[k] = Spent)'
  BY <1>6 DEF SpendInv
<1>9. (\A u \in Tasks : pc[u] = "markflush" => mem[key[u]] = Spent)'
  BY <1>6, <1>7 DEF SpendInv, TypeOK
<1>10. (\A u \in Tasks : reply[u] = "ok" => disk[key[u]] = Spent)'
  BY DEF SpendInv
<1>11. (\A u, v \in Tasks :
          Claims(u) /\ Claims(v) /\ key[u] = key[v] => u = v)'
  BY <1>4, <1>5 DEF SpendInv
<1> QED BY <1>8, <1>9, <1>10, <1>11 DEF SpendInv

(* The flush that follows makes the mark durable before the result is      *)
(* answered.                                                               *)
LEMMA MarkFlushStep ==
    ASSUME TypeOK, SpendInv, NEW t \in Tasks, MarkFlush(t)
    PROVE  SpendInv'
<1> USE DEF MarkFlush, Answer, Goto
<1>1. \A u \in Tasks : key[u] \in Keys
  BY DEF TypeOK
<1>2. \A u \in Tasks : Claims(u)' => Claims(u)
  BY DEF Claims, TypeOK
<1>3. \A u \in Tasks : reply'[u] = "ok" => u = t \/ reply[u] = "ok"
  BY DEF TypeOK
<1>4. \A u \in Tasks : pc'[u] = "markflush" => pc[u] = "markflush"
  BY DEF TypeOK
<1>5. mem[key[t]] = Spent
  BY DEF SpendInv
<1>6. (\A u \in Tasks : reply[u] = "ok" => disk[key[u]] = Spent)'
  BY <1>1, <1>3, <1>5 DEF SpendInv
<1> QED BY <1>2, <1>4, <1>6 DEF SpendInv

(* SpendInv is preserved by every step of a request. *)
LEMMA SpendStep ==
    ASSUME TypeOK, SeenInv, SpendInv, NEW t \in Tasks, Step(t)
    PROVE  SpendInv'
<1> USE DEF Goto, Answer, Swap, db
<1>0. key[t] \in Keys /\ pend[t] \in Nat
  BY DEF TypeOK
<1>1. CASE Verified(t) BY <1>1, QuietStep DEF Verified, TypeOK
<1>2. CASE NotVerified(t) BY <1>2, QuietStep DEF NotVerified, TypeOK
<1>3. CASE EncodePending(t) BY <1>3, QuietStep DEF EncodePending, TypeOK
<1>4. CASE FastCasWins(t)
  BY <1>0, <1>4, EntryStep, EntriesDiffer DEF FastCasWins, TypeOK
<1>5. CASE FastCasLoses(t) BY <1>5, QuietStep DEF FastCasLoses, TypeOK
<1>6. CASE ReserveFlush(t) BY <1>6, EntryStep DEF ReserveFlush, TypeOK
<1>7. CASE GetExisting(t) BY <1>7, QuietStep DEF GetExisting, TypeOK
<1>8. CASE CheckStale(t) BY <1>8, QuietStep DEF CheckStale, TypeOK
<1>9. CASE CheckUsed(t) BY <1>9, QuietStep DEF CheckUsed, TypeOK
<1>10. CASE SlowCasWins(t)
  <2>1. seen[t] # Spent /\ seen[t] \in Entry
    BY <1>10 DEF SlowCasWins, SeenInv, Spent, TypeOK
  <2> QED BY <1>0, <1>10, <2>1, EntryStep DEF SlowCasWins, TypeOK
<1>11. CASE SlowCasLoses(t) BY <1>11, QuietStep DEF SlowCasLoses, TypeOK
<1>12. CASE ProviderSucceeds(t) BY <1>12, QuietStep DEF ProviderSucceeds, TypeOK
<1>13. CASE ProviderFails(t) BY <1>13, QuietStep DEF ProviderFails, TypeOK
<1>14. CASE ReleaseCasWins(t)
  BY <1>0, <1>14, EntryStep, EntriesDiffer DEF ReleaseCasWins, TypeOK
<1>15. CASE ReleaseCasLoses(t) BY <1>15, QuietStep DEF ReleaseCasLoses, TypeOK
<1>16. CASE ReleaseFlush(t) BY <1>16, EntryStep DEF ReleaseFlush, TypeOK
<1>17. CASE MarkCasWins(t) BY <1>17, MarkStep
<1>18. CASE MarkCasLoses(t) BY <1>18, QuietStep DEF MarkCasLoses, TypeOK
<1>19. CASE MarkFlush(t) BY <1>19, MarkFlushStep
<1>20. CASE DbError(t) BY <1>20, QuietStep DEF DbError, TypeOK
<1>21. CASE Seal(t) BY <1>21, QuietStep DEF Seal, TypeOK
<1>22. CASE SealTooLarge(t) BY <1>22, QuietStep DEF SealTooLarge, TypeOK
<1> QED
  BY <1>1, <1>2, <1>3, <1>4, <1>5, <1>6, <1>7, <1>8, <1>9, <1>10, <1>11,
     <1>12, <1>13, <1>14, <1>15, <1>16, <1>17, <1>18, <1>19, <1>20, <1>21,
     <1>22 DEF Step

(* SpendInv is preserved by a crash: what the restart reads from disk is   *)
(* spent for every request that was answered, and nobody else claims.      *)
LEMMA CrashStep ==
    ASSUME TypeOK, SpendInv, Crash PROVE SpendInv'
<1> USE DEF Crash
<1>1. \A u \in Tasks : pc'[u] # "markflush"
  BY DEF TypeOK, Working, Awaiting, Ended, Places
<1>2. \A u \in Tasks : Claims(u)' => Claims(u)
  BY <1>1 DEF Claims
<1> QED BY <1>1, <1>2 DEF SpendInv

(* SpendInv is inductive, relative to the types and to SeenInv.            *)
LEMMA SpendNext ==
    ASSUME TypeOK, SeenInv, SpendInv, [Next]_vars PROVE SpendInv'
<1> USE DEF Goto, Answer
<1>1. ASSUME NEW t \in Tasks, Step(t) PROVE SpendInv'
  BY <1>1, SpendStep
<1>2. ASSUME NEW t \in Tasks,
             Arrive(t) \/ ArriveUnreadable(t) \/ ArriveInvalid(t) \/ Cancel(t)
      PROVE  SpendInv'
  BY <1>2, QuietStep
     DEF Arrive, ArriveUnreadable, ArriveInvalid, Cancel, TypeOK
<1>3. CASE Crash BY <1>3, CrashStep
<1>4. CASE BackgroundFlush BY <1>4, EntryStep DEF BackgroundFlush
<1>5. CASE Tick \/ SetBack BY <1>5, QuietStep DEF Tick, SetBack
<1>6. CASE UNCHANGED vars BY <1>6, QuietStep DEF vars, db
<1> QED BY <1>1, <1>2, <1>3, <1>4, <1>5, <1>6 DEF Next

(* The strengthened invariant holds of every reachable state. *)
THEOREM SpendCorrect == Spec => [](TypeOK /\ SeenInv /\ SpendInv)
<1>1. Init => SeenInv /\ SpendInv
  BY DEF Init, SeenInv, SpendInv, Claims, Free, Spent
<1>2. TypeOK /\ (SeenInv /\ SpendInv) /\ [Next]_vars => (SeenInv /\ SpendInv)'
  BY SeenStep, SpendNext
<1> QED BY <1>1, <1>2, TypeCorrect, PTL DEF Spec

(* At most one request gets a provider result for one ticket, for any      *)
(* number of requests, any TTL, any clock and any faults: the purpose of   *)
(* the nullifier database (infer_canonical).                               *)
THEOREM OneWinner == Spec => []AtMostOneServed
<1>1. SpendInv => AtMostOneServed
  BY DEF SpendInv, AtMostOneServed, Winners, Claims
<1> QED BY <1>1, SpendCorrect, PTL

(* A flush is the only thing that changes the durable copy, and it writes  *)
(* the whole of memory.                                                    *)
LEMMA DiskStep == [Next]_vars => disk' = disk \/ disk' = mem
BY DEF Next, vars, db, Step, Goto, Answer, Swap, Arrive, ArriveUnreadable,
       ArriveInvalid, Cancel, Crash, BackgroundFlush, Tick, SetBack,
       Verified, NotVerified, EncodePending, FastCasWins, FastCasLoses,
       ReserveFlush, GetExisting, CheckStale, CheckUsed, SlowCasWins,
       SlowCasLoses, ProviderSucceeds, ProviderFails, ReleaseCasWins,
       ReleaseCasLoses, ReleaseFlush, MarkCasWins, MarkCasLoses,
       MarkFlush, DbError, Seal, SealTooLarge

(* A durable spent mark is never undone, by any step or restart.           *)
THEOREM SpentStays == Spec => SpentForGood
<1>1. TypeOK /\ SpendInv /\ [Next]_vars
        => [\A k \in Keys : disk[k] = Spent => disk'[k] = Spent]_vars
  <2> SUFFICES ASSUME TypeOK, SpendInv, [Next]_vars,
                      NEW k \in Keys, disk[k] = Spent
               PROVE  disk'[k] = Spent
    OBVIOUS
  <2>1. mem[k] = Spent
    BY DEF SpendInv
  <2>2. disk' = disk \/ disk' = mem
    BY DiskStep
  <2> QED BY <2>1, <2>2
<1> QED BY <1>1, SpendCorrect, PTL DEF Spec, SpentForGood

-----------------------------------------------------------------------------
(* Tickets are paid for by successes only.                                 *)

(* A request has a payload only once its handler has left the part that    *)
(* touches the database. *)
ReplyInv ==
    \A t \in Tasks : reply[t] # "none" => pc[t] \in {"finalize"} \cup Ended

(* ReplyInv is inductive: Answer sets both, and no step leads back.        *)
LEMMA ReplyStep ==
    ASSUME TypeOK, ReplyInv, [Next]_vars PROVE ReplyInv'
<1> USE DEF TypeOK, ReplyInv, Goto, Answer, Ended
<1>1. ASSUME NEW t \in Tasks, Step(t) PROVE ReplyInv'
  <2>1. CASE Verified(t) \/ NotVerified(t) \/ EncodePending(t)
    BY <2>1 DEF Verified, NotVerified, EncodePending
  <2>2. CASE FastCasWins(t) \/ FastCasLoses(t) \/ ReserveFlush(t)
    BY <2>2 DEF FastCasWins, FastCasLoses, ReserveFlush
  <2>3. CASE GetExisting(t) \/ CheckStale(t) \/ CheckUsed(t)
    BY <2>3 DEF GetExisting, CheckStale, CheckUsed
  <2>4. CASE SlowCasWins(t) \/ SlowCasLoses(t)
    BY <2>4 DEF SlowCasWins, SlowCasLoses
  <2>5. CASE ProviderSucceeds(t) \/ ProviderFails(t) \/ DbError(t)
    BY <2>5 DEF ProviderSucceeds, ProviderFails, DbError
  <2>6. CASE ReleaseCasWins(t) \/ ReleaseCasLoses(t) \/ ReleaseFlush(t)
    BY <2>6 DEF ReleaseCasWins, ReleaseCasLoses, ReleaseFlush
  <2>7. CASE MarkCasWins(t) \/ MarkCasLoses(t) \/ MarkFlush(t)
    BY <2>7 DEF MarkCasWins, MarkCasLoses, MarkFlush
  <2>8. CASE Seal(t) \/ SealTooLarge(t)
    BY <2>8 DEF Seal, SealTooLarge
  <2> QED BY <1>1, <2>1, <2>2, <2>3, <2>4, <2>5, <2>6, <2>7, <2>8 DEF Step
<1>2. ASSUME NEW t \in Tasks,
             Arrive(t) \/ ArriveUnreadable(t) \/ ArriveInvalid(t) \/ Cancel(t)
      PROVE  ReplyInv'
  BY <1>2 DEF Arrive, ArriveUnreadable, ArriveInvalid, Cancel
<1>3. CASE Crash \/ BackgroundFlush \/ Tick \/ SetBack \/ UNCHANGED vars
  BY <1>3 DEF Crash, BackgroundFlush, Tick, SetBack, vars
<1> QED BY <1>1, <1>2, <1>3 DEF Next

(* Whoever explains a spent ticket keeps explaining it.                    *)
LEMMA PayerStays ==
    ASSUME TypeOK, ReplyInv, [Next]_vars, NEW u \in Tasks, Payer(u)
    PROVE  Payer(u)'
<1> USE DEF TypeOK, ReplyInv, Payer, Goto, Answer, Ended, Awaiting, Working
<1>1. ASSUME NEW t \in Tasks, Step(t) PROVE Payer(u)'
  <2>1. CASE Verified(t) \/ NotVerified(t) \/ EncodePending(t)
    BY <2>1 DEF Verified, NotVerified, EncodePending
  <2>2. CASE FastCasWins(t) \/ FastCasLoses(t) \/ ReserveFlush(t)
    BY <2>2 DEF FastCasWins, FastCasLoses, ReserveFlush
  <2>3. CASE GetExisting(t) \/ CheckStale(t) \/ CheckUsed(t)
    BY <2>3 DEF GetExisting, CheckStale, CheckUsed
  <2>4. CASE SlowCasWins(t) \/ SlowCasLoses(t)
    BY <2>4 DEF SlowCasWins, SlowCasLoses
  <2>5. CASE ProviderSucceeds(t) \/ ProviderFails(t) \/ DbError(t)
    BY <2>5 DEF ProviderSucceeds, ProviderFails, DbError
  <2>6. CASE ReleaseCasWins(t) \/ ReleaseCasLoses(t) \/ ReleaseFlush(t)
    BY <2>6 DEF ReleaseCasWins, ReleaseCasLoses, ReleaseFlush
  <2>7. CASE MarkCasWins(t) \/ MarkCasLoses(t) \/ MarkFlush(t)
    BY <2>7 DEF MarkCasWins, MarkCasLoses, MarkFlush
  <2>8. CASE Seal(t) \/ SealTooLarge(t)
    BY <2>8 DEF Seal, SealTooLarge
  <2> QED BY <1>1, <2>1, <2>2, <2>3, <2>4, <2>5, <2>6, <2>7, <2>8 DEF Step
<1>2. ASSUME NEW t \in Tasks,
             Arrive(t) \/ ArriveUnreadable(t) \/ ArriveInvalid(t) \/ Cancel(t)
      PROVE  Payer(u)'
  BY <1>2 DEF Arrive, ArriveUnreadable, ArriveInvalid, Cancel
<1>3. CASE Crash \/ BackgroundFlush \/ Tick \/ SetBack \/ UNCHANGED vars
  BY <1>3 DEF Crash, BackgroundFlush, Tick, SetBack, vars
<1> QED BY <1>1, <1>2, <1>3 DEF Next

(* Only mark_nullifier_spent makes an entry spent.                         *)
LEMMA OnlyMarkSpends ==
    ASSUME TypeOK, SpendInv, SeenInv, [Next]_vars,
           NEW k \in Keys, mem'[k] = Spent, mem[k] # Spent
    PROVE  \E t \in Tasks : key[t] = k /\ MarkCasWins(t)
<1> USE DEF Goto, Answer, db
<1>1. ASSUME NEW t \in Tasks, Step(t)
      PROVE  key[t] = k /\ MarkCasWins(t)
  <2>0. key[t] \in Keys /\ pend[t] \in Nat
    BY DEF TypeOK
  <2>1. CASE MarkCasWins(t) BY <2>1 DEF MarkCasWins, Swap, TypeOK
  <2>2. CASE FastCasWins(t)
    BY <2>0, <2>2, EntriesDiffer DEF FastCasWins, Swap, TypeOK
  <2>3. CASE SlowCasWins(t)
    BY <2>0, <2>3, EntriesDiffer DEF SlowCasWins, Swap, TypeOK
  <2>4. CASE ReleaseCasWins(t)
    BY <2>0, <2>4, EntriesDiffer DEF ReleaseCasWins, Swap, TypeOK
  <2>5. CASE mem' = mem BY <2>5
  <2> QED
    BY <1>1, <2>1, <2>2, <2>3, <2>4, <2>5
       DEF Step, Verified, NotVerified, EncodePending, FastCasLoses,
           ReserveFlush, GetExisting, CheckStale, CheckUsed, SlowCasLoses,
           ProviderSucceeds, ProviderFails, ReleaseCasLoses, ReleaseFlush,
           MarkCasLoses, MarkFlush, DbError, Seal, SealTooLarge
<1>2. CASE Crash BY <1>2 DEF Crash, SpendInv
<1>3. CASE mem' = mem BY <1>3
<1> QED
  BY <1>1, <1>2, <1>3
     DEF Next, vars, Arrive, ArriveUnreadable, ArriveInvalid, Cancel,
         BackgroundFlush, Tick, SetBack

(* No ticket is spent when every request with it was told of a failed      *)
(* provider or a refusal: some request got through, or was lost on its     *)
(* way, whatever the interleaving (the release on the error path of        *)
(* infer_canonical).                                                       *)
THEOREM PaidBySuccess == Spec => []PaidOnlyBySuccess
<1>1. Init => ReplyInv /\ PaidOnlyBySuccess
  BY DEF Init, ReplyInv, PaidOnlyBySuccess, Free, Spent
<1>2. TypeOK /\ SeenInv /\ SpendInv /\ ReplyInv /\ PaidOnlyBySuccess
        /\ [Next]_vars => PaidOnlyBySuccess'
  <2> SUFFICES ASSUME TypeOK, SeenInv, SpendInv, ReplyInv, PaidOnlyBySuccess,
                      [Next]_vars, NEW k \in Keys, mem'[k] = Spent
               PROVE  \E t \in Tasks : (key[t] = k /\ Payer(t))'
    BY DEF PaidOnlyBySuccess
  <2>1. key' = key
    BY DEF Next, vars, db, Step, Goto, Answer, Swap, Arrive, ArriveUnreadable,
           ArriveInvalid, Cancel, Crash, BackgroundFlush, Tick, SetBack,
           Verified, NotVerified, EncodePending, FastCasWins, FastCasLoses,
           ReserveFlush, GetExisting, CheckStale, CheckUsed, SlowCasWins,
           SlowCasLoses, ProviderSucceeds, ProviderFails, ReleaseCasWins,
           ReleaseCasLoses, ReleaseFlush, MarkCasWins, MarkCasLoses,
           MarkFlush, DbError, Seal, SealTooLarge
  <2>2. CASE mem[k] = Spent
    BY <2>1, <2>2, PayerStays DEF PaidOnlyBySuccess
  <2>3. CASE mem[k] # Spent
    BY <2>1, <2>3, OnlyMarkSpends DEF MarkCasWins, Goto, Payer, TypeOK
  <2> QED BY <2>2, <2>3
<1>3. TypeOK /\ ReplyInv /\ [Next]_vars => ReplyInv'
  BY ReplyStep
<1> QED BY <1>1, <1>2, <1>3, SpendCorrect, PTL DEF Spec

-----------------------------------------------------------------------------
(* The gateway implements OneTimeTicket.                                   *)

(* Only Seal sends a provider result out.                                  *)
LEMMA OnlySealServes ==
    ASSUME TypeOK, ReplyInv, [Next]_vars
    PROVE  \/ \E t \in Tasks : Seal(t) /\ reply[t] = "ok"
           \/ \A k \in Keys : Served(k)' = Served(k)
<1> DEFINE Out(u) == reply[u] = "ok" /\ pc[u] = "sealed"
<1> USE DEF TypeOK, ReplyInv, Goto, Answer, Ended, Awaiting, Working
<1>1. ASSUME NEW t \in Tasks, Step(t), ~(Seal(t) /\ reply[t] = "ok"),
             NEW u \in Tasks
      PROVE  key'[u] = key[u] /\ (Out(u)' <=> Out(u))
  <2>1. CASE Verified(t) \/ NotVerified(t) \/ EncodePending(t)
    BY <2>1 DEF Verified, NotVerified, EncodePending
  <2>2. CASE FastCasWins(t) \/ FastCasLoses(t) \/ ReserveFlush(t)
    BY <2>2 DEF FastCasWins, FastCasLoses, ReserveFlush
  <2>3. CASE GetExisting(t) \/ CheckStale(t) \/ CheckUsed(t)
    BY <2>3 DEF GetExisting, CheckStale, CheckUsed
  <2>4. CASE SlowCasWins(t) \/ SlowCasLoses(t)
    BY <2>4 DEF SlowCasWins, SlowCasLoses
  <2>5. CASE ProviderSucceeds(t) \/ ProviderFails(t) \/ DbError(t)
    BY <2>5 DEF ProviderSucceeds, ProviderFails, DbError
  <2>6. CASE ReleaseCasWins(t) \/ ReleaseCasLoses(t) \/ ReleaseFlush(t)
    BY <2>6 DEF ReleaseCasWins, ReleaseCasLoses, ReleaseFlush
  <2>7. CASE MarkCasWins(t) \/ MarkCasLoses(t) \/ MarkFlush(t)
    BY <2>7 DEF MarkCasWins, MarkCasLoses, MarkFlush
  <2>8. CASE Seal(t) \/ SealTooLarge(t)
    BY <1>1, <2>8 DEF Seal, SealTooLarge
  <2> QED BY <1>1, <2>1, <2>2, <2>3, <2>4, <2>5, <2>6, <2>7, <2>8 DEF Step
<1>2. ASSUME NEW t \in Tasks, NEW u \in Tasks,
             Arrive(t) \/ ArriveUnreadable(t) \/ ArriveInvalid(t) \/ Cancel(t)
      PROVE  key'[u] = key[u] /\ (Out(u)' <=> Out(u))
  BY <1>2 DEF Arrive, ArriveUnreadable, ArriveInvalid, Cancel
<1>3. ASSUME NEW u \in Tasks,
             Crash \/ BackgroundFlush \/ Tick \/ SetBack \/ UNCHANGED vars
      PROVE  key'[u] = key[u] /\ (Out(u)' <=> Out(u))
  BY <1>3 DEF Crash, BackgroundFlush, Tick, SetBack, vars
<1>4. \/ \E t \in Tasks : Seal(t) /\ reply[t] = "ok"
      \/ \A u \in Tasks : key'[u] = key[u] /\ (Out(u)' <=> Out(u))
  BY <1>1, <1>2, <1>3 DEF Next
<1> QED BY <1>4 DEF Served, Winners

(* Sealing a provider result is OneTimeTicket's Serve: its ticket is       *)
(* durably spent and was never served before.                              *)
LEMMA SealServes ==
    ASSUME TypeOK, SpendInv, NEW t \in Tasks, Seal(t), reply[t] = "ok"
    PROVE  Ticket!Serve(t, key[t])
<1> USE DEF Seal, Goto, db
<1>1. key[t] \in Keys
  BY DEF TypeOK
<1>2. key[t] \in {k \in Keys : disk[k] = Spent}
  BY <1>1 DEF SpendInv
<1>3. Served(key[t]) = {}
  BY DEF SpendInv, Claims, Served, Winners
<1>4. Served(key[t])' = {t}
  BY DEF SpendInv, Claims, Served, Winners, TypeOK
<1>5. \A k \in Keys : k # key[t] => Served(k)' = Served(k)
  BY DEF Served, Winners, TypeOK
<1> DEFINE old == [k \in Keys |-> Served(k)]
<1>6. old' = [old EXCEPT ![key[t]] = {t}]
  BY <1>1, <1>4, <1>5
<1>7. {k \in Keys : disk[k] = Spent}' = {k \in Keys : disk[k] = Spent}
  OBVIOUS
<1> QED BY <1>1, <1>2, <1>3, <1>6, <1>7 DEF Ticket!Serve

(* The detailed gateway keeps the promise: every step of it is a step of   *)
(* OneTimeTicket, where a ticket is spent when its mark is durable and     *)
(* served when a provider result is sealed, or leaves both unchanged.      *)
THEOREM Implements == Spec => OneTime
<1>1. Init => Ticket!Init
  BY DEF Init, Ticket!Init, Free, Spent, Served, Winners
<1>2. TypeOK /\ SpendInv /\ ReplyInv /\ [Next]_vars
        => [Ticket!Next]_(Ticket!vars)
  <2> SUFFICES ASSUME TypeOK, SpendInv, ReplyInv, [Next]_vars
               PROVE  Ticket!Next \/ UNCHANGED Ticket!vars
    OBVIOUS
  <2>1. CASE \E t \in Tasks : Seal(t) /\ reply[t] = "ok"
    <3>1. PICK t \in Tasks : Seal(t) /\ reply[t] = "ok" BY <2>1
    <3>2. key[t] \in Keys BY DEF TypeOK
    <3> QED BY <3>1, <3>2, SealServes DEF Ticket!Next
  <2>2. CASE \A k \in Keys : Served(k)' = Served(k)
    <3> DEFINE now == {k \in Keys : disk[k] = Spent}
    <3>1. \A k \in Keys : disk[k] = Spent => disk'[k] = Spent
      BY DiskStep DEF SpendInv
    <3>2. now' = now \cup now' /\ now' \in SUBSET Keys
      BY <3>1
    <3>3. [k \in Keys |-> Served(k)]' = [k \in Keys |-> Served(k)]
      BY <2>2
    <3>4. \E K \in SUBSET Keys : Ticket!Spend(K)
      BY <3>2, <3>3 DEF Ticket!Spend
    <3> QED BY <3>4 DEF Ticket!Next
  <2> QED BY <2>1, <2>2, OnlySealServes
<1>3. Init => ReplyInv
  BY DEF Init, ReplyInv
<1>4. TypeOK /\ ReplyInv /\ [Next]_vars => ReplyInv'
  BY ReplyStep
<1> QED BY <1>1, <1>2, <1>3, <1>4, SpendCorrect, PTL
        DEF Spec, OneTime, Ticket!Spec

-----------------------------------------------------------------------------
(* Reservations younger than the TTL.                                      *)

(* What an entry says about its owner, with a clock that never goes back:  *)
(* a reservation that has not expired is the entry in memory, and on disk  *)
(* once the provider is called, and of two requests that hold one ticket   *)
(* one has expired.  The last conjunct is what makes it inductive: the     *)
(* slow path replaces only what has expired.  Two reservations can carry   *)
(* the same timestamp, but then both have expired.                         *)
HoldInv ==
    /\ FreshHold
    /\ \A t, u \in Tasks :
          /\ pc[t] \in Holding /\ pc[u] \in Holding
          /\ key[t] = key[u] /\ t # u
          => Expired(pend[t]) \/ Expired(pend[u])
    /\ DurableReservation
    /\ \A t \in Tasks : pc[t] = "slowcas" => Replaceable(seen[t])

(* Steps that change no entry in memory and start no reservation.          *)
LEMMA CalmStep ==
    ASSUME TypeOK, HoldInv, UNCHANGED <<mem, key>>,
           clock' \in Nat, clock' >= clock, disk' = disk \/ disk' = mem,
           \A u \in Tasks : pc'[u] \in Holding =>
               pc[u] \in Holding /\ pend'[u] = pend[u],
           \A u \in Tasks : pc'[u] = "provider" =>
               pc[u] = "provider" \/ disk' = mem,
           \A u \in Tasks : pc'[u] = "slowcas" => Replaceable(seen[u])'
    PROVE  HoldInv'
<1>1. \A u \in Tasks : pend[u] \in Nat /\ key[u] \in Keys
  BY DEF TypeOK
<1>2. \A u \in Tasks :
         pc'[u] \in Holding /\ Expired(pend[u]) => Expired(pend[u])'
  BY <1>1, TTLAssumption DEF Expired, TypeOK
<1>3. FreshHold'
  BY <1>2 DEF HoldInv, FreshHold
<1>4. (\A t, u \in Tasks :
          /\ pc[t] \in Holding /\ pc[u] \in Holding
          /\ key[t] = key[u] /\ t # u
          => Expired(pend[t]) \/ Expired(pend[u]))'
  BY <1>2 DEF HoldInv
<1>5. DurableReservation'
  BY <1>1, <1>2 DEF HoldInv, FreshHold, DurableReservation, Holding
<1>6. (\A u \in Tasks : pc[u] = "slowcas" => Replaceable(seen[u]))'
  OBVIOUS
<1> QED BY <1>3, <1>4, <1>5, <1>6 DEF HoldInv

(* A request that takes a free or a stale entry: no other reservation of   *)
(* that ticket was still fresh.                                            *)
LEMMA TakeStep ==
    ASSUME TypeOK, HoldInv, NEW t \in Tasks,
           FastCasWins(t) \/ SlowCasWins(t)
    PROVE  HoldInv'
<1> USE DEF FastCasWins, SlowCasWins, Swap, Goto
<1>1. \A u \in Tasks : pend[u] \in Nat /\ key[u] \in Keys
  BY DEF TypeOK
<1>2. ASSUME NEW u \in Tasks, pc[u] \in Holding, key[u] = key[t]
      PROVE  Expired(pend[u])
  <2>1. SUFFICES ASSUME ~Expired(pend[u]) PROVE FALSE
    OBVIOUS
  <2>2. mem[key[t]] = Pending(pend[u])
    BY <1>2, <2>1 DEF HoldInv, FreshHold
  <2>3. CASE FastCasWins(t)
    BY <1>1, <2>2, <2>3, EntriesDiffer
  <2>4. CASE SlowCasWins(t)
    BY <1>1, <2>1, <2>2, <2>4 DEF HoldInv, Replaceable, Pending
  <2> QED BY <2>3, <2>4
<1>3. mem' = [mem EXCEPT ![key[t]] = Pending(pend[t])]
      /\ UNCHANGED <<clock, disk, key, pend, seen>>
  OBVIOUS
<1>4. pc[t] \notin Holding
  BY DEF Holding
<1>5. \A u \in Tasks : u # t => pc'[u] = pc[u]
  BY DEF TypeOK
<1>6. pc'[t] \in {"fastflush", "slowflush"}
  BY DEF TypeOK
<1>7. \A ts \in Nat : Expired(ts)' <=> Expired(ts)
  BY <1>3 DEF Expired
<1>8. FreshHold'
  BY <1>1, <1>2, <1>3, <1>5, <1>7 DEF HoldInv, FreshHold, TypeOK
<1>9. (\A v, u \in Tasks :
          /\ pc[v] \in Holding /\ pc[u] \in Holding
          /\ key[v] = key[u] /\ v # u
          => Expired(pend[v]) \/ Expired(pend[u]))'
  BY <1>1, <1>2, <1>3, <1>5, <1>7 DEF HoldInv
<1>10. DurableReservation'
  BY <1>1, <1>3, <1>5, <1>6, <1>7 DEF HoldInv, DurableReservation
<1>11. (\A u \in Tasks : pc[u] = "slowcas" => Replaceable(seen[u]))'
  BY <1>3, <1>5, <1>6 DEF HoldInv, Replaceable, Expired
<1> QED BY <1>8, <1>9, <1>10, <1>11 DEF HoldInv

(* A request that releases its ticket or marks it spent: the entry it      *)
(* found is its own, or equal to its own and then both have expired.       *)
LEMMA LeaveStep ==
    ASSUME TypeOK, HoldInv, NEW t \in Tasks,
           ReleaseCasWins(t) \/ MarkCasWins(t)
    PROVE  HoldInv'
<1> USE DEF ReleaseCasWins, MarkCasWins, Swap, Goto
<1>1. \A u \in Tasks : pend[u] \in Nat /\ key[u] \in Keys
  BY DEF TypeOK
<1>2. pc[t] \in Holding /\ mem[key[t]] = Pending(pend[t])
  BY DEF Holding
<1>3. ASSUME NEW u \in Tasks, u # t, pc[u] \in Holding, key[u] = key[t]
      PROVE  Expired(pend[u])
  <2>1. SUFFICES ASSUME ~Expired(pend[u]) PROVE FALSE
    OBVIOUS
  <2>2. Pending(pend[t]) = Pending(pend[u])
    BY <1>2, <1>3, <2>1 DEF HoldInv, FreshHold
  <2>3. pend[t] = pend[u]
    BY <2>2 DEF Pending
  <2> QED BY <1>2, <1>3, <2>1, <2>3 DEF HoldInv
<1>4. UNCHANGED <<clock, disk, key, pend, seen>>
      /\ \E e \in {Free, Spent} : mem' = [mem EXCEPT ![key[t]] = e]
  OBVIOUS
<1>5. pc'[t] \in {"releaseflush", "markflush"}
      /\ \A u \in Tasks : u # t => pc'[u] = pc[u]
  BY DEF TypeOK
<1>6. pc'[t] \notin Holding
  BY <1>5 DEF Holding
<1>7. \A ts \in Nat : Expired(ts)' <=> Expired(ts)
  BY <1>4 DEF Expired
<1>8. FreshHold'
  BY <1>1, <1>3, <1>4, <1>5, <1>6, <1>7 DEF HoldInv, FreshHold, TypeOK
<1>9. (\A v, u \in Tasks :
          /\ pc[v] \in Holding /\ pc[u] \in Holding
          /\ key[v] = key[u] /\ v # u
          => Expired(pend[v]) \/ Expired(pend[u]))'
  BY <1>1, <1>4, <1>5, <1>6, <1>7 DEF HoldInv
<1>10. DurableReservation'
  BY <1>1, <1>4, <1>5, <1>7 DEF HoldInv, DurableReservation
<1>11. (\A u \in Tasks : pc[u] = "slowcas" => Replaceable(seen[u]))'
  BY <1>4, <1>5 DEF HoldInv, Replaceable, Expired
<1> QED BY <1>8, <1>9, <1>10, <1>11 DEF HoldInv

(* Every step of a request keeps HoldInv. *)
LEMMA HoldStep ==
    ASSUME TypeOK, HoldInv, NEW t \in Tasks, Step(t) PROVE HoldInv'
<1> USE DEF Goto, Answer, db, Holding
<1>1. \A u \in Tasks : pc[u] = "slowcas" => Replaceable(seen[u])
  BY DEF HoldInv
<1> USE DEF TypeOK
<1>3. CASE FastCasWins(t) \/ SlowCasWins(t) BY <1>3, TakeStep
<1>4. CASE ReleaseCasWins(t) \/ MarkCasWins(t) BY <1>4, LeaveStep
<1>5. CASE CheckStale(t)
  BY <1>1, <1>5, CalmStep DEF CheckStale, Replaceable, Expired
<1>6. CASE ReserveFlush(t)
  BY <1>1, <1>6, CalmStep DEF ReserveFlush, Replaceable, Expired
<1>7. CASE EncodePending(t)
  BY <1>1, <1>7, CalmStep DEF EncodePending, Replaceable, Expired
<1>8. CASE GetExisting(t)
  BY <1>1, <1>8, CalmStep DEF GetExisting, Replaceable, Expired
<1>9. CASE Verified(t) \/ NotVerified(t)
  BY <1>1, <1>9, CalmStep DEF Verified, NotVerified, Replaceable, Expired
<1>10. CASE FastCasLoses(t) \/ CheckUsed(t) \/ SlowCasLoses(t)
  BY <1>1, <1>10, CalmStep
     DEF FastCasLoses, CheckUsed, SlowCasLoses, Replaceable, Expired
<1>11. CASE ProviderSucceeds(t) \/ ProviderFails(t)
  BY <1>1, <1>11, CalmStep
     DEF ProviderSucceeds, ProviderFails, Replaceable, Expired
<1>12. CASE ReleaseCasLoses(t) \/ ReleaseFlush(t)
  BY <1>1, <1>12, CalmStep
     DEF ReleaseCasLoses, ReleaseFlush, Replaceable, Expired
<1>13. CASE MarkCasLoses(t) \/ MarkFlush(t)
  BY <1>1, <1>13, CalmStep DEF MarkCasLoses, MarkFlush, Replaceable, Expired
<1>14. CASE DbError(t)
  BY <1>1, <1>14, CalmStep DEF DbError, Replaceable, Expired
<1>15. CASE Seal(t) \/ SealTooLarge(t)
  BY <1>1, <1>15, CalmStep DEF Seal, SealTooLarge, Replaceable, Expired
<1> QED BY <1>3, <1>4, <1>5, <1>6, <1>7, <1>8, <1>9, <1>10, <1>11, <1>12,
           <1>13, <1>14, <1>15 DEF Step

(* HoldInv is inductive when the clock is never set back.                  *)
LEMMA HoldNext ==
    ASSUME "clock" \notin Faults, TypeOK, HoldInv, [Next]_vars
    PROVE  HoldInv'
<1> USE DEF Goto, Answer, db, Holding, TypeOK
<1>1. \A u \in Tasks : pc[u] = "slowcas" => Replaceable(seen[u])
  BY DEF HoldInv
<1>2. ASSUME NEW t \in Tasks, Step(t) PROVE HoldInv'
  BY <1>2, HoldStep
<1>3. ASSUME NEW t \in Tasks,
             Arrive(t) \/ ArriveUnreadable(t) \/ ArriveInvalid(t) \/ Cancel(t)
      PROVE  HoldInv'
  BY <1>1, <1>3, CalmStep DEF Arrive, ArriveUnreadable, ArriveInvalid, Cancel,
     Replaceable, Expired
<1>4. CASE Crash
  <2>1. \A u \in Tasks : pc'[u] \notin Holding /\ pc'[u] # "slowcas"
    BY <1>4 DEF Crash, Places, Awaiting, Working, Ended
  <2> QED BY <2>1 DEF HoldInv, FreshHold, DurableReservation
<1>5. CASE BackgroundFlush
  BY <1>1, <1>5, CalmStep DEF BackgroundFlush, Replaceable, Expired
<1>6. CASE Tick
  <2>1. \A u \in Tasks : seen[u].ts \in Nat
    BY DEF Entry
  <2>2. \A u \in Tasks : pc'[u] = "slowcas" => Replaceable(seen[u])'
    BY <1>1, <1>6, <2>1, TTLAssumption DEF Tick, Replaceable, Expired
  <2> QED BY <1>6, <2>2, CalmStep DEF Tick
<1>7. CASE SetBack BY <1>7 DEF SetBack
<1>8. CASE UNCHANGED vars
  BY <1>1, <1>8, CalmStep DEF vars, Replaceable, Expired
<1> QED BY <1>2, <1>3, <1>4, <1>5, <1>6, <1>7, <1>8 DEF Next

(* With a clock that never goes back, a reservation younger than the TTL   *)
(* is respected: nobody takes, releases or spends its ticket, two requests *)
(* do not pay the provider with it, and a restart finds it (the exact-     *)
(* value compare-and-swaps and the flush before call_provider).            *)
THEOREM FreshReservation ==
    ASSUME "clock" \notin Faults
    PROVE  Spec => [](FreshHold /\ ExclusiveProvider /\ DurableReservation)
<1>1. Init => HoldInv
  BY DEF Init, HoldInv, FreshHold, DurableReservation, Holding
<1>2. TypeOK /\ HoldInv /\ [Next]_vars => HoldInv'
  BY HoldNext
<1>3. HoldInv => FreshHold /\ ExclusiveProvider /\ DurableReservation
  BY DEF HoldInv, ExclusiveProvider, Holding
<1> QED BY <1>1, <1>2, <1>3, TypeCorrect, PTL DEF Spec
-----------------------------------------------------------------------------
(* What the liveness of the gateway rests on.                              *)

(* The steps a handler has still before it at most.                        *)
Ahead == [idle |-> 12, verify |-> 11, encode |-> 10, fastcas |-> 9, get |-> 8,
          check |-> 7, slowcas |-> 6, fastflush |-> 5, slowflush |-> 5,
          provider |-> 4, markcas |-> 3, releasecas |-> 3, markflush |-> 2,
          releaseflush |-> 2, finalize |-> 1, sealed |-> 0, plain |-> 0,
          gone |-> 0]

(* No handler goes back or waits in a loop, and none starts again. *)
NoWayBack ==
    [][\A t \in Tasks :
          pc'[t] # pc[t] => Ahead[pc'[t]] < Ahead[pc[t]]]_vars

(* reserve_nullifier tries each of its two ways once, and neither release  *)
(* nor mark is tried again: a request is at its end after twelve steps at  *)
(* most, whatever other requests, errors and crashes do in between.        *)
THEOREM HandlersAdvance == Spec => NoWayBack
<1>1. ASSUME TypeOK, [Next]_vars, NEW t \in Tasks, pc'[t] # pc[t]
      PROVE  Ahead[pc'[t]] < Ahead[pc[t]]
  <2> USE DEF TypeOK, Goto, Answer, Ahead
  <2>1. ASSUME NEW u \in Tasks, Step(u) PROVE Ahead[pc'[t]] < Ahead[pc[t]]
    <3>1. u = t
      BY <1>1, <2>1
      DEF Step, Verified, NotVerified, EncodePending, FastCasWins,
          FastCasLoses, ReserveFlush, GetExisting, CheckStale, CheckUsed,
          SlowCasWins, SlowCasLoses, ProviderSucceeds, ProviderFails,
          ReleaseCasWins, ReleaseCasLoses, ReleaseFlush, MarkCasWins,
          MarkCasLoses, MarkFlush, DbError, Seal, SealTooLarge
    <3>2. CASE Verified(t) \/ NotVerified(t) \/ EncodePending(t)
      BY <1>1, <3>2 DEF Verified, NotVerified, EncodePending
    <3>3. CASE FastCasWins(t) \/ FastCasLoses(t) \/ ReserveFlush(t)
      BY <1>1, <3>3 DEF FastCasWins, FastCasLoses, ReserveFlush
    <3>4. CASE GetExisting(t) \/ CheckStale(t) \/ CheckUsed(t)
      BY <1>1, <3>4 DEF GetExisting, CheckStale, CheckUsed
    <3>5. CASE SlowCasWins(t) \/ SlowCasLoses(t)
      BY <1>1, <3>5 DEF SlowCasWins, SlowCasLoses
    <3>6. CASE ProviderSucceeds(t) \/ ProviderFails(t)
      BY <1>1, <3>6 DEF ProviderSucceeds, ProviderFails
    <3>7. CASE ReleaseCasWins(t) \/ ReleaseCasLoses(t) \/ ReleaseFlush(t)
      BY <1>1, <3>7 DEF ReleaseCasWins, ReleaseCasLoses, ReleaseFlush
    <3>8. CASE MarkCasWins(t) \/ MarkCasLoses(t) \/ MarkFlush(t)
      BY <1>1, <3>8 DEF MarkCasWins, MarkCasLoses, MarkFlush
    <3>9. CASE DbError(t) BY <1>1, <3>9 DEF DbError
    <3>10. CASE Seal(t) \/ SealTooLarge(t) BY <1>1, <3>10 DEF Seal, SealTooLarge
    <3> QED
      BY <2>1, <3>1, <3>2, <3>3, <3>4, <3>5, <3>6, <3>7, <3>8, <3>9, <3>10
      DEF Step
  <2>2. ASSUME NEW u \in Tasks,
               Arrive(u) \/ ArriveUnreadable(u) \/ ArriveInvalid(u)
        PROVE  Ahead[pc'[t]] < Ahead[pc[t]]
    BY <1>1, <2>2 DEF Arrive, ArriveUnreadable, ArriveInvalid
  <2>3. ASSUME NEW u \in Tasks, Cancel(u) PROVE Ahead[pc'[t]] < Ahead[pc[t]]
    BY <1>1, <2>3 DEF Cancel, Awaiting
  <2>4. CASE Crash
    <3>1. pc[t] \in Awaiting \cup Working /\ pc'[t] = "gone"
      BY <1>1, <2>4 DEF Crash
    <3> QED BY <1>1, <3>1 DEF Awaiting, Working
  <2>5. CASE BackgroundFlush \/ Tick \/ SetBack \/ UNCHANGED vars
    BY <1>1, <2>5 DEF BackgroundFlush, Tick, SetBack, vars
  <2> QED BY <1>1, <2>1, <2>2, <2>3, <2>4, <2>5 DEF Next
<1>2. TypeOK /\ [Next]_vars =>
        [\A t \in Tasks : pc'[t] # pc[t] => Ahead[pc'[t]] < Ahead[pc[t]]]_vars
  BY <1>1
<1> QED BY <1>2, TypeCorrect, PTL DEF Spec, NoWayBack

(* No entry, in memory or on disk, and no request about to write one is    *)
(* stamped later than now.                                                 *)
StampedPast ==
    /\ \A k \in Keys : mem[k].ts <= clock /\ disk[k].ts <= clock
    /\ \A t \in Tasks : pend[t] <= clock

(* With a clock that never goes back a reservation, also one found after a *)
(* restart, is as old as its stamp says: one TTL later at the latest it is *)
(* stale, and CheckStale lets the next request for the ticket take it.     *)
THEOREM ReservationsAge ==
    ASSUME "clock" \notin Faults PROVE Spec => []StampedPast
<1>1. Init => StampedPast BY DEF Init, StampedPast, Free
<1>2. ASSUME TypeOK, StampedPast, [Next]_vars PROVE StampedPast'
  <2> USE DEF TypeOK, StampedPast, db
  <2>1. ASSUME NEW t \in Tasks, Step(t) PROVE StampedPast'
    <3>1. CASE EncodePending(t) BY <1>2, <3>1 DEF EncodePending
    <3>2. CASE FastCasWins(t) \/ SlowCasWins(t)
      BY <1>2, <3>2 DEF FastCasWins, SlowCasWins, Swap, Pending
    <3>3. CASE ReleaseCasWins(t) \/ MarkCasWins(t)
      BY <1>2, <3>3 DEF ReleaseCasWins, MarkCasWins, Swap, Free, Spent
    <3>4. CASE ReserveFlush(t) \/ ReleaseFlush(t) \/ MarkFlush(t)
      BY <1>2, <3>4 DEF ReserveFlush, ReleaseFlush, MarkFlush
    <3>5. CASE UNCHANGED <<clock, mem, disk, pend>> BY <1>2, <3>5
    <3> QED
      BY <2>1, <3>1, <3>2, <3>3, <3>4, <3>5
      DEF Step, Verified, NotVerified, FastCasLoses, GetExisting, CheckStale,
          CheckUsed, SlowCasLoses, ProviderSucceeds, ProviderFails,
          ReleaseCasLoses, MarkCasLoses, DbError, Seal, SealTooLarge
  <2>2. ASSUME NEW t \in Tasks,
               Arrive(t) \/ ArriveUnreadable(t) \/ ArriveInvalid(t) \/ Cancel(t)
        PROVE  StampedPast'
    BY <1>2, <2>2 DEF Arrive, ArriveUnreadable, ArriveInvalid, Cancel
  <2>3. CASE Crash \/ BackgroundFlush BY <1>2, <2>3 DEF Crash, BackgroundFlush
  <2>4. CASE Tick
    <3>1. /\ \A k \in Keys : mem[k].ts \in Nat /\ disk[k].ts \in Nat
          /\ \A t \in Tasks : pend[t] \in Nat
      BY <1>2 DEF Entry
    <3> QED BY <1>2, <2>4, <3>1 DEF Tick
  <2>5. CASE SetBack BY <1>2, <2>5 DEF SetBack
  <2>6. CASE UNCHANGED vars BY <1>2, <2>6 DEF vars
  <2> QED BY <1>2, <2>1, <2>2, <2>3, <2>4, <2>5, <2>6 DEF Next
<1> QED BY <1>1, <1>2, TypeCorrect, PTL DEF Spec
=============================================================================
