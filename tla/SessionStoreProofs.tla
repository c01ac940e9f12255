------------------------- MODULE SessionStoreProofs -------------------------
(***************************************************************************)
(* What holds of SessionStore for every set of calls, sessions and files.  *)
(* One runtime per session, one turn at a time and locks that are never    *)
(* waited for in a circle need no assumption.  That no reply is lost and   *)
(* that no session sees another's words need a file per session; the first *)
(* also that no save fails and that nobody creates the session meanwhile.  *)
(***************************************************************************)
EXTENDS SessionStore, TLAPS

(* No two sessions share a file. *)
FilePerSession == \A i, j \in Ids : PathOf[i] = PathOf[j] => i = j

-----------------------------------------------------------------------------
(* Type correctness.                                                       *)


(* No step of a call breaks the types. *)
LEMMA StepType ==
    ASSUME TypeOK, NEW c \in Calls, Step(c) PROVE TypeOK'
<1> USE NoCallAssumption, PathAssumption
    DEF TypeOK, Goto, Got, Unlock, PathFor, Places, Creating, Rechecking,
        Building, Using, Inside, Ended
<1>1. CASE AlreadyExists(c) BY <1>1 DEF AlreadyExists
<1>2. CASE NotThere(c) BY <1>2 DEF NotThere
<1>3. CASE Truncate(c)
  BY <1>3 DEF Truncate, AfterTrunc, Torn, File, NewSession, Session
<1>4. CASE Fill(c)
  BY <1>4 DEF Fill, AfterFill, Whole, Saved, File, NewSession, Session
<1>5. CASE SaveFails(c) BY <1>5 DEF SaveFails, AfterTrunc, AfterFill
<1>6. CASE LookupHit(c) BY <1>6 DEF LookupHit
<1>7. CASE LookupMiss(c) BY <1>7 DEF LookupMiss
<1>8. CASE LockMap(c) BY <1>8 DEF LockMap
<1>9. CASE RecheckHit(c) BY <1>9 DEF RecheckHit
<1>10. CASE RecheckMiss(c) BY <1>10 DEF RecheckMiss
<1>11. CASE OpenWhole(c) BY <1>11 DEF OpenWhole, File
<1>12. CASE OpenTorn(c) BY <1>12 DEF OpenTorn
<1>13. CASE OpenAbsent(c) BY <1>13 DEF OpenAbsent, NewSession, Session
<1>14. CASE Insert(c) BY <1>14 DEF Insert
<1>15. CASE LockAgent(c) BY <1>15 DEF LockAgent, Session
<1>16. CASE Edit(c) BY <1>16 DEF Edit, Session
<1>17. CASE Read(c) BY <1>17 DEF Read
<1>18. CASE Reply(c) BY <1>18, SMTT(30) DEF Reply, Session
<1>19. CASE NoReply(c) BY <1>19 DEF NoReply
<1>20. CASE Summarize(c) BY <1>20 DEF Summarize
<1> QED
  BY <1>1, <1>2, <1>3, <1>4, <1>5, <1>6, <1>7, <1>8, <1>9, <1>10, <1>11,
     <1>12, <1>13, <1>14, <1>15, <1>16, <1>17, <1>18, <1>19, <1>20 DEF Step

(* Every reachable state has the declared types, whatever the instance.    *)
THEOREM TypeCorrect == Spec => []TypeOK
<1>1. Init => TypeOK
  BY DEF Init, TypeOK, File, Absent, NewSession, Session, Places, Using,
         Inside
<1>2. TypeOK /\ [Next]_vars => TypeOK'
  <2> SUFFICES ASSUME TypeOK, [Next]_vars PROVE TypeOK' OBVIOUS
  <2> USE DEF TypeOK, Goto, Unlock, Places, Creating, Using, Inside, Ended
  <2>1. ASSUME NEW c \in Calls, StartCreate(c) PROVE TypeOK'
    BY <2>1 DEF StartCreate
  <2>2. ASSUME NEW c \in Calls, StartUse(c) PROVE TypeOK'
    BY <2>2 DEF StartUse
  <2>3. ASSUME NEW c \in Calls, Cancel(c) PROVE TypeOK'
    BY <2>3 DEF Cancel
  <2>4. CASE Crash BY <2>4 DEF Crash
  <2>5. CASE UNCHANGED vars BY <2>5 DEF vars
  <2> QED BY StepType, <2>1, <2>2, <2>3, <2>4, <2>5 DEF Next
<1> QED BY <1>1, <1>2, PTL DEF Spec
-----------------------------------------------------------------------------
(* One runtime per session.                                                *)

(* OneRuntime is not inductive: nothing in it says why a call that builds  *)
(* a runtime is alone.  It is because it holds the map's write lock, and   *)
(* looked at the map again after it got it; so a runtime in use is the one *)
(* in the map, until a crash empties both.                                 *)
LockHeld == \A c \in Calls : pc[c] \in Rechecking \cup Building <=> mapLock = c
BuildsFirst == \A c \in Calls : pc[c] \in Building => sessions[id[c]] = NoCall
UsesMapped == \A c \in Calls : pc[c] \in Using => agent[c] = sessions[id[c]]
(* A runtime in the map is of its session, and its builder is done.        *)
MappedBuilt ==
    \A i \in Ids : sessions[i] # NoCall =>
        /\ id[sessions[i]] = i
        /\ pc[sessions[i]] \in Using \cup Ended

MapInv == LockHeld /\ BuildsFirst /\ UsesMapped /\ MappedBuilt

(* A step that leaves the map and what calls found in it alone, and moves  *)
(* one call between places that need no lock, or within the same part of   *)
(* get_or_load, keeps MapInv.                                              *)
LEMMA QuietStep ==
    ASSUME TypeOK, MapInv, UNCHANGED <<sessions, mapLock, agent, id>>,
           NEW c \in Calls, NEW place \in Places, Goto(c, place),
           pc[c] \in Rechecking \cup Building
                <=> place \in Rechecking \cup Building,
           place \in Building =>
                pc[c] \in Building \/ sessions[id[c]] = NoCall,
           place \in Using => pc[c] \in Using,
           pc[c] \in Using \cup Ended => place \in Using \cup Ended
    PROVE  MapInv'
<1> USE DEF TypeOK, Goto, MapInv
<1>1. LockHeld' BY DEF LockHeld
<1>2. BuildsFirst' BY DEF BuildsFirst
<1>3. UsesMapped' BY DEF UsesMapped
<1>4. MappedBuilt' BY DEF MappedBuilt
<1> QED BY <1>1, <1>2, <1>3, <1>4

(* A call that takes its runtime from the map, with or without the lock.   *)
LEMMA GotStep ==
    ASSUME TypeOK, MapInv, NEW c \in Calls, UNCHANGED <<sessions, id>>,
           sessions[id[c]] # NoCall, Got(c, sessions[id[c]]),
           \/ pc[c] = "lookup" /\ UNCHANGED mapLock
           \/ pc[c] = "recheck" /\ mapLock' = NoCall
    PROVE  MapInv'
<1> USE NoCallAssumption
    DEF TypeOK, Goto, Got, MapInv, Rechecking, Building, Using, Inside, Ended
<1>1. LockHeld' BY DEF LockHeld
<1>2. BuildsFirst' BY DEF BuildsFirst
<1>3. UsesMapped' BY DEF UsesMapped
<1>4. MappedBuilt' BY DEF MappedBuilt
<1> QED BY <1>1, <1>2, <1>3, <1>4

(* The builder enters its runtime and gives the lock back.                 *)
LEMMA InsertStep ==
    ASSUME TypeOK, MapInv, NEW c \in Calls, Insert(c) PROVE MapInv'
<1> USE NoCallAssumption
    DEF TypeOK, Goto, Got, Insert, MapInv, Rechecking, Building, Using,
        Inside, Ended
<1>1. LockHeld' BY DEF LockHeld
<1>2. BuildsFirst' BY DEF BuildsFirst, LockHeld
<1>3. UsesMapped' BY DEF UsesMapped, BuildsFirst
<1>4. MappedBuilt' BY DEF MappedBuilt
<1> QED BY <1>1, <1>2, <1>3, <1>4

LEMMA MapStep ==
    ASSUME TypeOK, MapInv, [Next]_vars PROVE MapInv'
<1> USE DEF Places, Creating, Rechecking, Building, Using, Inside, Ended
<1>1. ASSUME NEW c \in Calls, Step(c) PROVE MapInv'
  <2> USE DEF TypeOK
  <2>1. CASE AlreadyExists(c) BY <2>1, QuietStep DEF AlreadyExists
  <2>2. CASE NotThere(c) BY <2>2, QuietStep DEF NotThere
  <2>3. CASE Truncate(c) BY <2>3, QuietStep DEF Truncate, AfterTrunc
  <2>4. CASE Fill(c) BY <2>4, QuietStep DEF Fill, AfterFill
  <2>5. CASE SaveFails(c)
    BY <2>5, QuietStep DEF SaveFails, AfterTrunc, AfterFill
  <2>6. CASE LookupHit(c) BY <2>6, GotStep DEF LookupHit
  <2>7. CASE LookupMiss(c) BY <2>7, QuietStep DEF LookupMiss
  <2>8. CASE LockMap(c)
    BY <2>8, NoCallAssumption
    DEF LockMap, Goto, MapInv, LockHeld, BuildsFirst, UsesMapped, MappedBuilt
  <2>9. CASE RecheckHit(c) BY <2>9, GotStep DEF RecheckHit
  <2>10. CASE RecheckMiss(c) BY <2>10, QuietStep DEF RecheckMiss
  <2>11. CASE OpenWhole(c) BY <2>11, QuietStep DEF OpenWhole
  <2>12. CASE OpenTorn(c)
    BY <2>12, NoCallAssumption
    DEF OpenTorn, Goto, MapInv, LockHeld, BuildsFirst, UsesMapped, MappedBuilt
  <2>13. CASE OpenAbsent(c) BY <2>13, QuietStep DEF OpenAbsent
  <2>14. CASE Insert(c) BY <2>14, InsertStep
  <2>15. CASE LockAgent(c) BY <2>15, QuietStep DEF LockAgent
  <2>16. CASE Edit(c) BY <2>16, QuietStep DEF Edit
  <2>17. CASE Read(c) BY <2>17, QuietStep DEF Read
  <2>18. CASE Reply(c) BY <2>18, QuietStep DEF Reply
  <2>19. CASE NoReply(c) BY <2>19, QuietStep DEF NoReply
  <2>20. CASE Summarize(c) BY <2>20, QuietStep DEF Summarize
  <2> QED
    BY <1>1, <2>1, <2>2, <2>3, <2>4, <2>5, <2>6, <2>7, <2>8, <2>9, <2>10,
       <2>11, <2>12, <2>13, <2>14, <2>15, <2>16, <2>17, <2>18, <2>19, <2>20
    DEF Step
<1>2. ASSUME NEW c \in Calls, StartCreate(c) PROVE MapInv'
  BY <1>2, QuietStep DEF StartCreate
<1>3. ASSUME NEW c \in Calls, StartUse(c) PROVE MapInv'
  BY <1>3, QuietStep DEF StartUse
<1>4. ASSUME NEW c \in Calls, Cancel(c) PROVE MapInv'
  BY <1>4, QuietStep DEF Cancel, Awaiting
<1>5. CASE Crash
  BY <1>5, NoCallAssumption
  DEF Crash, TypeOK, MapInv, LockHeld, BuildsFirst, UsesMapped, MappedBuilt
<1>6. CASE UNCHANGED vars
  BY <1>6 DEF vars, MapInv, LockHeld, BuildsFirst, UsesMapped, MappedBuilt
<1> QED BY <1>1, <1>2, <1>3, <1>4, <1>5, <1>6 DEF Next

(* The map's invariant holds in every reachable state. *)
THEOREM MapCorrect == Spec => []MapInv
<1>1. Init => MapInv
  BY NoCallAssumption
  DEF Init, MapInv, LockHeld, BuildsFirst, UsesMapped, MappedBuilt,
      Rechecking, Building, Using, Inside
<1>2. TypeOK /\ MapInv /\ [Next]_vars => MapInv'
  BY MapStep
<1> QED BY <1>1, <1>2, TypeCorrect, PTL DEF Spec

(* get_or_load's double check: calls about one session never work on two   *)
(* runtimes, whatever crashes, hangs up or fails.                          *)
THEOREM SingleRuntime == Spec => []OneRuntime
<1>1. MapInv => OneRuntime BY DEF MapInv, UsesMapped, OneRuntime
<1> QED BY <1>1, MapCorrect, PTL
-----------------------------------------------------------------------------
(* One turn at a time, and nobody waits in a circle.                       *)

(* Who holds a runtime's mutex is in a turn or an edit of that runtime,    *)
(* and the other way round; the guard is dropped with the future.          *)
MutexHeld ==
    /\ \A b \in Calls : owner[b] # NoCall =>
            pc[owner[b]] \in Inside /\ agent[owner[b]] = b
    /\ \A c \in Calls : pc[c] \in Inside => owner[agent[c]] = c

(* A step that leaves mutexes and runtimes alone, and moves one call       *)
(* neither into a turn nor out of it.                                      *)
LEMMA MutexQuiet ==
    ASSUME TypeOK, MutexHeld, UNCHANGED owner,
           NEW c \in Calls, NEW place \in Places, Goto(c, place),
           pc[c] \in Inside <=> place \in Inside,
           \A d \in Calls : pc[d] \in Inside => agent'[d] = agent[d]
    PROVE  MutexHeld'
BY DEF TypeOK, Goto, MutexHeld

(* A step after which a call holds no mutex and is in no turn. *)
LEMMA MutexFreed ==
    ASSUME TypeOK, MutexHeld, NEW c \in Calls, NEW place \in Places,
           Goto(c, place), Unlock(c), UNCHANGED agent, place \notin Inside
    PROVE  MutexHeld'
BY NoCallAssumption DEF TypeOK, Goto, Unlock, MutexHeld, Using

(* A call that takes the mutex it finds free. *)
LEMMA MutexTaken ==
    ASSUME TypeOK, MutexHeld, NEW c \in Calls, NEW place \in Inside,
           pc[c] = "wantagent", owner[agent[c]] = NoCall,
           owner' = [owner EXCEPT ![agent[c]] = c],
           Goto(c, place), UNCHANGED agent
    PROVE  MutexHeld'
<1>1. agent[c] \in Calls BY DEF TypeOK, Using
<1>2. pc[c] \notin Inside BY DEF Inside
<1> QED BY <1>1, <1>2, NoCallAssumption DEF TypeOK, Goto, MutexHeld

LEMMA MutexStep ==
    ASSUME TypeOK, MutexHeld, [Next]_vars PROVE MutexHeld'
<1> USE DEF Places, Creating, Rechecking, Building, Using, Inside, Ended
<1>1. ASSUME NEW c \in Calls, Step(c) PROVE MutexHeld'
  <2>1. CASE AlreadyExists(c) BY <2>1, MutexQuiet DEF AlreadyExists
  <2>2. CASE NotThere(c) BY <2>2, MutexQuiet DEF NotThere
  <2>3. CASE Truncate(c) BY <2>3, MutexQuiet DEF Truncate, AfterTrunc
  <2>4. CASE Fill(c) BY <2>4, MutexFreed DEF Fill, AfterFill
  <2>5. CASE SaveFails(c)
    BY <2>5, MutexFreed DEF SaveFails, AfterTrunc, AfterFill
  <2>6. CASE LookupHit(c) BY <2>6, MutexQuiet DEF LookupHit, Got, TypeOK
  <2>7. CASE LookupMiss(c) BY <2>7, MutexQuiet DEF LookupMiss
  <2>8. CASE LockMap(c) BY <2>8, MutexQuiet DEF LockMap
  <2>9. CASE RecheckHit(c) BY <2>9, MutexQuiet DEF RecheckHit, Got, TypeOK
  <2>10. CASE RecheckMiss(c) BY <2>10, MutexQuiet DEF RecheckMiss
  <2>11. CASE OpenWhole(c) BY <2>11, MutexQuiet DEF OpenWhole
  <2>12. CASE OpenTorn(c) BY <2>12, MutexQuiet DEF OpenTorn
  <2>13. CASE OpenAbsent(c) BY <2>13, MutexQuiet DEF OpenAbsent
  <2>14. CASE Insert(c) BY <2>14, MutexQuiet DEF Insert, Got, TypeOK
  <2>15. CASE LockAgent(c) BY <2>15, MutexTaken DEF LockAgent
  <2>16. CASE Edit(c) BY <2>16, MutexTaken DEF Edit
  <2>17. CASE Read(c) BY <2>17, MutexQuiet DEF Read
  <2>18. CASE Reply(c) BY <2>18, MutexQuiet DEF Reply
  <2>19. CASE NoReply(c) BY <2>19, MutexFreed DEF NoReply
  <2>20. CASE Summarize(c) BY <2>20, MutexQuiet DEF Summarize
  <2> QED
    BY <1>1, <2>1, <2>2, <2>3, <2>4, <2>5, <2>6, <2>7, <2>8, <2>9, <2>10,
       <2>11, <2>12, <2>13, <2>14, <2>15, <2>16, <2>17, <2>18, <2>19, <2>20
    DEF Step
<1>2. ASSUME NEW c \in Calls, StartCreate(c) PROVE MutexHeld'
  BY <1>2, MutexQuiet DEF StartCreate
<1>3. ASSUME NEW c \in Calls, StartUse(c) PROVE MutexHeld'
  BY <1>3, MutexQuiet DEF StartUse
<1>4. ASSUME NEW c \in Calls, Cancel(c) PROVE MutexHeld'
  BY <1>4, MutexFreed DEF Cancel
<1>5. CASE Crash
  BY <1>5 DEF Crash, TypeOK, MutexHeld
<1>6. CASE UNCHANGED vars
  BY <1>6 DEF vars, MutexHeld
<1> QED BY <1>1, <1>2, <1>3, <1>4, <1>5, <1>6 DEF Next

(* The mutexes' invariant holds in every reachable state. *)
LEMMA MutexCorrect == Spec => []MutexHeld
<1>1. Init => MutexHeld
  BY DEF Init, MutexHeld, Inside
<1>2. TypeOK /\ MutexHeld /\ [Next]_vars => MutexHeld'
  BY MutexStep
<1> QED BY <1>1, <1>2, TypeCorrect, PTL DEF Spec

(* Turns and edits of one session never overlap: from the message that is  *)
(* stored before the request to the save at the end, no other call changes *)
(* what the session holds.                                                 *)
OneTurn ==
    \A c, d \in Calls :
        pc[c] \in Inside /\ pc[d] \in Inside /\ id[c] = id[d] => c = d

(* AgentRuntime is behind a mutex (manager.rs, 27), and get_or_load gives  *)
(* every call of a session the same one: two turns of a session cannot be  *)
(* under way at once, whatever hangs up, fails or crashes.                 *)
THEOREM TurnsAlone == Spec => []OneTurn
<1>1. MutexHeld /\ OneRuntime => OneTurn
  BY DEF MutexHeld, OneRuntime, OneTurn, Using
<1> QED BY <1>1, MutexCorrect, SingleRuntime, PTL

(* Whom a call waits for. *)
WaitsForMap(c) == pc[c] \in {"lookup", "wantmap"} /\ mapLock # NoCall
WaitsForAgent(c) == pc[c] = "wantagent" /\ owner[agent[c]] # NoCall
Waits(c) == WaitsForMap(c) \/ WaitsForAgent(c)

(* Whoever is waited for waits for nobody: the holder of the map's lock is *)
(* loading a session, which takes no mutex, and the holder of a mutex is   *)
(* in a turn, which takes no lock.                                         *)
NoCircle ==
    \A c \in Calls :
        /\ WaitsForMap(c) =>
                /\ mapLock \in Calls /\ ~Waits(mapLock)
                /\ pc[mapLock] \in Rechecking \cup Building
        /\ WaitsForAgent(c) =>
                /\ owner[agent[c]] \in Calls /\ ~Waits(owner[agent[c]])
                /\ pc[owner[agent[c]]] \in Inside

(* The two locks of the client are never waited for in a circle, nor is    *)
(* one held by a call that has ended: the safety half of EveryCallEnds.    *)
THEOREM LocksMove == Spec => []NoCircle
<1>1. TypeOK /\ MapInv /\ MutexHeld => NoCircle
  <2> SUFFICES ASSUME TypeOK, MapInv, MutexHeld, NEW c \in Calls
               PROVE  /\ WaitsForMap(c) =>
                            /\ mapLock \in Calls /\ ~Waits(mapLock)
                            /\ pc[mapLock] \in Rechecking \cup Building
                      /\ WaitsForAgent(c) =>
                            /\ owner[agent[c]] \in Calls
                            /\ ~Waits(owner[agent[c]])
                            /\ pc[owner[agent[c]]] \in Inside
    BY DEF NoCircle
  <2>1. ASSUME WaitsForMap(c)
        PROVE  mapLock \in Calls /\ pc[mapLock] \in Rechecking \cup Building
    BY <2>1 DEF WaitsForMap, TypeOK, MapInv, LockHeld
  <2>2. ASSUME WaitsForAgent(c)
        PROVE  owner[agent[c]] \in Calls /\ pc[owner[agent[c]]] \in Inside
    BY <2>2 DEF WaitsForAgent, TypeOK, MutexHeld, Using
  <2>3. \A d \in Calls :
            pc[d] \in Rechecking \cup Building \cup Inside => ~Waits(d)
    BY DEF Waits, WaitsForMap, WaitsForAgent, Rechecking, Building, Inside
  <2> QED BY <2>1, <2>2, <2>3
<1> QED BY <1>1, TypeCorrect, MapCorrect, MutexCorrect, PTL
-----------------------------------------------------------------------------
(* No session sees another's words.                                        *)

(* The inductive form speaks of every file, also of one no session has.    *)
SaidInv ==
    /\ \A p \in Paths : \A c \in Said(files[p].session) : PathOf[id[c]] = p
    /\ \A b \in Calls : \A c \in Said(content[b]) : id[c] = id[b]

(* A runtime in use is the one of the call's session. *)
LEMMA RuntimeOfSession ==
    ASSUME TypeOK, MapInv, NEW c \in Calls, pc[c] \in Using
    PROVE  agent[c] \in Calls /\ id[agent[c]] = id[c]
BY DEF TypeOK, MapInv, UsesMapped, MappedBuilt

(* What is saved in a session's file was said in that session. *)
LEMMA SavedSaid ==
    ASSUME TypeOK, MapInv, SaidInv, NEW c \in Calls, pc[c] \in DOMAIN AfterFill
    PROVE  /\ Saved(c) \in Session
           /\ \A d \in Said(Saved(c)) : id[d] = id[c]
<1> USE DEF TypeOK, SaidInv
<1>1. CASE pc[c] \in {"fill_new", "fill_default"}
  BY <1>1 DEF Saved, NewSession, Session, Said
<1>2. CASE pc[c] \in {"fill_merge", "fill_build"}
  <2>1. Saved(c) = content[c] BY <1>2 DEF Saved
  <2> QED BY <2>1
<1>3. CASE pc[c] = "fill_turn"
  <2>1. Saved(c) = content[agent[c]] BY <1>3 DEF Saved
  <2> QED BY <1>3, <2>1, RuntimeOfSession DEF Using, Inside
<1> QED BY <1>1, <1>2, <1>3 DEF AfterFill

(* A step that leaves files, contents and sessions alone. *)
LEMMA SaidQuiet ==
    ASSUME SaidInv, UNCHANGED <<files, content, id>> PROVE SaidInv'
BY DEF SaidInv

(* A call that adds itself to its runtime's content. *)
LEMMA SaidGrows ==
    ASSUME TypeOK, MapInv, SaidInv, NEW c \in Calls, pc[c] \in Using,
           UNCHANGED <<files, id>>, content' \in [Calls -> Session],
           \A b \in Calls :
              Said(content'[b]) \subseteq
                  Said(content[b]) \cup (IF b = agent[c] THEN {c} ELSE {})
    PROVE  SaidInv'
BY RuntimeOfSession DEF SaidInv

LEMMA SaidStep ==
    ASSUME FilePerSession, TypeOK, TypeOK', MapInv, SaidInv, [Next]_vars
    PROVE  SaidInv'
<1> USE PathAssumption
<1>1. ASSUME NEW c \in Calls, Step(c) PROVE SaidInv'
  <2>1. CASE Truncate(c)
    BY <2>1 DEF Truncate, SaidInv, TypeOK, Torn, NewSession, Said
  <2>2. CASE Fill(c)
    <3>1. files' = [files EXCEPT ![PathFor(c)] = Whole(Saved(c))]
      BY <2>2 DEF Fill
    <3>2. \A d \in Said(Saved(c)) : PathOf[id[d]] = PathFor(c)
      BY <2>2, SavedSaid DEF Fill, PathFor
    <3>3. ASSUME NEW p \in Paths, NEW d \in Said(files'[p].session)
          PROVE  PathOf[id[d]] = p
      <4>1. CASE p = PathFor(c)
        BY <3>1, <3>2, <3>3, <4>1 DEF Whole, TypeOK
      <4>2. CASE p # PathFor(c)
        BY <3>1, <3>3, <4>2 DEF SaidInv, TypeOK
      <4> QED BY <4>1, <4>2
    <3> QED BY <2>2, <3>3 DEF Fill, SaidInv
  <2>3. CASE OpenWhole(c)
    <3>1. /\ content' = [content EXCEPT ![c] = files[PathFor(c)].session]
          /\ UNCHANGED <<files, id>>
      BY <2>3 DEF OpenWhole
    <3>2. \A d \in Said(files[PathFor(c)].session) : id[d] = id[c]
      <4>1. PathFor(c) \in Paths BY DEF TypeOK, PathFor
      <4>2. Said(files[PathFor(c)].session) \subseteq Calls
        BY <4>1 DEF TypeOK, File, Session, Said
      <4> QED BY <4>1, <4>2 DEF SaidInv, TypeOK, FilePerSession, PathFor
    <3> QED BY <3>1, <3>2 DEF SaidInv, TypeOK
  <2>4. CASE OpenAbsent(c)
    BY <2>4 DEF OpenAbsent, SaidInv, TypeOK, NewSession, Said
  <2>5. CASE LockAgent(c)
    <3>1. pc[c] \in Using BY <2>5 DEF LockAgent, Using
    <3>2. \A b \in Calls : Said(content'[b]) =
              Said(content[b]) \cup (IF b = agent[c] THEN {c} ELSE {})
      BY <2>5 DEF LockAgent, TypeOK, Session, Said
    <3> QED BY <2>5, <3>1, <3>2, SaidGrows DEF LockAgent, TypeOK
  <2>6. CASE Edit(c)
    <3>1. pc[c] \in Using BY <2>6 DEF Edit, Using
    <3>2. \A b \in Calls : Said(content'[b]) =
              Said(content[b]) \cup (IF b = agent[c] THEN {c} ELSE {})
      BY <2>6 DEF Edit, TypeOK, Session, Said
    <3> QED BY <2>6, <3>1, <3>2, SaidGrows DEF Edit, TypeOK
  <2>7. CASE Reply(c)
    <3>1. pc[c] \in Using BY <2>7 DEF Reply, Using, Inside
    <3>2. \A b \in Calls : Said(content'[b]) =
              Said(content[b]) \cup (IF b = agent[c] THEN {c} ELSE {})
      BY <2>7 DEF Reply, TypeOK, Session, Said
    <3> QED BY <2>7, <3>1, <3>2, SaidGrows DEF Reply, TypeOK
  <2>8. CASE AlreadyExists(c) \/ NotThere(c) \/ SaveFails(c) \/ LookupHit(c)
    BY <2>8, SaidQuiet DEF AlreadyExists, NotThere, SaveFails, LookupHit
  <2>9. CASE LookupMiss(c) \/ LockMap(c) \/ RecheckHit(c) \/ RecheckMiss(c)
    BY <2>9, SaidQuiet DEF LookupMiss, LockMap, RecheckHit, RecheckMiss
  <2>10. CASE OpenTorn(c) \/ Insert(c) \/ Read(c) \/ NoReply(c) \/ Summarize(c)
    BY <2>10, SaidQuiet DEF OpenTorn, Insert, Read, NoReply, Summarize
  <2> QED
    BY <1>1, <2>1, <2>2, <2>3, <2>4, <2>5, <2>6, <2>7, <2>8, <2>9, <2>10
    DEF Step
<1>2. ASSUME NEW c \in Calls, StartCreate(c) \/ StartUse(c) \/ Cancel(c)
      PROVE  SaidInv'
  BY <1>2, SaidQuiet DEF StartCreate, StartUse, Cancel
<1>3. CASE Crash \/ UNCHANGED vars
  BY <1>3, SaidQuiet DEF Crash, vars
<1> QED BY <1>1, <1>2, <1>3 DEF Next

(* With a file per session nothing said in one session is ever in the      *)
(* memory or the file of another, across crashes, hang-ups and failures.   *)
THEOREM SessionsIsolated ==
    ASSUME FilePerSession PROVE Spec => []Isolation
<1>1. Init => SaidInv
  BY DEF Init, SaidInv, Absent, NewSession, Said
<1>2. TypeOK /\ TypeOK' /\ MapInv /\ SaidInv /\ [Next]_vars => SaidInv'
  BY SaidStep
<1>3. SaidInv /\ TypeOK => Isolation
  BY PathAssumption, FilePerSession
  DEF SaidInv, TypeOK, Isolation, FilePerSession, Said, File, Session
<1> QED BY <1>1, <1>2, <1>3, TypeCorrect, MapCorrect, PTL DEF Spec
-----------------------------------------------------------------------------
(* No reply is lost.                                                       *)

(* Saves that succeed, nobody creating a session that is in use. *)
CalmDisk == FilePerSession /\ Creators = {} /\ "io" \notin Faults

Loaded == {"trunc_merge", "fill_merge", "trunc_build", "fill_build", "insert"}
Defaulting == {"trunc_default", "fill_default"}
Stored == {"summary", "trunc_turn", "fill_turn"}

(* The reply of c is everywhere a later read or save of its session can    *)
(* take it from: the file, unless it is torn; the runtime that is being    *)
(* built; the runtime in the map.                                          *)
Kept(c) ==
    /\ files[PathFor(c)].st # "absent"
    /\ files[PathFor(c)].st = "whole" =>
            c \in files[PathFor(c)].session.answered
    /\ \A d \in Calls : pc[d] \in Loaded /\ id[d] = id[c] =>
            c \in content[d].answered
    /\ \A d \in Calls : pc[d] \in Defaulting => id[d] # id[c]
    /\ sessions[id[c]] # NoCall => c \in content[sessions[id[c]]].answered

KeptInv ==
    /\ \A c \in Calls : pc[c] \notin Creating
    /\ \A c \in Calls : pc[c] \in Stored => c \in content[agent[c]].answered
    /\ \A c \in Calls \ Readers : pc[c] = "ok" => Kept(c)

(* A step that leaves files and map alone, forgets no content and moves    *)
(* one call, neither to a successful end nor into the loading of a session.*)
LEMMA KeptQuiet ==
    ASSUME TypeOK, MapInv, KeptInv, UNCHANGED <<files, sessions, id>>,
           \A b \in Calls : content[b].answered \subseteq content'[b].answered,
           NEW c \in Calls, NEW place, Goto(c, place),
           place \notin Creating \cup Loaded \cup Defaulting,
           place = "ok" => c \in Readers,
           \A b \in Calls \ {c} : agent'[b] = agent[b],
           place \in Stored =>
                /\ agent'[c] = agent[c]
                /\ pc[c] \in Using
                /\ pc[c] \in Stored \/ c \in content'[agent[c]].answered
    PROVE  KeptInv'
<1>1. pc' = [pc EXCEPT ![c] = place] /\ pc \in [Calls -> Places]
  BY DEF Goto, TypeOK
<1>2. ASSUME NEW d \in Calls \ Readers, pc'[d] = "ok" PROVE Kept(d)'
  <2>1. d # c /\ Kept(d) BY <1>1, <1>2 DEF KeptInv
  <2>2. sessions[id[d]] \in Calls \cup {NoCall} BY DEF TypeOK
  <2>3. \A e \in Calls :
            pc'[e] \in Loaded \cup Defaulting => pc'[e] = pc[e]
    BY <1>1
  <2> QED BY <2>1, <2>2, <2>3 DEF Kept, PathFor
<1>3. ASSUME NEW d \in Calls, pc'[d] \in Stored
      PROVE  d \in content'[agent'[d]].answered
  <2>1. agent'[d] = agent[d] /\ pc[d] \in Using
    BY <1>1, <1>3 DEF Stored, Using, Inside
  <2>2. agent[d] \in Calls BY <2>1 DEF TypeOK
  <2>3. pc[d] \in Stored \/ d \in content'[agent[d]].answered
    BY <1>1, <1>3
  <2> QED BY <2>1, <2>2, <2>3 DEF KeptInv
<1> QED BY <1>1, <1>2, <1>3 DEF KeptInv

(* A step after which the file of one session is torn. *)
LEMMA KeptTruncate ==
    ASSUME CalmDisk, TypeOK, MapInv, KeptInv, NEW c \in Calls, Truncate(c)
    PROVE  KeptInv'
<1>1. /\ UNCHANGED <<sessions, content, agent, id>>
      /\ files' = [files EXCEPT ![PathFor(c)] = Torn]
      /\ pc' = [pc EXCEPT ![c] = AfterTrunc[pc[c]]]
      /\ pc[c] \in {"trunc_default", "trunc_merge", "trunc_build", "trunc_turn"}
  BY DEF Truncate, Goto, KeptInv, Creating, AfterTrunc
<1>2. /\ pc'[c] \notin Creating \cup {"ok"}
      /\ pc'[c] \in Loaded <=> pc[c] \in Loaded
      /\ pc'[c] \in Defaulting <=> pc[c] \in Defaulting
      /\ pc'[c] \in Stored <=> pc[c] \in Stored
  BY <1>1 DEF AfterTrunc, TypeOK, Creating, Loaded, Defaulting, Stored
<1>3. ASSUME NEW d \in Calls \ Readers, pc'[d] = "ok" PROVE Kept(d)'
  <2>1. Kept(d) BY <1>1, <1>2, <1>3 DEF KeptInv, TypeOK
  <2>2. /\ files'[PathFor(d)].st # "absent"
        /\ files'[PathFor(d)].st = "whole" =>
              d \in files'[PathFor(d)].session.answered
    BY <1>1, <2>1 DEF Kept, Torn, TypeOK
  <2>3. \A e \in Calls : /\ pc'[e] \in Loaded => pc[e] \in Loaded
                         /\ pc'[e] \in Defaulting => pc[e] \in Defaulting
    BY <1>1, <1>2 DEF TypeOK
  <2> QED BY <1>1, <2>1, <2>2, <2>3 DEF Kept, PathFor
<1> QED BY <1>1, <1>2, <1>3 DEF KeptInv, TypeOK

(* A step after which the file of one session is whole again. *)
LEMMA KeptFill ==
    ASSUME CalmDisk, TypeOK, MapInv, KeptInv, NEW c \in Calls, Fill(c)
    PROVE  KeptInv'
<1>1. /\ UNCHANGED <<sessions, content, agent, id>>
      /\ files' = [files EXCEPT ![PathFor(c)] = Whole(Saved(c))]
      /\ pc' = [pc EXCEPT ![c] = AfterFill[pc[c]]]
      /\ pc[c] \in {"fill_default", "fill_merge", "fill_build", "fill_turn"}
  BY DEF Fill, Goto, KeptInv, Creating, AfterFill
<1>2. /\ pc'[c] \notin Creating \cup Defaulting \cup Stored
      /\ pc[c] = "fill_default" => pc'[c] = "trunc_merge"
      /\ pc[c] \in {"fill_merge", "fill_build"} =>
              pc[c] \in Loaded /\ pc'[c] \in Loaded
      /\ pc[c] = "fill_turn" => pc'[c] = "ok"
  BY <1>1 DEF AfterFill, TypeOK, Creating, Loaded, Defaulting, Stored
<1>3. /\ Saved(c) = IF pc[c] = "fill_default" THEN NewSession
                    ELSE IF pc[c] = "fill_turn" THEN content[agent[c]]
                    ELSE content[c]
  BY <1>1 DEF Saved
(* A turn is saved by a call whose runtime is the one in the map. *)
<1>4. pc[c] = "fill_turn" =>
          /\ agent[c] = sessions[id[c]] /\ sessions[id[c]] \in Calls
          /\ c \in content[agent[c]].answered
          /\ \A d \in Calls : id[d] = id[c] => pc[d] \notin Building
  BY DEF TypeOK, MapInv, UsesMapped, BuildsFirst, KeptInv, Using, Inside,
         Stored
<1>5. ASSUME NEW d \in Calls \ Readers, pc[d] = "ok" PROVE Kept(d)'
  <2>1. Kept(d) BY <1>5 DEF KeptInv
  <2>2. id[d] = id[c] => d \in Saved(c).answered /\ pc[c] # "fill_default"
    BY <1>1, <1>2, <1>3, <1>4, <2>1, NoCallAssumption DEF Kept, Defaulting
  <2>3. id[d] # id[c] => PathFor(d) # PathFor(c)
    BY DEF CalmDisk, FilePerSession, PathFor, TypeOK
  <2>4. /\ files'[PathFor(d)].st # "absent"
        /\ files'[PathFor(d)].st = "whole" =>
              d \in files'[PathFor(d)].session.answered
    BY <1>1, <2>1, <2>2, <2>3, PathAssumption
    DEF Kept, Whole, TypeOK, PathFor
  <2>5. \A e \in Calls : id[e] = id[d] =>
            /\ pc'[e] \in Loaded => pc[e] \in Loaded
            /\ pc'[e] \notin Defaulting
    BY <1>1, <1>2, <2>1, <2>2 DEF TypeOK, Kept, Loaded
  <2> QED BY <1>1, <2>1, <2>4, <2>5 DEF Kept, PathFor
<1>6. ASSUME pc[c] = "fill_turn" PROVE Kept(c)'
  <2>1. PathFor(c) \in Paths BY PathAssumption DEF TypeOK, PathFor
  <2>2. files'[PathFor(c)] = Whole(content[agent[c]])
    BY <1>1, <1>3, <1>6, <2>1 DEF TypeOK
  <2>3. \A e \in Calls : id[e] = id[c] =>
            pc'[e] \notin Loaded /\ pc'[e] \notin Defaulting
    BY <1>1, <1>2, <1>4, <1>6
    DEF TypeOK, Building, Loaded, Defaulting
  <2> QED BY <1>1, <1>4, <1>6, <2>2, <2>3 DEF Kept, PathFor, Whole
<1>7. ASSUME NEW d \in Calls, pc'[d] = "ok"
      PROVE  pc[d] = "ok" \/ (d = c /\ pc[c] = "fill_turn")
  BY <1>1, <1>2, <1>7 DEF TypeOK, Loaded
<1> QED BY <1>1, <1>2, <1>5, <1>6, <1>7 DEF KeptInv, TypeOK

(* load_session, or a fresh session: the call that builds is not in the    *)
(* map, so nobody's runtime is overwritten.                                *)
LEMMA KeptOpen ==
    ASSUME CalmDisk, TypeOK, MapInv, KeptInv, NEW c \in Calls,
           OpenWhole(c) \/ OpenAbsent(c)
    PROVE  KeptInv'
<1>1. /\ UNCHANGED <<files, sessions, agent, id>>
      /\ pc[c] = "open"
      /\ \E s : content' = [content EXCEPT ![c] = s]
      /\ OpenWhole(c) \/ OpenAbsent(c)
      /\ \A d \in Calls \ {c} : pc'[d] = pc[d]
      /\ pc'[c] \in {"trunc_merge", "trunc_default"}
  BY DEF OpenWhole, OpenAbsent, Goto, TypeOK
<1>2. \A i \in Ids : sessions[i] # c
  BY <1>1, NoCallAssumption DEF MapInv, MappedBuilt, Using, Inside, Ended
<1>3. \A d \in Calls \ {c} : content'[d] = content[d]
  BY <1>1 DEF TypeOK
<1>4. ASSUME NEW d \in Calls \ Readers, pc'[d] = "ok" PROVE Kept(d)'
  <2>1. Kept(d) /\ d # c BY <1>1, <1>4 DEF KeptInv
  <2>2. id[c] = id[d] =>
            d \in content'[c].answered /\ pc'[c] = "trunc_merge"
    BY <1>1, <2>1 DEF OpenWhole, OpenAbsent, Goto, Kept, PathFor, TypeOK
  <2>3. sessions[id[d]] # NoCall => sessions[id[d]] \in Calls \ {c}
    BY <1>2 DEF TypeOK
  <2>4. \A e \in Calls : pc'[e] \in Defaulting => id[e] # id[d]
    BY <1>1, <2>1, <2>2 DEF Kept, Defaulting
  <2>5. \A e \in Calls : pc'[e] \in Loaded /\ id[e] = id[d] =>
            d \in content'[e].answered
    BY <1>1, <1>3, <2>1, <2>2 DEF Kept
  <2> QED BY <1>1, <1>3, <2>1, <2>3, <2>4, <2>5 DEF Kept, PathFor
<1>5. ASSUME NEW d \in Calls, pc'[d] \in Stored
      PROVE  d \in content'[agent'[d]].answered
  <2>1. d # c /\ pc[d] \in Stored BY <1>1, <1>5 DEF Stored
  <2>2. agent[d] = sessions[id[d]] /\ agent[d] \in Calls
    BY <2>1 DEF MapInv, UsesMapped, TypeOK, Using, Inside, Stored
  <2>3. agent[d] # c BY <1>2, <2>2 DEF TypeOK
  <2> QED BY <1>1, <1>3, <2>1, <2>2, <2>3 DEF KeptInv
<1> QED BY <1>1, <1>4, <1>5 DEF KeptInv, Creating
(* A call that adds itself to its runtime's content takes nothing away.    *)
LEMMA ContentGrows ==
    ASSUME TypeOK, NEW c \in Calls, pc[c] \in Using,
           \/ content' = [content EXCEPT ![agent[c]].asked = @ \cup {c}]
           \/ content' = [content EXCEPT ![agent[c]].answered = @ \cup {c}]
    PROVE  \A b \in Calls : content[b].answered \subseteq content'[b].answered
<1> USE DEF TypeOK, Session
<1>1. agent[c] \in Calls OBVIOUS
<1>2. CASE content' = [content EXCEPT ![agent[c]].asked = @ \cup {c}]
  BY <1>1, <1>2
<1>3. CASE content' = [content EXCEPT ![agent[c]].answered = @ \cup {c}]
  BY <1>1, <1>3
<1> QED BY <1>2, <1>3

LEMMA KeptStep ==
    ASSUME CalmDisk, TypeOK, MapInv, KeptInv, [Next]_vars
    PROVE  KeptInv'
<1> USE DEF Creating, Loaded, Defaulting, Stored
<1>1. ASSUME NEW c \in Calls, Step(c) PROVE KeptInv'
  <2>1. CASE AlreadyExists(c) \/ NotThere(c) \/ SaveFails(c)
    BY <2>1 DEF AlreadyExists, NotThere, SaveFails, KeptInv, CalmDisk
  <2>2. CASE Truncate(c) BY <2>2, KeptTruncate
  <2>3. CASE Fill(c) BY <2>3, KeptFill
  <2>4. CASE OpenWhole(c) \/ OpenAbsent(c) BY <2>4, KeptOpen
  <2>5. CASE LookupHit(c) \/ RecheckHit(c)
    <3>1. c \notin Creators BY DEF CalmDisk
    <3>2. Goto(c, "wantagent") /\ UNCHANGED <<files, sessions, content, id>>
      BY <2>5, <3>1 DEF LookupHit, RecheckHit, Got
    <3>3. \A b \in Calls \ {c} : agent'[b] = agent[b]
      BY <2>5 DEF LookupHit, RecheckHit, Got, TypeOK
    <3> QED BY <3>2, <3>3, KeptQuiet
  <2>6. CASE LookupMiss(c) BY <2>6, KeptQuiet DEF LookupMiss
  <2>7. CASE LockMap(c) BY <2>7, KeptQuiet DEF LockMap
  <2>8. CASE RecheckMiss(c) BY <2>8, KeptQuiet DEF RecheckMiss
  <2>9. CASE OpenTorn(c) BY <2>9, KeptQuiet DEF OpenTorn
  <2>10. CASE NoReply(c) BY <2>10, KeptQuiet DEF NoReply
  <2>11. CASE Read(c) BY <2>11, KeptQuiet DEF Read
  <2>12. CASE Summarize(c)
    BY <2>12, KeptQuiet DEF Summarize, Using, Inside
  <2>13. CASE Insert(c)
    <3>1. /\ sessions' = [sessions EXCEPT ![id[c]] = c]
          /\ pc[c] = "insert" /\ pc' = [pc EXCEPT ![c] = "wantagent"]
          /\ agent' = [agent EXCEPT ![c] = c]
          /\ UNCHANGED <<files, content, id>>
      BY <2>13 DEF Insert, Got, Goto, CalmDisk
    <3>2. ASSUME NEW d \in Calls \ Readers, pc'[d] = "ok" PROVE Kept(d)'
      <4>1. Kept(d) BY <3>1, <3>2 DEF KeptInv, TypeOK
      <4>2. id[d] = id[c] => d \in content[c].answered
        BY <3>1, <4>1 DEF Kept
      <4>3. \A e \in Calls :
                pc'[e] \in Loaded \cup Defaulting => pc'[e] = pc[e]
        BY <3>1 DEF TypeOK
      <4>4. sessions'[id[d]] =
                IF id[d] = id[c] THEN c ELSE sessions[id[d]]
        BY <3>1 DEF TypeOK
      <4> QED BY <3>1, <4>1, <4>2, <4>3, <4>4 DEF Kept, PathFor
    <3>3. ASSUME NEW d \in Calls, pc'[d] \in Stored
          PROVE  pc[d] \in Stored /\ agent'[d] = agent[d]
      BY <3>1, <3>3 DEF TypeOK
    <3> QED BY <3>1, <3>2, <3>3 DEF KeptInv, TypeOK
  <2>14. CASE LockAgent(c)
    <3>1. pc[c] \in Using BY <2>14 DEF LockAgent, Using
    <3> QED BY <2>14, <3>1, ContentGrows, KeptQuiet DEF LockAgent
  <2>15. CASE Edit(c) \/ Reply(c)
    <3>1. pc[c] \in Using /\ agent[c] \in Calls
      BY <2>15 DEF Edit, Reply, Using, Inside, TypeOK
    <3>2. c \in content'[agent[c]].answered
      BY <2>15, <3>1 DEF Edit, Reply, TypeOK, Session
    <3>3. CASE Edit(c)
      BY <3>1, <3>2, <3>3, ContentGrows, KeptQuiet DEF Edit
    <3>4. CASE Reply(c)
      BY <3>1, <3>2, <3>4, ContentGrows, KeptQuiet DEF Reply
    <3> QED BY <2>15, <3>3, <3>4
  <2> QED
    BY <1>1, <2>1, <2>2, <2>3, <2>4, <2>5, <2>6, <2>7, <2>8, <2>9, <2>10,
       <2>11, <2>12, <2>13, <2>14, <2>15 DEF Step
<1>2. ASSUME NEW c \in Calls, StartCreate(c) PROVE KeptInv'
  BY <1>2 DEF StartCreate, CalmDisk
<1>3. ASSUME NEW c \in Calls, StartUse(c) PROVE KeptInv'
  BY <1>3, KeptQuiet DEF StartUse
<1>4. ASSUME NEW c \in Calls, Cancel(c) PROVE KeptInv'
  BY <1>4, KeptQuiet DEF Cancel
<1>5. CASE Crash
  <2>1. /\ UNCHANGED <<files, content, agent, id>>
        /\ \A i \in Ids : sessions'[i] = NoCall
        /\ \A d \in Calls : pc'[d] = IF pc[d] \in Ended \cup {"idle"}
                                     THEN pc[d] ELSE "gone"
    BY <1>5 DEF Crash
  <2>2. ASSUME NEW d \in Calls
        PROVE  pc'[d] \notin Creating \cup Loaded \cup Defaulting \cup Stored
    BY <2>1 DEF Ended
  <2>3. ASSUME NEW d \in Calls \ Readers, pc'[d] = "ok" PROVE Kept(d)'
    <3>1. Kept(d) BY <2>1, <2>3 DEF KeptInv
    <3> QED BY <2>1, <2>2, <3>1 DEF Kept, PathFor, TypeOK
  <2> QED BY <2>1, <2>2, <2>3 DEF KeptInv
<1>6. CASE UNCHANGED vars
  BY <1>6 DEF vars, KeptInv, Kept, PathFor
<1> QED BY <1>1, <1>2, <1>3, <1>4, <1>5, <1>6 DEF Next

(* Unless saves fail or the session is created while it is used, a reply   *)
(* or an edit the caller was told of is in the file, whatever crashes and  *)
(* hang-ups came between, unless a crash tore the file.                    *)
THEOREM RepliesKept ==
    ASSUME CalmDisk PROVE Spec => []NoLostReply
<1>1. Init => KeptInv
  BY DEF Init, KeptInv, Creating, Stored
<1>2. TypeOK /\ MapInv /\ KeptInv /\ [Next]_vars => KeptInv'
  BY KeptStep
<1>3. KeptInv => NoLostReply
  BY DEF KeptInv, Kept, NoLostReply
<1> QED BY <1>1, <1>2, <1>3, TypeCorrect, MapCorrect, PTL DEF Spec
=============================================================================
