---------------------------- MODULE SessionStore ----------------------------
(***************************************************************************)
(* The client's sessions (client/src/manager.rs, session.rs and the turns  *)
(* of agent.rs behind the local API): a map from session id to a runtime,  *)
(* filled on demand from one file per session, and calls that create a     *)
(* session, chat in it or edit it.                                         *)
(*                                                                         *)
(* The map is behind a read-write lock, each runtime behind a mutex; files *)
(* are behind neither.  A file is written by truncating it and filling it, *)
(* two steps between which another thread may read or write it and the     *)
(* process may die.  A call's future can be dropped where it awaits.       *)
(*                                                                         *)
(* A session's content is the set of calls whose user message is in it and *)
(* the set of those whose reply, or edit, is.  A runtime is named by the   *)
(* call that built it.                                                     *)
(***************************************************************************)
EXTENDS Naturals

CONSTANTS
    Calls,      \* the API calls that may be made
    Creators,   \* those that are POST /v1/sessions
    Editors,    \* those that edit memory, terms or the system prompt
    Readers,    \* those that only look: session, messages, memory, search
    Ids,        \* session ids
    Paths,      \* session files
    PathOf,     \* session_path_for: the file of each id
    NoCall,     \* nobody
    Faults      \* the disturbances allowed, a subset of FaultKinds

FaultKinds == {"crash", "cancel", "io", "remote"}

ASSUME CallsAssumption == 
    Creators \subseteq Calls /\ Editors \subseteq Calls /\ Readers \subseteq Calls
ASSUME NoCallAssumption == NoCall \notin Calls
ASSUME PathAssumption == PathOf \in [Ids -> Paths]
ASSUME FaultsAssumption == Faults \subseteq FaultKinds

VARIABLES
    files,      \* what each session file holds
    sessions,   \* AgentManager.sessions: the runtime of each loaded id
    mapLock,    \* who holds the write lock of sessions
    content,    \* the session of the runtime a call built, or is building
    owner,      \* who holds the mutex of the runtime a call built
    agent,      \* the runtime a call got from get_or_load
    id,         \* the session a call is about
    pc          \* where each call is

vars == <<files, sessions, mapLock, content, owner, agent, id, pc>>

Session == [asked : SUBSET Calls, answered : SUBSET Calls]
NewSession == [asked |-> {}, answered |-> {}]
File == [st : {"absent", "torn", "whole"}, session : Session]
Absent == [st |-> "absent", session |-> NewSession]
Torn == [st |-> "torn", session |-> NewSession]
Whole(s) == [st |-> "whole", session |-> s]

(* Awaits, where a future can be dropped. *)
Awaiting == {"lookup", "wantmap", "wantagent", "remote", "summary"}
(* The slow path of get_or_load, under the write lock: before and after    *)
(* the second look at the map.                                             *)
Rechecking == {"recheck"}
Building == {"open", "trunc_default", "fill_default", "trunc_merge",
             "fill_merge", "trunc_build", "fill_build", "insert"}
(* With a runtime in hand; with its mutex held.                            *)
Inside == {"remote", "summary", "trunc_turn", "fill_turn"}
Using == {"wantagent"} \cup Inside
Creating == {"exists", "trunc_new", "fill_new"}
Ended == {"ok", "failed", "gone"}
Places == {"idle"} \cup Creating \cup {"lookup", "wantmap"} \cup Rechecking
            \cup Building \cup Using \cup Ended

TypeOK ==
    /\ files \in [Paths -> File]
    /\ sessions \in [Ids -> Calls \cup {NoCall}]
    /\ mapLock \in Calls \cup {NoCall}
    /\ content \in [Calls -> Session]
    /\ owner \in [Calls -> Calls \cup {NoCall}]
    /\ agent \in [Calls -> Calls \cup {NoCall}]
    /\ id \in [Calls -> Ids]
    /\ pc \in [Calls -> Places]
    /\ \A c \in Calls : pc[c] \in Using => agent[c] # NoCall

Init ==
    /\ files = [p \in Paths |-> Absent]
    /\ sessions = [i \in Ids |-> NoCall]
    /\ mapLock = NoCall
    /\ content = [c \in Calls |-> NewSession]
    /\ owner = [c \in Calls |-> NoCall]
    /\ agent = [c \in Calls |-> NoCall]
    /\ id \in [Calls -> Ids]
    /\ pc = [c \in Calls |-> "idle"]

Goto(c, place) == pc' = [pc EXCEPT ![c] = place]

(* Mutant: the override for the default session serves every session. *)
PathForOverride(c) == PathOf[CHOOSE i \in Ids : TRUE]

PathFor(c) == PathOf[id[c]]

-----------------------------------------------------------------------------
(* create_session *)

StartCreate(c) ==
    /\ pc[c] = "idle" /\ c \in Creators
    /\ Goto(c, "exists")
    /\ UNCHANGED <<files, sessions, mapLock, content, owner, agent, id>>

AlreadyExists(c) ==
    /\ pc[c] = "exists" /\ files[PathFor(c)].st # "absent"
    /\ Goto(c, "failed")
    /\ UNCHANGED <<files, sessions, mapLock, content, owner, agent, id>>

NotThere(c) ==
    /\ pc[c] = "exists" /\ files[PathFor(c)].st = "absent"
    /\ Goto(c, "trunc_new")
    /\ UNCHANGED <<files, sessions, mapLock, content, owner, agent, id>>

-----------------------------------------------------------------------------
(* save_session, from five places: create_session, the default session of  *)
(* get_or_load, build_agent, AgentRuntime::new, and persist after a turn   *)
(* or an edit.                                                             *)

AfterTrunc == [trunc_new |-> "fill_new", trunc_default |-> "fill_default",
               trunc_merge |-> "fill_merge", trunc_build |-> "fill_build",
               trunc_turn |-> "fill_turn"]
AfterFill == [fill_new |-> "lookup", fill_default |-> "trunc_merge",
              fill_merge |-> "trunc_build", fill_build |-> "insert",
              fill_turn |-> "ok"]

(* What the caller saves: a fresh session, what it is building, or what    *)
(* its runtime holds.                                                      *)
(* Mutant: persist saves a copy taken before the turn.                     *)
SavedBefore(c) ==
    CASE pc[c] \in {"fill_new", "fill_default"} -> NewSession
      [] pc[c] \in {"fill_merge", "fill_build"} -> content[c]
      [] pc[c] = "fill_turn" ->
            [content[agent[c]] EXCEPT !.answered = @ \ {c}]

Saved(c) ==
    CASE pc[c] \in {"fill_new", "fill_default"} -> NewSession
      [] pc[c] \in {"fill_merge", "fill_build"} -> content[c]
      [] pc[c] = "fill_turn" -> content[agent[c]]

(* After a turn is saved, or cannot be, the call ends and unlocks.         *)
Unlock(c) ==
    owner' = [b \in Calls |-> IF owner[b] = c THEN NoCall ELSE owner[b]]

Truncate(c) ==
    /\ pc[c] \in DOMAIN AfterTrunc
    /\ files' = [files EXCEPT ![PathFor(c)] = Torn]
    /\ Goto(c, AfterTrunc[pc[c]])
    /\ UNCHANGED <<sessions, mapLock, content, owner, agent, id>>

Fill(c) ==
    /\ pc[c] \in DOMAIN AfterFill
    /\ files' = [files EXCEPT ![PathFor(c)] = Whole(Saved(c))]
    /\ Goto(c, AfterFill[pc[c]])
    /\ Unlock(c)
    /\ UNCHANGED <<sessions, mapLock, content, agent, id>>

(* A save that fails before or after truncating.  Only create_session      *)
(* reports it; the others ignore it.                                       *)
SaveFails(c) ==
    /\ "io" \in Faults
    /\ pc[c] \in DOMAIN AfterTrunc \cup DOMAIN AfterFill
    /\ Goto(c, IF pc[c] \in {"trunc_new", "fill_new"} THEN "failed"
               ELSE IF pc[c] \in DOMAIN AfterFill THEN AfterFill[pc[c]]
               ELSE AfterFill[AfterTrunc[pc[c]]])
    /\ Unlock(c)
    /\ UNCHANGED <<files, sessions, mapLock, content, agent, id>>

-----------------------------------------------------------------------------
(* get_or_load *)

StartUse(c) ==
    /\ pc[c] = "idle" /\ c \notin Creators
    /\ Goto(c, "lookup")
    /\ UNCHANGED <<files, sessions, mapLock, content, owner, agent, id>>

(* What a call does with its runtime. *)
Got(c, b) ==
    /\ agent' = [agent EXCEPT ![c] = b]
    /\ Goto(c, IF c \in Creators THEN "ok" ELSE "wantagent")

(* Mutant: the fast path does not look whether the session is there. *)
LookupHitBlind(c) ==
    /\ pc[c] = "lookup" /\ mapLock = NoCall
    /\ Got(c, sessions[id[c]])
    /\ UNCHANGED <<files, sessions, mapLock, content, owner, id>>

(* Fast path, under the read lock. *)
LookupHit(c) ==
    /\ pc[c] = "lookup" /\ mapLock = NoCall
    /\ sessions[id[c]] # NoCall
    /\ Got(c, sessions[id[c]])
    /\ UNCHANGED <<files, sessions, mapLock, content, owner, id>>

LookupMiss(c) ==
    /\ pc[c] = "lookup" /\ mapLock = NoCall
    /\ sessions[id[c]] = NoCall
    /\ Goto(c, "wantmap")
    /\ UNCHANGED <<files, sessions, mapLock, content, owner, agent, id>>

LockMap(c) ==
    /\ pc[c] = "wantmap" /\ mapLock = NoCall
    /\ mapLock' = c
    /\ Goto(c, "recheck")
    /\ UNCHANGED <<files, sessions, content, owner, agent, id>>

RecheckHit(c) ==
    /\ pc[c] = "recheck"
    /\ sessions[id[c]] # NoCall
    /\ Got(c, sessions[id[c]])
    /\ mapLock' = NoCall
    /\ UNCHANGED <<files, sessions, content, owner, id>>

(* Mutant: the map is not looked at again under the write lock. *)
RecheckSkipped(c) ==
    /\ pc[c] = "recheck"
    /\ Goto(c, "open")
    /\ UNCHANGED <<files, sessions, mapLock, content, owner, agent, id>>

RecheckMiss(c) ==
    /\ pc[c] = "recheck"
    /\ sessions[id[c]] = NoCall
    /\ Goto(c, "open")
    /\ UNCHANGED <<files, sessions, mapLock, content, owner, agent, id>>

(* load_session *)
OpenWhole(c) ==
    /\ pc[c] = "open" /\ files[PathFor(c)].st = "whole"
    /\ content' = [content EXCEPT ![c] = files[PathFor(c)].session]
    /\ Goto(c, "trunc_merge")
    /\ UNCHANGED <<files, sessions, mapLock, owner, agent, id>>

(* Mutant: the error leaves the map locked. *)
OpenTornLocked(c) ==
    /\ pc[c] = "open" /\ files[PathFor(c)].st = "torn"
    /\ Goto(c, "failed")
    /\ UNCHANGED <<files, sessions, mapLock, content, owner, agent, id>>

OpenTorn(c) ==
    /\ pc[c] = "open" /\ files[PathFor(c)].st = "torn"
    /\ mapLock' = NoCall
    /\ Goto(c, "failed")
    /\ UNCHANGED <<files, sessions, content, owner, agent, id>>

OpenAbsent(c) ==
    /\ pc[c] = "open" /\ files[PathFor(c)].st = "absent"
    /\ content' = [content EXCEPT ![c] = NewSession]
    /\ Goto(c, "trunc_default")
    /\ UNCHANGED <<files, sessions, mapLock, owner, agent, id>>

Insert(c) ==
    /\ pc[c] = "insert"
    /\ sessions' = [sessions EXCEPT ![id[c]] = c]
    /\ mapLock' = NoCall
    /\ Got(c, c)
    /\ UNCHANGED <<files, content, owner, id>>

-----------------------------------------------------------------------------
(* A turn, or an edit, under the runtime's mutex. *)

LockAgent(c) ==
    /\ pc[c] = "wantagent" /\ c \notin Editors \cup Readers
    /\ owner[agent[c]] = NoCall
    /\ owner' = [owner EXCEPT ![agent[c]] = c]
    /\ content' = [content EXCEPT ![agent[c]].asked = @ \cup {c}]
    /\ Goto(c, "remote")
    /\ UNCHANGED <<files, sessions, mapLock, agent, id>>

Edit(c) ==
    /\ pc[c] = "wantagent" /\ c \in Editors
    /\ owner[agent[c]] = NoCall
    /\ owner' = [owner EXCEPT ![agent[c]] = c]
    /\ content' = [content EXCEPT ![agent[c]].answered = @ \cup {c}]
    /\ Goto(c, "trunc_turn")
    /\ UNCHANGED <<files, sessions, mapLock, agent, id>>

Read(c) ==
    /\ pc[c] = "wantagent" /\ c \in Readers
    /\ owner[agent[c]] = NoCall
    /\ Goto(c, "ok")
    /\ UNCHANGED <<files, sessions, mapLock, content, owner, agent, id>>

(* The gateway's answer: the reply is stored, the summary updated (which   *)
(* may ask the local model), and the session saved.                        *)
Reply(c) ==
    /\ pc[c] = "remote"
    /\ content' = [content EXCEPT ![agent[c]].answered = @ \cup {c}]
    /\ Goto(c, "summary")
    /\ UNCHANGED <<files, sessions, mapLock, owner, agent, id>>

(* Any error: the user message stays, nothing is saved. *)
NoReply(c) ==
    /\ pc[c] = "remote" /\ "remote" \in Faults
    /\ Goto(c, "failed")
    /\ Unlock(c)
    /\ UNCHANGED <<files, sessions, mapLock, content, agent, id>>

Summarize(c) ==
    /\ pc[c] = "summary"
    /\ Goto(c, "trunc_turn")
    /\ UNCHANGED <<files, sessions, mapLock, content, owner, agent, id>>

Step(c) ==
    \/ AlreadyExists(c) \/ NotThere(c)
    \/ Truncate(c) \/ Fill(c) \/ SaveFails(c)
    \/ LookupHit(c) \/ LookupMiss(c) \/ LockMap(c)
    \/ RecheckHit(c) \/ RecheckMiss(c)
    \/ OpenWhole(c) \/ OpenTorn(c) \/ OpenAbsent(c) \/ Insert(c)
    \/ LockAgent(c) \/ Edit(c) \/ Read(c) \/ Reply(c) \/ NoReply(c) \/ Summarize(c)

-----------------------------------------------------------------------------
(* The caller hangs up; dropping the future drops the mutex guard. *)
Cancel(c) ==
    /\ "cancel" \in Faults
    /\ pc[c] \in Awaiting
    /\ Goto(c, "gone")
    /\ Unlock(c)
    /\ UNCHANGED <<files, sessions, mapLock, content, agent, id>>

(* The client dies and is started again. *)
Crash ==
    /\ "crash" \in Faults
    /\ sessions' = [i \in Ids |-> NoCall]
    /\ mapLock' = NoCall
    /\ owner' = [c \in Calls |-> NoCall]
    /\ pc' = [c \in Calls |-> IF pc[c] \in Ended \cup {"idle"}
                              THEN pc[c] ELSE "gone"]
    /\ UNCHANGED <<files, content, agent, id>>

Next ==
    \/ \E c \in Calls : StartCreate(c) \/ StartUse(c) \/ Step(c) \/ Cancel(c)
    \/ Crash

Spec == Init /\ [][Next]_vars

(* Threads run, the gateway and the local model answer or time out, and a  *)
(* lock that stays free is given to one that waits.                        *)
FairSpec == Spec /\ \A c \in Calls : WF_vars(Step(c))

-----------------------------------------------------------------------------
(* Properties.                                                             *)

(* "Double-checked": calls about one session never work on two runtimes,   *)
(* which would overwrite each other's turns in the file.                   *)
OneRuntime ==
    \A c, d \in Calls :
        pc[c] \in Using /\ pc[d] \in Using /\ id[c] = id[d]
            => agent[c] = agent[d]

(* A reply or an edit the caller was told of is in the session's file,     *)
(* across restarts, as long as saves do not fail and the file is not torn. *)
NoLostReply ==
    \A c \in Calls \ (Creators \cup Readers) :
        pc[c] = "ok" /\ "io" \notin Faults /\ files[PathFor(c)].st = "whole"
            => c \in files[PathFor(c)].session.answered

(* The calls that left something in a session. *)
Said(s) == s.asked \cup s.answered

(* A message said in one session is in no other session's memory or file.  *)
Isolation ==
    /\ \A i \in Ids : \A c \in Said(files[PathOf[i]].session) : id[c] = i
    /\ \A b \in Calls : \A c \in Said(content[b]) : id[c] = id[b]

(* Every call ends: the two locks are never waited for in a circle, and    *)
(* errors and hang-ups give them back.                                     *)
EveryCallEnds == \A c \in Calls : pc[c] # "idle" ~> pc[c] \in Ended

-----------------------------------------------------------------------------
(* What the comments say and the code does not do.                         *)

(* manager.rs, 178: create_session answers "session already exists" when   *)
(* it does.  Two calls that create one session both succeed.               *)
CreatedOnce ==
    \A c, d \in Creators :
        pc[c] = "ok" /\ pc[d] = "ok" /\ id[c] = id[d] => c = d
=============================================================================
