----------------------------- MODULE MemoryStore -----------------------------
(***************************************************************************)
(* The client's retrieval index (client/src/memory_store.rs): a list of    *)
(* documents made of the session's memory items and messages, and what a   *)
(* search may return.  A document knows its place in the session; message  *)
(* and memory places count from 1.                                         *)
(*                                                                         *)
(* Scores are left open: of the documents that share a word with the       *)
(* query any may be the best.                                              *)
(***************************************************************************)
EXTENDS Naturals, Sequences, FiniteSetsExt

CONSTANTS
    IndexMessages,  \* index_messages
    MaxIndexed      \* max_messages_indexed

ASSUME IndexAssumption == IndexMessages \in BOOLEAN /\ MaxIndexed \in Nat

Lesser(a, b) == IF a < b THEN a ELSE b
Less(a, b) == IF a > b THEN a - b ELSE 0        \* saturating_sub

MemoryDoc(at, text) == [kind |-> "memory", at |-> at, text |-> text]
MessageDoc(at, text) == [kind |-> "message", at |-> at, text |-> text]

MemoryDocs(memory) ==
    [k \in 1..Len(memory) |-> MemoryDoc(k, memory[k])]

(* Mutant: the messages left are numbered anew (skip before enumerate).    *)
RecentDocsRenumbered(messages) ==
    LET start == Less(Len(messages), MaxIndexed)
    IN  [k \in 1..(Len(messages) - start) |->
            MessageDoc(k, messages[start + k].text)]

(* The most recent messages, up to the cap. *)
RecentDocs(messages) ==
    LET start == Less(Len(messages), MaxIndexed)
    IN  [k \in 1..(Len(messages) - start) |->
            MessageDoc(start + k, messages[start + k].text)]

(* rebuild_from_session *)
Rebuilt(memory, messages) ==
    MemoryDocs(memory)
        \o (IF IndexMessages THEN RecentDocs(messages) ELSE <<>>)

(* tokenize: punctuation and white space separate words.                   *)
Words(text) == {text[k].c : k \in DOMAIN text} \ {"sp", "@", "0x"}

(* search: the documents of a kind, up to a place, that share a word.      *)
Hit(docs, query, kind, upTo) ==
    {docs[k] : k \in {i \in DOMAIN docs :
        /\ docs[i].kind = kind
        /\ docs[i].at <= upTo
        /\ Words(docs[i].text) \cap Words(query) # {}}}

Results(docs, query, kind, upTo, limit) ==
    LET hit == Hit(docs, query, kind, upTo)
    IN  kSubset(Lesser(limit, Cardinality(hit)), hit)
=============================================================================
