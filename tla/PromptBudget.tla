---------------------------- MODULE PromptBudget ----------------------------
(***************************************************************************)
(* How the client fits a prompt into its token class                       *)
(* (client/src/prompt.rs): the blocks and the recent history are put       *)
(* together, enforce_budget drops and truncates until the prompt fits,     *)
(* pad_system_message fills it up again, and the gateway weighs what       *)
(* arrives (gateway/src/main.rs, approx_prompt_bytes).                     *)
(*                                                                         *)
(* A message is its role and the size of its content: `chars` characters   *)
(* of `width` bytes each, and the ellipsis a truncation adds.  One step is *)
(* one turn of the loop in enforce_budget.                                 *)
(***************************************************************************)
EXTENDS Integers, Sequences, SequencesExt

CONSTANTS
    MaxPrompt,      \* max_prompt_bytes of the token class
    PadSystem,      \* pad_system_prompt
    MaxPadding,     \* max_padding_bytes
    MaxRecent,      \* max_recent_messages
    SystemChars,    \* size of the system prompt with its privacy note
    MemoryChars,    \* sizes of the memory block tried; 0: there is none
    ContentChars,   \* sizes of a message's content tried
    Widths,         \* bytes per character tried
    MaxHistory      \* bound: messages in the session

ASSUME SizeAssumption ==
    /\ {MaxPrompt, MaxPadding, SystemChars, MaxHistory} \subseteq Nat
    /\ MemoryChars \subseteq Nat /\ ContentChars \subseteq Nat
    /\ Widths \subseteq Nat \ {0}
    /\ PadSystem \in BOOLEAN
ASSUME RecentAssumption == MaxRecent \in Nat \ {0}

VARIABLES
    messages,   \* the prompt under construction
    blocks,     \* history: the blocks it started with ...
    recent,     \* ... and the messages after them, oldest first
    phase       \* "fit", "pad", "refit" or "sent"

vars == <<messages, blocks, recent, phase>>

Roles == {"system", "user", "assistant"}
Message == [role : Roles, chars : Nat, width : Nat \ {0}, dots : BOOLEAN]

RoleLen(role) ==
    CASE role = "system" -> 6 [] role = "user" -> 4 [] role = "assistant" -> 9

Ellipsis == 3       \* bytes of the character that marks a truncation
TruncateMargin == 32
PadOverhead == 128  \* room left for the markers ...
PadMarkers == 89    \* ... and what they take

ContentBytes(m) == m.chars * m.width + (IF m.dots THEN Ellipsis ELSE 0)
CharCount(m) == m.chars + (IF m.dots THEN 1 ELSE 0)

(* approx_prompt_bytes of the client: roles and contents only. *)
Weight(m) == RoleLen(m.role) + ContentBytes(m)

Bytes(ms) ==
    LET sum[n \in 0..Len(ms)] ==
            IF n = 0 THEN 0 ELSE sum[n - 1] + Weight(ms[n])
    IN  sum[Len(ms)]

(* approx_prompt_bytes of the gateway: the length of the JSON array.  Each *)
(* message is {"role":"...","content":"..."}; escapes would add to it.     *)
JsonBytes(ms) == Bytes(ms) + 24 * Len(ms) + Len(ms) + 1

Minimum(a, b) == IF a < b THEN a ELSE b
Monus(a, b) == IF a > b THEN a - b ELSE 0

TypeOK ==
    /\ {messages, blocks, recent} \subseteq Seq(Message)
    /\ phase \in {"fit", "pad", "refit", "sent"}

-----------------------------------------------------------------------------
(* build_remote_messages_with_retrieval, up to the budget. *)

Text(role, chars, width) ==
    [role |-> role, chars |-> chars, width |-> width, dots |-> FALSE]

Blocks(memory) ==
    <<Text("system", SystemChars, 1)>>
        \o (IF memory = 0 THEN <<>> ELSE <<Text("system", memory, 1)>>)

TakeLast(s, n) == SubSeq(s, Monus(Len(s), n) + 1, Len(s))

(* A session: turns that failed leave user messages without an answer, and *)
(* the message being sent is the last one. *)
Turns(role) == {Text(role, c, w) : c \in ContentChars, w \in Widths}

Pasts == UNION {[1..n -> Turns("user") \cup Turns("assistant")] :
                    n \in 0..(MaxHistory - 1)}

Histories == {Append(past, question) : past \in Pasts, question \in Turns("user")}

Init ==
    /\ \E memory \in MemoryChars, history \in Histories :
          /\ blocks = Blocks(memory)
          /\ recent = TakeLast(history, MaxRecent)
    /\ messages = blocks \o recent
    /\ phase = "fit"

-----------------------------------------------------------------------------
(* enforce_budget *)

Users(ms) == {i \in DOMAIN ms : ms[i].role = "user"}
LastUser(ms) ==
    IF Users(ms) = {} THEN Len(ms)
    ELSE SelectLastInSeq(ms, LAMBDA m : m.role = "user")

(* Mutant: a block in the middle may be dropped too. *)
DroppableBlocks(ms) == {i \in DOMAIN ms : i # 1 /\ i # LastUser(ms)}

(* What may be dropped: not the system blocks, not the last user message.  *)
Droppable(ms) ==
    {i \in DOMAIN ms : i # 1 /\ ms[i].role # "system" /\ i # LastUser(ms)}

OverBudget == phase \in {"fit", "refit"} /\ Bytes(messages) > MaxPrompt
CanDrop == Len(messages) > 2 /\ Droppable(messages) # {}

Drop ==
    /\ OverBudget /\ CanDrop
    /\ messages' = RemoveAt(messages,
            CHOOSE i \in Droppable(messages) :
                \A j \in Droppable(messages) : i <= j)
    /\ UNCHANGED <<blocks, recent, phase>>

(* Mutants: the subtraction does not saturate; there is no safety margin. *)
TruncatedUnderflow(m, over) ==
    [m EXCEPT !.chars = Minimum(m.chars,
                                CharCount(m) - (over + TruncateMargin)),
              !.dots = TRUE]

TruncatedTight(m, over) ==
    [m EXCEPT !.chars = Minimum(m.chars, Monus(CharCount(m), over)),
              !.dots = TRUE]

(* Truncation counts characters where the budget counts bytes. *)
Truncated(m, over) ==
    [m EXCEPT !.chars = Minimum(m.chars,
                                Monus(CharCount(m), over + TruncateMargin)),
              !.dots = TRUE]

(* Mutant: truncates even while there is something to drop. *)
TruncateFirst ==
    /\ OverBudget
    /\ LET i == LastUser(messages)
           over == Bytes(messages) - MaxPrompt
       IN  messages' = [messages EXCEPT ![i] = Truncated(messages[i], over)]
    /\ UNCHANGED <<blocks, recent, phase>>

Truncate ==
    /\ OverBudget /\ ~CanDrop
    /\ Users(messages) # {}
    /\ LET i == LastUser(messages)
           over == Bytes(messages) - MaxPrompt
       IN  messages' = [messages EXCEPT ![i] = Truncated(messages[i], over)]
    /\ UNCHANGED <<blocks, recent, phase>>

(* Mutant: the margin is granted, not kept. *)
FitsJustOver ==
    /\ phase \in {"fit", "refit"}
    /\ Bytes(messages) <= MaxPrompt + TruncateMargin
    /\ phase' = IF phase = "fit" THEN "pad" ELSE "sent"
    /\ UNCHANGED <<messages, blocks, recent>>

(* The loop ends. *)
Fits ==
    /\ phase \in {"fit", "refit"}
    /\ Bytes(messages) <= MaxPrompt \/ (~CanDrop /\ Users(messages) = {})
    /\ phase' = IF phase = "fit" THEN "pad" ELSE "sent"
    /\ UNCHANGED <<messages, blocks, recent>>

-----------------------------------------------------------------------------
(* pad_system_message.  The markers take less than the room left for them, *)
(* so the trimming loop at its end never has anything to trim.             *)

(* Mutant: the room for the markers is taken twice. *)
FillerTwiceReduced ==
    Minimum(MaxPrompt - Bytes(messages) - 2 * PadOverhead, MaxPadding)

Filler == Minimum(MaxPrompt - Bytes(messages) - PadOverhead, MaxPadding)

HasRoom == MaxPrompt - Bytes(messages) > PadOverhead

Pad ==
    /\ phase = "pad" /\ PadSystem /\ HasRoom
    /\ messages' = [messages EXCEPT ![1].chars = @ + Filler + PadMarkers]
    /\ phase' = "refit"
    /\ UNCHANGED <<blocks, recent>>

NoPad ==
    /\ phase = "pad" /\ ~(PadSystem /\ HasRoom)
    /\ phase' = "refit"
    /\ UNCHANGED <<messages, blocks, recent>>

Next == Drop \/ Truncate \/ Fits \/ Pad \/ NoPad

Spec == Init /\ [][Next]_vars

(* The client's thread runs the loop to its end, if it has one. *)
FairSpec == Spec /\ WF_vars(Next)

-----------------------------------------------------------------------------
(* Properties.                                                             *)

(* By the client's own measure, the prompt that is sent fits its class.    *)
WithinBudget == phase = "sent" => Bytes(messages) <= MaxPrompt

(* The question survives: the last message sent is the one the user just   *)
(* wrote ("Keep the last user message"), or is cut short, and then nothing *)
(* older is left that could have been dropped instead.                     *)
KeepsQuestion ==
    /\ Last(messages).role = "user"
    /\ LET asked == Last(recent) IN
           \/ Last(messages) = asked
           \/ /\ Last(messages).dots /\ Last(messages).chars <= asked.chars
              /\ Droppable(messages) = {}

(* All the blocks the prompt was built with are still there, in front and  *)
(* whole: nothing is lost of them, and padding is all that is added, to    *)
(* the first.                                                              *)
BlocksKept ==
    /\ Len(blocks) < Len(messages)
    /\ messages[1].chars >= blocks[1].chars
    /\ messages[1] = [blocks[1] EXCEPT !.chars = messages[1].chars]
    /\ \A k \in 2..Len(blocks) : messages[k] = blocks[k]

(* Behind them is the newest part of the history, in order: each message   *)
(* before the question is the one that far from the end of what the prompt *)
(* started from.                                                           *)
NewestFollow ==
    /\ Len(messages) - Len(blocks) <= Len(recent)
    /\ \A k \in (Len(blocks) + 1)..(Len(messages) - 1) :
          messages[k] = recent[Len(recent) - (Len(messages) - k)]

(* "after any system/memory messages": whatever had to go was the oldest   *)
(* of the history and never a block.                                       *)
KeepsNewest == BlocksKept /\ NewestFollow

(* The provider learns little from the prompt's length: with padding on    *)
(* and not limited, all prompts of a class are within the marker overhead  *)
(* of its limit.                                                           *)
LengthHidden ==
    phase = "sent" /\ PadSystem /\ MaxPadding >= MaxPrompt
        => Bytes(messages) >= MaxPrompt - PadOverhead

(* When the blocks, which are in front, leave room for a question, the     *)
(* loop ends.                                                              *)
BlocksFit ==
    \E n \in DOMAIN messages :
        /\ \A k \in DOMAIN messages : messages[k].role = "system" <=> k <= n
        /\ Bytes(SubSeq(messages, 1, n)) + RoleLen("user") + Ellipsis
                <= MaxPrompt

EndsIfBlocksFit == BlocksFit ~> phase = "sent"

-----------------------------------------------------------------------------
(* What the documentation says and the code does not do.                   *)

(* enforce_budget, 184: "First try: if we have an extra memory system      *)
(* message at index 1, shrink it."  It never is, so a session whose memory *)
(* block exceeds the class never gets its prompt.                          *)
AlwaysEnds == <>(phase = "sent")

(* token.rs, 9: the class's limit is "max prompt bytes (after JSON         *)
(* serialization)", and so the gateway weighs it: the prompts the client   *)
(* packs pass its check.                                                   *)
GatewayAccepts == phase = "sent" => JsonBytes(messages) <= MaxPrompt
=============================================================================
