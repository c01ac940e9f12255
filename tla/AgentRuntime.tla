---------------------------- MODULE AgentRuntime ----------------------------
(***************************************************************************)
(* One session's personal agent (client/src/agent.rs): the session, its    *)
(* redactor, its index and its rolling summary over turns, edits, failed   *)
(* and abandoned turns, saves that may fail unnoticed, and restarts.       *)
(*                                                                         *)
(* The runtime's mutex is held for a whole turn, so that within one        *)
(* session only a crash or a caller that hangs up comes between its steps; *)
(* SessionStore has the locks, EnvelopeExchange the way to the gateway and *)
(* PromptBudget what happens to a prompt that is too long.                 *)
(***************************************************************************)
EXTENDS Redaction, MemoryStore

CONSTANTS
    Inputs,         \* the texts a user may type
    Notes,          \* the texts a user may ask to remember
    Terms,          \* the terms a user may add
    Prompts,        \* the system prompts a user may set
    ExtraTerms,     \* the terms of the command line, a sequence
    MaxRecent,      \* max_recent_messages
    MaxMemories,    \* max_memory_items
    MaxRecall,      \* max_recall_snippets
    MemoryChars,    \* 400: how much of a memory item goes into a prompt
    RecallChars,    \* 300: how much of an older message does
    LineChars,      \* 300: how much of a message goes into the summary
    SummaryBytes,   \* 4000: the window of the naive summary
    LocalAi,        \* whether there is a local summarizer
    MaxMessages,    \* bound: messages in the session
    MaxNotes,       \* bound: memory items in the session
    MaxEdits        \* bound: notes, terms and system prompt in effect

ASSUME LimitsAssumption ==
    /\ {MaxRecent, MaxMemories, MaxRecall} \subseteq Nat
    /\ {MemoryChars, RecallChars, LineChars, SummaryBytes} \subseteq Nat
    /\ {MaxMessages, MaxNotes, MaxEdits} \subseteq Nat
    /\ LocalAi \in BOOLEAN

ASSUME TermsAssumption == ExtraTerms \in Seq(Range(ExtraTerms))

(* What people type, and the pieces of it. *)
TypedTexts == Inputs \cup Notes \cup Terms \cup Prompts \cup Range(ExtraTerms)
TypedPieces == UNION {Range(text) : text \in TypedTexts}

(* It holds no placeholder. *)
ASSUME TypedAssumption ==
    \A text \in TypedTexts :
        /\ text \in Seq(TypedPieces)
        /\ \A k \in DOMAIN text : ~IsPlaceholderPiece(text[k])

VARIABLES
    session,    \* AgentRuntime.session
    redactor,   \* its redactor: the terms, and the entries of its map
    index,      \* its memory_store
    file,       \* the session as it was saved last ...
    torn,       \* ... or, if that save was cut off, nothing of it
    pc,         \* "idle", "posted" (awaiting the gateway) or "summary"
    sent,       \* the pieces of the prompt on its way
    reply,      \* what the provider answered ...
    shown,      \* ... and what the user is shown for it
    edits,      \* history: what the user told this client, or an earlier
                \* one that saved it: the notes, the system prompt and the
                \* terms to hide
    durable     \* history: the part of it that a save has put in the file

vars == <<session, redactor, index, file, torn, pc, sent, reply, shown,
          edits, durable>>

NewSession ==
    [messages |-> <<>>, memory |-> <<>>, summary |-> <<>>, system |-> <<>>,
     terms |-> <<>>, entries |-> {}]

NoEdits == [memory |-> <<>>, system |-> <<>>, terms |-> {}]

Message(role, text) == [role |-> role, text |-> text]

Take(text, n) == SubSeq(text, 1, Lesser(n, Len(text)))
Skip(text, n) == SubSeq(text, n + 1, Len(text))

(* save_session rewrites the file in place: all of it; nothing, as it      *)
(* could not be opened; or a part, which no client can load.  Nobody looks *)
(* at its result: persist and AgentRuntime::new drop it.                   *)
Persist(state) ==
    \/ file' = state /\ durable' = edits' /\ torn' = FALSE
    \/ UNCHANGED <<file, durable, torn>>
    \/ file' = NewSession /\ durable' = NoEdits /\ torn' = TRUE

(* Mutant: the redactor starts with the saved terms alone. *)
StartedForgetful(saved) ==
    LET terms == Merged(saved.terms, ExtraTerms)
    IN  /\ redactor' = [terms |-> terms, entries |-> {}]
        /\ session' = [saved EXCEPT !.terms = terms]
        /\ index' = Rebuilt(saved.memory, saved.messages)
        /\ Persist(session')

(* AgentRuntime::new on a saved session: the terms are merged, the index   *)
(* is built and the session is saved again.                                *)
Started(saved) ==
    LET terms == Merged(saved.terms, ExtraTerms)
    IN  /\ redactor' = [terms |-> terms, entries |-> saved.entries]
        /\ session' = [saved EXCEPT !.terms = terms]
        /\ index' = Rebuilt(saved.memory, saved.messages)
        /\ Persist(session')

(* No answer: an empty piece of no prompt. *)
NoReply == [part |-> "none", raw |-> <<>>, kept |-> 0, text |-> <<>>]

Quiet == pc' = "idle" /\ sent' = {} /\ reply' = NoReply /\ shown' = <<>>

(* A new session.  Where there is no file yet, as its first saves failed,  *)
(* the next start finds a new session too.                                 *)
Init ==
    LET terms == Merged(<<>>, ExtraTerms)
    IN  /\ redactor = [terms |-> terms, entries |-> {}]
        /\ session = [NewSession EXCEPT !.terms = terms]
        /\ \/ file = session /\ torn = FALSE
           \/ file = NewSession /\ torn \in BOOLEAN
        /\ index = <<>>
        /\ pc = "idle" /\ sent = {} /\ reply = NoReply /\ shown = <<>>
        /\ edits = NoEdits /\ durable = NoEdits

-----------------------------------------------------------------------------
(* Edits: each is saved at once, if the save succeeds.                     *)

MayEdit ==
    /\ pc = "idle"
    /\ Len(edits.memory) + Cardinality(edits.terms)
            + (IF edits.system = <<>> THEN 0 ELSE 1) < MaxEdits

Remember(text) ==
    /\ MayEdit /\ Len(session.memory) < MaxNotes
    /\ session' = [session EXCEPT !.memory = Append(@, text)]
    /\ index' = Append(index, MemoryDoc(Len(session.memory) + 1, text))
    /\ edits' = [edits EXCEPT !.memory = Append(@, text)]
    /\ Persist(session')
    /\ UNCHANGED <<redactor, pc, sent, reply, shown>>

(* Mutant: the session is saved without the new term. *)
AddTermUnsaved(term) ==
    /\ MayEdit /\ term \notin edits.terms
    /\ redactor' = [redactor EXCEPT !.terms = AddCustomTerm(@, term)]
    /\ edits' = [edits EXCEPT !.terms = @ \cup {term}]
    /\ Persist(session)
    /\ UNCHANGED <<session, index, pc, sent, reply, shown>>

AddTerm(term) ==
    /\ MayEdit /\ term \notin edits.terms
    /\ redactor' = [redactor EXCEPT !.terms = AddCustomTerm(@, term)]
    /\ session' = [session EXCEPT !.terms = redactor'.terms,
                                  !.entries = redactor.entries]
    /\ edits' = [edits EXCEPT !.terms = @ \cup {term}]
    /\ Persist(session')
    /\ UNCHANGED <<index, pc, sent, reply, shown>>

SetSystem(text) ==
    /\ MayEdit /\ session.system # text
    /\ session' = [session EXCEPT !.system = text]
    /\ edits' = [edits EXCEPT !.system = text]
    /\ Persist(session')
    /\ UNCHANGED <<redactor, index, pc, sent, reply, shown>>

(* persist, as the REPL calls it; what an earlier save lost, it saves too. *)
Save ==
    /\ pc = "idle"
    /\ UNCHANGED <<session, redactor, index, pc, sent, reply, shown, edits>>
    /\ Persist(session)

-----------------------------------------------------------------------------
(* A turn. *)

(* What goes into a prompt: where it is from, its whole text and how many  *)
(* pieces of it are kept.                                                  *)
Source(part, raw, kept) == [part |-> part, raw |-> raw, kept |-> kept]

Sources(memories, recall, messages) ==
    {Source("system", session.system, Len(session.system)),
     Source("summary", session.summary, Len(session.summary))}
        \cup {Source("memory", d.text, MemoryChars) : d \in memories}
        \cup {Source("recall", d.text, RecallChars) : d \in recall}
        \cup {Source("recent", messages[k].text, Len(messages[k].text)) :
                k \in (Less(Len(messages), MaxRecent) + 1)..Len(messages)}

(* Each source is cut first and redacted then.  The code redacts the whole *)
(* memory block at once (summary, items and recalled messages, each on     *)
(* lines of its own): a match across two of them, such as a key block that *)
(* begins in one and ends in another, hides more than here.                *)
Piece(source) ==
    LET text == Take(source.raw, source.kept)
    IN  [part |-> source.part, raw |-> source.raw, kept |-> source.kept,
         text |-> Redact(text, redactor.terms)]

NewEntries(sources) ==
    UNION {Entries(Take(s.raw, s.kept), redactor.terms) : s \in sources}

(* The message is stored and indexed, the prompt built and redacted; then  *)
(* it is posted, or there was no ticket for it.                            *)
Send(text) ==
    /\ pc = "idle" /\ Len(session.messages) + 2 <= MaxMessages
    /\ LET messages == Append(session.messages, Message("user", text))
           docs == Append(index, MessageDoc(Len(messages), text))
           older == Less(Len(messages), MaxRecent)
       IN  /\ session' = [session EXCEPT !.messages = messages]
           /\ index' = docs
           /\ \E memories \in Results(docs, text, "memory",
                                      Len(session.memory), MaxMemories),
                 recall \in Results(docs, text, "message", older, MaxRecall) :
                LET sources == Sources(memories, recall, messages)
                IN  /\ redactor' = [redactor EXCEPT
                                        !.entries = @ \cup NewEntries(sources)]
                    /\ \/ pc' = "posted" /\ sent' = {Piece(s) : s \in sources}
                       \/ UNCHANGED <<pc, sent>>
    /\ UNCHANGED <<file, torn, reply, shown, edits, durable>>

(* The request fails on its way, the answer is refused, or the caller      *)
(* hangs up: nothing is saved, and the user's message stays.               *)
Fail ==
    /\ pc = "posted"
    /\ Quiet
    /\ UNCHANGED <<session, redactor, index, file, torn, edits, durable>>

LastTurn(messages) ==
    SubSeq(messages, Less(Len(messages), 2) + 1, Len(messages))

(* The provider answers with a part of what it was sent.  The answer is      *)
(* rehydrated, stored and indexed; the turn is redacted for the summary.   *)
Answer(piece) ==
    /\ pc = "posted"
    /\ \E out \in Rehydrations(piece.text, redactor.entries) :
          LET messages == Append(session.messages, Message("assistant", out))
              turn == Range(LastTurn(messages))
          IN  /\ shown' = out
              /\ session' = [session EXCEPT !.messages = messages]
              /\ index' = Append(index, MessageDoc(Len(messages), out))
              /\ redactor' = [redactor EXCEPT !.entries = @ \cup
                    UNION {Entries(m.text, redactor.terms) : m \in turn}]
    /\ reply' = piece
    /\ sent' = {}
    /\ pc' = "summary"
    /\ UNCHANGED <<file, torn, edits, durable>>

LineBreak == Typed(<<"sp">>)

(* The turn as the summarizers see it: a line for each message.            *)
Lines(messages) ==
    LET turn == LastTurn(messages)
        redacted(m) == Redact(m.text, redactor.terms)
    IN  FlattenSeq([k \in DOMAIN turn |->
            LineBreak \o Take(redacted(turn[k]), LineChars)])

Bytes(text) ==
    LET sum[n \in 0..Len(text)] ==
            IF n = 0 THEN 0
            ELSE sum[n - 1] + (IF text[n].c = "wide" THEN 3 ELSE 1)
    IN  sum[Len(text)]

(* Mutant: what is kept is the beginning. *)
WindowFront(text) == Take(text, SummaryBytes)

(* Bytes are counted and characters are skipped. *)
Window(text) == Skip(text, Less(Bytes(text), SummaryBytes))

(* Mutant: the session is saved before the redactor's state is put in it.  *)
FinishEarly(summary) ==
    /\ session' = [session EXCEPT !.summary = summary]
    /\ Quiet
    /\ UNCHANGED <<redactor, index, edits>>
    /\ Persist(session')

(* The end of the turn: the redactor's state is put in the session, the    *)
(* session is saved.                                                       *)
Finish(summary) ==
    /\ session' = [session EXCEPT !.summary = summary,
                                  !.terms = redactor.terms,
                                  !.entries = redactor.entries]
    /\ Quiet
    /\ UNCHANGED <<redactor, index, edits>>
    /\ Persist(session')

(* The local model's summary replaces the old one: it keeps it, keeps the  *)
(* turn alone, or is empty (an answer without content).                    *)
LocalSummary ==
    /\ pc = "summary" /\ LocalAi
    /\ \E summary \in {<<>>, session.summary, Lines(session.messages)} :
          Finish(summary)

(* No local model, or it failed. *)
NaiveSummary ==
    /\ pc = "summary"
    /\ Finish(Window(session.summary \o Lines(session.messages)))

(* The caller hangs up while the local model works.                        *)
Abandon ==
    /\ pc = "summary" /\ LocalAi
    /\ Quiet
    /\ UNCHANGED <<session, redactor, index, file, torn, edits, durable>>

(* The client dies, at any point, and is started again, perhaps with       *)
(* --reset-system and a system prompt, on a file that is whole: on a torn  *)
(* one load_session fails and there is no client.                          *)
Restart ==
    /\ ~torn
    /\ \E system \in {file.system} \cup Prompts :
          /\ edits' = [durable EXCEPT !.system = system]
          /\ Started([file EXCEPT !.system = system])
    /\ Quiet

Next ==
    \/ \E text \in Notes : Remember(text)
    \/ \E term \in Terms : AddTerm(term)
    \/ \E text \in Prompts : SetSystem(text)
    \/ \E text \in Inputs : Send(text)
    \/ \E piece \in sent : Answer(piece)
    \/ Save \/ Fail \/ LocalSummary \/ NaiveSummary \/ Abandon \/ Restart

Spec == Init /\ [][Next]_vars

-----------------------------------------------------------------------------
(* Properties.                                                             *)

Texts(state) ==
    {m.text : m \in Range(state.messages)} \cup Range(state.memory)
        \cup Range(state.terms) \cup {state.summary, state.system}

(* A piece is of somebody's typing, the line break of a summary, or of a   *)
(* placeholder.                                                            *)
IsPiece(piece) ==
    \/ piece \in TypedPieces \cup Range(LineBreak)
    \/ IsPlaceholderPiece(piece) /\ piece.c \in DOMAIN Length \cup HashClasses

TypeOK ==
    /\ \A state \in {session, file} :
          /\ \A text \in Texts(state) : \A k \in DOMAIN text : IsPiece(text[k])
          /\ \A m \in Range(state.messages) : m.role \in {"user", "assistant"}
          /\ Len(state.messages) <= MaxMessages
          /\ Len(state.memory) <= MaxNotes
          /\ \A e \in state.entries : e.c \in DOMAIN Length /\ e.of # <<>>
    /\ pc \in {"idle", "posted", "summary"}
    /\ sent # {} => pc = "posted"
    /\ session.entries \subseteq redactor.entries
    /\ edits.terms \cup durable.terms \subseteq Terms

(* The index agrees with the session, whatever was restarted in between:   *)
(* each document has the text of the item or message it names, nothing is  *)
(* indexed twice, no message between two indexed ones is missing, and a    *)
(* restart would find nothing that is not in it (it may find less: what is *)
(* added to a running index counts towards no cap).                        *)
IndexAgrees ==
    /\ \A d \in Range(index) :
          \/ /\ d.kind = "memory" /\ d.at \in DOMAIN session.memory
             /\ d.text = session.memory[d.at]
          \/ /\ d.kind = "message" /\ d.at \in DOMAIN session.messages
             /\ d.text = session.messages[d.at].text
    /\ \A i, j \in DOMAIN index :
          index[i].kind = index[j].kind /\ index[i].at = index[j].at => i = j
    /\ \A d \in Range(index) : d.kind = "message" =>
          \A k \in d.at..Len(session.messages) :
              MessageDoc(k, session.messages[k].text) \in Range(index)
    /\ Range(Rebuilt(session.memory, session.messages)) \subseteq Range(index)

(* "so we don't recall what we're already including verbatim": a recalled  *)
(* snippet is of a message before the recent ones.                         *)
RecallIsOld ==
    \A piece \in sent : piece.part = "recall" =>
        \E k \in 1..Less(Len(session.messages), MaxRecent) :
            piece.raw = session.messages[k].text

(* What the user did other than chat outlives turns that fail after it     *)
(* and, once any save after it has succeeded, every restart: nothing is    *)
(* lost but by a client that dies without a successful save since.  A chat *)
(* loses its last messages at most.  A term the user asked to hide, here   *)
(* or on the command line, is hidden from then on.                         *)
EditsSurvive ==
    /\ session.memory = edits.memory /\ session.system = edits.system
    /\ \A term \in edits.terms \cup Range(ExtraTerms) :
          Blank(term) \/ term \in Range(redactor.terms) \cap Range(session.terms)
    /\ IsPrefix(file.messages, session.messages)
    /\ file.memory = durable.memory /\ file.system = durable.system
    /\ \A term \in durable.terms : Blank(term) \/ term \in Range(file.terms)

(* Where a text holds what a pass hides, a match of its rule or its term.  *)
(* The last rank is of the terms that no pass looks for.                   *)
Secrets(text) ==
    LET terms == redactor.terms
        term(n) == n - Len(Rules)
        hides(n, s) ==
            IF n <= Len(Rules) THEN Matches(Rules[n], s)
            ELSE /\ s \in edits.terms \cup Range(ExtraTerms) /\ ~Blank(s)
                 /\ term(n) \in DOMAIN terms => s = terms[term(n)]
    IN  {s \in [from : DOMAIN text, to : DOMAIN text,
                rank : 1..(Passes(terms) + 1)] :
            s.from <= s.to /\ hides(s.rank, SubSeq(text, s.from, s.to))}

(* An earlier pass, or the same one and from outside of the secret, has    *)
(* put a placeholder for a part of it and not for all.  URLs do not mind.  *)
Severed(secret, cuts) ==
    LET span == secret.from..secret.to
    IN  /\ secret.rank \notin {k \in DOMAIN Rules : Rules[k] = "URL"}
        /\ \E cut \in cuts :
              /\ \/ cut.rank < secret.rank
                 \/ cut.rank = secret.rank /\ cut.head \notin span
              /\ cut.at \cap span # {} /\ ~(span \subseteq cut.at)

(* What leaves matches no rule and none of the terms, whole, anywhere: no  *)
(* rule and no term brings back, for a person to read, what an earlier one *)
(* let through.                                                            *)
NoMatchSent ==
    Mode # "none" => \A piece \in sent : \A i, j \in DOMAIN piece.text :
        LET s == SubSeq(piece.text, i, j)
        IN  i <= j /\ (\A k \in i..j : ~IsPlaceholderPiece(piece.text[k])) =>
                /\ \A tag \in Range(Rules) : ~Matches(tag, s)
                /\ Blank(s) \/ s \notin edits.terms \cup Range(ExtraTerms)

(* Nor does a part of a secret leave, but where an earlier placeholder cut *)
(* into it (a phone number in an address, "acme" in "acme corp") or the    *)
(* end of a snippet did: whatever a person reads in a prompt stood outside *)
(* of everything that a rule or a term names, whatever was added,          *)
(* summarised, recalled or restarted before.                               *)
NoPartSent ==
    Mode # "none" => \A piece \in sent :
        LET text == Take(piece.raw, piece.kept)
            cuts == Cuts(text, redactor.terms)
            hidden == UNION {s.from..s.to :
                        s \in {s \in Secrets(text) : ~Severed(s, cuts)}}
        IN  \A x \in Range(piece.text) :
                IsPlaceholderPiece(x) \/ \E k \in DOMAIN text \ hidden : x = text[k]

NoSecretSent == NoMatchSent /\ NoPartSent

(* Those that came back in an answer and were stored with it. *)
Stuck(messages) == UNION {Placeholders(m.text) : m \in Range(messages)}

(* The summary outlives the turn that wrote it: the placeholders put into  *)
(* it can be resolved, now and after a restart.                            *)
Resolvable ==
    /\ Placeholders(session.summary) \ Stuck(session.messages)
            \subseteq redactor.entries
    /\ Placeholders(file.summary) \ Stuck(file.messages) \subseteq file.entries

(* "so the user sees their true values": what the provider repeats of what *)
(* it was sent, in this turn or out of an older summary, comes back as     *)
(* what it stands for, word for word and without placeholders, for every   *)
(* order of the hash map.  It does not where a cut tore a placeholder, a   *)
(* pass hit one, or one was stuck in a message whose turn was never saved  *)
(* and the session does not know it.                                       *)
UserSeesOriginals ==
    pc = "summary" =>
        LET cut == Take(reply.raw, reply.kept)
            stuck == Placeholders(cut) \cap Stuck(Front(session.messages))
        IN  ~Torn(cut) /\ ~Tangled(reply.text) /\ stuck \subseteq session.entries
                => shown = Expanded(cut)

(* The naive summary is the end of what there was and the new turn; it     *)
(* fits the window, and if all characters are single bytes it fills it.    *)
SummaryWindow ==
    pc = "summary" =>
        LET all == session.summary \o Lines(session.messages)
            summary == Window(all)
        IN  /\ IsSuffix(summary, all)
            /\ Bytes(summary) <= SummaryBytes
            /\ Bytes(all) = Len(all)
                    => Len(summary) = Lesser(Len(all), SummaryBytes)
=============================================================================
