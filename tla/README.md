# Verification of zk-llm-gateway

TLA+ models of the client, the relay and the gateway, the TLC runs that check them on small
instances, and TLAPS proofs about them for every instance. Sources are named relative to the
repository; `PROJECT.json` maps each definition to its lines.

## 1. The system

A user talks to a **client** on their own machine. It keeps sessions in files, redacts and packs a
prompt, takes a prepaid ticket, seals the request for the gateway and posts it, usually to a
**relay** that forwards envelopes it cannot read. The **gateway** opens the request, has the ticket
verified, reserves the ticket's nullifier in its database, calls the model **provider**, marks the
nullifier spent and seals the answer.

| component | state | operations | interacts with |
|---|---|---|---|
| gateway handler (`gateway/src/main.rs`) | sled tree: one entry per nullifier, free / pending(time) / spent, in memory and on disk | `infer`, `infer_canonical`, `reserve_nullifier`, `release_pending_nullifier`, `mark_nullifier_spent`, `finalize_encrypted_response` | relay (HTTP), verifier, provider, sled, clock |
| ticket verifiers (`gateway/src/actum.rs`, `verifier_halo2`, `common/src/zk.rs`) | none | `verify` | gateway, Actum's service |
| envelope (`common/src/envelope.rs`, `token.rs`, `types.rs`) | the client's context per request | seal and open, request and response | client, gateway |
| relay (`relay/src/main.rs`) | none | `relay` | client, gateway |
| session manager (`client/src/manager.rs`, `session.rs`) | map of loaded runtimes under a read-write lock; a file per session | `create_session`, `get_or_load`, `build_agent`, `load_session`, `save_session` | API, runtime |
| agent runtime (`client/src/agent.rs`) | a session, its redactor and index, under a mutex | `send_user_message`, edits, `persist` | all of the client |
| prompt packer (`client/src/prompt.rs`) | none | `build_remote_messages_with_retrieval`, `enforce_budget`, `pad_system_message` | runtime; the gateway weighs the result |
| ticket sources (`client/src/tickets.rs`) | list of tickets under a mutex, and its file | `load`, `next_ticket`, `persist` | all runtimes |
| local API (`client/src/api.rs`) | channels of event streams | chat, streaming chat, session views and edits | manager, runtimes |
| memory store (`client/src/memory_store.rs`) | inverted index | `rebuild_from_session`, `add_*`, `retrieve_context` | runtime |
| redactor (`client/src/redaction.rs`) | placeholder map, custom terms | `redact`, `rehydrate` | runtime, packer |
| local summarizer (`client/src/local_ai.rs`) | none | `update_summary` | runtime, a local model |
| command lines, side routes | none | | |

What makes it hard:

- Handlers for one ticket interleave at every database call, and a reservation may outlive its TTL
  while its provider call still runs. An entry does not say who wrote it.
- A database call can fail halfway (compare-and-swap done, flush failed), the process can crash
  between the two, the connection can be dropped at any await, the clock can be set back.
- API calls on one session interleave through two locks (the map's and the runtime's), file writes
  are truncate-then-write, a caller may hang up in the middle of a turn.
- The path delivers envelopes late, twice or to the wrong connection.
- Two sides measure a prompt in two ways; a loop must shrink it until it fits.
- A stream's reader may be slow, or gone, while the session's mutex is held for it.
- What may leave the client is decided by many passes over one text, each of which sees what the
  earlier ones left, and is undone by a map that reaches the file later than the text that needs it.
- The index is built from the session once and then kept beside it, by different code.

What must be true: a ticket pays for one answer and only for one; a spent ticket stays spent; an
unused one does not stay blocked; a client gets its own answer or none; a session has one runtime,
is not mixed with another, and keeps what the user was told; issued tickets are not handed out
twice; a prompt keeps the question and the newest history and ends up within its class; lengths give
away the class alone; nothing waits for ever; what a rule or a term names does not leave the client;
the user sees what they typed and not its placeholder, also after a restart; the index says what the
session says.

## 2. The modules

| module | models | abstract specification |
|---|---|---|
| `OneTimeTicket` | what the gateway promises about tickets | (is one) |
| `InferGateway` | handler, nullifier database, crashes, clock | implements `OneTimeTicket` |
| `InferGatewayProofs` | its theorems | |
| `EnvelopeExchange` | client turn, path and relay, envelope, ticket verifiers, and the gateway by its promise | uses `OneTimeTicket` as the gateway, implements it again between turns and tickets |
| `EnvelopeExchangeProofs` | its theorems | |
| `SessionStore` | API calls, manager, runtimes, session files | |
| `SessionStoreProofs` | its theorems | |
| `FileTickets` | the file of issued tickets | |
| `FileTicketsProofs` | its theorems | |
| `ChatStream` | the streaming chat | |
| `ChatStreamProofs` | its theorems | |
| `PromptBudget` | prompt assembly, budget loop, padding, the gateway's measure | |
| `PromptBudgetProofs` | its theorems | |
| `Redaction` | rules, terms, placeholders and rehydration, as operators | |
| `RedactionProofs` | what they do to any text, as lemmas | |
| `MemoryStore` | the index and its search, as operators | |
| `AgentRuntime` | one session's agent: edits, turns, summary, saves and restarts; composes the two above | |
| `AgentRuntimeProofs` | its theorems | |

`MC*` modules give the instances: sets, functions and symmetry. Operators whose comment begins
"Mutant" are deliberate errors; each property of a passing run has one that breaks it.

### InferGateway

A handler is a program counter. One step is one call that touches shared state: `FastCasWins` and
`FastCasLoses` are the two outcomes of the first `compare_and_swap` of `reserve_nullifier`,
`ReserveFlush` the flush before the provider call, `GetExisting` / `CheckStale` / `SlowCasWins` the
slow path that replaces a stale reservation, `ReleaseCasWins` and `MarkCasWins` the two ends of a
reservation, each followed by its flush. `mem` is the tree as handlers see it, `disk` what survives
a crash; a flush, sled's own included, copies one to the other. Database calls are synchronous, so
`Cancel` (the dropped future) strikes only at the three awaits. `EncodePending` is a step of its own
because the timestamp is taken before `reserve_nullifier` starts; pending values of two requests are
equal when their milliseconds are. Spent entries carry a time nobody reads, and are one value.

### EnvelopeExchange

`wire` is the set of all envelopes ever sent; any of them may reach either side at any time, as
often as it likes or never. That covers loss, duplication, reordering, late answers and misdelivery,
and with "mix" also a header on the body of another envelope. The relay is part of this path; its
502 and 504, the gateway's plain 400 and 500 and the client's own timeout are `Fail`. `Accepts`
holds all checks of `open_response` and the request id inside the payload. `Bound` is the transcript
of `derive_key` and `aad_bytes`; encryption is ideal, so a body opens under its own transcript and
no other. A body's length is worked out: `PadToLen` refuses what is over the class's size and
otherwise resizes (`Resized`: cuts or fills up), and an envelope records how long that made it and
whether all of the payload is in it, since half a payload opens but parses as nothing. Requests,
results and refusals have any of the lengths `RequestLens` and `ResponseLens`; one that does not fit
is the client's failed turn (`AskTooLarge`) or the gateway's plain 500 (`ServeTooLarge`).
The gateway's ticket state is an instance of `OneTimeTicket`: its handlers may spend and
serve only as that allows, which `InferGateway` guarantees.

`Authorize` is the class comparison and the verifier's decision, by whichever verifier the gateway
was started with. A ticket names the commitment of one request (`LabelOf`) and stands for a payment
made for one request (`BoughtFor`). The Actum service is external: it answers what its payment is
for and whether it is final yet, as its contract says; it need not agree with what the gateway asks
about. `ActumAuthorizes` is the gateway's comparison of that answer with the request. The dummy
verifier takes any ticket and the Halo2 verifier none. Two turns may carry one ticket, under its own
label or another: this client does not do so, but the gateway must not depend on it.

### SessionStore

A call is a program counter through `get_or_load` (fast path under the read lock, second look under
the write lock, load, merge, three saves, insert) and then through the runtime's mutex into a turn,
an edit or a read. A runtime is named by the call that built it. A session is reduced to the calls
that asked something in it and those whose reply or edit it holds. `Truncate` and `Fill` are the two
halves of `fs::write`; `SaveFails` is a failed one, which only `create_session` reports. `Cancel`
drops a future at an await and with it the guards it holds.

### FileTickets, ChatStream, PromptBudget

`FileTickets`: take a ticket of the class (or else any), refuse it if it is bound to another
request, write the rest back, hand it out; all under one mutex, over a file that tears in a crash
and writes that may fail ("unsaved": handed out all the same). `ChatStream`: the spawned task, the
bounded channel, the reader; the task holds the mutex until its last event is in the channel.
`PromptBudget`: a message is its role and the size of its content in characters, bytes per character
and the ellipsis; one step is one turn of the loop in `enforce_budget`.

### AgentRuntime, with Redaction and MemoryStore

`SessionStore` leaves open what is in a session; here one session is looked into. The runtime's
mutex is held for a whole turn, so a turn is cut only where it awaits: `Send` is everything up to
the post (message stored and indexed, memory items and older messages retrieved, prompt assembled
and redacted), `Answer` everything up to the local summarizer (rehydrate, store, index, redact the
turn), `LocalSummary` or `NaiveSummary` the rest with its save. A turn may stop at either await
(`Fail`, `Abandon`), and then its messages stay in memory unsaved, with nothing to take them back;
`Restart` strikes anywhere and goes through `AgentRuntime::new` again. The edits save at once, and
what they save includes whatever an abandoned turn left behind.

Every save is a `Persist`. `save_session` rewrites the file in place, and neither
`AgentRuntime::new` nor `persist` looks at its result, so that a save has three outcomes that the
client cannot tell apart: the file is whole and new, the file is the old one (it could not be
opened), or it is `torn` (it was truncated, and the write failed or the client died). Of a torn file
nothing can be loaded, and there is no `Restart` on it: `load_session` fails and the command line
ends. A client that still runs knows nothing of it, and its next save may make the file whole again.
`edits` is what the user told this client (or an earlier one that saved it), `durable` the part of it
that a save has put in the file; no step of the code reads either. A restart goes on with what is
durable.

A text is a sequence of pieces that are as large as the rules can tell apart: a host, a run of
digits, a word, a white space, a wide character. What people type, and the terms they ask to hide,
are made of typed pieces only (`TypedAssumption`): nobody types a placeholder with its salted hash,
save by repeating one. A placeholder is two pieces, its tag and its hash,
so that truncation can part them; both carry the original they stand for, as the salted hash does in
effect. `DigitHashed` are the placeholders whose hash happens to hold nine decimal digits in a row,
which a later rule takes for a phone number. `Redacted` runs the rules and then the terms, each a
leftmost-longest pass (`Replaced`) over what the one before left, as recursive functions, which the
proofs can unfold. A user's term is looked for among typed pieces only, whereas `redact_literal` also
finds it inside an earlier placeholder's tag or hash (the term "KEY" in `<API_KEY_...>`,
`redaction.rs:214`). Such a hit hides nothing less; it makes a placeholder with a placeholder in it,
one of the exceptions of `UserSeesOriginals` (section 3). The memory block is redacted item by item,
where the code redacts it as one text (`prompt.rs:142`): a match across two items, such as a key
block that begins in one and ends in the other, hides more than here. `Rehydrations` gives every
result `rehydrate` may have, since placeholders of one length come in the order of a hash map. The provider (external)
answers with any piece of what it was sent, which is what makes rehydration matter. The gateway and
its ways to fail are in `EnvelopeExchange`, the cut of a prompt that is too long in `PromptBudget`.

`MemoryStore` numbers documents by their place in the session. Scores are left open: any documents
that share a word with the query may be the best ones, as many as the limit allows.

## 3. What the runs check

| run | instance | shows |
|---|---|---|
| `gateway_safety` | 3 requests, 1 ticket, TTL 1, clock to 3, every fault | at most one request gets a result (`AtMostOneServed`), a ticket is not spent when all its requests were told of failures (`PaidOnlyBySuccess`), refinement (`OneTime`) |
| `gateway_live` | 2 requests, forward clock to 4 | a fresh reservation is exclusive and durable (`FreshHold`, `ExclusiveProvider`, `DurableReservation`); every request ends; no ticket is bricked |
| `exchange` | 3 turns, 2 classes, 2 tickets, 3 handlers, each verifier; payloads below, at and above the size of a class | `OwnAnswer`, `OpenedAsSealed`, `BoughtAnswers`, `SizesHideContent`, and the promise to the client (`PaidAnswers`) |
| `sessions_safety` | 3 calls, 2 sessions with a file each; crash, hang-up, failed turn | `OneRuntime`, `NoLostReply`, `Isolation` |
| `sessions_live` | a creation, a chat and a read of one session, every fault | every call ends: both locks are always given back |
| `tickets` | 2 tickets, 2 classes, 3 calls, failed writes, crashes | `NoReuse` |
| `stream` | 2 streams, channel of 2, replies of up to 4 chunks | `Orderly`, `ClosedWhole`; a stream ends unless a reader keeps its channel full |
| `prompt_budget` | class C256 in its real numbers, sessions of up to 3 messages | `WithinBudget`, `KeepsQuestion`, `KeepsNewest`, `LengthHidden`; the loop ends when the blocks leave room |
| `agent` | strict mode; 2 turns, a memory item, a term of the command line and one added, an edit of the system prompt, up to two such edits in effect; saves that fail or tear the file, failed and abandoned turns, restarts anywhere | index: `IndexAgrees`, `RecallIsOld`; files: `EditsSurvive`, `Resolvable`; redaction: `NoSecretSent`, `UserSeesOriginals`; `SummaryWindow` |
| `prompt_hang`, `prompt_rejected`, `sessions_create_twice` | | findings, below |

`NoSecretSent` is `NoMatchSent` (nothing that leaves matches a rule or a term) and `NoPartSent` (nor
is any piece of it a part of what matched). The second holds with one exception, `Severed`: an
earlier pass put a placeholder for a part of the secret and not for all of it. To say which pass
took what, `Cuts` runs the passes again on pieces that carry their place in the text
(`PlacedPass`); nothing is taken from the text as typed, since a rule may match because of what an
earlier one put in. A URL has no such exception: its rule runs over whatever placeholders stand in
it. `UserSeesOriginals` says that what comes back is, for every order of the hash map, what the
source of the prompt stood for (`Expanded`: every placeholder exchanged for its original), word for
word. Its exceptions are three: the cut tore a placeholder (`Torn`), a pass put a placeholder for
something with a placeholder in it (`Tangled`), or a placeholder was stuck in an earlier message and
its entry never reached the session. Each exception is there because a run without it found a real
leak or a real placeholder on the screen; section 4 tells what they look like.

`EditsSurvive` relates four things: what the user did other than chat, the running session, the
file and what a save has put there. While the client runs every edit is in effect, whatever turns
or saves fail; from the first save that succeeds after it, it is in the file and outlives every
restart. That it may be lost before is the code's doing and stated as such. `NoSecretSent` speaks of
the terms of `edits`: a term that was lost with an unsaved client is not hidden by the next one.

`PaidOnlyBySuccess` says of a spent entry that a possible payer exists: a request that got its
result, failed only to seal it, lost its database or was lost itself. An entry names no owner, so
that it says no more; `AtMostOneServed` and `OneTime` say who is served.

**Why these bounds.** In the gateway the interesting stories take three requests: one whose
reservation goes stale, one that takes it over, a third that sees either; a TTL of 1 and a clock to
3 let a reservation be younger than, equal to and older than the TTL. `Horizon` stops arrivals
before the clock's bound so that the bound itself freezes no reservation. With two requests and a
clock to 4 a takeover, a late release and a late mark all happen, and liveness stays checkable. In
the exchange two copies of one request and two turns of one ticket fit in three handlers; the
lengths tried are the shortest payload (700 and 90 bytes), the exact size of class C256 (8192), which
is also below that of C512, and one byte more. Sessions: two calls race for one runtime while a
third is in another session or edits; two files suffice for a mix-up. In the exchange's instance one
ticket is carried by the turn it was bought for and, relabelled, by another, and a third turn
carries a ticket that names a request other than its own. Tickets: one of each class and three calls
reach the choice by class, the fallback to another class and the empty list. Streams: a channel of 2
instead of 64 is full after two events, so every blocking point occurs within a reply of four
chunks. Prompt: memory blocks below, at and above what fits; contents of 0, 700 and 1430 characters
of one and three bytes overflow in every combination. Agent: the texts are chosen so that each rule
meets one that interferes with it: an address inside a URL, nine digits in an 0x address, a key
whose placeholder's hash looks like a phone number, a term that begins with another, wide
characters. Four messages with a cap of one indexed message, two recent ones and one recalled let a
restart drop documents, an older message be recalled and a recent one be held back; cuts after 3 to
5 pieces fall inside every secret and every placeholder; a window of 6 bytes is overrun by the first
turn. Two edits in effect at a time (`MaxEdits`) let one be lost, or saved late, beside another that
is in the file; edits that a restart lost may be made again. Deadlock checking is off where calls and requests are used up and the system rightly stops.

**Fairness.** `InferGateway!FairSpec`: a handler that can go on does (database calls return; the
HTTP clients of verifier and provider are built with timeouts), and time passes. Arrivals, crashes
and cancellations have no fairness. `SessionStore!FairSpec`: a call that can go on does (the
runtime's HTTP client has a timeout; tokio's locks are fair, and a call waits for a lock only while
another call, itself fair, holds it). `ChatStream!FairTasks`: only the tasks are fair; readers are
not, since nothing makes a peer read. `PromptBudget!FairSpec`: the loop runs.

## 4. Findings

- **prompt_hang** (bug). If the system and memory blocks alone exceed the class, `enforce_budget`
  cuts the question to an ellipsis again and again and never returns (`prompt.rs:187-233`), with the
  session locked. The comment at `prompt.rs:184` speaks of shrinking the memory block; no code does.
- **prompt_rejected** (bug). The client weighs roles and contents, the gateway the JSON around them;
  padding fills the prompt to within 39 bytes of the limit, so the gateway refuses it.
- **sessions_create_twice** (bug). `create_session` looks for the file and writes it in two steps
  under no lock; two creations of one id both succeed and the second overwrites the first.

Observed while modelling, with no run of their own: a provider call that outlives the reservation's
TTL loses its mark to the request that took over, its result is thrown away, and the ticket can
become free again although `docs/ACTUM_VERIFIER_CONTRACT.md:85` says it is durably spent (defaults
leave a margin, nothing enforces one). A result larger than its class is answered in plain text
after the ticket was spent (`gateway/src/main.rs:609`, against the comment at 458). With
`--session-file` pointing at another session's file, the default session and that session are two
runtimes on one file, against `client/src/api.rs:37`; `Isolation` is stated for a file per session.
The gateway releases a reservation "to allow retry", but the client has dropped the ticket by then.
`README.md:213` says "production clients should pass `--ticket-file`", but a ticket of a file must
be bound to the commitment of the request (`tickets.rs:114`), and that covers a request id drawn
after the file was written (`agent.rs:191`): every such ticket is taken from the list and refused.

Of redaction, found as counterexamples or in proofs that failed, before the exceptions were written
into the properties:

- Rules see what earlier rules left. Nine decimal digits in an 0x address are taken for a phone
  number, and the rest of the address goes out; after the term "Acme" the term "Acme Corp" matches
  nothing and "Corp" goes out. It need not be that plain: in `http://123456789 987654321Acme Corp`
  the URL ends at the white space, but once both numbers are one placeholder it runs on to `Acme`,
  and again "Corp" goes out. The comment at `redaction.rs:107` says "Run higher-risk patterns
  first ... so nested content doesn't leak."
- Memory items and older messages are cut to 400 and 300 characters and redacted then
  (`prompt.rs:101`): a secret across the cut matches no rule, and its beginning goes out.
- Placeholders nest (an address in a URL, a hash that holds nine digits). `rehydrate` goes through
  them once, the longest first, which is the wrong way round for most nested ones: the address's
  placeholder is past when the URL's brings it back. The user is shown `<EMAIL_...>`, and it is
  stored as the assistant's message. Once there, it may also outlive its entry, if the turn is
  abandoned, an edit saves its messages and the client restarts. Every other reply whose
  placeholders are whole comes back word for word.
- A summary line is cut at 300 characters, through placeholders too; what is left of one cannot be
  resolved later.

Of the index and the summary: `max_messages_indexed` "prevents runaway RAM"
(`client/src/main.rs:149`), but `add_message` obeys neither it nor `index_messages`; only a restart
brings the index back under the cap. The naive summary keeps "last ~4000 chars" (`agent.rs:321`) by
counting bytes and skipping characters: with wide text it loses up to everything, the new turn
included. An empty answer of the local model replaces the summary it was to extend. A turn that was
abandoned while the local model worked leaves its messages in memory without the placeholders'
entries in the session (`agent.rs:268`); the next edit saves these messages, and a restart can no
longer resolve placeholders a provider repeated in them.

Of saves: `persist` drops `save_session`'s result (`agent.rs:151`), and so does `AgentRuntime::new`.
After a failed save the user is shown nothing, and what they asked to remember or to hide, or the
reply they were given, is gone after a restart unless a later save succeeded. The file is truncated
before it is written (`session.rs:206`): a save that stops halfway leaves a file no client can load,
and the whole session is lost with the client that runs.

## 5. What is proved

For every value of the constants that satisfies the modules' assumptions, by TLAPS:

| theorem | says | assumes |
|---|---|---|
| `InferGatewayProofs!TypeCorrect` | `[]TypeOK` | |
| `OneWinner` | `[]AtMostOneServed` | |
| `SpentStays` | `SpentForGood`: no step and no restart undoes a durable spent mark | |
| `PaidBySuccess` | `[]PaidOnlyBySuccess`: of a spent ticket some request got through or was lost | |
| `Implements` | the gateway implements `OneTimeTicket` | |
| `FreshReservation` | `[]FreshHold`, `[]ExclusiveProvider`, `[]DurableReservation` | no fault "clock" |
| `HandlersAdvance` | `NoWayBack`: every request is at its end after twelve steps at most | |
| `ReservationsAge` | `[]StampedPast`: a reservation is as old as its stamp says, so it goes stale | no fault "clock" |
| `EnvelopeExchangeProofs!TypeCorrect` | `[]TypeOK` | |
| `AnswersOwn` | `[]OwnAnswer` | |
| `OpensAsSealed` | `[]OpenedAsSealed` | |
| `AnswersBought` | `[]BoughtAnswers` | |
| `LengthsHide` | `[]SizesHideContent`: for any lengths of payloads, from what resizing does to them | |
| `KeepsPromise` | client, path and gateway implement `OneTimeTicket` between turns and tickets | |
| `SessionStoreProofs!TypeCorrect` | `[]TypeOK` | |
| `SingleRuntime` | `[]OneRuntime` | |
| `TurnsAlone` | `[]OneTurn`: turns and edits of one session never overlap | |
| `LocksMove` | `[]NoCircle`: whoever is waited for has not ended and waits for nobody | |
| `SessionsIsolated` | `[]Isolation` | `FilePerSession`: paths of two ids differ |
| `RepliesKept` | `[]NoLostReply` | `CalmDisk`: a file per session, saves succeed, nothing is being created |
| `FileTicketsProofs!TypeCorrect` | `[]TypeOK` | issued tickets differ (`IssuedAssumption`) |
| `NeverTwice` | `[]NoReuse` | the same |
| `ChatStreamProofs!TypeCorrect` | `[]TypeOK` | |
| `InOrder` | `[]Orderly` | |
| `WholeAtClose` | `[]ClosedWhole` | |
| `ReadersStall` | `[]OnlyReadersStall`: nothing but a reader that keeps its channel full stops a session | |
| `PromptBudgetProofs!TypeCorrect` | `[]TypeOK` | |
| `FitsClass` | `[]WithinBudget` | |
| `QuestionKept` | `[]KeepsQuestion` | |
| `LengthsHide` | `[]LengthHidden` | |
| `NewestKept` | `[]KeepsNewest`: every block the prompt was built with, as it was, and the newest history | |
| `LoopShortens` | `WorkShrinks`: every step of the loop brings a natural number down | as long as the blocks leave room for a question (`BlocksFit`, kept by every step) |
| `AgentRuntimeProofs!TextsTyped` | `[]TypeOK` | what is typed is typed (`TypedAssumption`), here and below |
| `IndexTrue` | `[]IndexAgrees` | |
| `RecallsOld` | `[]RecallIsOld` | |
| `EditsStay` | `[]EditsSurvive`: edits stay in effect while the client runs, and in the file once a save succeeded | saves may fail or tear the file |
| `WindowKeeps` | `[]SummaryWindow` | |
| `SummaryResolves` | `[]Resolvable` | |
| `NoSecretLeaves` | `[]NoSecretSent` | |
| `OriginalsReturn` | `[]UserSeesOriginals` | |

**InferGateway.** `AtMostOneServed` is not inductive: it speaks of replies, and a second winner is
prepared long before, in the database. `SpendInv` carries it: what is spent on disk is spent in
memory (so a crash restores no lesser state), a request that waits for its flush has its key spent
in memory, one that got its result has it spent on disk, and at most one request per key is in
either position. The step that matters is `MarkCasWins`: it needs a pending entry, and `SpendInv`
says every claimant's key is spent, so there is none. `SeenInv` keeps the slow compare-and-swap from
replacing a spent entry. `ReplyInv` says a reply exists only from `finalize` on, which pins down the
served set for the refinement: only `Seal` changes it, and by one request whose key is spent on
disk. `HoldInv`, for a clock that is not set back, adds that of two holders of one key one has
expired; without that, an equal timestamp would let one request release another's reservation.

Two facts that liveness rests on are safety, and proved. `HandlersAdvance`: `Ahead` ranks the places
of a handler, and every step that moves a request brings its rank down, whatever the faults;
`reserve_nullifier` reads and swaps once more after it lost the first swap, but never starts over.
`ReservationsAge`: a stamp in memory, on disk or in a handler is never later than the clock, so a
reservation that a crash left behind is stale as soon as the clock is a TTL past now.

**EnvelopeExchange.** Nothing about one turn is inductive alone, because an envelope may be used at
any later time. `WireInv` says every envelope ever sent is `Genuine`: sealed under the header of its
own turn, at its class's length and whole, and, if it is an answer, by a handler that has it on record
(`AnsweredBy`), which no later step changes (`SealedStays`). Length and wholeness come from
`PaddedWhole`: what `PadToLen` lets through is no longer than the target, so that resizing cuts
nothing off and the zeros make up the difference. `ServeInv` ties the ticket state to
handlers: a served ticket is spent, has one handler, and that handler's turn carries it and was
authorised for it. With ideal encryption a body that opens carries the transcript it was sealed
under, so `OpenedRequest` and `AcceptedAnswer` recover the sender from what was delivered; the
theorems follow. In `KeepsPromise` only an accepted result is a step of the abstract specification:
a second answered turn would have a second handler for the same ticket.

**SessionStore.** `MapInv` (`LockHeld`, `BuildsFirst`, `UsesMapped`, `MappedBuilt`): only the holder
of the map's lock builds, and only for an id the map lacks; a runtime in use is the one in the map.
`SaidInv`: what a file or a runtime holds was said in its session. `KeptInv`: a call whose reply is
being saved has it in its runtime, and a finished call has it in the runtime that is mapped and in
every whole file; this is where two runtimes, or a load from an older file, would lose it.
`MutexHeld` says that who holds a runtime's mutex is in a turn or an edit on it, and the other way
round. With `OneRuntime` it gives `TurnsAlone`; with `LockHeld` it gives `LocksMove`: the holder of
either lock has not ended and waits for no other, so that no two calls can wait for each other.

**FileTickets.** `NoReuse` speaks of calls that are over; the theft would be in the list or the
file. `TakenInv` follows the tickets: list and file hold each ticket once, and a call between taking
and writing has the mutex and a ticket that is neither in the list nor written off by any other.
That a sequence without repetitions loses an element for good when one place of it is removed is a
lemma.

**ChatStream.** Neither property is inductive: what the reader has seen says nothing of what the
task will send. The invariant says that what was given to the stream, `seen` followed by what is in
the channel, is exactly as much of the plan (start, chunks, done; or start, error) as the task's
position claims. A receive moves an event from the channel's head to the end of `seen` and leaves
their concatenation alone; a send extends it by the next event of the plan. `ReadersStall` needs
no more than that the mutex is held by a task in its turn or handing out its events: then a task
that cannot go on waits for a channel that its reader keeps full, or for the mutex of such a task.

**PromptBudget.** `Framed` says what the loop has left: a block in front, the question at the end,
and all that `KeepsQuestion` says of it; `Fitted` what the loop and the padding did. Padding must
add exactly its length to `Bytes`, a sum. `Bytes` is a recursive function on the prefixes of the
prompt, and the library's induction takes an operator, so its values are obtained otherwise: a set
of natural numbers that is not empty has a least element, and the least length at which a claim on
prefixes fails cannot exist. `KeepsNewest` compares the prompt with
the blocks it was built with (`blocks`, a history variable that no step of the code reads) and is
inductive with `NoSystem`, that no system message is in the history: then what `enforce_budget` drops, the first message that may be dropped, is the one
right behind the blocks. `LoopShortens` is the termination argument: `Work` adds up the phases
ahead, the messages left and whether the prompt is over its budget. Dropping takes a message away,
and one truncation is enough, since a character has at least one byte and the margin covers the
ellipsis (`TruncationSuffices`). The blocks in front are never touched, so that room for a question,
once there, stays (`BlocksStay`).

**Redaction.** `Replaced`, the passes of `Redacted`, `Restored` and the stages of `rehydrate` are
recursive functions; each is unfolded once (`Runs`, `Redacts`, `Restores`, `Rehydrates`: the
function and its value at every place), and inductions over places, passes and stages are by least
counterexample (`Up`, `Down`). From there:

- *What a pass leaves* (`RedactedLeaves`): nothing typed stands afterwards that this pass seeks,
  since leftmost-longest passes over every place; later passes put in placeholders only, and what is
  typed between two of them is a part of what was typed there before.
- *Where it stood.* Placed passes are the passes (`PlacedPassIs`, `FollowsTidy`), and their texts
  stay `Tidy`: placeholders, and places in their order. A span of places that no hit took a part of
  is either whole or gone (`SitsOrGone`), and what is gone does not come back (`StepGone`). What a
  pass seeks lies in one of its hits (`FindIsHit`); if only hits from within the span may take a part
  of it, that hit begins where the span does or takes all of it, and being the longest it takes all
  of it in either case (`FoundGone`, `NamedGone`). For URLs the argument is another (`UrlGone`): no
  earlier rule matches a scheme (`NoHttp`), so "http" stands and something other than a blank follows
  it (`LeadsStays`); whatever else of the span is left when the URLs' turn comes, from the scheme up
  to it no blank stands, and a longest match leaves none of it (`UrlTaken`).
- *What a text stands for* (`Expanded`): every placeholder exchanged for its original. In a text of
  whole placeholders (`Whole`, `Woven`) no hit takes one piece of a placeholder and leaves the other;
  a pass whose hits are made of typed pieces leaves what the text stands for alone
  (`ReplacedKeeps`), and one with another hit makes the text `Tangled` for good (`StaysTangled`).
- *The way back*: each stage of `rehydrate` handles one length of placeholder, brings nothing of
  that length or a longer one, and leaves what the text stands for alone; after the last stage
  nothing is left to exchange (`RoundTrips`), so the text is what it stands for.

**AgentRuntime.** Five invariants, each resting on the one before.

- `IInv`, the index: `IndexAgrees` made inductive by `Shaped` (session and file hold sequences).
  Each document names its item truly (`Names`), once (`Once`), without a gap up to the last message
  (`Gapless`), and a rebuilt index is included. `Append` on both sides keeps the four, and `Rebuilt`
  has them whatever the cap. `RecallIsOld` follows because a document that a search may return is at
  or before the cutoff, and the index says whose text it has.
- `EditsInv`: the session reflects `edits` and the file `durable` (`Reflects`: the same notes and
  system prompt, and all the terms), session and redactor have one list of terms, and the file's
  messages begin the session's. Each outcome of a `Persist` keeps this: a whole save brings file and
  `durable` up to session and `edits` together, a failed one leaves both, a torn one empties both.
  Session and file are kept apart on purpose, since no save can be relied on; a restart makes a
  session of the file and `edits` of `durable`. That its merge of saved and given terms (`Merged`)
  loses none is an induction like those of the sums above.
- `TInv`, the texts: all are made of typed pieces, line breaks and placeholders, all entries are of
  such texts, and what is on its way is the redaction of its cut text under the terms of *now*, with
  its entries known to the redactor (`SentOK`). `TextsTyped` is one part of it, `WindowKeeps` needs
  it for the widths of a summary's characters. `NoSecretLeaves` is `SentOK` and the terms of
  `EditsInv` with the first two results of `Redaction` above: a term the user asked to hide is one
  that a pass looks for, now, whatever was restarted since.
- `RInv`: the placeholders of a saved summary have their entries beside it, save those that came
  back in an answer and were stored with it (`Stuck`), and while a summary is being made, the last
  turn's are in the redactor. `SummaryResolves` needs the redactor to hold them all, which `TInv`
  gives.
- `BackInv`: only messages and the summary hold placeholders, in the session and in the file
  (`Unmarked`), and those of a prompt on its way are in
  the redactor's map or were stuck in a message. With `RInv` and the last two results of `Redaction`
  it gives `OriginalsReturn`: a placeholder in the prompt's source is known when the answer comes,
  and a text that is not `Torn` and holds typed pieces beside known placeholders is woven.

**Only model-checked.** Liveness (`EveryRequestEnds`, `NotBricked`, `EveryCallEnds`,
`EveryStreamEnds`, `EndsIfBlocksFit`) is out of TLAPS's reach under fairness. What each rests on
beside fairness is proved: `HandlersAdvance`, `ReservationsAge`, `LocksMove`, `ReadersStall`,
`LoopShortens`. What a recursive definition computes is proved only where an induction over places
can be put as a least counterexample. The exceptions of the redaction's properties are not claimed
to be tight: `Tangled` also excludes a shorter placeholder inside a longer one's original, which
`rehydrate` does bring back (`agent` has no text for that).

## 6. Not modelled

Sled's internals (a tree with a durable copy), cryptography (ideal), JSON, base64, hashing,
encryption at rest (a file is readable or not), wording, logging, start-up, CORS, docs pages. The
compatibility proxy of the gateway and the side routes keep no state. The default session, which the
command line builds and inserts (`insert_prebuilt`), is loaded like any other in `SessionStore`.
Session ids are taken to be valid; `session_path_for` is the function `PathOf`.

## 7. Plan

Done, in this order: `OneTimeTicket` and `InferGateway` with proofs; `PromptBudget`; `SessionStore`
with proofs; `FileTickets`; `ChatStream`; `EnvelopeExchange` with proofs, which composes the
client's turn with the verifiers and the gateway's promise; `Redaction`, `MemoryStore` and
`AgentRuntime`, which composes them; the proofs of `FileTickets`, `ChatStream`, `PromptBudget` and
of the index in `AgentRuntime`; the proofs of `Redaction`, of the texts, the summary, the secrets and
the round trip in `AgentRuntime`, and the safety halves of the liveness properties.

To come:

1. The client's turn as one composition of `SessionStore`, `FileTickets` and `EnvelopeExchange`: a
   crash between taking the ticket and storing the reply.
2. The canonical JSON of a commitment (`common/src/types.rs`) as a pure algorithm.
