# MaskClaw in TLA+

MaskClaw is a privacy proxy for LLM traffic: it sits between a client and a model
provider, replaces secrets in requests by placeholders, sends the masked request to a
routed upstream, and puts the secrets back into the answer, buffered or streamed. This
directory holds TLA+ modules of the parts of it that decide whether that is correct,
the TLC configurations that check them on small instances, and TLAPS proofs of the
properties that matter most for instances of every size.

All paths below are relative to `src/`; `crates/` stands for `src/engine/crates/`.

## How to run it

    tlc -config Masking.cfg MCMasking.tla               # one run; section 3 lists the runs
    tlapm RunDriver_proofs.tla                          # one proof module

`PROJECT.json` lists the components, the runs with what each expects, the mutants (one
plausible bug per property, which the run must catch), the lines of source each
definition stands for, the hazards, the findings and the theorems. Definitions named
`X_Something` (`EntryOrNew_NoRefresh`, `Record_NewestFirst`, ...) are these mutants: no
specification uses them.

## 1. Inventory

### How a request goes through

    client --> HTTP handler (switchyard-server/src/lib.rs)
                 | decode              a codec of switchyard-translation -> LlmRequest
                 | resolve_route, caller's credential (config.rs tables)
                 | scrub_request       maskclaw_hook.rs -> Engine::scrub_request
                 |                     (blocking pool)      -> detectors, merge_findings
                 |                                          -> SessionStore::with_session
                 |                                          -> StatsAccumulator::record
                 | select_route        maskclaw_hook.rs (force_local overrides)
                 | run                 libsy-llm-client::run -> libsy drive <-> algorithm task
                 |                                              (FallThrough: affinity, stage,
                 |                                               escalation, judges; random, ...)
                 |                     serve -> candidates -> client: encode, retries -> upstream
                 | restore_response    Engine::restore_response -> SessionStore::snapshot_map
                 |                                              -> StreamRestorer per response
                 | encode, SSE         the client's codec; usage and routing log on the way
                 v
    client <-- answer, or SSE stream
    dashboard --> GET /v1/maskclaw/stats -> gauges(), then snapshot()
    desktop app --> starts, stops, restarts the engine process that is all of this

Handlers run concurrently on a tokio runtime. They share one `SessionStore` (a
`parking_lot` mutex), one masking `StatsAccumulator` (another), the router's stats (a
third), the affinity maps, and per router one registry of session states (a mutex) whose
members each carry an async mutex. Each run has a task of its own, connected with its
host by a channel of capacity one and by a one-shot promise per model call.

### Components

| component | source | state | what is hard | what makes it correct | modules |
|---|---|---|---|---|---|
| Session store | `crates/maskclaw/src/session.rs` | session key -> record (random HMAC key, two maps, last use) | lazy eviction by whoever comes next; two maps written one after the other; re-creation under a new key | maps inverse of each other, placeholders unique to their session, no session in use is dropped | `SessionStore` |
| Masking engine, server hook | `engine.rs`, `stats.rs`, `policy.rs`, `switchyard-server/src/maskclaw_hook.rs` | per request: session key, phase, cloned restore map; counters | requests interleave at every lock and await; the session of a request may be gone when its answer comes | a client gets only secrets of its own session; a prompt answer is restored in full; the stats page is consistent | `MaskEngine` |
| Detectors and finding merge | `ir.rs`, `detect/*.rs` | none | overlapping spans of several detectors, spans touching placeholders; which parts of a request are walked | nothing kept overlaps, nothing dropped without a kept one before it; no format leaks a masked text | `FindingMerge`, `RequestTranslation` |
| Placeholder text | `placeholders.rs` | none | odd kinds; a window of 53 bytes | slugs stable, what is minted is matched | `Placeholders` |
| Stream restorer | `restore.rs` | one `leftover` per response | fragments cut a placeholder anywhere; several channels, one leftover | streaming equals buffering; nothing premature, nothing lost | `StreamRestore`, `StreamTranslation` |
| Run driver | `libsy/src/core/algorithm.rs`, `libsy-llm-client/src/run.rs` | task, step channel, promises, `in_flight`, trace | a full channel, dropped futures, panics, cancellation, hedging, `select!` | one terminal item, no promise lost, no task left, trace complete | `RunContract`, `RunDriver` |
| Model client | `libsy-llm-client/src/client.rs`, `run.rs`, `backend.rs` | attempts, back-off, flight windows, spans | overlapping calls, retries inside candidates, streams that fail after their head | fallback only for a reason, one credential per request, spans that tell the end | `ModelClient`, `UpstreamRequest` |
| Fall-through router | `libsy/src/algorithms/fall_through.rs` | session id -> (shared state, last access); a mutex in each state | requests of one session at the same time; a sweep by clock; cancellation with the mutex | one state per live session, no turn lost, everyone served | `FallThroughSessions` |
| Affinity, sub-agents | `util/affinity.rs`, `util/subagent.rs`, `protocol/src/metadata.rs` | bounded map identity -> target | read and write far apart, map at its limit, headers of many harnesses | sticky assignment, bound to the identity's own turn | `RequestMetadata`, `AffinityRouting` |
| Escalation | `llm_class.rs`, `util/escalation.rs`, `util/llm_judge.rs` | a streak in the session's state | the streak is read two calls before it is written | consecutive verdicts only, one paid answer per turn | `EscalationRouting` |
| LLM judges' windows | `llm_class.rs`, `util/escalation.rs` | none | windows cut through call and result; budgets of characters | pairs stay whole, the newest evidence survives | `JudgeContext` |
| Stage router | `stage.rs`, `util/stage.rs`, `util/tool_signals.rs` | a latch, the conversation's signals | compaction, a passed test behind an error | an error persists until a success, a compacted session stays capable | `StageRouting` |
| Random, passthrough, noop | `rand.rs`, `passthrough.rs`, `noop.rs` | none | weights of zero | what they may call is configured | `ServerConfig` |
| Protocol types and codecs | `crates/protocol`, `crates/switchyard-translation` | per stream: open blocks, tool states, usage | three formats with different nesting, order and accounting; exact replay of a body that was edited since | content, order, arguments, stop reason and usage survive; an edit is never undone by replay | `LlmMessages`, three codecs, `RequestTranslation`, `ResponseTranslation`, `StreamChunks`, three stream codecs, `StreamTranslation` |
| Server configuration, HTTP server | `switchyard-server/src/config.rs`, `lib.rs` | routing tables | targets that share ids over several clients; forwarded logins; forced local route | a configuration that loads can serve its calls | `ServerConfig` |
| Router stats, routing log | `stats/accumulator.rs`, `usage_metrics.rs`, `routing_log.rs` | counters, latency ring, log | reset between the parts of one request, running totals in chunks, hang-ups | tokens counted once, log and counters agree | `RouterStats` |
| Desktop application | `desktop/src-tauri/src/lib.rs`, `process.rs` | engine child, status, port | a start that unlocks for its dry run; a foreign listener; a dead child | no engine left behind, the serving engine has the saved configuration | `DesktopLifecycle` |
| Appliance host daemon | `appliance/hostd/hostd.py` | sessions and settings in files | read-modify-write from several HTTP threads | - | not modelled |
| Algorithm stats and exporters, masking TOML, Python bindings, distillation, web interfaces, launchers, installers | ... | | | | not modelled |

The hazards behind the properties, each at its line, are in `PROJECT.json`.

## 2. The modules

### SessionStore: the RAM store of secrets

`sessions` is the store's map; a record has the fields of `SessionRecord`. Every operation
of the code holds the mutex from its first line to its last, so every operation is one
action, and the eviction the code runs first (`evict_expired`) is part of each of them
(`Unexpired`). `WithSession(k, F)` is `with_session` with the closure `scrub_request` gives
it: `placeholder_for` on every finding of `F`. `Forward` and `Reverse` are the two maps after
that, written separately as the code writes them.

Abstracted: a finding is its slug and its value. A fresh 32-byte key is the number of its
draw, so draws never collide; the truncated HMAC is an injective `Mint` (assumption
`MintInjective`). Both are assumptions about 256 and 48 random bits, not facts of the code.
The clock is a counter that `Tick` advances.

### MaskEngine: requests through scrub, route and restore

EXTENDS `SessionStore`. `phase` follows one call of `handle_llm_request`. The steps are
those between which the code drops a lock or awaits: `Scrub` (`with_session`),
`RecordAndRoute` (`stats.record`, then `select_route`), `Answer` / `GiveUp` (the upstream
call returned / failed or the client left), `Restore` / `RestoreMiss` (`snapshot_map`),
`Deliver` (one placeholder in one chunk, or anywhere in a buffered answer), `Finish`; and
`ReadGauges`, `ReadTotals` for the stats page, two locks apart. `ScrubFails` is the task
that dies part-way: the store keeps what was minted, and `record` never runs.

A text is what the properties tell apart in it: the findings, the placeholders it carries
already, and the opaque tokens only the entropy scan can see; a token of `Glued` has a placeholder in it, and the scan
skips it. `SessionKeyFor` uses the id of the client as it comes: `MCSessionId` gives a client the id `anon:1`, which is
also the key of an anonymous request. A model may repeat any placeholder that
was sent upstream in any request (`Upstream`), and a client any one it was shown unrestored.

### Placeholders, StreamRestore, FindingMerge: text below the engine

In the first two texts are sequences. `"MC"` and a twelve-digit digest are one symbol each, so the window
(53 bytes in the code) becomes `Window = 10` symbols: as in the code it is longer than a
placeholder with an ordinary slug. `StreamRestore` sends the text of each channel in
fragments cut anywhere; `push` is the code's: restore leftover and fragment, then hold the
longest end that may still become a placeholder. `End` is `finish` plus the last `TextDelta`
of `restore_response`; `Fail` an error item of the upstream.

`FindingMerge` is `merge_findings`: any reports of any detectors (each disjoint in itself) are
filtered by allowlist and placeholders, and taken in the code's order (start, then length)
by `Keep` and `Drop`, one finding a step, with `last_end` as in the code.

### RunContract and RunDriver: one run of a routing algorithm

`RunContract` is what a host is promised: one answer; a successful answer comes with every
published decision, in order; nothing is published after it; a failed run yields no
trace. `RunDriver` is the code: the task of `run_stream`, the channel (`steps`, with the sends that wait for its
slot in `senders`), the promise in each call, and `drive` with its
`in_flight` set (`serving`). The algorithm is arbitrary: it may offload calls, publish
decisions, drop calls it no longer wants, hang, fail, panic or return. `Take` handles the
item `drive` pulls, `Exit` the drop of `in_flight` when `drive` returns, `DropStream` the
drop of the stream that comes after it (locals are dropped in reverse order of declaration), `Abort` the guard
`AbortOnDrop`. `Contract == INSTANCE RunContract WITH trace <- ...` maps `drive`'s trace to
the returned one: it is visible to the caller only when the outcome is `"ok"`.

### FallThroughSessions: shared routing state

A state is named by the request that created it, its content is the set of turns it has
absorbed. `Enter` is `session_state` under the registry lock; `Lock` the async mutex, with
the read of the state; `Routed` the end of `route` with the write (`turns' = read \cup {r}`:
the write is of the value read, so a lost update would show); `RouteFails`, `Answered`
the two ways to `Leave` (with `remove_session` when the request is marked final);
`CancelRun` a run dropped at an await, which never reaches `remove_session`; `Cleanup` the sweep, which keeps a
state some request still references (`Arc::strong_count > 1`).

### What routes decide with

- `RequestMetadata` + `AffinityRouting`: who a request comes from is read from its headers
  in the code's order of precedence; then a turn enters, takes its session's state, classifies
  (override for delegated work, else the assignment of its identity, else a judge, else the
  default) and decides, which publishes the assignment. The map has a lock of its own, so its
  read (`Classify`) and its write (`Decide`) are steps apart; `Assign` evicts any entry at the limit, as `evict_if_full` does.
- `EscalationRouting`: a turn waits for its session, reads the streak (`Score`), pays for the
  efficient answer, has a judge read it, and commits the streak or escalates. Every await
  may fail (`Fails`) or be left (`Leave`, a cancellation). Its answer is the route's: the call itself, its fallback from one target
  to the other and its failure are `ModelClient`'s, and what ends a session's state is `FallThroughSessions`'.
- `StageRouting`: the conversation grows by work, talk and compaction; `Route` reads the
  whole of it into signals as `tool_signals.rs` does, scores, overrides, picks a tier, and
  notes a handoff. The `tanh` of the score is monotone, so scores are compared before it.
- `JudgeContext`: what a judge is shown, `Consult` by message window (`trim_messages`) and
  `Summarize` by character budget. A part of a conversation is the set of its positions, which the judge reads in
  their order; lengths are in units of text, and the pass over a window and the sum of a transcript are folds. `Header` is a function
  of the number of lines shown, because the header spells that number out.

### How a call is made

- `ModelClient`: candidates in order, attempts with back-off, a stream handed over at its
  head, its span until its end, and the flight windows behind the reported overhead.
- `UpstreamRequest`: the headers and the body of one attempt, in the order `send_encoded` and
  `send_once` put them together, provider by provider. Breakpoints of the caller's cache stay where they are; the one the
  backend adds goes on the last block. A caller's `authorization` and `x-api-key` may both be forwarded.

### What a request and an answer look like: translation

- `LlmMessages` is the neutral request; `OpenAiChatCodec`, `AnthropicCodec` and
  `ResponsesCodec` read and write it; `RequestTranslation` is a request's life: a conversation
  grows turn by turn in its client's format, is read, masked, gets a handoff note and a
  target's system prompt, and is written for each candidate, by exact replay where no edit dropped the body kept.
- `ResponseTranslation` is the way back of a whole answer.
- `StreamChunks` is the neutral stream, with its accumulator; `AnthropicStream`,
  `OpenAiChatStream` and `ResponsesStream` decode and encode it; `StreamTranslation` runs any legal stream of one format, cut, broken or failing
  anywhere, to a client of another, through the restorer when masked. `said` is what the
  upstream meant, apart from any format: the properties compare the client's reading with it.

A text is a sequence of atoms. Two spellings of nothing that the code treats alike (an absent
string and an empty one) are one value; where the code tells them apart, so does the model.

### What is around

- `ServerConfig`: documents of clients, targets and routes go through `load_server_state`'s checks
  (`RouteBuilds`, `OneFamily`, ...) into tables, and requests through those tables (`Call`,
  `Refuse`, `anthropic_count_tokens`).
- `RouterStats`: each request's calls (a judge's leaves a line in the log only if it reports its usage), its usage chunks
  (the last one counts, whole or partial) and its end (whole, streamed, failed, hung up), and `Reset` between any two.
- `DesktopLifecycle`: every command under the manager's mutex is a step, also behind the exit handler's stop, since
  none asks whether the application is quitting; `start_engine_now`
  is two (`Prepare`, then `Spawn` or `DryRunFails`), because it unlocks for its dry run; engines
  boot, bind the port and die on their own, and a foreign program may hold the port. The manager's state (starting,
  running, ...) is shown in the window and read by no command: it is left out, as is the end of the process after its last stop.

### MC modules

`MCMaskEngine` and `MCStreamRestore` give values to constants; `PlaceholderKinds` grows the kinds
an operator may configure, symbol by symbol. `MCRuns`, `MCTranslation` and `MCServices` put components that share no state side by side: the variable `part`
says which one moves, and the others stay at a fixed value. In `MCMasking`, `part` says with which constants the engine moves. A run of such a module is the
union of the runs of its parts, and a property says of which part it speaks. All EXTEND their
components, so what they check is the very definition the theorems are about. The properties
that end in `Sound` are stated at the end of each component's module, as conjunctions of
properties that are explained there. `Requests` holds the constants the components share.

## 3. Runs

| run | module / cfg | expects | question |
|---|---|---|---|
| `masking` | `MCMasking` / `Masking` | pass | who receives which secret; when is restoring guaranteed; is a response rendered one way; are the store's maps inverse, scoped, remembered; is the stats page, read under two locks, consistent? |
| `mask_miss_uncounted` | `MCMaskEngine` / `MaskMissUncounted` | violation | is every restore miss counted, as the appliance README says? |
| `kinds_restorable` | `PlaceholderKinds` / `KindsRestorable` | violation | does `PATTERN` match everything `mint` makes? |
| `stream_interleaved` | `MCStreamRestore` / `StreamInterleaved` | violation | does a split placeholder survive two channels over one leftover? |
| `runs` | `MCRuns` / `Runs` | pass | does `drive` implement the contract, return, and clean up; one state per session, no turn lost, every waiter served? |
| `run_hedge_loser` | `RunDriver` / `RunHedgeLoser` | violation | is a response ever lost to a hedging loser? |
| `translation` | `MCTranslation` | pass | does what is written arrive, in three formats, buffered and streamed, masked and replayed? |
| `note_reaches_target` | `RequestTranslation` / `RequestNote` | violation | does a handoff note reach a target of any format? |
| `arguments_sent_once` | `StreamTranslation` / `StreamArguments` | violation | does a Responses upstream have a call's arguments sent once? |
| `reply_cut` | `ResponseTranslation` / `ReplyCut` | violation | is a client always told that an answer was cut? |
| `desktop_overtaken` | `DesktopLifecycle` / `DesktopOvertaken` | violation | does the engine that serves come from the last save that succeeded? |
| `services` | `MCServices` | pass | the nine services and the finding merge, side by side |

The session store and the kinds have no runs of their own: the engine takes every step of the
store, and the kinds are a part of `translation`.

### Bounds and why they are enough

- `masking`, part `restore`: two requests that share a session (two turns) or not (one
  anonymous), two secrets, `Ttl = 2` and `MaxTime = 3`: a session can expire and be
  re-created between scrub and restore, while the other request repeats its placeholders. The client's session id is
  one of the keys of the anonymous requests.
  Part `stats`: one session that can expire, a critical finding and an ordinary one, one snapshot. Part `policy`: an opaque token and one that
  runs into a placeholder, a local route that is not registered, and no expiry.
- `desktop_overtaken`: one starter and one save. `reply_cut`: one call, one usage count.
- `kinds_restorable` and the slugs of `translation`: all 1365 kinds of up to five symbols over
  two letters, `_` and another separator.
- the restorer in `translation`: texts of up to three pieces out of: the session's placeholder, another
  session's, a bare prefix, `_`, a letter, a blank; every cut into fragments.
  `stream_interleaved`: two channels with one piece each are enough for the disagreement.
- streams in `translation`: four fragments and calls (two when masked) for each of the nine
  pairs of formats, with every legal order, an error, an end or a cut after each: two calls
  interleaved with text, a call whose parts come in any split, two texts around a call.
- requests in `translation`: three turns; each may think, speak, call twice, answer in either order,
  bring media. Replies: two calls, usage of 0, 1 or 3 tokens in each count, or none.
- `runs`: three calls, of which one may be stuck for ever, two decisions, capacity
  one. Two senders can wait while the channel is full and a third call is served.
  Its sessions: three requests (a waiter, a holder, and one that comes after a sweep),
  one session and requests without one; `TTL = 1`, one tick.
- `services`: two calls of two candidates, one streamed, of which one retries; three providers with every
  set of headers in conflict; conversations of six messages with a signal window of two; three
  turns of one session in five kinds of headers over a map of two; three escalation turns and
  two confirmations (a streak can be broken and confirmed); conversations of four messages out of nine kinds, with budgets
  that one long message exceeds and a header that grows with the lines shown; three requests, one reset, a ring of two; two starters,
  two engines, one save; all reports of two detectors on a text of four; 18 routes on
  every choice of two clients and three targets.

`MaxTime`, `MaxRecords`, `MaxAnon`, `SnapshotMax`, `MaxDecisions`, `Pieces`, `MaxFragment`, `MaxLen`,
`MaxSaid`, `MaxMasked`, `MaxTurns`, `Horizon`, `MaxMessages`, `MaxResets`, `MaxCalls`, `MaxSaves` and `MaxBlocks`
are bounds of the models and not of the code. Deadlock is not checked where
requests are finite in number and simply finish; `runs` does check it, with `Terminated` and `AllServed` as the only legal ends.
On two workers `translation` takes about a minute, `masking` and `services` two to three, `runs` almost three, and every other run
a few seconds.

### Fairness

Only `RunDriver` and `FallThroughSessions` make liveness claims.

- `RunDriver`: `Advance` (the runtime polls a task that is not blocked, and an algorithm
  that has not hung goes on); `Pull` and `Serve` (`select!` picks a ready branch at
  random, so neither starves); `DropStream` and `Abort` (Rust drops locals; tokio
  cancels an aborted task). `Serve` of a call in `Stuck` gets no fairness: the client has no
  overall timeout, so an upstream may never answer. `Hang`, `Drop`, `Panic` and `Cancel`
  never have to happen.
- `FallThroughSessions`: strong fairness of `Lock`, because tokio's mutex is FIFO and a
  waiter is never overtaken for ever; weak fairness of the end of `route` and of the answer call: the
  claim `LockServed` is for routing that ends, and says the mutex is given back on every way out.

### What the passing runs show

`RestoredToOwner`, `OneRendering` and `PromptAnswerRestored` hold under every interleaving
of two requests with eviction: the cloned map and the per-record key are what make
them hold (the mutants `Restore_AllSessions`, `Deliver_LiveMap`, `EntryOrNew_NoRefresh`
break them). `SnapshotNotAhead` holds because gauges are read before totals and because a
record is in RAM before it is counted, up to the requests that were not recorded.
`StreamedAsBuffered` and `OnlyLeftoverWithheld` say together that on one
channel streaming equals buffering at every moment. `RunKeepsContract` is a refinement.
`AwaitedResponseNotLost` says a response can only be lost if the algorithm itself dropped a call.

In `translation`, `ContentIntact`, `ArgumentsIntact` and `WellFormed` compare the events a client of one
format reads with what an upstream of another said, and `BufferedAsStreamed` the
accumulator's whole answer with them. `MaskedStaysMasked` and `PromptReachesTarget` are about
exact replay: no candidate ever gets the body as it was before an edit.
`AnswersFollowCalls` is the rule by which providers reject a request; `NoWordLost` names the losses the code accepts.

In `services`, `AffinitySound` holds because a turn keeps its session's state from reading the
assignment to writing it; requests that are tied only by the hash of their first message have no such state, and the property says what is left
for them. `DesktopSound` has two halves. An engine that lives is the manager's, unless an overtaken start dropped it (`abandoned`),
and after the exit handler's stop it is one whose kill was refused or that a command behind that stop spawned (`spared`). An engine that
serves has what was saved, unless its save returned an error (`unsynced`) or an overtaken start spawned or dropped it (`stale`, `abandoned`).
Each exception names engines and the step that made them so, no history as a whole: after an overtaken start, everything that follows is still checked.
`StopSurvives` names its two as well: a Responses answer cut without an output item, unless its body is replayed (finding 7), and a filtered answer.

## 4. Findings

1. **`mask_miss_uncounted`** (`engine.rs:137`): `appliance/README.md:111` says a
   placeholder the box no longer has is counted as a restore miss. Only a missing *session* is
   counted: when it expired and a later request re-created it, old placeholders go to the
   client as they are and nothing is counted.
2. **`kinds_restorable`** (`placeholders.rs:25`): a configured kind that ends in a separator (`Code.`)
   keeps a trailing `_`, so `mint` writes `__` before the digest and `PATTERN` never matches it. The value is masked and never restored.
3. **`stream_interleaved`** (`restore.rs:30`): text, reasoning and tool arguments share one `leftover`.
   A delta of another channel between the two halves of a placeholder puts the first half
   in the wrong channel, and the placeholder is not restored, against
   `appliance/README.md:44`.
4. **`run_hedge_loser`** (`core/algorithm.rs:251`): a loser that answers after the
   winner's return and before `drive` takes `Done` turns the run into an error, which the comment at
   `core/algorithm.rs:1114` and the doc of `run` exclude.
5. **`note_reaches_target`** (`codecs/responses/buffered.rs:932`): `append_note` puts a handoff note behind the tool
   results of the last user message, so that it "satisfies both and keeps the addition a cache-safe suffix" (`util/prompts.rs:40`);
   the Responses encoder writes only the calls and results of such a message, and the note never reaches the model.
6. **`arguments_sent_once`** (`codecs/responses/stream.rs:359`): the decoder means to emit arguments at the end of an item
   only if none were streamed (comment at 358), but never fills the state it asks; arguments
   that were streamed are sent twice.
7. **`reply_cut`** (`codecs/responses/buffered.rs:215`): "The truncation signal is on the response, not the output items." (205), but the
   stop reason is put on the last output item; an incomplete response without one becomes an empty answer that ended normally.
8. **`desktop_overtaken`** (`desktop/src-tauri/src/lib.rs:636`): `Settings.tsx:81` says "Save dry-runs the file, then restarts the engine."; a start that
   unlocked for its own dry run before the save spawns after it with the environment it loaded first, and drops the engine of the save unkilled.

### Divergences without a run

Observed while modelling; each is in the model where a module covers the code, without a run of its own.

Masking
- `stats.rs:52`, "Requests that selected the local route.": the override is counted
  (`engine.rs:118`) before `select_route` finds that the route is not registered and keeps the caller's (`maskclaw_hook.rs:73`).
- `appliance/README.md:103` counts runs that look like secrets and "are **not** already placeholders"; `residual_high_entropy_count` skips every
  run that *contains* one, with the unmasked text around it (`detect/builtin.rs:160`). No property claims that what looks unmasked stays local.
- `policy.rs:17` speaks of a critical hit that *remains*; `policy.rs:42` counts critical hits that were replaced too.
- A critical finding dropped for an earlier, overlapping ordinary one no longer counts as critical.
- A placeholder longer than 53 bytes (a slug of more than about 33 characters) is not held back and, when split, not restored (`placeholders.rs:60`). `Window` is this limit.
- The leftover is flushed as a `TextDelta` after `MessageStop` went by (`engine.rs:167`), which `protocol/src/stream.rs:306` says ends a message; an OpenAI client gets it after the chunk that carries the finish reason.
- Reasoning details, `data:` URLs, file payloads and raw media sources are never scrubbed (`ir.rs:99`); `RequestTranslation` masks the text of every block it has, and has no payloads.
- A client's session id of the form `anon:1` or `corr:x` is the key of an anonymous or a correlation session too (`engine.rs:187`). The secrets found stay those of requests under that key.

Routing
- A request marked final removes its session's routing state while others still route
  with it (`fall_through.rs:218`), against the sentence at `fall_through.rs:318`. `ActiveShareState` and `SessionRemembered` are therefore stated for sessions until a host marks them complete (`Closed`).
- `util/affinity.rs:33` says the oldest assignment is evicted; `:206` evicts an arbitrary one.
- The default target a judge's outage leads to is latched by affinity like a judged one.
- `core/state.rs:28` describes sessions without tool signals; the processor always stores a value (`util/stage.rs:558`).
- `docs/reference/toml_schema.md:186` lists `session_affinity` for the stage router's judge, where it has no effect (`stage.rs:70`).

Client, server, stats
- `config.rs:75`, "The same id on two different clients never collides": within one route `by_model` is keyed by the id alone, and the later target's client replaces the earlier's. `EveryCallServed` therefore asks for some target of that id on that client.
- The masking override to the local route comes after the check of the caller's login was made for the route it named; `LoginReachesItsProvider` excepts it.
- A reset between a stream's start and its failure leaves more errors than requests; one that falls between the scorer's histogram and its decision counter puts the two in different windows.
- A client that hangs up leaves a call that was counted, without usage.

Translation
- `protocol/src/llm.rs:201` says "Parsed tool arguments."; the Responses codec encodes a string of JSON once more.
- An error in a stream is followed by `[DONE]` for OpenAI clients; `response.failed` is ignored and the usage of `response.incomplete` dropped by the Responses decoder.
- A Responses answer streamed with tool calls ends as `stop` / `end_turn`.
- Distinct tool ids can become equal in `sanitize_anthropic_tool_use_id`; `is_error` of a tool result is dropped by every encoder.

Desktop
- `lib.rs:379`, the comment at `lib.rs:1261` and a test say autostart leaves a port in use alone; `should_skip_engine_autostart` is not called on that path, and `start_engine_now` kills the listener.
- A stop or a quit that overtakes a start in its dry run is overridden by the spawn, as a save is (finding 8).
- A command that waits for the mutex during the exit handler's stop (`lib.rs:1303`) runs after it: an engine it spawns outlives the application.
- A start without a server binary ends before `mark_failed` (`lib.rs:583`): the state stays "starting", the child attached.
- A crashed engine is shown as running until the next command; a refused kill leaves the state "stopping".

Appliance
- `hostd.py:597`: login and logout read, change and write `sessions.json` on threads without a lock; of two at once, one is lost.

## 5. Proofs

Each theorem is for every value of the constants that satisfies the ASSUMEs of its component, and has no hypothesis beside
them. The ASSUMEs are `TtlAssumption`, `BoundAssumption`, `MintInjective` (store), `KeyAssumption`, `PolicyAssumption` (engine), `SessionAssumption`
(fall-through), `LetterAssumption`, `ReplyAssumption`, `RunAssumption`, `MergeAssumption`, `AffinityAssumed`, `EscalationAssumed`,
`StageAssumption`, `JudgeAssumption`, `ClientAssumption`, `ConfigAssumption`, `UpstreamAssumption`,
`StatsAssumption`, `DesktopAssumption`; they say what kind of value a constant is (a bound is a number, a set is finite
where the code counts it, two model values differ), except two: `MintInjective` and the part of
`AffinityAssumed` that keeps message hashes and session ids apart stand for the absence of collisions of a truncated HMAC and of SHA-256.
So the theorems hold for any number of requests, sessions, calls, messages and secrets, and for any bound.

### The masking engine (`MaskEngine_proofs`)

The store: `StoreTypeOK`, `MapsAgree`, `SessionScoped` and `ActiveSessionRemembers`. `MapsAgree` is not inductive: a fresh
mint could overwrite the entry of another finding. `StoreInv` adds that every placeholder in a record was minted under that
record's key, and that no two records share a key; then `MintInjective` gives freshness within a record
and disjointness between records, which is `SessionScoped`. `StoreRemembers` is an action property, proved operation
by operation from the same invariant.

The engine: `EngineUsesStore` says every step of the engine is a step of `StoreNext` or leaves the store alone, so the
store's invariants hold in the engine. On it rest four invariants.

- `RestoredToOwner`, from `OwnInv`: what a live record or a cloned map can render was minted for a finding some request of
  that session sent. The difficulty is time: the record behind an answer may be gone and
  re-created, so ownership is tied to requests and never to the live record.
- `PromptAnswerRestored`, from `PromptInv`: while less than the TTL has passed since a request's scrub, its
  session is live and holds every placeholder it minted (each operation restarts the clock, none
  removes an entry); a map cloned in that time has them too.
- `OneRendering`, from `RenderingInv`: what was rendered so far is what the map cloned for this response says, what
  was left is not in that map, and before there is a map nothing was rendered.
- `SnapshotNotAhead`, from `CountInv`: what is in RAM is at most what was replaced (`Made`), that is the
  recorded matches and the findings of the requests not recorded yet. Every step that adds an entry adds a replacement,
  and what the gauges read stays below what is replaced later. The argument counts sets, so it carries their finiteness along.

### Routing (`FallThroughSessions_proofs`, `Routing_proofs`)

- `TurnsNotLost` (`LockInv`: a request that routes holds its state's mutex and has read its present content, so writing
  back `read \cup {r}` loses nothing) and `ActiveShareState` (`RegisteredInv`: an active request of a session that nobody
  marked complete holds exactly the state the registry has for it, so the sweep cannot take it and a newcomer gets it).
- `SessionRemembered`, from `RememberedInv`: less than the TTL after a request entered, its session's entry is there,
  holds that request's state and is no older than the request, so the sweep leaves it and the next request finds it.
- `AffinitySound`, its action part included. `HoldsState`: a turn of a session
  between classifying and deciding has that session's state. Two turns of one identity have one session (`SameSession`), so
  while one is between its read and its write no other can write, and what it read stands until it decides (`ReadStands`).
- `EscalationSound`: the streak is read before two calls and written after them; `StateHeld` says the turn has the
  session's state all that time, `Short` that what it read was short of the confirmations and still is, `Counted` ties the
  streak to the verdicts since the last decline, and `Paid` each turn's calls to where it is.
- `StageSound`: nothing is added to a conversation between a decision and its reply, so the turn in flight is what `Route`
  makes of the conversation as it is (`TurnFollows`); a summary is only ever replaced by another (`SummaryStays`).
  The rest is about `pick_tier`: a severity among the recent results bounds the signal's, and its tier follows.
- `JudgeSound`: a conversation stands still once a judge was asked (`JudgeInv`), so a view is what the code makes of it.
  `Waits` and `Waiting` say, without the fold, which ids the pass over a window leaves open: those of a
  result before every call of its id. That is what each block and each message does to them (`WaitsOne`, `WaitingOne`), so it *is*
  the fold (`FoldsAgree`), and nothing is left open exactly when every pair is whole (`PairedIsUnpaired`). For the transcript: the
  newest `n + 1` lines are the newest `n` and the newest of the rest (`NewestMore`), so what the loop
  stopped at plus that line is a transcript it tried and found too long.

### The run (`RunDriver_proofs`)

The refinement `Spec => RunKeepsContract`, `NoLostPromise` and `AwaitedResponseNotLost`, for any algorithm, any calls, any
capacity. `RunInv` has four parts beside the types.
`EndsOnce` follows the terminal step: none before the task finishes, the only sender while it does,
the last item of the channel after it; so `drive` never finds the stream at its end without one.
`CallsHeld`: a call is in one place (queued, in the channel, served) and its promise says which.
`DecisionsInOrder` numbers the decisions as they are announced: the channel holds exactly those above the trace's
length up to the published ones, in this order, and the senders those above them, so a pulled decision is the
next one and nothing is left when the terminal step is pulled: the trace *is* what was published. `ErrExplained`
says where an error can come from. Lemmas on what sending, taking and withdrawing an item do to a
sequence carry the steps.

### The client (`Server_proofs`)

`ClientSound`, whole. `FallbackJustified`, `SpanTellsEnd` and the action property `AnsweredOnce` come from one
invariant per call (`CallOK`: attempts, verdicts and position fit together; `SpanOK`: the span follows
the items read). `OverheadIsUnserved` is about time: `FlightInv` says a call was in flight, at the candidate it ended with,
in its window and at no other tick, so the time served is the union of the windows. The code computes it by a
sweep over windows sorted by their start. `Reach` and `Covers` say where the sweep's cursor and total are after any part of
the windows; they are a solution of the fold's equation, and it has one (`ServedIsCovered`).

### The server and the desktop (`Server_proofs`)

- `ConfigSound`, from `ConfigInv` (the table was built by the checks from the documents as they are) and `TableInv`
  (what `RouteBuilds` and `OneFamily` let through).
- `UpstreamSound`: what was posted is what the backend makes of the caller's request (`PostFollows`), every reserved header
  has one source (`OneSource`), and a body's fields come from the caller or from the backend's defaults.
- `StatsSound`: a request's usage is recorded when it is done, and it is done once (`RecordedAtEnd`), so a step either records
  nothing that counts (`Quiet`) or is one request's end (`Ending`), which adds one to each of the sums the totals are claimed to be; a reset
  begins an epoch in which nobody ended. `IsLog` and `RingInv` follow the log and the latency ring, whose
  place is a remainder.
- `DesktopSound`, from `DesktopInv`, engine by engine: one that lives and was not dropped by an overtaken start is the manager's child (`SoleInv`);
  a start that nothing overtook comes back to a manager without a child and to the files it left (`StartInv`); after the last
  stop a child that lives was spared (`QuitInv`); and an engine that lives was spawned for the files last written and reads
  those, but for a save that reported an error and an engine an overtaken start spawned or dropped (`BootInv`).

### Messages (`Translation_proofs`)

- *Requests.* `RequestInv` is over conversations of any length. Every block, message, item and body is typed over the set of atoms
  its text is made of (`Blocks(A)`, `Messages(A)`, `Items(A)`, ...), so that one lemma per operator says both that a codec returns
  what the format allows and that it brings in nothing of its own: `DecodeType` (a client's body decodes to a request over its
  atoms), `EncodeType` (a request encodes to a body over its atoms, in each format), `ViewType` (what a reader of that body sees is over them) and
  `ScrubType` (masking leaves a request over `Safe`, the atoms without secrets, and drops the body kept for replay). `NoSecretIsSent` is then
  what is left of it: once masked, a request is over `Safe` and has no raw body (`MaskHeld`), the edits add atoms of `Safe`,
  so what is written is over `Safe`. `ThePromptIsSent` follows the first instruction instead: `SystemPromptProcessor` puts it first (`PromptHeld`), nothing
  after it edits the instructions, and each encoder writes the instructions before all else (`PromptRead`).
- *Replies.* `ReplyInv` says what the neutral answer holds of the reply and of its usage (`ReadTrue`), whichever provider it was read from, whether it was
  restored or not. `ReadStop` and `UsageRead` establish it at each decoder, `WrittenStop` and `WrittenUsage` carry it
  to the client through each encoder, or through the body kept for replay. Counts are any natural numbers, and a count that
  is not reported is no number.
- *Kinds.* `Clean` is what a slug looks like: letters, with single separators between them. `Cleaned` keeps a text clean, so the recursion of
  `sanitize_kind` is defined and its result clean (`CleanUnfolds`); a clean text is read symbol by symbol unchanged (`CleanIsItself`).
- *Findings.* `MergeSound` for any length, detectors and reports: `last_end` bounds every kept span, and a
  dropped finding begins before the end of one kept.

The proofs changed the model in one respect. A CASE whose guards overlap denotes *some* value whose guard holds, not the first one;
TLC takes the first. Three operators (`openai_part`, `responses_part`, the reasons to stop of a provider's answer) had such guards, and
no fact about them could be proved. They are now written with an IF where the code tests in order.

### Streams (`Stream_proofs`)

`NoWordIsLost` is `ContentIntact` for streams of any length between any two formats. A list of events *shows* a text and a reasoning
(`Shows`, `Adding`): what a reader of any format gathers from it. The proof says this of ever larger pieces.

1. Each encoder, chunk by chunk: `Talk` names what a chunk says, and a step shows exactly that (`TalkMoves`), opening and closing the
   client's blocks without saying anything more.
2. Lists of chunks, run through an encoder by a recursive function: those that say something (`Speaks`), report usage (`Counts`) or
   close the answer (`Closes`), from any state of the encoder in which it still listens (`Fresh`).
3. Each decoder: the chunks an upstream event becomes are such a list, whichever format it is in (`Heard`, `Final`). An event in the client's own format
   is passed on as it came, only with its model restated, and `Plainly` is either way of sending an event.
4. `StreamInv`, over the whole system: what the client was sent shows what was said, and the phase of the stream says who knows of its end. The client hears of
   it at once when it reads the upstream's format or OpenAI's (`Announces`). To the others the encoder owes it, in its state, until it
   finishes (`Stopped`); once the stream is done, all have been told (`Told`). That debt is what makes `ContentIntact` inductive.

The invariant is about unmasked streams, as the property is: a masked one goes through the restorer. It holds in every phase, so a transport error or an error
event in mid-stream loses nothing that was said before it.

### Folds, sums and sequences (`SumsAndSequences`)

The library states its induction theorems with an operator as a parameter, which none of the provers can
instantiate. What is proved here about folds goes another way. A fold over a finite set is, by its definition, a `CHOOSE`
of a function on the subsets that equals its own unfolding; induction over the cardinality is the existence of a
least counterexample among natural numbers (`LeastExists`, from the well-foundedness of `<`) or a statement
about the *set* of numbers a property holds for (`SetInduction`). So such a function exists and is unique, sums unfold, split and
add up (`SumOfParts`, `SumGrows`, `DisjointUnion`), and a fold is whatever solves its equation (`FoldsAgree`).

Sequences are read by recursive functions in the codecs. That one exists is shown from the values it takes, by induction on their number
(`Iteration`), and two that take the same steps agree (`IterationsAgree`). `FlattenUnfolds` and `FlattenConcat` are the two facts the proofs use of
`FlattenSeq`, by which the codecs map, filter and join.

### Only model-checked

- Liveness (`RunReturns`, `TaskReaped`, `LockServed`), which is out of the prover's reach.
- The restorer (`StreamedAsBuffered`, `OnlyLeftoverWithheld`). They hold where no secret can, with the text around it, be read as a placeholder, which is so for the
  texts checked and is not a property of the code; and `restore_text` recurs over a text by matches of varying length.
- Streams (`ArgumentsIntact`, `BufferedAsStreamed`, `WellFormed`). Arguments go by tool call, through a table of open calls which each codec keys in its
  own way, and the other two are about the order of all events at once, or about an accumulator that reads them a second time.
- The order of a conversation (`AnswersFollowCalls`, `NoWordLost`): the proofs above say of which atoms a body is made, not in which order they stand.

## 6. Not modelled

- HTTP, TLS, SSE bytes, error bodies, the model list, metrics exporters, logging: I/O, not state.
- The regular expressions, the Luhn test and the entropy scan of the detectors: their result is a parameter of `FindingMerge` and `MaskEngine`.
- `into_parts` (a host that takes the decision and serves the calls itself).
- What an LLM judge answers, and the arithmetic of the capability classifier's threshold: verdicts are parameters.
- Sampling parameters, tool definitions, caching and thinking options in the codecs.
- Algorithm statistics and prefix-cache eligibility: derived from what `RouterStats` records, read by nobody in the proxy.
- The desktop's probes, setup forms, secrets and log tail; the appliance's host daemon (a Python service beside the proxy, mostly shell commands); Python bindings and
  distillation, web interfaces, launchers, benchmarks, installers.

## 7. What is left

1. `into_parts` as a second host of `RunDriver`, and `ModelClient`'s candidate loop composed with `Serve`.
2. `HostdSessions`: load, modify and save of the session file by several threads.
3. Proofs about streams: text, reasoning, end and usage are done; the arguments of tool calls and the order of events are left.
4. Larger streams: a third call, and a second masked text.
