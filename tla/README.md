# Verification of the SkullTrading backend

TLA+ models, TLC runs and TLAPS proofs about the backend in `src/`: the Supabase
Edge Functions that connect a Binance account and trade on it, the pipeline that
carries a signal from the trading bot (VPS-1) over VPS-2 to the subscribers, the
push fan-out, and the API of VPS-2 from which subscribers read signals, with its
rate limiter and its tier gate. Everything is translated from the code; documents and comments
are used only as expectations to check the code against.

## 1. Inventory

| Part | State | Operations | Hard because | What makes it correct |
|---|---|---|---|---|
| `binance-execute` (`supabase/functions/binance-execute/index.ts`, `_shared/binance.ts`) | one handler per POST; reads `v_user_tier`, `binance_credentials`; writes `trade_executions`, `last_used_at`; the account at Binance | tier check, load and decrypt credentials, leverage, margin mode, entry, stop loss, take profit, insert row, touch, answer | handlers run concurrently; a Binance call may be executed although its answer is lost; the runtime may end the isolate anywhere; tables change meanwhile; an insert's error is ignored | answers and rows are true of the position; a refusal did nothing; brackets only after their entry; an entry meets isolated margin and a confirmed leverage |
| `binance-connect`, `binance-disconnect` | `binance_credentials` row, `user_profiles.binance_connected`, master key | check permissions, two encryptions, upsert, flag; deactivate, unflag | two statements without a transaction; overlapping calls; failures and kills in between; key rotation; the permissions of a key may change at Binance | a stored key is one that Binance was asked about; row and flag agree unless something went wrong; answers are true; the row can be decrypted |
| `notify-subscribers` (and `apns.ts`, `005_notify_rpc.sql`) | `user_devices`, tokens at APNS, counters of the call | list targets, push to all at once, count, switch off gone tokens | pushes settle in any order; calls overlap; the app registers, mutes and re-installs meanwhile; one token under several users | counters are true; a gone token stays off; a live device is not silenced |
| VPS-1 emitter (`vps1-integration`) | a daemon thread per emitted analysis | post once | threads overtake each other; no retry; the process may end | - |
| VPS-2 webhook (`vps2-api/app/routers/internal.py`, `services/cache.py`, `services/supabase_client.py`) | `signal_cache`, `signal_dead_letter`, background tasks | upsert or park, answer, fan out in the background | no ordering guard; every statement may fail after taking effect; the worker may end | accepted signals stay visible; pushed signals are readable; refused ones are parked |
| VPS-2 tier gate (`core/auth.py`, `core/tier_auth.py`) | Redis `tier:<user>` for 60 s | read, fetch, store; read twice per request | staleness, overlapping fetches, expiry between the two reads, errors cached as `free` | a granted tier is recent; a refusal has a recent cause |
| VPS-2 rate limiter (`core/rate_limit.py`) | Redis `rl:<user>:<minute>` | increment, expire, compare | window boundary, two readings of the clock, late increments | the limit holds per minute, a burst is bounded, Retry-After is long enough |
| VPS-2 read API (`routers/v2_*.py`, `services/cache.py`, `services/vps1_client.py`) | none of its own | window by tier, stripping by tier, fallback to VPS-1, relays | the tier may change between letting in and showing; signals not cached yet; errors upstream | no detailed analysis, tools, scores or backtests for who is not pro; no old signals for who is not pro; no false 404 |
| APNS JWT cache (`apns.ts:24-53`) | module-scope token | reuse or renew | overlapping renewals | any token in use is valid |

How they interact: the iOS app calls connect, disconnect and execute over HTTP;
these share the database and nothing else, and nothing orders their statements.
VPS-1 posts to VPS-2; VPS-2 calls notify-subscribers over HTTP in a background
task; notify-subscribers reads `user_devices`, which the app writes directly.
The app reads signals over `/api/v2`: every route passes `get_current_user` and
`enforce_rate_limit`, most then `require_tier`, and those of `v2_signals` read
the tier again (`current_tier`) to decide what to show. Binance and APNS are
external services, the tier comes from RevenueCat.

The hazards of this code, each at its line with the properties aimed at it, are
listed in `PROJECT.json`.

## 2. Modules

| Module | Models | Used by |
|---|---|---|
| `ExecutionContract` | what binance-execute promises per request: position and verdict | `TradeExecution` (refinement) |
| `TradeExecution` | the handler of binance-execute, Binance as it sees it, the tables it reads and writes | `TradingAccount` |
| `BinanceConnection` | the handlers of binance-connect and binance-disconnect | `TradingAccount` |
| `TradingAccount` | the three functions over one credentials table | - |
| `SignalPipeline` | VPS-1 emitter threads, the VPS-2 webhook handler and its background task | - |
| `NotifyFanout` | notify-subscribers with its SQL function, against APNS and the app | - |
| `RateLimiter` | `enforce_rate_limit` against Redis and the clock | - |
| `TierGate` | `_get_tier`, `require_tier`, `current_tier`, `fetch_user_tier` against Redis and Supabase | `ReadApi` |
| `ReadApi` | the `/api/v2` routes behind the gate, `signal_cache`, VPS-1 | - |
| `MC*` | instances for TLC | |
| `*_proofs` | theorems | |

Operators whose comment starts with "Mutated form of" are not part of a
specification: each is a plausible bug, put in the place of the definition it
follows or precedes to see that a property notices it.

### TradeExecution

One action per await of `Deno.serve`'s handler. `pc[r]` is the await at which the
handler of request `r` stands; `Receive`, `CheckTier`, `LoadCredentials` and
`Decrypt` are its four early-return blocks; the five Binance calls share `Send`,
`Acknowledge` and `CallFails` (`signedRequest`), and the tables `OnSuccess` and
`OnError` say which await follows a call that returned or threw, which is all
that differs between them (`index.ts:141-185`). `InsertExecution`,
`PersistFailure`, `TouchCredentials` and `Respond` are the rest.

Binance has a state of its own (`calls`, `market`, `fills`) and its own actions.
A call that was sent may be carried out or rejected at any later time, also after
the handler has given up on it or is dead: `CallFails` covers an error answer
(`BinanceError`), a lost answer and a failed connection, of which the handler
cannot tell the last two apart. An insert or update may have no effect, since
the code ignores what it returns. `Kill` ends a handler at any await; a
statement that was in flight then may have had its effect, which is the same as
a kill just after it. (A statement that Postgres applies later still is not
modelled here: no other step reads the row of a request or its `last_used_at`.)

`ProfileChanges` and `CredentialsChange` are the other writers of the tables:
RevenueCat and expiry, and connect and disconnect, here allowed any change. The
header (`index.ts:15-16`) says that `binance_connected` must be true; the code
reads `is_active` of the row only, and so does the model.

A row has the set `ids` of orders whose id it names. An acknowledged order may be
missing from it: an answer with status 200 that has no `orderId`, or is not JSON
at all, counts as success (`binance.ts:60`, `index.ts:190-195`).

Abstracted: sizes and prices, the texts of errors and answers, the order ids
themselves, the second of the two decryptions (a failure of either gives the same answer and neither changes
state), `recvWindow` (a stale call is one that Binance rejects). A body has a
leverage, because its value is used, and `wellFormed` for all other checks.
The owner trading by hand in the same account is not modelled: margin mode and
leverage of a market change through this function only.

### ExecutionContract

For each request a position (`none`, `open`, `guarded`, `bracketed`) that only
grows, and a verdict that is given once. Each verdict bounds the position when it
is given and what it may become afterwards: "filled" needs all three orders,
"refused" excludes a position for good, "failed" and "partial" leave room for
calls whose answer was lost. `TradeExecution` maps Binance's state to the
position and the response to the verdict.

### BinanceConnection

Both functions with one action per await. `Statement` is an SQL statement sent by
supabase-js: applied and known to be, or its error comes back and it may have
been applied all the same, at once or by `Land` later, when the handler has
answered its error or was killed: `stray` holds such statements. `Enter` covers
authentication and the body checks. `CheckPermissions` is Binance's answer about
the key at that moment, good or bad. The permissions are no state of the model:
their owner may change them at Binance before the row is stored and at any time
after, and no code asks again, `binance-execute` included. What can be said, and
is, is that Binance was asked and what it answered (`vetted`, history). The two encryptions each take the master key
of that moment (`keyId`, `secretId`); `readable` says whether `key_id` opens both
ciphertexts. `RotateMaster` is the procedure of `docs/BACKEND_V2.md` section 5,
steps 1 and 2. `overlapped` and `last` are history variables. Two other writers
are left out: the user's own update of `binance_connected`, which the RLS of
`user_profiles` allows, and the operator who switches all rows off
(`ops/runbook.md:316`); either parts row and flag at will.

### TradingAccount

Extends `TradeExecution`, replaces its `CredentialsChange` by the actions of
`BinanceConnection` (both write `cred`), and lets all three functions interleave.
`barred` is a history variable: the requests that entered after a disconnect was
answered, each with that disconnect. Since any user may connect,
`RelinkingAssumption` makes the abstract `CredentialsChange` available to all of
them; it matters only to `ImplementsTradeExecution`.

### SignalPipeline

An analysis of a signal is a version of it. `Analyse` is VPS-1 persisting an
analysis and, if the recommendation is GO or STRONG_GO, starting the thread
that posts it; `LosePost` and `Deliver` are the thread's two outcomes. `Upsert`
and `Park` are the two awaits of `signal_webhook`, `Notify` its background
task. The answer to VPS-1 is only a label: the emitter logs it. The cache keeps,
per signal, the version that inserted the row (`received_at` and `expires_at`
stay that version's) and the one its other columns come from. Other columns,
payload validation and the token check (both: `LosePost`) are abstracted. A worker
that dies may have had the effect of the statement it was waiting for; an effect
that comes later than the end of its handler is not modelled here.

### NotifyFanout

A call looks up its targets, obtains the JWT, starts all pushes at once and
settles them in any order; `Finish` runs when all are settled. Its update may fail,
or be applied by `Land` after the call has ended with the error, which the code
ignores, or was killed: `late` holds such calls. `Dispatched`,
`Skipped` and `Failed` are the branches of the closure. APNS answers "gone" if the
app is not installed when it handles the push. `Register`, `Mute`, `Uninstall`
and `Install` stand for the app; the repository has only its README, so they are
external and unconstrained. Tiers and subscriptions are constants: they are read
once per call, in `Lookup`, and different signals already give concurrent calls
different lists.

### RateLimiter

`Receive` reads the minute, `Count` is the transaction INCR and EXPIRE at
a later time, `Compare` the comparison and the second reading of the
clock; `CacheFails` is a Redis that cannot be reached or whose answer is lost.
Time is in ticks: a minute is `Window`, the 70 s are `TTL`, and `Tick` also drops
the keys that expire. `counted` and `answered` are history variables.

### TierGate

The state and actions of the tier gate; it has no specification of its own but
is extended by `ReadApi`. `pc[r]` says which of its two reads a request is at
(`first`, `second`) and how far (GET, `_fetch`: the call of Supabase, `_store`: the
SETEX). `ReadCache`, `FetchTier` and `StoreTier` are the three awaits of `_get_tier`;
`Admit` is what follows it: `require_tier` compares, `current_tier` does not.
`FetchTier` may answer `free` whatever the row says, which is what the code makes
of any status but 200 and of a missing row. `GateFails` is an exception of any of
the three awaits. Nothing here depends on absolute time, so time is kept as ages:
what is left of the cached tier, how long ago a fetch was answered (`wait`), and,
as history, how long ago each tier was last the one Supabase would have given
(`held`), which saturates at TTL plus the time of a fetch.

`FetchTime`, from Supabase reading its row to the handler going on with the tier
stored, is an assumption, made in `Tick`. httpx's timeout of 5 s (`auth.py:113`)
bounds each phase of the fetch, not its sum, and nothing bounds the SETEX: the
Redis client has no socket timeout (`main.py:38`). The effect of the SETEX and the
return of its await are one step. A Redis that keeps a handler waiting for longer
may store an older tier than `GrantIsRecent` and `RefusalHasCause` allow.

Keys of different users are disjoint, so there is one user. Routes differ in the
minimum tier and in whether they read it again; both are tables.

### ReadApi

`ArriveAt` starts a request that the router's dependencies accepted, `TurnAway` is
one they did not. Then `List`, `Detail`, `DetailFromVps1`, `Gekko` and `Relay` are the
handlers, `UpstreamFails` and `ServeFails` the errors of VPS-1 and the 500s.
An answer is a set of signals and the parts of them it holds: key levels
(`levels`, also inside `gekko_basic`), the score and market regime of a signal
(`context`), `gekko_detailed` and `tools_used` (`detailed`), and what the pro routes
relay (`tool`: scores and backtests). `get_signal` strips `detailed` and nothing else
below pro, so key levels, score and market regime go to every tier from global on. Symbol,
recommendation, direction and limit of a list pick any part of the window.
A signal may lack Gekko's analysis. `Old` are the signals received more than
24 h ago; a signal does not grow old during a behaviour. `arrival` is history
about a request: whether the user had not been pro lately when it came and did
not become so since, and whether VPS-1 had the signal it asks for.

## 3. Runs

All runs check small instances exhaustively.

| Run | Instance | Shows |
|---|---|---|
| `TradeExecution` | 2 requests, 1 account, 1 market, leverages 1 and 125 | all safety properties of the handler, the inductive invariant `IInv`, and the refinement `ImplementsContract` |
| `TradeExecutionEdge` | 1 request, 2 accounts, bodies with leverage 0, 126 and malformed ones, tier and credentials changing | `SettingsInv`, liveness (`Settles`) |
| `BinanceConnection` | 2 connects, 1 disconnect, 1 user, 2 keys, either answer of Binance to each check, statements that land late, 1 rotation | all safety properties and the inductive invariant `IInv` |
| `TradingAccount` | 1 request, 1 connect, 1 disconnect, 1 key, a lapsing tier, no rotation | `OnlyVettedKeysTrade`, `DisconnectBars`, `ImplementsTradeExecution` |
| `TradingAccountUse` (violation) | 1 request, 1 connect, 1 disconnect | a request in progress trades after the disconnect |
| `SignalPipeline` | 1 signal, 3 analyses | all safety properties and `IInv`; answers and fan-outs happen |
| `SignalPipelineOutage` (violation) | 1 signal, 1 analysis | an outage's webhooks are nowhere |
| `NotifyFanout` | 2 calls, 1 phone that 2 users use, 3 signals of which one is for both, one is below their conviction and one is for nobody | `TallyIsTrue`, `SilencedOnlyInARace`, `GoneStaysSilent`, `IInv` |
| `RateLimiter` | 3 requests, limit 1, minutes of 3 ticks, TTL 4, 8 ticks | the limit per minute, the cause of refusals, Retry-After, and `IInv` |
| `ReadApi` | 1 request for a list, a detail or a detailed analysis, 1 for a score; a subscriber who changes between global, pro and lapsed pro; 2 signals of which one is old; TTL 2, fetch 1 tick | the inductive invariant `ReadInv`, `GrantIsRecent`, `RefusalHasCause`, `ProOnlyNotForTheLapsed`, `WindowUnlessFree`, `NotFoundIsTrue` |
| `ReadApiWindow` (violation) | same | the window of 24 h does not hold between two reads of the tier |
| `ReadApiKeyLevels` (violation) | same | key levels are shown to who is not pro |

Bounds, and why they are enough. Requests and calls interact only through the
rows of their user and the markets of their account, so one user, one account
and one market with two requests, or three calls, give every pairwise
interference; the proofs of section 5 lift the bounds of every module for its
safety properties. `Lapsing` and `Relinking` name the users whose tables change
meanwhile, `MaxMaster` the rotations (one separates the two encryptions; the run of
`TradingAccount` has none, since a row that cannot be decrypted only adds a refusal),
`MaxVersion` the analyses of a signal (three webhooks: an older one overtaken
while a third is not involved). Signals do not share rows, so one is enough. Two
overlapping fan-outs meet on one token, which is where they interact; their
targets differ by the rows that are registered when each looks them up. In
`RateLimiter`, `MaxTime` spans three minutes, a limit of 1 makes two requests a
burst, and a TTL one tick longer than the minute leaves room for late increments
on both sides of it. In `ReadApi`, `Served` gives one request all kinds of
routes that differ in what they show, while the other overlaps its reads of the
tier; two ticks of TTL and one of fetching separate an answer that was stored
late from one that was stored at once, and `Profiles` has a tier for each branch
of the window. Deadlock is not checked: when all requests are answered the
system rests. Symmetry is used where requests or calls are interchangeable, in
runs without liveness.

What the properties say beyond their names:

- `LedgerAgrees` relates row, response and Binance. A lost row is possible, since
  the handler does not look at the insert's error, and a row may lack the id of a
  live order; a false or a second one is not.
- `StoredKeysAreVetted` and `OnlyVettedKeysTrade` speak of the past: a connect of the
  same user asked Binance about this very key and was told that it trades futures
  and does not withdraw. They do not say that it cannot withdraw when it is stored
  or used; the program does not know that.
- `EntrySettings` is as strong as the code allows: two interleaved requests may
  exchange their leverages, so the entry's leverage is that of *a* request for
  the same account and market, and always isolated.
- `NoOrderAfterTheAnswer` and the contract bound what lost answers can do after
  the client has been told.
- `FlagFollowsRow` and `AnswersAreTrue` name exactly the circumstances in which
  row and flag part: a failed statement, a kill, an overlap.
- `DisconnectBars` holds for requests that *enter* after the answer, as long as
  that same disconnect is the last call of the user; the stronger sentence in
  `binance-disconnect/index.ts:4-6` is refuted by `TradingAccountUse`. It does
  not do to ask for *a* disconnect as the last call: a request that enters
  between two disconnects, trades after a connect in between and is then looked
  at after the second one has broken nothing. The run, which has one disconnect,
  cannot tell the two apart; the proof can.
- `NoRegression` and `AcceptedStaysVisible` hold for signals of which no two
  webhooks were ever under way at once (`raced`); without that condition the
  upsert may go back to an older analysis.
- `SilencedOnlyInARace` says that the update by token silences a registered
  device only if it registered between APNS's verdict and the end of that call, or
  of its update if that is applied later still.
- `MinuteBudget` counts requests by the minute they arrived in, but only those
  whose increment was executed before the counter of that minute can have
  expired: an increment more than 10 s late starts a new count. A burst across a boundary
  meets two minutes and so passes at most twice the limit.
- `GrantIsRecent` and `RefusalHasCause` bound staleness from both sides by the TTL
  plus the time of one fetch, which is not obvious where several fetches overlap
  and an older answer is stored over a newer one, with a TTL of its own.
- `ProOnlyNotForTheLapsed` and `WindowUnlessFree` are about the two reads of the
  tier together. The first speaks of what the code treats as pro, `detailed` and
  `tool`; of key levels, which the product specification counts to Pro
  (`docs/SKULLTRADING_iOS_SPEC.md:19`), the same sentence is false, as
  `ReadApiKeyLevels` shows. The window is missed in one case only, which `ReadApiWindow`
  shows: the second read gives `free`, for which there is no window although
  `require_tier` would have refused it.
- `NotFoundIsTrue` needs the fallback to VPS-1: a push may reach a client whose
  signal is not in `signal_cache` any more, or not yet.

The violated sentences are recorded under `findings` with the lines they quote.
One more is plain from the source: `binance-execute/index.ts:24-26` speaks of a
best-effort cleanup of dangling brackets, and no code cancels an order.
Two more follow from properties that pass: `UnreadableOnlyByRotation` names the
one way in which `key_id` does not open its row, which the rotation of
`docs/BACKEND_V2.md` section 5 does not expect; and `AcceptedIsFannedOut` must
allow "failed", since a fan-out that fails is only logged, where
`vps2-api/migrations/001_signal_cache.sql:6` speaks of a dead letter for
downstream failures.

## 4. Fairness

Liveness is checked of `TradeExecution` and `SignalPipeline`. Each entered
handler, webhook or background task has weak fairness on "its next step or its
end by the runtime" and nothing else does. A handler that waits for a service
which never answers cannot move, and no `fetch` has a timeout in the Edge
Functions; but the platform's wall-clock limit ends the isolate, so that its
fate is settled. `Settles` therefore does not notice a call that Binance never
answers: it shows that nothing but such a wait, which `Kill` ends, holds a handler up. Nothing is assumed of Binance, APNS, the network, VPS-1 or the
clients, who need not call at all. The liveness properties therefore say that
control never gets lost or goes round in circles, not that a trade is made.

## 5. Proofs

Checked by TLAPS for all values of the constants, under the assumptions stated
in the modules: bodies are well-typed, the bounds are sets of users, there is a
key, the default leverage is a number (`TradeExecution`); a call is a connect or
a disconnect (`BinanceConnection`, `TradingAccount`); rows of devices name users
and are finitely many, since pushes are counted (`NotifyFanout`); requests are
finitely many and a counter outlives its minute (`RateLimiter`).

Nothing is assumed of the number of requests, calls, users, signals, versions,
devices or profiles, or of the lengths of TTL, fetch and minute; nor of the permissions of keys, which
Binance answers as it likes each time. `FetchTime` is an assumption of another kind,
built into `Tick` (section 2).

Every safety invariant, action property and refinement that a passing run checks
is a theorem. Each proof has the same shape: an inductive invariant, made of
named parts; for every part one lemma, with a step per action; then the
properties, each from the invariant and at most one step.

`TradeExecution_proofs`:
- `TypeCorrect`: `Spec => []TypeOK`.
- `Invariance`: `Spec => []IInv`. No safety property is inductive alone: that
  "filled" means three live orders is a fact about Binance, while the step that
  answers looks only at what the handler knows and where it stands. `IInv`
  bridges the two: calls are sent in order (`SentInOrder`), knowledge is true
  of Binance (`KnowledgeIsTrue`), each stage is reached with the knowledge it
  needs (`StageIsEarned`), and answers and rows with the stage they belong to
  (`ReplyIsEarned`, `RowIsEarned`, `OneRow`). One lemma per group of actions.
- `Filled`, `Partial`, `Refused`, `InOrder` (`FilledIsBracketed`, `PartialHoldsPosition`,
  `RefusalSendsNothing`, `BracketsFollowEntry`) and the theorem `Ledger` (`LedgerAgrees`)
  follow from `IInv`.
- `Quiet`: the action property `NoOrderAfterTheAnswer`, from `IInv` and the fact
  that only Binance makes an order live.
- `Implementation`: `Spec => ImplementsContract`. Binance's order steps map to
  `Open`, `Guard`, `Bracket`; `Refuse` and `Respond` map to the verdicts; all
  others stutter.
- `ToldTheTruth`: `Spec => []Contract!Honest`, from that and the contract's own
  invariant: what a client was told stays true of its position at Binance,
  whatever lost answers and other requests do afterwards.

The last part of the module is about margin mode and leverage:
- `SettingsInvariance`: `Spec => []SettingsInv`, the second invariant: the
  market of every request that set it holds settings that a request for that
  market confirmed, and a request's account stays the same once it has called.
- `EntryMeetsSettings` (`EntrySettings`) and `EntryIsLegal` (`LegalLeverage`) follow.

`ExecutionContract_proofs`:
- `Honesty`: the contract's verdicts stay true of its positions.

`ReadApi_proofs`:
- `TypeCorrect` and `Invariance`: `Spec => []ReadInv`. None of the action properties
  is inductive: that a tier just read from Redis is recent depends on when it was
  stored and on how old it was then. `GateInv` says so of the cached tier and of
  every tier about to be stored, by adding the age of the answer to the time the
  key has left; a SETEX keeps it because the fetch is no older than `FetchTime`.
  `LapsedIsNotPro` carries it to each request: for a user who lapsed, no cached or
  fetched tier can be pro. `PassedTheGate` and `OnItsRoute` say what the place a
  request has reached tells of its route and tier, `StillThere` that VPS-1 keeps
  its signals.
- `Grants`, `Refusals`, `ProOnlyIsWithheld`, `Windows`, `NotFoundOnlyWithoutVps1`: the five action
  properties of the run, each from the invariant and one step.

`BinanceConnection_proofs`:
- `Invariance`: `Spec => []IInv`. `FlagFollowsRow` and `AnswersAreTrue` speak of calls
  that have ended, and a statement of another call may always come between. `CallInv`
  says what a call knows at each await (Binance vouched for its key, its first master
  key is no newer than the second) and that a call which was never overlapped has
  no rival; `StrayInv` that a late statement is one the call had reached. `RowInv` names, for each row, a connect that wrote it (`Wrote`), from
  which everything about keys and ciphertexts follows. `LastInv` follows the last
  call of each user from statement to statement, `FlagInv` says that row and flag
  part only while somebody is between the two statements.
- `KeysAreVetted` (`StoredKeysAreVetted`), `FlagAndRow` (`FlagFollowsRow`), `Answered`
  (`AnswersAreTrue`), `Readable` (`UnreadableOnlyByRotation`).

`TradingAccount_proofs`:
- `LinkInvariance`: `AccountSpec => []L!IInv`, where `L` is `BinanceConnection_proofs`
  over the variables of the composition. Steps of the handlers of binance-execute
  leave the connection alone, so its invariant, proved once, holds here too.
- `ImplementsExecution`: `AccountSpec => ImplementsTradeExecution`: each write of a
  connect or a disconnect to the row is a `CredentialsChange` that
  `TradeExecution` allows, the other steps of the connection stutter. What is proved
  of `TradeExecution` so holds here, for example `AccountIsHonest`:
  `AccountSpec => []Contract!Honest`.
- `AccountInvariance`: `AccountSpec => []AccountInv`. `VetInv` carries the vetting of a row
  (what Binance said of its key when a connect of the user asked) to the handler that loaded it and to Binance; `BarInv` says how far a request can
  get that entered after a disconnect which still is the last word. (`AccountInv`
  holds in the run's instance too; the run checks what follows from it.)
- `VettedTrades` (`OnlyVettedKeysTrade`) and `Barred` (`DisconnectBars`).

`SignalPipeline_proofs`:
- `Invariance`: `Spec => []IInv`. `AcceptedStaysVisible` says nothing of the
  webhooks under way, which decide whether it stays true. `Ordered` does: of a signal
  without a race at most one webhook is under way, with a version no older than
  the cached one, and the accepted versions are no newer than that.
- `Readable` (`ReadableWhenPushed`), `Visible` (`AcceptedStaysVisible`), `Parked`
  (`RefusedIsParked`), and the action property `Forward` (`NoRegression`).

`NotifyFanout_proofs`:
- `Invariance`: `Spec => []IInv`. For `TallyIsTrue`, `CallInv` says that every target is
  either open or counted, once, and that what was counted as dispatched or skipped
  are settled targets with that verdict: cardinalities of finite sets, one lemma
  for a set that loses an element. `GoneStaysSilent` and `SilencedOnlyInARace` need
  `RowInv`: the token of a registered row is installed, so that APNS cannot call it
  gone, and if a call at work, or one whose update is under way, was told so
  earlier, the token is in `raced`.
- `Tally`, `Silence`, `Race` (`TallyIsTrue`, `GoneStaysSilent`, `SilencedOnlyInARace`).

`RateLimiter_proofs`:
- `Invariance`: `Spec => []IInv`. `MinuteBudget` is a bound on the number of requests
  that passed, `Compare` looks at one number. Requests counted in time get distinct
  counts (`DistinctCounts`), which needs that the counter is not below any count it
  gave out while its key lives (`CounterInv`); requests that passed have counts of at
  most the limit, so they are at most so many. `NoLater` bounds each count by the
  requests counted by then, from which `RefusedForCause` follows.
- `Budget`, `Refusals`, `RetryIsLater` (`MinuteBudget`, `RefusedForCause`, `RetryLeadsOut`);
  the last is arithmetic of windows: the instant after Retry-After is in another one.

Only model-checked are the liveness properties `Settles`, `DeliveredIsAnswered` and
`AcceptedIsFannedOut`, since fairness and ENABLED are beyond the prover, and the
runs that show a violation. That the mutated forms break the properties is seen
by TLC as well.

## 6. Not modelled

- The cache of the APNS JWT: a reused or a renewed token is valid for far longer
  than a call takes; a failed renewal is part of `SendAll`.
- Order sizing: arithmetic on decimals, of which the models only use that Binance
  or the table may reject its result.
- Row-level security and indexes: evaluated by Postgres, enumerated by
  `supabase/tests/test_rls.py`.
- The permissions of a key between the check at connect and its use: nothing in the
  code knows them.
- Other writers of `binance_connected` and `is_active` (section 2).
- Start-up, shutdown, health, metrics, CORS, scrubbing, logging and configuration:
  no ordering and no state that another part reads.
- The loss of a second of Redis's writes when it restarts: a counter starts again,
  a tier is fetched again.
- JWT verification, the cache of signing keys (its failure is an outcome of
  `TurnAway`) and encryption: libraries.
- The iOS app, of which this repository has only a README, except for its writes
  to `user_devices`; the bot on VPS-1 except for what it emits.

## 7. Plan

Done, in the order of importance: `ExecutionContract`, `TradeExecution` and
their proofs, `BinanceConnection`, `TradingAccount`, `SignalPipeline`,
`NotifyFanout`, `RateLimiter`, `TierGate`, `ReadApi`, and the proofs of them all.

Next:

1. Composition of `SignalPipeline` with `NotifyFanout` and `ReadApi`, with an abstract
   specification of delivery (at most one fan-out per accepted analysis, and what a
   notified subscriber reads).
2. `OrderSizing`: rounding of quantity, margin and leverage against the table's
   CHECKs, as operators against a reference definition.
