# Tracy, specified

TLA+ specifications of [Tracy](../src/README.md), a single-process trace
service for LLM applications: SDKs post spans, a bounded in-memory writer
batches them into SQLite, a web page lists and shows them.  The modules follow
the code of `src/`; `PROJECT.json` maps every definition to the lines it
stands for.

## The system

| Part | State | Operations | What is hard |
|---|---|---|---|
| Ingest writer, `internal/ingest/writer.go` | channel `queue`, the batch of `run`, `done`, `enqueueMu`, the gauge `inFlightBytes`, five counters | `Enqueue` (any number of handlers at once), `run` with `flush`, `Close` | a body is taken whole or not at all; two budgets; bytes counted after the sends; retries; draining |
| Server process, `cmd/server/main.go` | listener, handlers, `shutdownCtx`, cleanup goroutine | start with `ensureDefaultUser` and `ensureDefault`, serve, signal, `Shutdown`, `Close`, exit | two steps under one deadline; handlers that outlive `Shutdown`; a start over what an earlier one left half done |
| Trace store, writes, `internal/storage/trace/sqlite/store.go` | tables `spans`, `trace_summaries`, an open transaction | `Migrate`, `Append` | failure or death between two statements; derived table |
| Trace store, reads | none of their own; the client's cursor | `ListTraces`, `GetTracePage`, `GetTraceSummary`, `Metrics` | pages of different moments, two reads per answer |
| HTTP API, `internal/api` | login windows, `readyFlag` | ingest, queries, login, OAuth exchange, workspaces, keys | several statements of the metadata store per request, no transaction around them |
| Metadata store, `internal/storage/meta/store.go` | users, workspaces, members, name claims, sessions, keys, tokens, JWT ids; `lastUsedMemory` | create, authenticate, revoke, `CleanupExpired` | unique names per user, expiry against cleanup, a cached time stamp |
| Web explorer, `web/src/hooks/useTraceExplorer.ts`, `main.tsx` | list, open trace, cursors, request counters, token, workspace, filters | load, open, load more, clear, switch | answers in any order; effects that run after the render |
| CozeLoop mapping, configuration, embedded files, views | none that lasts | conversions, rendering | 64-bit arithmetic of durations |

Handlers call the writer directly and get `nil`, `ErrFull` (429) or
`ErrClosed` (503).  The writer calls `Append` from its one goroutine.  Queries
read committed data while the writer commits.  The web page talks to the API
only.

What makes each part correct:

* writer: budgets never exceeded, no send that waits with the mutex held, every
  span counted once, nothing left behind, store in order of admission;
* process: a handler meets a closed writer only after the deadline, a timely
  exit loses nothing, a signal ends the process;
* store: summaries agree with spans, batches appear whole;
* reads: what does not change is listed exactly once;
* API and metadata: one workspace per name and user, and none without an owner;
  an exchange uses a JWT id once; what was revoked, logged out or has expired lets
  nobody in; a client's attempts to log in are limited, but for the successes that
  clear its count; a span that is
  accepted is valid and of the credential's workspace;
* explorer: what is shown belongs to what is selected.

## Modules

| Module | Models | State and actions |
|---|---|---|
| `TraceWriter` | the writer | see below |
| `IngestPromise` | what the writer promises, without goroutines or counters | a log to which whole requests are admitted, and which is settled batch by batch |
| `ServerLifecycle` | `main` around the writer, EXTENDS `TraceWriter` | `main`, `deadline`, `conn[r]`, `cleanup`; `Signal`, `Expire`, `CallClose`, `CloseRuns`, `Exit`, ... |
| `TraceStore` | `Migrate` and `Append` | committed tables, a transaction's copies, the position in its statements |
| `StorePromise` | what the store promises its readers, without transactions or failures | rows that change by whole batches, and with them the summaries |
| `TraceListing` | `GET /api/v1/traces`, EXTENDS `TraceStore` | a client's filter, cursor and pages; each page is one SELECT of a committed state |
| `TraceDetail` | `GET /api/v1/traces/{id}`, EXTENDS `TraceStore` | a client, and a handler between its two reads |
| `Dashboard` | `GET /api/v1/dashboard`, EXTENDS `TraceStore` | the window, three reads, the scan with its reservoir, the percentiles |
| `SpanIntake` | the two ingest handlers up to the queue, with `Map` and `Validate` | requests with bodies of good and faulty spans |
| `Credentials` | sessions, keys and OAuth tokens, the requests that bring them, and `CleanupExpired` | rows of three tables, the map of last uses, a request between its lookups |
| `LoginLimit` | `allowLogin`, `resetLogin`, `loginClientIP` | the table of windows, attempts between clock, mutex and password |
| `OAuthExchange` | the exchange of a JWT for an access token | apps, recorded ids, tokens, exchanges between their statements |
| `Workspaces` | `CreateWorkspaceForUser`, `AddWorkspaceMember` | three tables, the transaction's copy of them, calls |
| `WorkspacePromise` | what the metadata store promises its callers, without transactions, claims or a mutex | workspaces with their owners, and what was asked and answered |
| `Bootstrap` | `ensureDefaultUser`, `ensureDefault` at every start, EXTENDS `Workspaces` | main's phase, the table of users |
| `TraceExplorer` | the web hook under `main.tsx` | view as set and as rendered, requests without answer, list and open trace |
| `TraceReads` | the store with its readers together: composes `TraceListing`, `TraceDetail` and `Dashboard` | `client`: nobody, or the one that reads |
| `TraceWriterProofs` | theorems: the writer's invariant, that it implements `IngestPromise`, and the process around it | EXTENDS `ServerLifecycle` |
| `TraceReadsProofs` | theorems: the store alone, its readers, the sums and percentiles of the dashboard | |
| `SpanIntakeProofs`, `CredentialsProofs`, `LoginLimitProofs`, `OAuthExchangeProofs`, `TraceExplorerProofs` | theorems about one module each | |
| `BootstrapProofs` | theorems: workspaces, main above them, and what callers are told | |
| `MCTraceWriter`, `MCServerLifecycle`, `MCTraceReads`, `MCCredentials`, `MCLoginLimit`, `MCOAuthExchange`, `MCBootstrap`, `MCSpanIntake`, `MCTraceExplorer` | instances for TLC | bodies, sizes, versions, symmetry |

Operators marked "Mistake:" are not part of a model.  Each is a wrong form of
the definition after it, as a plausible bug would have it; `PROJECT.json`
names the property that it must break.

**TraceWriter.** The channel and the batch are windows on one log `sent`:
`taken` counts the spans that `run` has received, `settled` those whose batch
was released, so `len(queue)` is `QueueLen` and the batch is
`settled+1..taken`.  An entry carries the running total of bytes, so that the
size of a window is a difference.  `Enqueue` is `EnqueueClosed`, `EnqueueFull` or
`EnqueueAdmit` (the part under the mutex up to the loop), one `Send` per span,
`CountBytes` (`inFlightBytes.Add`), `EnqueueReturn`.  The test reads two
values that only `run` changes meanwhile, and only downwards, so one step is
enough for it.  `run` is `Receive`, `Tick`, `SeeDone` and `DrainEmpty` around a flush
of `AppendOk` or `AppendFail`, `CountWritten` or `CountLost`, `Release`; the
sleeps between attempts have no effect and are left out.  `Close` is
`CloseBegin` and then `CloseFinished` or `CloseExpired`.  `offered` and `lost`
are history.  The early return of `Enqueue` for an empty body is not modelled:
both handlers refuse an empty request before they call it.  Counters are unbounded;
`uint64` would wrap after 2^64 spans.

**ServerLifecycle** starts where the server listens.  A client may leave its
request open for ever; `Shutdown` returns when no connection is open or at the
deadline, `Close` sees the same deadline.  `ListenFails` is `os.Exit(1)`.

**TraceStore.** A row is (trace, span, version); the workspace is part of the
trace.  A version has the columns that a summary reads.  `Summary` is the
aggregate of the `SELECT` (the division of nanoseconds by 1000 is left out:
durations are in the unit of the start).  An open transaction works on copies,
`Commit` replaces both tables, `Rollback` and `Crash` drop the copies: the
isolation, atomicity and durability of SQLite in WAL mode are assumed.

**StorePromise** has three variables, which are those of `TraceStore` without the transaction; what a summary is
is a parameter.

**TraceListing, TraceDetail.** A page is the set of the first `Limit` keys
after the cursor; the cursor is the last key of a page if there are more.
`steady` records what has not changed since the client began; in the list, that is the summary and
whether it matches.  A filter is a test of the summary's row (`HasStatus`, for all
of its columns) or of the rows of the trace's spans (`HasKind`, for kind and name), in the one SELECT.

**TraceReads.** Readers change no table, so one of them at a time sees all that any number of them
would; `client` is chosen at the start.  While a client reads, the store takes the batches of `Load` (or
`BoardLoad`) only; with no client it takes all of them.

**Dashboard.** `Ask` fixes the window, `Count`, `Query` and `ReadUsage` are the three
statements, each of one committed state; the rows of the second come one by one in
any order (`NextRow`), and beyond `MaxSamples` a row takes the place of a random one or
none.  `RowsEnd` picks the percentiles; `Sorted` is `sort.Float64s`, said by what it returns.  A float product rounded up is the ceiling
of a quotient of integers.

**SpanIntake.** An item is what a client writes: what is missing, too long, too large or
out of range.  `Spans` is the conversion of the format with the workspace put in,
`Wrap` the product of two 64-bit integers (a missing start of CozeLoop's is 1970, and passes), `Fault` the order of the tests in `Validate`.
`Enqueue` is one step here, and `queue[r]` what the writer took of request r; `TraceWriter` has its steps.

**Credentials.** `Authenticate` is four steps (`LookupKey`, `CheckKey`, `TouchMemory`,
`StoreLastUsed`), then come the lookups for OAuth tokens and sessions, each with a reading of
the clock of its own, then `Serve`, which is `workspaceForRequest` and, for managing
requests, `requireWorkspaceOwnerID`; who may do what is its guard and has no property of its own.  Rows are read at one time and judged at another.

**LoginLimit.** An attempt reads the clock in `Arrive` and takes `loginMu` in `Ask`, up to `Delay`
later.  Its window is reset in `Right`, after the password was checked, whatever
other attempts did meanwhile.  The history is kept twice: `granted` begins anew with the window, as
a client may expect; `through` and `won` do not, so that what is let through before and beside a
success counts in `RateBounded`.

**OAuthExchange.** `Ask` reads the app, verifies the JWT and checks the duration, none of which changes a
table; `Consume` and `Issue` are the two INSERTs.  Signing is
external: a JWT is good for the workspace whose key signed it.

**Workspaces.** `Lock` takes `workspaceMu` and begins the transaction on a copy of the tables;
each statement is a step on the copy; `Commit` replaces the tables.  `Look` is the read
of a name claim before another is inserted.  The store's two callers are requests and, in
`Bootstrap`, main: users whom an operator put into the database before the first start are
`Provisioned`, and external.

**WorkspacePromise** has the tables of workspaces and members and, of a call, what it asks for and its answer.  The row, its
owner and "done" are one step, which nobody with another workspace of the name can take; "exists" is a step
only they can take; an error or a crash changes nothing.  Claims, which are how the code sees to
that, are not in it: `ClaimsMatchMembers` is about them.

**TraceExplorer.** `wanted` is the React state, `view` what was rendered last,
`effectDue` that the effect of that render has not run.  A list or a part of a
trace is represented by the request it answers.  Discrete events see the state
of the last render.

## Runs

| Run | Bounds | What it shows |
|---|---|---|
| `writer` | 3 calls of `Enqueue` with bodies of 2, 1 and 3 spans, 2 of `Close`, batch 2, channel 3, 5 bytes, 3 attempts; fair | `InFlightExact`, `BudgetRespected`, `SendNeverBlocks`, `Accounting`, `DrainedOnExit`, `StoreFollowsLog`; `ImplementsPromise`: the writer implements `IngestPromise`; `AcceptedSettles`, `CloseDrains`: accepted spans settle, a closed writer drains |
| `lifecycle` | 2 requests, 1 signal, 2 attempts; fair | `ClosedOnlyLate`: 503 only after the deadline; `TimelyExitDrains`: a timely exit has settled everything; `SignalEnds`: a signal ends the process |
| `lifecycle_flush` | the same | **violated**: see Findings |
| `reads` | 2 traces of 2 spans, 2 versions that differ in every column, pages of 1, no filter, one of the status and one of the kind, windows [1, 2] and [2, 2], a sample of 1; batches of up to 2 spans, single spans while a client reads, and of one trace under the dashboard | `SummaryExact`; `KeepsPromise`: the store implements `StorePromise`; the list: `SteadyListedOnce`, `PagesInOrder`; one trace: `SummaryFound`, `SteadySpanOnce`, `NotFoundOnlyIfChanged`; the dashboard: `SampleOfSnapshot`, `ReadsFitTogether` |
| `credentials` | a session, and a key or an OAuth token; 3 workspaces (owner, member, stranger), 2 requests, 3 instants | ended or expired credentials let nobody in (`EndedStaysOut`, `ServedUnexpired`); writes of the last use are a minute apart (`TouchesSpaced`); cleanup deletes nothing that a lookup from then on would accept (`CleanupHarmless`) |
| `login` | 2 requests, a proxy and a client, 1 attempt per window of 2 ticks, 5 ticks, 2 successes of an address in a tick | over all successes: in a minute less `Delay` at most `2 * Limit` attempts pass, and `Limit` more for each success (`RateBounded`); refusals have a cause since the last success (`RefusedForCause`); the table forgets (`TableRecent`) |
| `oauth` | 2 JWTs with one id, signed for 2 workspaces, 2 exchanges, 5 instants, leeway 1 | `UsedOnceInTime`: a JWT is used once before its exp; `TokenOfSigner`: its token opens the signer's workspace |
| `oauth_once` | the same | **violated**: see Findings |
| `bootstrap` | main and 2 requests, 3 addresses of which two differ in case, 4 workspaces, 2 names that differ in case | `ClaimsMatchMembers`, `NamesDistinct`, `AnswersTrue` over starts, crashes and requests; `CallsAtomic`: the store implements `WorkspacePromise`; `ServingHasOwner`: a server that serves has its owner; `FatalExplained`: a fatal start has one of three reasons |
| `bootstrap_login` | main and 1 request, 3 workspaces | **violated**: see Findings |
| `intake_duration` | 2 requests in both formats, up to 2 spans, good or with one of nine faults; integers of 8 bits | **violated**: see Findings |
| `explorer` | 1 token, 2 workspaces, 2 filters, 2 traces of 2 parts, 3 changes of view, 2 requests per counter before the user stops asking | the list is of the current view (`PageCurrent`), the drawer is consistent (`DrawerConsistent`), no spinner for ever (`NeverStuck`) |

Why these bounds are enough to be interesting.  In `writer` the bodies sum to
more than the channel, the batch and the byte limit, together and in pairs, so that a
call is refused for slots, for bytes, and for bytes alone; the last span of the
largest body weighs more than the rest; two bodies share an identity and one
holds two versions of one; three attempts make one, two or three failures of a
batch.  In `lifecycle` either request may be unfinished at the deadline.  In
`reads` a batch may repeat a span or touch two traces, and the database may be
one from before there were summaries; starts are equal or different and move both ways, so that a
page boundary falls between equal starts, and pages of one row make every answer a boundary; the
two rows of a trace are one more than the sample takes.  `MCTraceReads` has the percentile's index compared with the
nearest rank for up to 300 values (its ASSUME `NearestRank`).  In `intake_duration` a product
of microseconds leaves the 8 bits, and some of those that wrap end within a day.
In `credentials` two requests use one key within one minute and over a
restart, and an expiry can fall on each side of every reading of the clock; keys and OAuth
tokens are in tables that no statement joins, so that they need not be there at the same time.
In `login` two windows and two cleanups fit into the five ticks; a `Limit` of
one is the smallest at which an attempt can be both allowed and the reason for
a refusal.  In `oauth` the second JWT of the same id may come before, within and after the
leeway of the first, and a third use is cut off by `MaxUses`.  In `bootstrap` the administrator may
already have a workspace of the default name or one that differs in case, two users can be in both
workspaces of a name, and one more workspace is left for the call that must fail.

Bounds in guards: `MaxRequests` and `MaxChanges` of `TraceExplorer`, `MaxTime` of the modules with a
clock, `MaxUses` of `OAuthExchange`, `MaxCount` of `LoginLimit` (a count beyond it refuses
as it did at it) and `MaxWon` (successes of an address within the last minute less `Delay`), `MaxItems` of `SpanIntake`, `MaxBatch` of `TraceStore`, `Load` and `BoardLoad` of `TraceReads`,
and the constraint `KeyOrOAuth` of `MCCredentials`.  `Delay` of `LoginLimit` is an
assumption: an attempt is at `loginMu` less than a minute after it read the clock.
`Symmetry` is used in runs without liveness only.

`CHECK_DEADLOCK FALSE`: a writer that has exited, a process that has ended and a
user who has stopped are meant to stop, and a client of the store stops when it has its answer.  The runs without
it have no deadlock.

**Fairness.** `writer` (`FairSpec`): goroutines that can run do run, the ticker ticks,
`Append` returns; a call of `Enqueue` that has begun goes on.  That anybody calls
`Enqueue` or `Close` is not assumed.  `lifecycle` (`FairLifeSpec`): in addition the timer of
`shutdownCtx` fires, main goes on, and the cleanup goroutine, which waits in a
`select` between its ticker and the context, cannot miss the context for ever
(strong fairness of `CleanupStops`).  That a client finishes its request is not
assumed.  The invariants of both runs need none of it: a fair behaviour reaches every state that an
unfair one does.  No other run assumes fairness.

## Proofs

Every theorem is for every value of the constants that the ASSUMEs of its module allow; what
the ASSUMEs say is, apart from the types of the constants, that limits, sizes and page lengths are positive, that sets of tokens or of addresses
do not overlap, and that traces and spans are ordered and finitely many.  Each proof has the same
plan: an inductive invariant, checked by TLC on the run's instance before it was proved, a
lemma per action, and the properties read off it.  What follows says why the invariant is more than the
property.

**The writer, `TraceWriterProofs`**: `[]TypeOK`, `[]InFlightExact`,
`[]BudgetRespected`, `[]SendNeverBlocks`, `[]Accounting`, `[]DrainedOnExit`,
`[]StoreFollowsLog`.  One inductive invariant `Inv` carries all of them.  None of the properties is
inductive alone: that a send never waits needs `RoomKept` (the room found by the
test is kept, because only the holder of the mutex adds to the channel:
`MutexShape`), the byte budget needs in addition that the gauge is exact up to
the call in progress (`InFlightExact`), which needs that totals in the log never
fall (`LogShape`); `DrainedOnExit` needs that nobody is inside `Enqueue` once
`done` is closed; `StoreFollowsLog` needs that the batch being written is the
oldest unsettled part of the log.  `RunShape` says what the stages of a flush know.
The last position of a finite, nonempty set of positions (the
`CHOOSE` of `LastInBatch`) exists by the well-foundedness of the naturals.

The second half proves `ImplementsPromise`: `TraceWriter!Spec` implements
`IngestPromise`.  The promised log is the spans that were sent
and, behind them, those the call with the mutex has admitted and not yet sent; what the
promise calls settled runs ahead of the code's counter between the store's answer and its
bookkeeping.  Two conjuncts join `Inv`: a flush has something to flush (`BatchInHand`), and
the requests with spans in the log are those that were admitted (`LogOwners`).  Then each
action has a lemma: passing the capacity test is the promise's `Admit`, a send does not
change the log at all, a return is the answer, a flush that is stored or given up settles
the batch, the last step of `run` is `Stop`, the start of `Close` is `Shut`,
everything else a stutter.

**The process, last part of `TraceWriterProofs`**: `[]ClosedOnlyLate`, `[]TimelyExitDrains`, and again
`ImplementsPromise`, now of the writer that main starts, closes and abandons.  Steps of
handlers, of `run` and of `Close` in the process are steps of the writer, so `Inv` holds in it too.  On top
of it: `Waited` (the writer stays open until main calls `Close`, and main calls it when no handler is active, or
late), `Returns` (`Close` returns nil only after `run`, an error only late) and `Refused` (who found
the writer closed called it late).  A timely exit is then one in which `run` has returned, and
`DrainedOnExit` says that all is settled.

**The store, first part of `TraceReadsProofs`**: `[]SummaryExact`, and `KeepsPromise`, that
`TraceStore` implements `StorePromise`.  In an open
transaction a trace that is not (or no longer) to be summarised agrees with its
summary, and each row of the copy is the version of the last statement that
wrote it.  So a commit is the promise's `Store` of the batch (or a stutter, if the batch brings nothing
new), `Migrate` its `Open`, a crash its `Die`; the statements and a rollback are stutters.

**Its readers, second part of `TraceReadsProofs`**: `[]SteadyListedOnce`, `[]PagesInOrder`,
`[]SummaryFound`, `[]SteadySpanOnce`, `[]NotFoundOnlyIfChanged`, `[]SampleOfSnapshot`.
`ReadersKeepStore`: whatever the readers do, the store's part is a behaviour of `TraceStore`,
so that what is proved of the store alone is used here, and `SummaryExact` and `KeepsPromise` hold
with readers as they do without.  Nothing limits the batches stored while a client reads: `Load`
and `BoardLoad` are any sets of batches.
The argument for pages is one about a finite set in a strict order (`StrictOrder`, `Paging`): the first
`n` elements are those up to the last of them, and there is one behind it exactly if there are more than
`n`.  `NextPage` says it of keys and cursors, both for the list (newest first) and for spans (oldest
first).  The invariants `HasTraces` and `HasSpans` then say that of the rows
that stayed as they were the client has those that its cursor has passed, on one page each: a page adds those between
its cursor and the next.  `PageHolds` says this of a page still in the handler, whose trace may
change before it answers; `SomethingLeft` that an unchanged trace has a span behind every cursor given
out; `InOrder` that nothing received is behind the cursor.  `SummaryFound` needs that no row is ever
lost, not even in a transaction (`KeepsRows`), and that summaries are exact.  `SampleFits`: rows
sampled and rows to come are together those of the snapshot while there is room, and less as soon as one was dropped.
`TraceReads` has its readers as instances, and each instance has operators of its own (`Summary`, the
steps of the store, even `Cardinality`): the lemmas `SameSummary`, `SameCardinality` and
`SameSteps` say that they are the same.  `ReadsAssumption` says that traces and spans are finite
sets, that starts, durations, tokens and kinds are integers and that no summary of a trace with spans
is the value for "no row".

**The dashboard, third part of `TraceReadsProofs`**: `[]ReadsFitTogether`, `[]PercentilesTrue`.  The three
statements sum up different things: the summaries of the window, the latencies of the same traces, the
spans of the window by kind.  That the sums agree is a fact about sums over finite sets, and the model's are
folds, which the prover knows by their definition only.  What is needed of them is proved without an
induction theorem, by a smallest counterexample: of the parts of a finite set for which a statement about
sums fails one has the least cardinality (`SmallestPart`), and taking away one element of it leads to a
contradiction.  So it is shown that a sum exists and is unique (`SumsExist`, `SumsUnique`), that
an element may be taken out (`SumStep`, `SumPick`), that a sum splits into those of the parts a function makes
(`SumByKind`), and that it may be taken over what the elements are mapped to (`SumRenamed`).
A summary's tokens are then the sum of its rows' (`SummaryTokens`), and the spans of a window that
covers all are those of the listed traces.  The invariant `FitInv` says of each stage what is known of the statements
made so far: the counts are those of the window if nothing was committed since (`quiet`), and rows that the
second statement still has to return are counted with those returned (`AllRows`).  Each answer is right only
as long as its LIMIT of kinds is not reached, which is why the property says so too.
`PercentilesTrue`: each percentile is a value of the sample which so many percent of it do not exceed, and
fewer are less.  A sorted order exists (`CanSort`, again by a smallest counterexample), the k-th value of it has at least k values up to
it and less than k below it (`SortedRank`), and `NearestIndex` is the arithmetic of `Index`, for
samples of any length.

**The intake, `SpanIntakeProofs`**: `[]TakenWhole`, `[]DurationLost`.  `IntakeInv` carries the verdict of `Validate`
to the answer; the rest is about operators: `NoFault`, that looking for the first fault finds any, and
`WrapFits`, that a product of 64 bits is right exactly if it fits.  `DurationLost` is the exact
extent of what the run `intake_duration` finds.  Its hypotheses `IntakeBounds` are those of the code: a
day is less than the greatest integer.

**Credentials, `CredentialsProofs`**: `[]EndedStaysOut`, `[]ServedUnexpired`, `[]TouchesSpaced`, `CleanupHarmless`.  A row is read in one step and judged in another, so the invariant
says what a request has in hand at each stage.  `LateWaits`: a request that came after its token had ended
is still looking for it, or has the revoked row in hand, because what was revoked stays revoked and
what was logged out never comes back (`Gone`).  `InHand` and `InTime`: from the check on, the expiry in
the table, which never changes, is not before the request's arrival.  `Touches`: the time to be stored is one
that the map has accepted.  `Evolves` collects what any step but a restart does to the tables; with it one
lemma shows that a request at rest keeps what it knows.  `CleanupHarmless` needs that the
cleanup's time is not ahead of the clock (`Tables`).

**The limit on logins, `LoginLimitProofs`**: `[]RateBounded`, `[]TableRecent`, `RefusedForCause`.
`Fits` relates the attempts let through since a success to the one entry of the table: the last
ones, as many as the entry's count says, are of its window, and those before them were over when it began, but
for `Delay`.  `CleanedUp` says how far the cleanup is behind, `Prompt` that an attempt
is at the mutex at most `Delay` after it read the clock.  `Spread` is the same over all successes: what is
`Limit` places further back is older than a minute less `Delay`, or than the last success; `Limit` more, or than
the one before; and so on.  With `LInv` it is inductive, because a success takes the place of the
entry, and an entry that is old had nothing before it of late.  What is proved is what the code
does: a client that knows one password clears its count with it, and `Limit` attempts follow on
each success.  The repository names no number of attempts that would contradict it.

**The exchange, `OAuthExchangeProofs`**: `[]TypeOK`, `[]UsedOnceInTime`, `[]TokenOfSigner`,
`[]TokenLifeBounded`, `[]RefusalTrue`.  `UsedOnceInTime` is inductive with `Kept`: a JWT that was recorded in
time is still recorded before its exp, because no cleanup works with a time that is to come
(in `TypeOK`).  `InHand`: an exchange holds what was verified at the time it read.

**Workspaces and main, `BootstrapProofs`**: for every set of addresses, users, names and requests and over any
number of starts and crashes `Bootstrap!Spec` implies `[]ServingHasOwner`, `[]ClaimsMatchMembers`,
`[]NamesDistinct`, `[]AnswersTrue`, `[]FatalExplained` and `CallsAtomic`.
First the transactions of `Workspaces`: the three committed tables fit together (`Fits`: claims
are unique per user and name but for the case of ASCII letters, they are those of the members, and a
workspace that is there has a member), and the copy of the open transaction
is exactly so far from them as its stage tells (`CopySoFar`): a row, a membership, and in
the commit's stage a copy that fits again.  `Exclusive` is why it is enough to look at
one call.  `Stages` says that a workspace to which a member is added is there.
Then main, whose calls are calls of `Workspaces`.  `ServingHasOwner` needs two more
parts: `Joined`, that the membership of a call is in the
copy from its INSERT on and stays committed when the call returned "done"
(no member is ever removed), and `MainKnows`, what main has found or created at each of its
phases.
Last, what callers are told.
An answer stays true only because nobody else can change what it is about.  `Apart`: two calls
are never about one workspace.  `Said`: a workspace under creation is not there before "done", the
name a call claims is the one in the row, free for its user when it is claimed, and "exists" names
another workspace of the user, which stays.  `Quiet`: until the server serves main's call is the
only one, and the address main looked for is still unknown when it creates the user.  `AnswersTrue`
reads its first part off `Joined`, the rest off `Said`; `FatalExplained` is inductive with them.
`CallsAtomic` is the refinement of `WorkspacePromise`.  A statement before the end of its transaction is a stutter.
`Commit` is `Done`: by `CopySoFar` the tables change by the asked row and its owner and nothing else, and
because the copy fits, a workspace of the same name elsewhere would share its claim.  `Look` and `Conflict`
are `Refused`, as the claim they find belongs to a membership (`Fits`) of a workspace that is not the asked one.

**The page, `TraceExplorerProofs`**: `[]PageCurrent`, `[]DrawerConsistent`, `[]NeverStuck`.  The protocol
rests on `Counted`: no request has a number beyond the last one given out of its kind, and no two of a kind the same, so
that at most one answer of a kind is welcome.  `ListOfView` and `DrawerOfView` say which it is, and what
is on the page until it comes: of the current view except between a render and its effect, and, in the
drawer, the part that follows those already there.

Proved but checked by no run: the types, `TokenLifeBounded`, `RefusalTrue`, `TakenWhole`,
`DurationLost`, and `PercentilesTrue`, which `reads` cannot tell much about with a sample of one.

Model-checked only: liveness (`AcceptedSettles`, `CloseDrains`, `SignalEnds`), which is out of the prover's
reach.  That the code's percentile, a rounded product of floats, is the ceiling of integers that `Index` takes it
to be is part of the model and not proved.

## Findings

`GracefulExitFlushes` (run `lifecycle_flush`).  `docs/development.md:11` says that a
graceful exit waits for the writer to flush.  `main` gives `server.Shutdown`
and `writer.Close` one context of ten seconds.  A request that is still open
uses up all of it in `Shutdown`; `Close` then finds the context expired, may
return before `run` has drained, `main` ignores both errors, and the
process ends with spans that were answered with 202 still queued.  What does hold
is `TimelyExitDrains`.

`JwtOnce` (run `oauth_once`).  `meta/store.go:67` calls it an error that an "OAuth JWT has already
been used".  The id of a JWT is deleted by the cleanup at its exp, but the JWT is accepted for
a leeway of 60 seconds longer: after a cleanup (hourly, and at each start) within that minute
the same JWT is exchanged a second time.  What does hold is `UsedOnceInTime`.

`AdminCanLogIn` (run `bootstrap_login`).  The address of the administrator is stored as it is configured
and looked up in lower case: with a capital letter in `TRACY_ADMIN_EMAIL` nobody can log in as
the owner of the default workspace, whom `docs/development.md:23` announces.

`DurationKept` (run `intake_duration`).  `compat/cozeloop/ingest.go:84` multiplies microseconds by 1000 in
64 bits before the product is validated: a number of microseconds beyond the range may come out as a
duration within a day, and the span is accepted with it.  What does hold is `DurationLost`: no other product
is wrong.

## Not modelled

* The session part of `main.tsx` (the answers of `getCurrentUser` and `listWorkspaces`) is a
  `Logout` or an `EnterWorkspace` at any moment.  A late answer for an
  earlier token may end or fill a newer session; the code allows it and nothing in
  the repository says otherwise.
* That "load more" of the explorer's list stays enabled with the cursor of the view before while the first page of a new
  view is awaited (`useTraceExplorer.ts:54`) is in the model (`LoadMore`), and what it asks for then replaces the
  first page.  `PageCurrent` says whose list is shown, not which page of it.
* The metrics request of the explorer, which follows the list's protocol.
* The merging of CozeLoop's tags into attributes, and all attributes: they are
  payload.
* The parsing of the list's filters, and that several are a conjunction.  The width of the
  bounds on durations there and SQLite's integers in a summary are not modelled.
* The pool of connections and the pragmas of `storage/sqlite/open.go`: every statement may
  fail, a commit is atomic and durable.
* Lists that are only shown (members, keys, apps), health, the average latency,
  `GetTrace`, which the server does not call.
* Rendering, texts and styles, the embedded file server, logging, and the
  reading of the configuration, whose checks are assumptions of `TraceWriter`.

## What is left

Every safety property that a run checks has a theorem.  What could be added: a promise of the reads
that `TraceReads` implements, as `IngestPromise`, `StorePromise` and `WorkspacePromise` are of the writes (a page is a prefix of what is left
of the list, a dashboard a function of one snapshot where nothing is committed); sums with
the width of SQLite's integers; and the metrics request of the explorer.
