# caddy-waf-ui: verification project

TLA+ models of `caddy-waf-ui`, a web UI and REST API that edits the WAF
configuration of the sites served by a Caddy server. The models are checked with
TLC on small instances, and the results that matter most are proved with TLAPS
for all values of the parameters. Paths are relative to `src/`.

`PROJECT.json` holds the machine-readable side: the components, the runs, a
mutant for each property, the map from definitions to source lines, the findings,
the hazards and the theorems.

## 1. The system

### 1.1 Components

| Component | State it keeps | Operations |
|---|---|---|
| Mutation chain (`internal/service/chain.go`) | `chainMu`; the overlay files it writes | `SetMode`, `SetExclusions`, `SetIPRules`, `Rollback`, all through `runChain` |
| Form and REST handlers (`internal/ui/forms.go`, `api.go`) | none | decode and validate a request; the add forms read the current overlay and merge one rule into it |
| Snapshots and retention (`internal/files/backup.go`, `naming.go`) | `/backups/{slug}/{type}-{timestamp}.conf` | `Backup`, `enforceRetention`, `ListBackups`, `RestoreBackup` |
| Atomic writer (`internal/files/writer.go`) | none | write a temporary file, rename it over the target |
| Caddy admin client (`internal/caddy/admin.go`) | `lastReadback`, shown as a badge | `Reload`: POST `/load`, then read the live hosts back and compare |
| Overlay parsers (`internal/ui/overlay.go`) | none | the rules an overlay declares |
| Overlay generators (`internal/waf`, `internal/iprules`) | none | the overlay text for a mode, exclusions, or IP rules |
| Sites (`internal/domain`) | none | find the sites by the header of their file; name files by slug |
| Rate limiter (`internal/ratelimit`) | token buckets, a map from client IP to bucket | `Bucket.Allow`, `ClientLimiter.Allow`, the `Login` and `API` middlewares |
| Audit log reader (`internal/logs/reader.go`, `audit.go`) | none; the file belongs to Coraza | `Read`: tail, parse, filter, reverse, paginate |
| Pages (`internal/ui/pages.go`) | the `ui_flash` cookie, in the browser | index, login page, list of sites, log explorer |
| Authentication (`internal/auth`) | none; the browser keeps the session cookie | `Session`, `CSRF`, `Middleware` (bearer), `Login`, `Logout` |
| Server wiring (`cmd/server/main.go`, `internal/ui/router.go`) | none | order of the middlewares, timeouts |
| Configuration, logging, templates, installer | none that the program reads back | |
| Caddy and Coraza | external | adapt and apply a configuration; append audit records |

### 1.2 How they interact

A change arrives at a handler on its own goroutine. Replacing requests (REST PUT,
the mode form) carry the whole new content. The exclusion and IP rule forms first
read the overlay from disk, merge one rule into what they read, and hand the
merged list to the service. Every change then runs through `runChain`, which holds
the process-wide `chainMu` from start to end:

    read previous state -> snapshot -> retention -> write overlay
        -> POST /load -> read back the hosts -> answer
                \ failure: put the previous overlay back, answer with an error

Caddy reads all overlays through `import` while it adapts the Caddyfile, so one
load concerns every site. The handlers, the chain and Caddy share the overlay
files; the chain and the snapshot list share the backup directory. The log
explorer and Coraza share the audit log file, with no lock between them. The login
endpoint passes two token buckets, each under its own mutex.

The process has no sessions. All it knows is `CADDY_UI_TOKEN`; the cookies and the
CSRF values are in the browser, and can be older than the process that reads them.
The overlays are the only store of the configuration: the forms and the list of
sites read back the text that the generators wrote.

### 1.3 What is hard

- A form reads the overlay before `chainMu` and writes it under `chainMu`.
- A chain has ten steps that can each fail, and the process can be killed between
  any two. The overlay, the snapshots, Caddy and the badge must agree afterwards
  or the badge must say that they do not.
- Snapshot names have a resolution of one second, and the backup that a rollback
  takes of the current state works on the directory it is about to read from.
- `chainMu` is held across calls to Caddy, which may never answer, or may apply a
  configuration whose client has given up.
- The buckets of the limiter are forgotten when idle and created again full.
- The tabs of a browser share their cookies, and the token may be rotated or unset
  while pages rendered under the old one are open. An answer can be lost after the
  change was made.
- Everything the UI shows comes from text it generated earlier, under file names
  that identify different spellings of a domain.
- The audit log grows, or is truncated, between `Stat` and the read, and between
  the clicks of one user; the window over its tail may start inside a record.

The `hazards` list of `PROJECT.json` names each of these at its line with the
properties that would catch it going wrong, and those not covered yet with the
reason.

### 1.4 What makes each component correct

- **Chain**: one request at a time; each request takes effect once or leaves no
  trace, and is answered; an OK badge is true.
- **Archive**: what a change replaces is complete in a snapshot until the change
  is settled; retention holds the limit and never removes that snapshot; a
  rollback brings back the snapshot it names.
- **Limiter**: grants are bounded in every window of time; forgetting a client is
  not observable; Retry-After is honest; the map does not grow for ever; the global
  login ceiling does not hit clients who are few enough to fit under it, with a
  margin for the delays between the two buckets.
- **Audit log**: the list is newest first without repetition; complete recent
  lines are in it; paging forward skips nothing.
- **Gate**: nothing changes without the token in force, from a page rendered under
  it or a bearer of it; no form is sent twice by a refresh; an outcome is shown
  once; redirects end.
- **Sites**: what the overlays declare is what was asked for, after any sequence of
  API calls, forms and rollbacks; exactly the clients asked for are blocked; the
  list shows the mode in force.

## 2. The modules

| Module | What it is |
|---|---|
| `Chain` | the handlers, the chain, the archive, the admin client and Caddy |
| `OverlayStore` | the abstract specification of `Chain` |
| `ChainProofs`, `StoreProofs` | theorems about `Chain`: types and the archive; the badge, rollbacks and the refinement of `OverlayStore` |
| `ClientLimiter` | the per-client buckets with their map and its pruning |
| `IdealLimiter` | the abstract specification of `ClientLimiter` |
| `LoginLimit` | extends `ClientLimiter` with the global login ceiling |
| `LimiterProofs`, `LoginProofs` | theorems about `ClientLimiter` and about `LoginLimit` |
| `Paging` | `paginate` as operators |
| `AuditLog` | Coraza, `Read` and the explorer; uses `Paging` |
| `AuditProofs` | theorems about `Paging` and `AuditLog` |
| `Gate` | the handler tree with sessions, bearer and CSRF, and the browser in front of it |
| `GateProofs` | theorems about `Gate` |
| `Naming` | domain names and slugs as operators |
| `OverlayFormat` | generators, parsers and headers of the overlays as operators |
| `Sites` | requests on sites and the overlays they leave; uses `Naming`, `OverlayFormat` |
| `SitesProofs` | theorems about `Naming`, `OverlayFormat` and `Sites` |
| `SequenceLemmas` | what `SitesProofs` and `AuditProofs` need of the community modules' operators on sequences |
| `MCChain`, `MCClientLimiter`, `MCLoginLimit`, `MCAuditLog`, `MCGate`, `MCSites` | instances for TLC |

Operators marked "Mutant" are plausible bugs in the definition that follows them.
No specification uses them; `PROJECT.json` names the property that each breaks.

### 2.1 Chain

A `File` is one managed overlay, `{type}-{slug}.conf`, together with the snapshots
of its type. The bytes of a file are abstracted to the set of rules they declare
and a flag `torn`, set on a snapshot whose copy did not complete; a file that is
not there is `Absent`. A snapshot is named by its second, as in the code.

| Model | Code |
|---|---|
| `pc`, `req`, `result` | a goroutine serving a request, its input, its answer |
| `base` | the list a form handler read |
| `lock` | `chainMu` |
| `prev` | `previous, existed` of `readPreviousState` |
| `stamp` | the timestamp in `Backup` |
| `overlay`, `snaps` | the files on disk |
| `badge` | `lastReadback` |
| `live`, `call`, `adapted` | Caddy: what it serves, the progress of each load |
| `target`, `history` | auxiliary: the snapshot a rollback chose; every state a chain left a file in |

`Arrive` and `ReadForm` are the handlers up to the chain. The verdict of the
validations that run before the chain is a Boolean of the request. `Lock` to
`RestoreState` are the steps of `runChain` in order, each with its success and its
failure exit. `files.Backup` is three actions (`Backup` creates or truncates the
file, `CopyFile` fills it, `EnforceRetention` removes one snapshot per step), since
a crash or an error between them is visible on disk. `AtomicWrite` is one step: the
rename either happens or not. `ReloadFails` is every exit of `Reload` that sets the
badge to false. `CaddyAdapt`, `CaddyApply` and `CaddyRefuse` model Caddy from how
the client uses it; a load is not one step, because its client may leave between
reading the overlays and applying them. `Crash` ends every request in progress and
resets what is in memory.

The constant `Faults` selects what may fail: disk operations, refused loads,
timeouts, loads that complete after their client has gone, failed read-backs,
failed restores, crashes, a clock that is set back (`StepBack`). A load that Caddy
applies when nobody awaits it any more is recorded as "late" in `call`.

`OverlayStore` states what a client may count on: every request is decided in one
step, "failed" leaves no trace, a rollback can only bring back a state the file has
settled in or a torn copy of one, and a crash lets at most one of the requests it
cuts off take effect. The refinement mapping `Settled` shows a file in its previous
state as long as a written change is not decided.

### 2.2 ClientLimiter, LoginLimit

Time is counted in ticks and tokens in units such that a bucket refills one unit
per tick; a token is `Cost` units, a second `PerSecond` ticks. Production's 5
tokens a minute is `Cost = 12` with a tick of one second; 120 a minute is `Cost =
1` with a tick of half a second. The rounding of the float64 refill is left out.
`Allow` is one step because `ClientLimiter.Allow` holds its mutex from the prune to
the verdict. The API limit is a `ClientLimiter` and nothing else.

`LoginLimit` adds the ceiling. An attempt passes its client's bucket (`Post`) and
the ceiling (`Ceiling`) in two steps. `ratelimit.Login` takes two mutexes one after
the other and each `Allow` reads its own clock, so the attempts of others and any
amount of time come between them: `passedAt` keeps when an attempt passed the first
bucket, `Second` may happen at any point, and the auxiliary `lag` is the longest
time any attempt has been between the two.

`IdealLimiter` is a bucket per client that exists for ever. `ClientLimiter`
implements it with `level <- Avail`: the map, creation and pruning cannot be
observed.

`Rewatch` restarts the auxiliary count of grants at any time, so that an invariant
about one window covers every window.

### 2.3 AuditLog, Paging

The file is a sequence of cells; record n is the cells `<<n, 1>>, <<n, 2>>, ...`,
so a window can start inside a record and a write can stop inside one. `Append1`
and `Truncate` are Coraza and log rotation. `Open` is a click up to `Stat`, `Show`
the rest of `Read` and the links of the page. `TailWindow`, `LineStarts` (JSONL),
`ObjectStarts` (the decoder for a file without newlines), `Classify`, `Matches`,
`Entries` and `Paginate` are the functions of `reader.go`. Timestamps and the text
of an entry are left out: the code sorts nothing by time, it reverses file order.

### 2.4 Gate

| Model | Code |
|---|---|
| `secret` | `CADDY_UI_TOKEN` of the running process, or unset |
| `cookie`, `notice` | the session cookie and `ui_flash`, shared by all tabs |
| `pending`, `answer` | the request a tab waits for; the answer under way |
| `view` | the page of a tab, the CSRF value in its forms, the request a reload repeats |
| `typed`, `changes`, `times`, `resent`, `shown` | auxiliary: what the properties speak of |

`Handler` is `buildHandler`: it maps a request to the set of its possible answers
through `LoginMux`, `API`, `Session`, `CSRF` and `PagesMux`, named like the code.
A request carries the cookies of the moment it is sent; it is served (`Serve`) and
its answer received (`Receive`) in later steps. Between them other tabs act, the
process is restarted with another token or none (`Restart`), a cookie expires
(`Expire`) or the connection breaks, before or after the change was made (`Lose`).
A CSRF value is identified with the token it is the HMAC of. The chain behind a
form is one step with two outcomes, and the rate limits may refuse at any time;
`Chain`, `ClientLimiter` and `LoginLimit` say more about both. `Script` is a client
with a bearer token, on the API or on a form.

The browser is modelled from how the code relies on it: it stores cookies, follows
redirects with the cookies it then has, and repeats the request behind a page,
body included, on a reload. `Init` lets it have the session and the pages of an
earlier process.

### 2.5 Naming, OverlayFormat, Sites

A domain is a sequence of labels, a label a sequence of words, so that the slug (all
separators alike, case dropped, `*` spelled out) is the flattened sequence in lower
case, and two domains have one slug exactly when the code gives them one. An
overlay is a sequence of lines. The generators write them (`GenerateMode`,
`GenerateExclusions`, `GenerateIPRules`), the parsers read them back. IP addresses
are sequences of `W4` or `W6` bits, and the IPv6 addresses that begin with the bits
`Mapped` stand for the IPv4 ones (`::ffff:a.b.c.d`): masking clears the bits after
the prefix, `To4` drops the `W6 - W4` bits of `Mapped`.

`Sites` keeps the overlays by type and slug (`conf`) and their snapshots. Each
handler is an action: it validates, reads the overlay if it is a form, and hands
the result to the `Update...` operator of the service, which takes effect or leaves
only a snapshot. `asked` is auxiliary: for each host, what the effective requests
asked for, in terms of the request and not of the file. `Scan` is the list of sites.
`Found` are WAF overlays that another version may have left, with a mode this one
does not know. Each has the header and the directive of one mode; a WAF overlay
whose header names none, which `Scan` lists as DetectionOnly
(`internal/domain/scanner.go:100`), is written by no code here and does not occur.

## 3. The runs

Passing runs. Times and sizes are for two workers.

| Run | Instance | What it shows |
|---|---|---|
| `chain_faults` | 2 requests, 2 overlays, 1 snapshot, 2 seconds, every fault but a clock set back, fair scheduling; 600 thousand states | `DriftIsFlagged`, `AbsentHasNoArchive`, `ImplementsStore`, `EveryRequestAnswered`, `TypeOK` |
| `chain_archive` | 3 requests, 1 overlay, 2 snapshots, 3 seconds, disk errors, refused loads, crashes and a clock set back; 5 million states | `SnapshotBeforeWrite`, `ArchiveWithinLimit`, `RollbackFaithful`, `SnapshotsWereSettled` |
| `client_limiter` | 2 clients, a token of 3 units, 2 ticks a second, idle timeout 3, 11 ticks | `WindowBound`, `RetryHonoured`, `MapIsBounded`, `PruningIsInvisible`, `TypeOK` |
| `login_limit` | 3 clients, a ceiling with room for 2 and a delay of one tick, or for 1 and any delay, 4 ticks; 1.2 million states | `NoSelfDoS`, `GlobalWindowBound` |
| `audit_log` | 4 records of 1 or 2 cells, both formats, a window of 5 cells, torn writes, truncation, read errors | `NewestFirst`, `RecentLinesListed`, `NoEntrySkipped`, `TypeOK` |
| `gate` | 2 tabs, 2 tokens or none, 3 acts of the user or a script, 1 trouble; 390 thousand states | `ChangesAreAuthorised`, `RefreshNeverResends`, `OutcomeShownOncePerTab`, `NavigationEnds`, `TypeOK` |
| `sites` | 7 names, 3 requests on one type or one on any; 170 thousand states | `NothingLost`, `GeneratedIdsDistinct`, `BlockedAsAsked`, `ListShowsModeInForce`, `TypeOK` |

Runs that must end in a violation. Each states what a document or a comment says,
and TLC shows a behaviour of the code that contradicts it.

| Run | Statement | What happens |
|---|---|---|
| `rollback_same_second` | "RestoreBackup restores the bytes of the given snapshot" (`internal/files/backup.go:81`) | A rollback in the second in which its snapshot was taken: its own backup has the same name, overwrites the chosen snapshot with the current bytes, and these are "restored". Success is reported and nothing changes. |
| `rollback_expired` | "Rollback any site config to a previous snapshot" (`README.md:64`) | The archive is full and the oldest snapshot is chosen: the backup of the current state makes retention remove it before it is read. |
| `form_lost_update` | "Without the merge, adding a rule would silently delete the existing ones" (`internal/ui/forms.go:67`) | Two forms read the same list; both are reported as saved, and the second write drops the rule of the first. |
| `audit_stream` | "the recent data, which lives at the end, stays intact" (`internal/logs/reader.go:142`) | A log without newlines that outgrew the window lists nothing: the window starts inside a record and the decoder stops at its first error. |
| `undiscovered` | "the UI discovers the domain either via its `waf-{slug}.conf` (scanner) or on the first UI write" (`INTEGRATION.md:266`) | A first write of exclusions or IP rules leaves the domain out of the list: only a WAF overlay with a header is scanned. |

### 3.1 Bounds

- **Requests.** Two suffice for each pairwise interleaving of the chain, because
  `chainMu` leaves at most one inside it; the archive runs have three, so that an
  archive of two is overfull once and a rollback can follow two changes.
- **Overlays.** Two in `chain_faults`, because one load concerns all overlays: a
  change of one file picks up what a failed restore left in another. One in
  `chain_archive`: snapshots of different types never meet.
- **Time.** Two or three seconds, so that two backups fall into the same second, or
  into different ones, or the clock moves between the steps of one chain.
  The clock may be set back at any time, by any amount.
- **Limiter.** The horizon is three idle timeouts, so a client is pruned, comes
  back and is pruned again. A token takes 3 ticks of half a second, so Retry-After
  is really rounded. The burst is 1 to keep the run small; the theorems cover
  every burst.
- **Login.** A burst of 1 token of 2 units and a ceiling of 6 units: two callers and
  a delay of 1 fill it exactly, one caller fits with any delay of the run, and three
  never do. Four ticks are two idle timeouts. With a ceiling of 4, which the two
  bursts fill, TLC finds the refusal that 3.3 describes.
- **Audit log.** Four records fill the window more than once. With `DefaultPageSize
  = 1` a walk has several pages. Both formats occur in one file, as after a change
  of the Coraza configuration.
- **Gate.** Three acts are what the hard cases take: one tab logs in again while
  another submits an old page, or a form, its loss and its repetition. One trouble
  comes on top of the initial state, which already may have a stale or an unset
  token. Two tabs are enough for one to disturb the other.
- **Sites.** The names include one in two cases, two hosts with one slug, a wildcard
  and two that are refused. Three requests let a form follow a PUT and a rollback
  follow both. Every IP entry of 1 and 2 bits is tried, with every prefix length,
  the mapped block included. A behaviour works on one type (`Scopes`), except for
  one scope with all three, as the types share nothing but the name.

`CHECK_DEADLOCK` is off everywhere: a finite number of requests, records or ticks
ends every behaviour of the models.

Symmetry is used over requests (`Chain`) and over the clients that are not watched
(`LoginLimit`), in runs without liveness properties only.

### 3.2 Fairness

`EveryRequestAnswered` assumes weak fairness of the steps of each request that has
arrived: the Go scheduler runs a goroutine that can run, a released mutex goes to a
waiter, and the 10 s timeout of the HTTP client fires. Weak fairness is enough for
the mutex because the number of requests is finite, and Go's mutexes hand over to
a starved waiter. Nothing is assumed of Caddy: it may never answer, and the timeout
is what makes the property true (its mutant is a client without one).

`NavigationEnds` assumes that the server answers a request and that the browser
receives the answer and follows redirects, or that the connection breaks. Nothing
is assumed of the user.

### 3.3 Limits of what holds

- A **late load** (one that Caddy applies after its client timed out) can replace
  the configuration of a later, successful change while the badge says OK.
  `DriftIsFlagged` speaks of behaviours without one.
- When POST `/load` succeeds and **only the read-back fails**, the overlay goes back
  and Caddy keeps the new configuration; the badge says so (`DriftIsFlagged`).
- A form may read an overlay that is **written and not yet loaded**. If Caddy then
  refuses that change, the form still commits its rules with its own; it is the
  same unprotected read as in `form_lost_update`.
- `SnapshotBeforeWrite` has one exception: after the **clock was set back** behind
  `Keep` later names, retention takes the snapshot just made for the oldest.
- `RollbackFaithful` excludes the same-second case that `rollback_same_second`
  shows. Nothing else makes a rollback write other bytes.
- `NoSelfDoS` asks for a **margin of the callers times `lag`**. A ceiling that is full
  while an attempt is on its way from the one bucket to the other cannot take up the
  refill of that time, and the client's own bucket can. The production values leave
  no margin for 12 busy clients (12 x 5 = 60 tokens, `ratelimit.go:31`): if their
  attempts are delayed between the two mutexes, a client within its own limit may be
  refused later. For 11 clients the margin covers delays of up to 5 seconds.
- `NoEntrySkipped` allows an entry to be missed when a newer one disappears from
  the list during the walk: a record written without its newline is listed until
  the next record is glued to it.
- `RecentLinesListed` starts after the first cell of the window: when the window
  starts exactly at the start of a line, `tailWindow` drops that whole line,
  because it always resumes after the first newline (`internal/logs/reader.go:157`).
- The **token in force** is all there is: a logout only deletes the cookie of that
  browser, and a copy of it stays valid until the token is rotated.
- `OutcomeShownOncePerTab` is per tab. The flash cookie belongs to all tabs, so a
  toast can appear in another one, in two of them when both render at once, or
  not at all when the answer that consumed it is lost or a `Session` redirect drops
  the `?flash=`.
- `RefreshNeverResends` excepts a form whose answer was lost and that the user sent
  again: the server has no means to recognise it, so after the 30 s of `WriteTimeout`
  (`cmd/server/main.go:70`) a change that was applied can be applied a second time.
- The properties of `Sites` are about hosts whose **slug** no other host has. `a.b.c`
  and `a-b.c` share their files, and the last write decides for both.
- A rollback of a WAF overlay to the **placeholder** takes the site off the list,
  because the placeholder has no header.
- The retention limit is per domain and type, as `enforceRetention` counts;
  `README.md:232` describes it as per domain.

## 4. The proofs

All are checked by `tlapm` to the last leaf, for any sets of requests, files,
rules, clients, tabs, tokens and names, any set of faults and any address widths.

| Theorem | Statement | Assumptions on the constants |
|---|---|---|
| `ChainProofs!TypeCorrect` | `Spec => []TypeOK` | the sentinels are distinct, `Requests` and `Faults` are well formed |
| `ChainProofs!SnapshotTaken` | `Spec => []SnapshotBeforeWrite` | the same, `Keep >= 1` |
| `ChainProofs!ArchiveBounded` | `Spec => []ArchiveWithinLimit` | the same |
| `ChainProofs!AbsentWithoutArchive` | `Spec => []AbsentHasNoArchive` | the same |
| `StoreProofs!DriftFlagged` | `Spec => []DriftIsFlagged` | the same |
| `StoreProofs!RollbackIsFaithful` | `Spec => []RollbackFaithful` | the same |
| `StoreProofs!SnapshotsAreSettled` | `Spec => []SnapshotsWereSettled` | the same |
| `StoreProofs!ChainImplementsStore` | `Spec => ImplementsStore` | the same |
| `LimiterProofs!TypeCorrect` | `Spec => []TypeOK` | positive `Cost`, `Burst`, `PerSecond`; `Capacity <= Idle` |
| `LimiterProofs!PruningInvisible` | `Spec => PruningIsInvisible` | the same |
| `LimiterProofs!WindowBounded` | `Spec => []WindowBound` | the same |
| `LimiterProofs!RetryIsHonoured` | `Spec => []RetryHonoured` | the same |
| `LimiterProofs!MapBounded` | `Spec => []MapIsBounded` | the same |
| `LoginProofs!LoginUsesLimiter` | `LoginSpec => Spec` | the same |
| `LoginProofs!LoginTypeCorrect` | `LoginSpec => []LoginTypeOK` | the same, positive `GlobalRate`, `GlobalBurst` |
| `LoginProofs!GlobalWindowBounded` | `LoginSpec => []GlobalWindowBound` | the same |
| `LoginProofs!NoCallerMeetsTheCeiling` | `LoginSpec => []NoSelfDoS` | the same |
| `GateProofs!TypeCorrect` | `Spec => []TypeOK` | the sentinels `None` and `Same` are no value of the model |
| `GateProofs!ChangesAuthorised` | `Spec => []ChangesAreAuthorised` | the same |
| `GateProofs!NoRefreshResends` | `Spec => []RefreshNeverResends` | the same |
| `GateProofs!OutcomeShownOnce` | `Spec => []OutcomeShownOncePerTab` | the same |
| `SitesProofs!SlugOfHost` | a valid name and its lower case form have one slug | words are not empty and not `*` |
| `SitesProofs!ExclusionsReadBack` | `parseExclusionsOverlay` of `GenerateExclusions` is `dedupeExclusions` | types of the inputs |
| `SitesProofs!NormalizationKeepsClients` | `normalizeIPEntry` keeps the clients of an entry | `W4 < W6`, the last bit of `Mapped` is 1 |
| `SitesProofs!IPRulesReadBack` | `parseIPRulesOverlay` of `GenerateIPRules` are the normalised lists | the same |
| `SitesProofs!TypeCorrect` | `Spec => []TypeOK` | all of these, `Found` are generated overlays, `Absent` is none |
| `SitesProofs!NoExclusionLost` | `Spec => []NothingLost` | the same |
| `SitesProofs!IdsAreDistinct` | `Spec => []GeneratedIdsDistinct` | the same |
| `SitesProofs!ClientsBlockedAsAsked` | `Spec => []BlockedAsAsked` | the same |
| `SitesProofs!ListIsTrue` | `Spec => []ListShowsModeInForce` | the same |
| `AuditProofs!SliceInBounds` | a page is a slice of the list, not empty if the list is not | positive `DefaultPageSize` |
| `AuditProofs!PagesPartition` | every entry is on exactly one page | the same |
| `AuditProofs!TypeCorrect` | `Spec => []TypeOK` | the same, positive `Window` and record sizes |
| `AuditProofs!ListNewestFirst` | `Spec => []NewestFirst` | the same |
| `AuditProofs!RecentLinesFound` | `Spec => []RecentLinesListed` | the same |
| `AuditProofs!NothingSkipped` | `Spec => []NoEntrySkipped` | the same |

`Capacity <= Idle` is what makes pruning safe: a bucket refills completely within
`ClientIdleTimeout`. It holds with a wide margin in `ratelimit.go` (one minute and 15
seconds against 30 minutes) and is evaluated by every limiter run.

**Chain.** `TypeOK` carries, beside the types, that the request in the chain and
nobody else holds `chainMu` and that a written overlay exists; both are needed for
the types to be inductive (`Mutation` must be bytes) and for every argument about
who can disturb a file. The archive properties follow from `ArchiveInv`:

- `ArchiveInPast`: unless the clock is set back, no snapshot is newer than it. So
  the snapshot being taken is the newest (`FreshIsNewest`). Retention removes the
  oldest of more than `Keep >= 1`, and what it removes leaves at least `Keep` later
  names (lemma `RemovalLeavesKeep`): it can only be the fresh snapshot when that is
  `Outnumbered`, which with a steady clock it never is.
- `PrevIsCurrent`: `prev` equals the overlay until the write, so the copy of the
  overlay is a copy of `prev`, and the snapshot is complete and kept until the end
  of the chain, or outnumbered until then (`FreshIsKept`, `OutnumberedStable`).
- `LimitHeld`: retention is left only within the limit. The first write of a file
  skips the backup and with it retention, which needs `NoArchiveYet`: a file that
  did not exist when its last chain began has no snapshots at all.

`DriftIsFlagged` follows from `DriftInv`: what a load adapts, applies or has read
back is what is on disk, because only the holder of `chainMu` writes
(`LoadIsCurrent`), and a chain that goes on to restore has set the badge. A late
load is recorded for good, so nothing is claimed after one.

`StoreInv` carries the refinement. A request is answered as it was decided
(`AnswersMatch`); an overlay that no chain has written to, and the `prev` of one
that did, are states some chain settled (`SettleInv`, which contains
`SnapshotsWereSettled`: `Backup` copies the overlay before the write, so a snapshot
is of a settled state, or torn); the snapshot a rollback chose is still there until
it is read, or was replaced in its own second, or expired (`ChosenIsKept`, from which
`RollbackFaithful`); what is written is a change its request may make
(`WrittenWasAsked`). Under `Settled`, every step then maps to `Submit`, `Fail` or
`TakeEffect` of one request, to `Kill`, or to a stutter.

**Limiter.** The key lemma `UnitsIsAvail` says that the bucket that answers a call,
kept or new, holds what the client would have without pruning. From it, each step
maps to `Fill`, `Ask` or a stutter. `WindowInv` adds to `spent` what is still in
the bucket; `DueInv` says that what a promised client still misses takes no longer
than the time it has left to wait. `MapIsBounded` compares two clients and is not
inductive; `SweepInv` compares each with the last sweep, and is.

**Login.** `LoginSpec` implements `Spec` of `ClientLimiter`, so the limiter's
theorems carry over. `NoSelfDoS` follows from `CeilingInv`: what the ceiling lacks
to be full, and what the attempts between the two buckets will still take from it, is
at most what the callers' own buckets lack and `lag` for each of them (`BalanceInv`).
A tick refills the ceiling by `GlobalRate` and takes at most one unit from each
caller's lack, hence the condition on the number of callers. When the tick fills the
ceiling, its refill is lost in part, and the bound comes from the attempts alone:
what the attempts of a client since a time `t` will take was taken from its bucket,
which has refilled at most one unit a tick since `t` (`OwedInv`), and no attempt is
older than `lag` (`LagInv`). Ticks may be as short as one likes, as the theorem is
for every `Cost`. The sums over clients are cardinalities of sets of unit
squares (`Squares`), because the provers cannot unfold a fold.

**Gate.** `GateInv` says where tokens and outcomes can be: every cookie and token
in a request, an answer or a page was typed by the user (`KnownInv`); the outcome of
an act is on its way up in one tab only, then in the cookie, then on its way down
(`OutcomeInv`), so that the answer which shows it also deletes the cookie; the form
of a change is held by no tab but the one that the answer redirects away
(`ChangedIsLeft`). The lemmas `...Fits` describe the answer of each handler and
`OutcomeStep` what any step does to the outcomes, so that an action only has to say
what it moves.

**Sites.** In `SitesInv`, every overlay and every snapshot is the placeholder or was
generated for a valid name of its slug (`Made`), and agrees with what was asked for
the host alone in that slug (`Agrees`), snapshots with what was asked when they were
taken. So a form reads back what was asked (`ExclusionsReadBack`, `IPRulesReadBack`)
and adds to it, and a rollback brings back both the bytes and the answer to what was
asked. IP rules go through the normalisation once more with each form;
`NormalizationKeepsClients` says that this changes no client. `LiteralsAssumption` says of a few string literals
that they are in `STRING`, which is true of all literals and known to no backend.

**Audit log.** `AuditInv` has five parts.

- `LogInv`: the cells of the records are in the file in the order they were written.
  A window keeps that order whatever happened since `Stat`, since a truncation
  leaves zero bytes in the buffer and an append changes nothing before it
  (`WindowFacts`). `EntriesFacts` then gives the list: the record of every hit, each
  once because a hit is the first cell of its record, in reverse.
- `ListInv`, `ClickInv`: the page on display was cut from the list (`IsPage`, from
  the arithmetic of `paginate`), and a click asks for the first page or the next.
- `WalkInv`: up to the end of the page on display, what was listed on the first page
  was shown. From one list to the next an entry can only move back as long as no
  newer one disappears (`NotEarlier`), so what is before the new page was before the
  end of the old one. That is the condition in `NoEntrySkipped`.
- `RecentInv`: `RecentLinesListed` with the prefix written out. A recent line has the
  newline before it in the buffer, so the first newline of the buffer, where the
  window resumes, is not after it (`RecentFound`). Later appends keep the file an
  extension of what `Stat` saw, and a truncated file never becomes one again,
  because new records have new numbers.

**Sequences.** `FlattenSeq` is a recursive function, and the provers cannot do
induction over an operator. `SequenceLemmas` does it with sets: a set that has 1 and
the successor of each of its members has 1..n (`Climb`, from the least element that
is missing). `FlattenSingles` and `FlattenPicks` say what a concatenation of
sequences of length at most one is, and `FirstFacts` what `SelectInSeq` finds.

**Only model-checked:** liveness (`EveryRequestAnswered`, `NavigationEnds`) is
outside what the prover supports. Every invariant of the passing runs is proved.

## 5. What is not modelled

- The text of flash messages, status codes, templates, log lines: no property is
  about them. Of the pages, the metrics of `countOverlays`, the fallback of
  `findSite` for an unknown domain and the error answer to an unknown tab.
- Static files, the health check, the request log and the security headers: constant
  or write-only.
- Characters that no valid name has, and the length limits of names (63 and 253).
- The comparison of hosts in the read-back: the hosts come from the Caddyfile, not
  from the overlays, so the verdict is a nondeterministic failure.
- Temporary files left by a crash before the rename: nothing reads them.
- A request that is served only after its connection has broken and the user has
  already acted again: in `Gate` a lost request has been served before the loss, or
  never is.
- Configuration from the environment (its values are the constants here), logging
  and the installer.

## 6. Plan

Done, in this order: `Chain` with the archive and the admin client; its abstract
specification; the type and archive theorems; the limiter with its refinement and
theorems; the login ceiling; the audit log with paging and its arithmetic; late
loads and a clock set back in `Chain`; `Gate`; `Naming`, `OverlayFormat` and `Sites`.
Then the proofs: `LoginLimit`, the rest of `Chain` with its refinement, `Gate`,
`Naming`, `OverlayFormat` and `Sites`, and `AuditLog`.

Next: what the operators of `AuditLog` compute, for any input (`Classify`,
`ObjectStarts`), and theorems about the browser's redirects in `Gate` that come close
to `NavigationEnds` without fairness, such as a bound on the redirects in a row.
