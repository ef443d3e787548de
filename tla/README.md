# A TLA+ model of crawlforge

crawlforge is a site crawler and SEO auditor in Rust. A crawl downloads a site
into one SQLite file, the *crawl file*, and can be interrupted and resumed; the
rules, the reports and the comparisons read that file afterwards. What has to
be right is therefore what the file holds, whatever order the answers arrive
in, wherever the process is killed and however many sessions it takes to
finish, and what is told of it later: a page lost, fetched twice or linked to
nothing, or a hole in a crawl told as good news, is a wrong audit that nobody
notices.

These modules follow the program from a request to a report: the engine that
produces the file (`crates/crawlforge-core`), the rules that judge it
(`crates/crawlforge-rules`), and the part of the command line that decides which
file may be written and what is told of it (`crates/crawlforge-cli`). Paths
below are relative to the repository; a file named alone is in the `src/` of
one of those three crates.

## 1. The system

### Components

| Component | State | Operations | Who it talks to |
|---|---|---|---|
| Crawl loop, `engine::run_with` | phase of the session, truncation reason, budgets, pool of tasks (`JoinSet`), slots per host, pending probes | seeds, sitemaps, refill of the pool, one handler per outcome of a task, registration of what a page leads to, stops by cancel and deadline, final pass | frontier, throttle, external queue, fetch tasks, writer, store |
| Resume, `read_resume_plan` | none of its own; rebuilds seen, pending and probes from the file | read the plan, send the old rows to the new writer again | crawl file, frontier, writer |
| Frontier, `frontier.rs` | queue in breadth-first order, set of URLs seen | `enqueue`, `mark_seen`, `dequeue_dispatchable`, `restore` | crawl loop |
| External queue, `ExternalQueue` | a queue, a state and a failure streak per foreign host; the round of hosts | `push`, `next_dispatchable`, `record`, `close` | crawl loop, throttle |
| Throttle and `CrawlDelayGate`, `throttle.rs` | limit, ceiling, streaks and pause of each host; permit and last start of slow hosts | `has_room`, `record`, `force_serial`, `pause`, `acquire` | crawl loop, tasks |
| Fetcher, `fetch.rs` | attempt number, what was read of a body | ask, wait, ask again, read a body up to a limit, probe; or read a local file | fetch tasks |
| robots.txt, `robots.rs` | a cache with one cell per host | download once, allow or not, Crawl-delay | tasks, discovery |
| Sitemap discovery, `sitemap.rs`, `discover_sitemap_urls` | sitemaps in flight, deferred, visited; URLs found | download the tree in parallel, read each file by events, cut, take what was found | robots cache, throttle, crawl loop |
| Parser, `parse.rs`, `minhash.rs` | the accumulator of one pass | one handler per kind of token | tasks |
| URLs, `normalize.rs` | none | normalize, resolve, is it of the site | everyone |
| Writer thread, `writer.rs` | bounded channel, batch, index of URL ids, ticker | `send`, `finish`, flush by size or tick, one transaction per batch | crawl loop, crawl file |
| Store, `store.rs` | the crawl file, its `-wal`, the lock of its path | open, reopen, migrate, lock, leave WAL mode | everyone that writes |
| Rules, `crawlforge-rules` | table of findings | rules of a page, as it is saved; rules of the site, one transaction each, in the final pass | writer, final pass |
| Commands that read: report, inspect, portfolio, diff | the file of a comparison | which rules count, which holes there are, what is new, gone or unknowable, the gate | crawl files |
| Commands that write: crawl, resume | default path of a site, `.prev` backup | crawl (rotate, then write), resume (probe, check, then write) | store |

### How they interact

The loop is one `tokio` task. It fills a `JoinSet` with tasks, one per URL,
waits for one to end (or for a cancel, or for the deadline), and handles that
outcome to the end before anything else: what a page leads to is registered in
the frontier and its rows are sent to the writer, and only then the page
itself. Tasks share the throttle, the robots cache and the gates with the loop.
The writer is a thread behind a bounded channel; its batches are transactions,
and nothing that was only sent survives a crash. When the pool is empty the loop
closes the writer, opens the file again by its path and runs the final pass, which
evaluates the rules of the site over the whole file. Two processes meet only
through the file system and the lock of a path. Every command that reads takes
a file as it finds it: finished, cut by a limit, paused, or left by a process that died.

### What is hard, and what makes each component correct

* **Crash and resume.** A session is rebuilt from table `urls` alone. The
  rows of what a page leads to must be in the file no later than the page; the
  index of seen URLs must come back complete; a page must not be saved twice,
  since table `links` has no uniqueness constraint; an external probe that was
  answered must not be repeated; findings of an interrupted final pass must not
  stay; what a finished file says of itself must be true, since a resume and
  every report trust it.
* **Order of answers.** Which task ends first decides the depth a page gets,
  the id of each URL, which sitemap is read first and what each gives.
* **Limits.** Pages, depth, registered externals, probes, sitemaps, bytes of a
  body, the scan of the frontier, the pool and the slots per host: each can be
  hit while something is in flight, and whoever reads the file must be told.
* **Termination.** The loop ends when its pool is empty. A paused host, a
  closed one or a slot not given back must not look like the end, nor prevent
  it; and sitemaps may point to one another.
* **Politeness.** One request at a time to a host with a Crawl-delay,
  although its first pages left before that was known; a `Retry-After` pauses the
  host and not one task; robots.txt is downloaded once although all ask for it.
* **Writer.** Results in order and without gaps; a result of a slow crawl must
  not wait for its batch to fill; the thread must end although its own ticker
  keeps its channel open.
* **Several processes.** Two crawls of the same site share the default path
  and rotate the previous file away; a resume checks before it locks.
* **Reading without a tree.** The parser sees tags and chunks of text cut
  anywhere, and must find where words, headings, the head and the regions end.
* **Holes.** A rule about the whole graph must not speak over a part of it;
  a comparison of two files made under different rules or limits must not tell
  what was not looked for as solved; a gate must not let it through.

`PROJECT.json` lists these hazards one by one at their lines.

## 2. Modules

The engine:

| Module | Models | Built on |
|---|---|---|
| `CrawlEngine` | the crawl loop, the frontier as sets, what reaches the file, resume and final pass | |
| `CrawlEngineInv` | the inductive invariant of `CrawlEngine` | `CrawlEngine` |
| `ResultLog` | abstract: what the writer promises the loop | |
| `Writer` | the writer thread, its channel, batches and ticker | implements `ResultLog` |
| `Throttle` | limits, streaks and pauses of every host | |
| `ExternalQueue` | the queues and the round of foreign hosts | |
| `Scheduler` | the pool: dispatch, tasks, gate, retries, answers | `Throttle`, `ExternalQueue` |
| `RobotsCache` | the single flight of robots.txt, and what each answer means | |
| `SitemapXml` | the reading of one sitemap by events | |
| `Discovery` | the tree of sitemaps, downloaded in parallel, and what it gives to the crawl | `RobotsCache`, `Throttle`, `SitemapXml` |
| `StoreAccess` | paths, locks, rotation and resume by several processes | |

One page:

| Module | Models | Built on |
|---|---|---|
| `Fetcher` | attempts, waits, the reading of a body, probes | |
| `UrlNormalize` | the one form of a URL, and the scope of a site | |
| `LocalFiles` | a built site read from its directory | `Fetcher`, `UrlNormalize` |
| `HtmlParse` | one pass over the tokens of a document, and its signature | |
| `PageReader` | a page from its request to the URLs it leads to | `LocalFiles`, `HtmlParse` |

The file and what is told of it:

| Module | Models | Built on |
|---|---|---|
| `CrawlFile` | the crawl file as everyone reads it | |
| `IndexRules`, `HttpRules`, `CanonRules`, `HreflangRules`, `MetaRules`, `ContentRules`, `AssetRules`, `LinkRules` | the rules of each category | `CrawlFile` |
| `PageResult` | from what a server answers to the rows of the file | `CrawlFile` |
| `Audit` | pages saved in any order, the final pass, its interruptions and the resume | `PageResult`, the rules |
| `Compare` | `diff`: the comparison, the gate, the saved comparison opened again | `Audit` |
| `Inspect` | the card of a URL | `Compare` |
| `Report` | a crawl file told: totals, holes, lines of findings | `Inspect` |
| `Portfolio` | the panel over many files | `Report` |

The modules `MC*` are the instances for TLC. The modules `*Proofs` hold the
theorems (section 6).

The engine's modules are views of one program, and each abstracts what another
details. `CrawlEngine` sees the writer as a queue of messages committed
from the front in order (what `ResultLog` promises and `Writer` is shown to do), the
pool as a set of tasks that end in any order (`Scheduler` has no order either, but
says when each may start), the discovery as a list of URLs (`Discovery` says
which and when it is cut), and the pages as numbers (`PageReader` and
`PageResult` say what is in them). `Audit` sees a crawl as pages saved in any
order, which is what `CrawlEngine` leaves in the file.

### CrawlEngine

State of the file: `status` and `truncReason` (table `crawl_meta`), `rows`
(table `urls`, one record per URL with state, exclusion reason, depth, probe
answered, in sitemap), `linkRows` (how many rows of table `links` join two
URLs) and `siteIssues` (findings of each site rule). State of the writer:
`unsaved`, the messages sent and not committed, and `index`, its map from URL to
id. State of the session: `phase`, the frontier (`queued`, `depth`, `seen`),
the pool (`inFlight`, `probing`), the probes left (`probes`), the page in hand
(`cur`, `next`), `rule`, and the counters and flags of `run_with`.

A session goes through `setup` (seeds one by one, then sitemaps, then the
probes the perimeter rejects), `top` (cancel and deadline are looked at), `fill`
(the pool is refilled, then the loop waits), `page` (reading what a page leads
to), `drain` (the writer is closing) and `final`. Each handler is
an action; each kind of target of a page (known, external, over the cap, outside
the list, filtered, nofollow, too deep, queued) is an action as in the code's
chain of `if`s, one target at a time, so that a crash, a commit or a cancel may
fall between any two. The last target of a page is its redirect
(`AtRedirect`). `Upsert` is the `ON CONFLICT` clause of `insert_urls`, column
by column; `ResendExistingRows` and `Resume` are what `read_resume_plan` rebuilds.

Abstracted: URLs are model values and which pages link where, redirect where, or
are filtered, disallowed or blocked is a constant; the depth order of the frontier
is any order; an error that ends a session is a `Crash`, since the file keeps
what was committed either way.

### Writer

`handle` is the `WriterHandle` and the stages of `finish`; `channel` the bounded
channel with `Write`, `Tick` and `Finish`; `thread` the thread; `batch` what it
has gathered; `disk` what was committed. `Flush` may fail, which ends the
thread. `Drop` is the drop of the handle on an error path, whose `TickerGuard`
aborts the ticker. Results are numbered, so `sent` is a counter.

### Throttle, ExternalQueue, Scheduler

`Throttle` holds `limit`, `ceiling`, streaks and `pause` of each host, with one
operation per function of `throttle.rs`. Streaks are capped at their thresholds
(beyond them nothing differs). A pause is a number of ticks counted down by
`Tick`, likewise the delay of a gate. `ExternalQueue` holds the queue, the
closing and the failure streak of each host, and the `round`. `Scheduler` gives
each URL a `stage`: `robots`, `gate`, `request`, `backoff`, `obey` (asleep in a
`Retry-After`), an outcome, `joined`.

The outcome `overload` is a 429 or 503, and for a page also a timeout or a
dropped connection, as `record` sees them. A back-off takes any time. A page
found goes anywhere in the frontier, since its depth may be any. A panic may
replace an answer or the reading of robots.txt, not a sleep. Hosts of the site
and foreign hosts are disjoint (see section 9).

### RobotsCache, SitemapXml, Discovery

`cells` are the hosts in the map of the cache, `keeper` who holds the promise of
a cell (a `OnceCell`), `rules` what it was given, `at` where each task is between
the read lock and its answer. A task may be dropped anywhere; the next one that
waits takes the promise over. The key is the host without its port, as in the
code. What an answer means (`absent`, `rules`, `slow`) is modelled; whether a path
is allowed is what the crate `texting_robots` answers, a constant.

`SitemapXml` reads a file as `quick_xml` gives it, event by event: which
`<loc>` is a page, which another sitemap, which neither, and what is kept of a
file that is malformed half way. `Discovery` is `discover_sitemap_urls` and
its callers: what is announced and the two usual paths, the tasks in flight up to
their limit and with room in their host (the rest deferred), the answers, the
children of an index, the limit of sitemaps, the tope of URLs, the notes of what
was left out and the rows of table `sitemaps`; then `TakeFound` is the loop of
`run_with` that enters them. Pages ask the same cache at the same time.

### StoreAccess

Files are numbered as they are created; `at` says which file lies at the default
path (`store`) and at the backup (`prev`), and `wal` whose `-wal` lies beside
each. `lock` is the exclusive lock of a path, `open` the file a process has open
for writing, which it keeps if the name is moved or removed (as POSIX does).
`plan` is what a resume read, with the `version` of the file then. A new crawl
on the default path rotates under the lock (`RotateUnlessLive`, `RemoveBackup`,
`MoveStore`, `MoveSidecars`, each of which may be the last thing it does), drops
it, and takes it again in the engine; a resume probes the lock, drops it, reads
its plan, and takes it. Status `paused` stands also for a file finished by
rate limiting, the other one that can be resumed. The probe of the lock is one step.

### Fetcher, UrlNormalize, LocalFiles, HtmlParse, PageReader

`Fetcher` is the loop of attempts: which failures and answers are tried again,
how long it waits for each (back-off without its jitter as the shortest wait, or
what `Retry-After` asks), when it gives up, how a body is read chunk by chunk up
to the limit of its type, and the HEAD of a probe with its GET. Times are in
half seconds, sizes in a unit; what the network answers is any of `Answers`.

`UrlNormalize` takes a URL as the crate `url` leaves it and does the rest:
port, credentials, hashbang, slash, and the query, whose parameters are decoded,
stripped, ordered and written back; symbols stand for characters and escapes.
`LocalFiles` is `FilesystemFetcher`, with `discover_html` and the forms a
file is published under; its crawl is reduced to the rows a session without
limits would leave.

`HtmlParse` has one operator per handler of the rewriter, over an accumulator
with its names. Text comes in chunks cut between any two characters, the last of
which may be empty, as `lol_html` may give it, and as the source has it: an entity is
three symbols, `&`, its name and `;`, and may be cut. `DecodeEntities` is applied where
the code applies it: to a heading and a link when they end, to the title at the end
of the document (`Finished`), and to each chunk that goes to the signature; the count of
words and the text for searches are never decoded. There is one entity that is a letter,
one that is a space and one that is `&` itself. A word is a run of letters; the
signature of a page is the set of its shingles, and the tables of elements
(`HeadElements`, `NonContentTags`, `RegionTags`) are those of `parse.rs`. The
reference definitions that its properties compare it with read the document as a tree;
`halved` only remembers for them which entities a chunk cut.

`PageReader` joins them: ask, read, resolve each link once.

### CrawlFile, the rules, PageResult, Audit

`CrawlFile` is a record with a field per table. A rule of a page is an operator
from a file and a page to its findings, a rule of the site one from a file; both keep
the names of the code. A finding is a record of rule, URL, severity and what
of its evidence the reports tell apart. SQL is a set expression; recursion
(redirect chains, click depth, groups of similar pages) is a recursive function
over the rows. Only the lengths, times and counts on each side of a threshold
occur.

`PageResult` is `build_result`: from the answer and the parse of a page to its rows, with
`evaluate_indexability` and the kind of a resource. `Audit` keeps `site` (what is
out there), `file`, `issues` (a bag, so that a finding twice is seen), `status`,
`truncated`, `cut`, `phase`, `rule`: pages are saved in any order, the
crawl stops whole or cut, the final pass runs rule by rule, each in its
transaction, and is cancelled or dies between any two; a resume goes on.

### Compare, Inspect, Report, Portfolio

Operators over the file of `Audit`, whatever its status, and over past crawls of
the same site. `Compare` has two steps of its own: a comparison is saved, whole or
cut by a death, and opened again. `Report` groups findings in lines, with their
templates; `Portfolio` takes a folder of files, some of which cannot be read.
They are the chain of `EXTENDS` in which each module uses the one before.

## 3. Runs

| Run | Question | Instance | Why it is enough |
|---|---|---|---|
| `resume` | Is anything lost, repeated or undone over crashes, cancels and resumes, and does each session end? | 3 pages and 1 external; a self link, a redirect, a page only reached by it that links back, a sitemap with a page the links do not show, a page that may fail or be limited; pool of 2, two site rules, three sessions | Every kind of message is in flight when a crash falls; the third session resumes from a resumed file |
| `limits` | Does the budget hold when every limit is reached at once, and across a resume? | 8 pages, 2 externals: one filtered, one nofollow, one blocked by robots, one whose address is blocked, one too deep; budgets of 1, a deadline, panics; two sessions | Every budget is at its edge, and the second session starts with it spent |
| `list` | Does a list crawl ask for its list and no more? Is the invariant of the proofs an invariant? | a list of three (one filtered, one disallowed), links, a redirect and a sitemap that leave it, two externals, one refused on resume; three sessions | Probes are answered, refused or cut in each session |
| `writer` | Does the writer implement `ResultLog`, and does nothing wait forever? | channel of 3, batches of 2, 5 results | Full channel, full batch, half batch, ticks and `Finish` in the middle |
| `store` | Do crawls and resumes on the same path respect each other's files? | 3 processes, 3 files, no file opened after four openings and closings | Two processes meet in the middle of a third one's rotation; symmetric processes |
| `pool` | Does the pool obey limits, pauses and closings, strand nothing and end? | 3 pages of one host, 1 of another, 5 probes of two hosts; pool of 2, scan of 1, one retry | The frontier is longer than the scan, a host's queue empties and fills again, the streaks close a host, the site may be slow or not (`MaybeSlow`) |
| `audit` | Are the findings those of the file, and is a hole in it never told as good news? | about 400 small sites: four pages with any of six links, redirects in every cycle and chain of three URLs, canonicals and likeness of three pages, languages, a folder without an index, faults of each kind; a copy of a page that answers for it, and nine sites with past crawls | Sites of 3 to 6 URLs, each saved in any order, cut, killed and resumed once; those with past crawls twice, so that a session that follows an interrupted final pass is interrupted too |
| `discovery` | Is everything declared read once, cut at the right URL and told? | an index of three that points to itself, a sitemap of each kind and failure in each place, six of them when the limit is 5, two hosts, five tasks, budgets of 1 to 3; 2 in flight | Every limit is met while others are in flight, and every task may be dropped |
| `page` | Is a page read as it was written, whole or not at all, and resolved to one form? | two documents with each of 36 fragments between any two tokens, or with two fragments; every pair of 17 links; 18 answers with up to two retries; trees of up to three of nine files | Every handler meets an element opened before it and one never closed; chunks are cut between any two characters |
| `live`, `diff`, `escapes` | three statements the code does not meet | those of `store`, `audit` and `page` | see section 5 |

Bounds. `resume`, `limits` and `list` bound only the number of sessions (`MaxSessions`),
`store` the files created and how often they are opened, `pool` and `discovery`
the length of a pause (`MaxWait`), `audit` the sessions of a crawl (`SessionsOf`); everything
else is a limit of the program itself, scaled, or the size of the site. Scaled
are, in `audit`, the thresholds of the report (`TemplateMin`,
`TemplateFloor`, `PervasiveMin` are 3, 2 and 2 for 30, 5 and 20), `MaxTrail` (3
for 12), `MaxRedirectHops` (4 for 20), `MaxOgImageHops`, `MaxClickDepth` and the
signature: 4 bytes in bands of 2, of which 3 make two pages alike, and a window of 2
(`SignatureLen`, `BandRows`, `SimilarBytes` and `NearDupWindow`, for 128, 6, 103 and
256; three sites have a bucket above the window); in `page`, sizes, the shingles a page needs
(`MinShingles`) and the schema types; in `discovery`, the limits of sitemaps and of those in
flight. Each is small enough for its edge to be met and the next value passed.

All the runs check for deadlock but `page` and `escapes`, where a document that
was read to its end is the end of a behaviour; the other models say with a
stuttering action where the system may really stop (`Over`, `Done`).

### Properties

What each says is in the comment above its definition.

* `resume`: `TargetsOnDisk` (a page in the file leads to rows in the file),
  `NoRefetch`, `DoneIsComplete` and `PendingIsResumable` (what a finished file
  claims), `SessionEnds`. `limits`: `BudgetPerSession`.
  `list`: `OnlyWhatWasAsked` (of a list; its theorem says it of a site too), `IInv`, `NoReprobe`.
* `writer`: `SavesAPrefix` (refinement), `SavedInTime`. `store`: `OneWriter`,
  `LastCrawlKept`, `NoForeignWal`. `pool`: `NothingStranded` (the
  `debug_assert` of the loop, and its count), `SerialHosts`, `RetryAfterObeyed`, `LoopEnds`.
* `discovery`: `OneDownload`, `SameRulesForAll` (of robots.txt), `EachReadOnce`,
  `BudgetedAndTold`, `DiscoveryEnds`.
* `page`: `ReadAsWritten` and `WordsNeverLost` (the pass without a tree gives
  what the tree says), `LossesTold` (what a browser leaves out of the head),
  `WholeOrNothing`, `PatientRetries`, `OneUrlPerPage`.
* `audit`: `IssuesAreTheFiles` (after any interruptions the findings are those
  of one pass), `TruncatedSaysNoLies` (what is found over a part is found over
  the whole), `EveryPageHasItsPlace` (near, deep, or orphan, where there is a home page to count from), `RedirectsToldOnce`,
  `NearGroupsAreComponents`; of a comparison `UnchangedSiteNoNews`,
  `TurnedAround`, `GateNeverSilent`, `SavedDiffKeepsItsDoubts`; of the reports
  `ReportAddsUp`, `PanelCountsSites`.

`PROJECT.json` also gives for each property a mutated definition, the bug it
would catch: the page sent before its targets, the lock taken although it is
held, the shorter pause replacing the longer one, the promise of a cell given to
two, the stale findings not deleted, the rule off in one file compared all the
same. The mutated operators are in the modules, next to what they would
replace, and nothing else uses them.

What limits what `audit` says: sites with a 429 are not in it (their pages stay
pending, which is in `CrawlEngine`), those of a list are.
`DoneIsComplete` and `PendingIsResumable` are checked without panics (see
section 5), and with a depth limit that nothing reaches, which only the second needs:
`limits`, which has both, checks the properties they do not touch. The theorems
of section 6 say the first for any limits.
`UnchangedSiteNoNews` leaves out what section 5 says of cycles of redirects and
what a crawl that was cut cannot know. `OneUrlPerPage` leaves out escaped
delimiters, which `escapes` shows. `LocalFiles` has names without `%`, `?`
and `#`, a base at the root of its host and URLs without `..`.

## 4. Fairness

* `CrawlEngine`: `WF_vars(Progress)`. Every request has a timeout, the writer
  thread is always scheduled and the loop never waits for the user, so while a
  session lives one of the process's own steps is taken. Nothing says which: the
  order of answers stays free, and neither the user, the deadline nor a crash is
  obliged to come.
* `Writer`: weak fairness of the thread, of the ticker (a timer), and of whoever
  has begun to finish. The loop is not obliged to send nor to finish.
* `Scheduler`: `WF_vars(Next)`, the weakest form: as long as something can
  happen, something does. There is no crash in that model.
* `Discovery`: weak fairness of the discovery as a whole and of each task that has
  begun to ask for a robots.txt, which `tokio` schedules; a pause of a host
  passes with time. No task is obliged to be dropped or not.
* `StoreAccess`, `Audit` and `PageReader`: safety only, no fairness.

## 5. Disagreements between code and documentation

Three runs state what a comment or a document says and show an execution of the
code that does otherwise. They are recorded as findings.

| Run | Statement | What happens |
|---|---|---|
| `live` (`LiveFileStays`) | The rotation never takes away a file another crawl is writing (`main.rs:1669`) | It locks the store, not the backup it deletes, which a `resume` of the backup may be writing |
| `diff` (`NoNewsOfTheSameSite`) | Ids depend on the order of discovery and mean nothing between two crawls (`diff.rs:13`) | A cycle of redirects is reported on the URL of its least id, so that two crawls of one site report it on two URLs, one resolved and one new |
| `escapes` (`AsksWhatIsLinked`) | Percent-encoding is decoded where it is not needed and encoded again consistently (`docs/03-MOTOR-CRAWL.md:61`) | `&`, `=`, `+` and `%` of a parameter are decoded and not encoded again: another page is asked for |

Others were met while the models were written. They are excluded from the
properties where the comment of the property says so, and no run is kept for them.

Of the engine:

* The truncation reason is only in memory until the final pass
  (`engine.rs:847`). A crawl cut by depth, paused and resumed ends `done` and
  not truncated, and the rules of the full graph run.
* `rate_limited` never replaces `list_mode` or `max_depth` (`get_or_insert`),
  and it is the only reason `resume` accepts for a finished file, so that a list
  with a 429 cannot be completed.
* `max_depth` is in clicks from the seed, but with two tasks in flight the longer
  way may be joined first, and the page is excluded for good (`engine.rs:1619`).
* A resume reads its plan before it takes the lock; the file may have changed by then.
* The fetcher's own retries do not go through the gate of the Crawl-delay
  (`fetch.rs:586`), and the sitemaps are asked for without it
  (`engine.rs:3171`, against `robots.rs:6` and `docs/01-ARQUITECTURA.md:193`).
* A resume that starts with the page budget spent fetches one page more, as the budget is
  looked at after a page is joined (`engine.rs:1824-1833`); `BudgetPerSession`
  states exactly that margin, for each session.
* A task that panics leaves its page pending in a file that ends `done` and not
  truncated, which `resume` refuses (`engine.rs:1248-1257`).
* The tope of what the sitemaps declare counts URLs declared twice and those of
  other sites, and nothing says that `MAX_SITEMAPS` was reached
  (`engine.rs:3046-3099`), though the comment above that limit
  (`engine.rs:3041-3043`) says that to crawl a part of a site in silence is worse than
  to fail: `EachReadOnce` and `BudgetedAndTold` are about sites within it.
* A crawl that died has no rows in `robots_txt` and `sitemaps`, and what is
  compared with it looks as if its robots.txt had gone.

Of reading a page:

* `word_count` counts a word that falls between two chunks twice
  (`parse.rs:1343`), unlike the signature, which joins it (`minhash.rs:84`).
* The signature is said not to depend on the chunks a text comes in
  (`minhash.rs:84-86`), but entities are decoded chunk by chunk (`parse.rs:1337-1338`):
  one that a chunk cuts is read as its name, a word of its own or the end of one, and
  the signature is another. `ReadAsWritten` says so: the signature is that of the text
  with the entities that were cut left as they are.
* `word_count` and the text for searches are of the source, never decoded
  (`parse.rs:1343-1354`), unlike titles and headings: `uno&nbsp;dos` is one word, and the
  text for searches has `caf&eacute;`. `WordsNeverLost` is about words as the source
  writes them.
* Text or a `noscript` between the head and the body opens the body for a
  browser, and what comes after is not told as lost (`parse.rs:323-327`).
* With a `--base` that has a path, the seeds of a local site are under it but
  their files are looked for from the root of the directory, so every page is a
  404 (`fetch.rs:828-830`, `fetch.rs:931-942`; `main.rs:118`).
* A link by `http:` to a local site whose base is `https:` is internal, for
  the scope compares authorities, and a 404, for the fetcher compares origins.
* A local name with `%`, `?` or `#` in it is not asked for as it is; and a
  symbolic link out of the root hides the `.html` that has its name.

Of the rules and the reports:

* The orphans of `index.rs:1028` count links from a page to itself as incoming, unlike
  the depth that `engine.rs:4175` computes and `docs/04-CATALOGO-REGLAS.md:49`.
* Where the home page is not in the file (a folder without an index) nothing is told
  deep and no section disconnected, by design (`index.rs:825`); no report says so.
* In a bucket with more pages than `NEAR_DUP_WINDOW` (256) a page is compared with the
  next ones only, so a pair can be missed, which `canon.rs:542-547` says and calls
  harmless. A component can then be told as two groups, or not at all; and a pair that
  a cut crawl tells, the whole crawl can miss, as more pages come between the two.
  `NearGroupsAreComponents` says of such a bucket only that nothing is told as more than
  it is, and `TruncatedSaysNoLies` leaves out the findings of components that touch one.
* Similar pages are grouped through one another, although `canon.rs` says that
  declared alternates are never joined: through a third one they are.
* A canonical to a page whose directive is `none` is not told as one to a
  page that is not indexed; and a cycle of redirects longer than `MaxRedirectHops` is
  told by no rule, though a crawl that was cut tells a part of it as a chain
  (`TruncatedSaysNoLies` is about sites with fewer).
* Of two pages that answer for an alternate, one by its URL and one by its canonical,
  the one read first counts (`hreflang.rs:807`), which is that of the order of
  discovery: `UnchangedSiteNoNews` leaves their pairs out.
* A final pass that was interrupted leaves the findings of the rules it ran in the
  file, and they are deleted by the next final pass only (`engine.rs:4165-4167`,
  `engine.rs:4248`), not by the resume: a crawl that is resumed and read before it
  ends shows them next to pages they no longer fit. It takes three steps in order (a
  final pass over a crawl that was cut, its death, and a resume that saves the page
  that answers for an alternate), so `UnchangedSiteNoNews` leaves
  `HREFLANG-NOT-RECIPROCAL` of a resumed crawl that is not done out.
* That page may be beyond the cut of a crawl. `HREFLANG-NOT-RECIPROCAL` is then told of
  a target that was crawled and declares nothing (`hreflang.rs:841`), and a crawl of the
  whole site, with the copy that declares it back and names the target as its
  canonical, does not tell it; against `docs/CONVENTIONS.md:150-151` ("If the crawl is
  truncated, the rules that depend on the full graph stay silent"), as the rule is not in
  `REQUIERE_GRAFO_COMPLETO`. `TruncatedSaysNoLies` leaves out the pairs of an owner that
  a cut crawl has not met; the sites of `audit` have both cases.
* The card calls a chain of 12 URLs or more a loop, though the rules follow 20
  (`inspect.rs:573-600`).
* The panel counts as inconclusive only the rules of `NeedsWholeGraph`, so a crawl
  that was paused or died is told clean of a broken link it had not come to
  (`portfolio.rs:762`, against `portfolio.rs:168-170` and `docs/MANUAL.md:590-600`).
* The report does not say that a crawl is unfinished, and its note about external URLs
  blames their cap for a pause or a death (`audit_report.rs:350-354`).
* Of a later crawl that was cut the gate asks nothing (`diff.rs:639` is about the earlier
  one): a finding on a page that it did not reach passes in silence, and a chain of
  redirects that it tells at another URL fails without need. `GateNeverSilent` is about
  the findings that the later crawl has. And a `diff` file whose writing died opens as one without changes.
* `--rule` lists a URL twice when a rule has it in two severities, and the
  examples of a line may be of another severity than it.

## 6. Proofs

The proofs are for every value of the constants allowed by the named
assumptions of each module: any site and any limits, any number of processes,
tasks, hosts and sessions.

| Module | Theorems |
|---|---|
| `CrawlEngineProofs` | `TypeCorrect`; `Inductive` (`Spec => []IInv`), and from it `TargetsAlwaysOnDisk`, `LinkRowsAlwaysExact`, `NeverRefetched` |
| `CrawlEngineClaimsProofs` | `BudgetKept`, `OnlyAskedForAlways`, `NeverReprobed`; `Endings` (`Spec => []EndingInv`), and from it `FinishedIsComplete`, `UnlimitedIsResumable` |
| `WriterProofs` | `WriterKeepsItsBooks`, and from it `WriterSavesAPrefix` (`Spec => SavesAPrefix`) and `WriterTypeCorrect` |
| `StoreAccessProofs` | `AlwaysOneWriter`, `LastCrawlAlwaysKept`, `NeverAForeignWal`, `StoreTypeCorrect` |
| `SchedulerProofs` | `AlwaysSerial`, `RetryAfterAlwaysObeyed`; `Stranded` (`Spec => []StrandedInv`), and from it `NothingIsStranded` |
| `DiscoveryProofs` | `CacheSafe`: the cache of robots.txt alone; `RobotsDownloadedOnce`, `RobotsAgreed`: the cache inside the crawl; `EachIsReadOnce`, `BudgetIsKeptAndTold`: the sitemaps |
| `PageReaderProofs` | `FetcherInvariant` (`ReaderSpec => []FetchInv`), and from it `AlwaysPatient`, `AlwaysWholeOrNothing` |
| `AuditProofs` | `FindingsAreTheFiles` (`Spec => []IssuesAreTheFiles`), `ComparedFindingsAreTheFiles` (the same of `CompareSpec`), `GateIsNeverSilent`, `SavedDiffsKeepTheirDoubts`, `PagesHaveTheirPlaces`, `RedirectsAreToldOnce`, `NearGroupsAreWhole`, `ComparisonsTurnAround`, `CutCrawlsSayNoLies` |

**The crawl loop.** `TargetsOnDisk` alone is not inductive: nothing in it says
why a page that is committed *now* finds its targets written. `IInv` (module
`CrawlEngineInv`) adds the reasons, in the order they depend on each other:

1. `InvSeen`: a page of the site is in the index of seen URLs only if its row
   is in the file or on its way (`Known`). So "already seen, skip it" is safe.
2. `InvPage`: the links of the page in hand that were read are seen. So when
   its message is sent all its targets are known.
3. `InvMessages`: the messages on their way are in an order that keeps this
   after any prefix of them is committed: a page goes behind the rows it needs,
   nothing about it follows it, and no message is about a page that is already
   crawled.
4. `InvRecorded`: what is in the file or on its way is in the index, so that
   nothing is discovered twice and `NoRefetch` holds.
5. `InvIndex`: the writer knows the id of every row, or the message that
   tells it is the first in its queue; so no link is dropped (`LinkRowsExact`).
6. `InvIdle`, `InvSite`: between sessions there is nothing in memory, and only
   pages of the site are crawled or pending.

A crash empties the queue and the memory: 3 makes what is left consistent,
and `Resume` reestablishes 1, 4 and 5 from the rows alone. The run `list` checks
`IInv` with TLC, and `resume` its consequences. Each step is of one of a few
kinds (it sends the row of one URL, or a page, or nothing; it begins or ends a
session; it is the commit), with a lemma per kind.

Three smaller invariants go on from there. `BudgetInv`: at the top of the loop
a session has fetched nothing or has budget left. `AskedInv`: what is queued, in
flight, on its way as work or in the file as work was asked for. `ProbeInv`:
what is to be probed has no answer and no reason against it, in the file or on
its way; a row that is not written is blank; and what a resume sends of
external URLs before its probes are chosen is of those it does not probe.

What a finished file claims needs `EndingInv` over `IInv`. Its first half,
`CompletionInv`, says why nothing is missing: each rule has told its findings
once up to the rule in hand, whatever the final pass was interrupted by (`InvIssues`);
unless the session was cut, what is pending is being worked on or is settled by a
message on its way (`InvPlan`); the seeds and the sitemap entries read so far
are seen, and their rows say that they are declared (`InvSources`, `InvDeclared`,
`InvFlags`); so a file that is done and tells of no cut has it all (`InvWhole`).
`FinishedIsComplete` follows, for any limits. It assumes `~MayPanic`: a task
that panics leaves its row pending while the loop takes its page as finished,
and nothing is noted as cut. The second half, `CountingInv`, is for
`UnlimitedIsResumable`. A crawl without limits (`Unlimited`: more budget and
depth than there are URLs, no deadline, no list) is cut by the server alone;
that the depth never cuts it needs that a page is found at a depth smaller
than the number of pages known by then, wherever they are known from: memory,
messages after any prefix, or the file after a crash. TLC checks `EndingInv` on the
instances too, though no run lists it.

**The writer.** `WriterInv` says where every result is: those in the file, those
of the batch and those in the channel are, in this order, all that was sent
(`DiskInv`, `BatchInv`, `OrderInv`, `NoneLost`); nothing goes behind `Finish`
(`FinishInv`), and a thread that ended well has saved everything (`EndInv`).
With it each step of `Writer` is one of `ResultLog` or changes nothing of it.
The refinement that the run `writer` checks is the one the theorem states.

**The store.** `AccessInv`: who rotates or writes has the lock of its path,
who writes has a file open, the file of the default path stays there while its
crawl lives (`StoreStays`), and who writes in the backup has another. That gives
one writer per file, by whichever way it was come to. `RotationInv` adds what
holds between two moves of a rotation, which is what a death leaves.

**The pool.** `PoolInv`: a task past the gate of a slow host has its permit,
a foreign host is down to one before it has a queue, its slots are taken by one
task, and no task sleeps longer than the pause of its host.

That the loop strands nothing (the `debug_assert` at its end) is a property of
all its parts at once. The loop ends when no task is in flight and the refill
took nothing; the proof says why the refill then had nothing to take
(`StrandedInv`). A page that waits is held back by a slot of its host or by a
pause. The slots of a host count its tasks in flight (`SlotsCounted`), and a pause
is held by a task that sleeps at least as long (`PauseHeld`): without tasks there
are neither. A probe that waits is counted (`PendingCounted`) and its host has
a place in the round, one (`RoundComplete`), so the round meets it; what waits
was never asked for and waits once (`WaitsOnce`), so a host that closes takes
nothing with it that the round still owes.

**One page.** `FetchInv`: the log has one entry for each attempt that was not
enough, each with an answer that was worth another try and a wait at least as
long as its back-off or as `Retry-After` (`LogKept`); the bytes read are those
of a first part of the chunks, under the limit (`ReadSoFar`). So the chunk that
passes the limit shows that the whole body does, which is where `WholeOrNothing`
needs that the sum of the chunks grows. That is an induction over the chunks:
`Induction` states it as a fact about a set of naturals, from the
well-foundedness of their order in the library.

**The findings.** `FindingsAreTheFiles` says that no interruption leaves a finding
too many or too few, and rests on two facts about the rules themselves. What the page rules say
of a page depends on what they read of that page alone (`PageRulesAreLocal`,
over all the page rules): its row, its parse and its links out, and never who
links to it, which is counted later. So a page that was judged when it was saved would
be judged alike at the end, whatever was saved, probed or recorded since
(`FileKept`: a page is saved once, when it is done). And each rule speaks in one place:
beside its page, or at its own turn in the final pass (`PageRulesSay`,
`SiteRulesSay`, `Turn`). So the findings that a resume deletes are exactly
those an interrupted final pass wrote (`SiteRuleIds` misses none, which is
what its list in `engine.rs` has to get right), and no two rules write the same finding.
`IssuesKept` puts it together: at any moment the findings of the pages are all
there, once; in a first session nothing else is; and in a final pass the table
is that of the pages and of the rules up to the next one. TLC checks `AuditInv` on
instances too, though no run lists it. `AuditAssumption` is what the proof asks of a
site: whatever can be asked for has an answer, the parser gives a page what its rules
read, and it is all finite: the URLs that a site declares and those a page leads to, its
links, images and alternates, the robots.txt and sitemaps; and no URL is `No`.
`WholeAssumption` asks that the site itself is finite, as only such a one is ever crawled whole.
`CompareAssumption` asks of a file to compare with that its rows and findings are finitely many.

The gate needs one thing of the findings: that no rule has the name of a
severity (`IssuesNamed`, from the same two lemmas), so that a token of
`--fail-on` means one of them. A finding that was asked for and has none like it in
the earlier crawl is then a change that the gate catches, unless the earlier crawl is
incomplete, which the gate says.

**The places of the pages.** `PagesHaveTheirPlaces` is about what the rules of the
graph compute, whose traversal is a recursive function over the levels of the
site. `NearIs` says what is near after so many steps, by the steps themselves;
what grows within the rows of the file and stops growing once it does not has
all it will have after as many steps as there are rows (`Saturates`), so the
traversal that stops at the first empty level reaches what it would reach without
stopping (`ReachIs`), and the level a page is met at is the fewest clicks to it
(`ClickDepthIs`). Then "deep" is within reach and not within
`MaxClickDepth`; "section" is out of reach and linked; "lonely" is linked by nobody:
a page linked by nobody is out of reach, unless it is a door of the site itself
(`LonelyIs`). What this takes from the crawl is `PlaceKept`: links join rows of the file
(`LinksLand`, which is `TargetsOnDisk` seen from here), and once the final pass
has begun the count that the rules read is that of the links
(`CountsAreLinks`). The proof failed at first where the file has no home page:
nothing is near, deep or in a section then. `index.rs:825` says so and means it;
the property now has it as its condition, and the run a site like that.

**Redirects.** `RedirectsAreToldOnce`, for crawls that were cut too. The redirects from
a URL are a sequence without an end (`Orbit`), which is different URLs until it
comes to one that does not redirect or to one it has been through
(`EndIs`, `WayIs`); there are no more of them than redirects, so the walk
of the rules, which follows `MaxRedirectHops`, sees that end (`WalkIs`). After it there
is nothing (`EndsWell`), or the sequence goes round: wherever it is looked at from
then on, it meets every URL of the cycle within the length of one round (`RoundIs`). So
what `LoopOf` says with a window far away is the cycle the walk met (`CycleIs`), and from
any URL of a cycle it is the same one: two cycles that share a URL are one, and are told
once, at their least id (`LoopToldOnce`). `RedirectsKept` is what this takes from the
crawl: a redirect in the file leads to a row of it, and each row has an id.

**The groups of pages alike.** `NearGroupsAreWhole` is about a union-find, a fold that
joins two trees for each pair of pages alike, in the order that the set of pairs is
gone through. What the fold keeps is `JoinedBy`: the parents are a forest, that is, each page
has a root and a depth under it, and no depth is as large as its tree, so the climb to
the root ends within as many steps as there are pages (`RootIs`; the code climbs
until it meets the root); the pairs that were met have the same
root; and pages of one tree are not apart: a set that no pair leaves (`Shut`) has
all of a tree or nothing of it. A tree put under another keeps it (`PairJoined`), and so
does each step of the fold (`FoldedJoins`, from the smallest set of pairs at which it would
not). So a group is what is joined through others, as counted from any of
its pages (`GroupIs`), whatever the order in which the pairs came. Pages joined are
pages alike, so a group is within the part of the graph of pages alike that its pages
are in (`PartIs`); and where no bucket of that part has more pages than the window and
one, no more than the window of them come between two, all are compared
(`UncrowdedIsCompared`), and the group is the part (`GroupsArePart`).

**A comparison turned around.** `ComparisonsTurnAround` takes the comparison part by
part: URLs, findings, status, pages, robots.txt and sitemaps each tell, the other way round,
the same changes seen from the other side (`ComparisonTurned`). What is only counted
is in a one-to-one correspondence with itself turned (`TurnedCount`), which
says that the counts are equal only for finite sets. So each rule has to find finitely
many things, and it does where the tables it reads are finite (`PageRulesAreFinite`,
`SiteRulesAreFinite`), which every step keeps (`TablesFinite`). The change that is not told alike from
both sides is that of a robots.txt: how bad it is is said of the later one
only, and the property says so.

**A crawl that was cut.** `CutCrawlsSayNoLies` compares the file of a crawl that was cut anywhere
with that of the whole site. What every crawl of a site keeps is that its file says
only what the site answers (`AsAnswered`): each row is still blank, is the one its answer
makes, or is that of a probe (`RowIs`); the tables of pages, links, images and resources
hold what the pages fetched so far say, and nothing else (`TablesAre`). `AnswersKept`
adds that no row is outside the whole site, whose crawl ends
because it fetches one more URL of finitely many each time (`WholeIsWhole`). So a
file is part of the whole (`PartOf`, `AnsweredIsPart`): what it knows of a URL is
what the whole knows, or nothing yet. Then rule by rule, what is said of a part is said of
the whole (`SiteSaid`), each for its own reason: a broken target has been answered, so it is
broken in both (`LinkedSaid`, `OfTargetsSaid`); who shares a title or a hash goes on
sharing it (`MoreThanOne`); pages alike stay alike, whatever comes between them (`ResembleSaid`), and are
joined where no bucket is crowded (`NearSaid`); the end of a
redirected og:image is the same or was not asked for (`OgImageEndSaid`). The rules that would be
wrong are those of `REQUIERE_GRAFO_COMPLETO`, and they are dropped. Of redirects, a way that goes
round or ends in an answer is the same in the whole (`SameWay`, `EndOfWay`), and may have begun
before: above each redirect that meets no loop there is a head of a chain (`HeadAbove`:
the URL farthest back that leads to it), where the whole tells it. A chain that seemed to end in a page
not yet asked for may be a loop, which the whole tells instead (`ChainSaid`).
Three doubts are left, and the property names them (`SaidOrUnsure`). The owner of an
`hreflang` key is the page of least id, so a part may have another than the whole
(`ReciprocalSaid`). A walk of the whole may be longer than `MaxRedirectHops`. And a
bucket of the whole may have more pages than one is compared with.

**robots.txt.** `CacheInv`: who downloads is who keeps the promise of the cell
of its host, a cell with a value keeps none, and a task goes on with the value
of its cell. The steps of `Discovery` are steps of the cache or leave it alone,
so its theorems carry over.

**The sitemaps.** `DiscoveryInv`, for any sites, limits and orders of the answers.
What makes it inductive is where each sitemap is: one that was met and may be
read waits for room, is asked for, has its row, or killed its task, and is in one
of those places only (`OnePlace`); so each is read once, whoever declares it. What
was met is within every set that has the roots and the children of what was met
(`NothingElse`), and all that is declared by what was read is met or pending
(`Followed`): at the end, when nothing is left, what was met is such a set
itself, so it is `Reachable`. That nothing is left is where the throttle comes in: a
host with no request in flight has room, as no limit is ever zero
(`NothingLeft`). The rules of a host that was waited for do not change
(`GivenStays`, from the cache), so neither does what may be read. Of the URLs,
`AllTaken` says that they are those of the sitemaps read until there are
enough, none twice if none is declared twice. The loop that takes them keeps
exactly those of the site among the first it looks at (`TakenIs`), so it stops with at
most as many as the budget, and before the last one only if there are more.
Assumed of a site (`DiscoveryAssumption`): that what it declares are sitemaps
and pages of it, finitely many, and that its budget, if any, is one number.

`TakenIs` is about a recursive function. It is proved without an induction
theorem: of the arguments where the function and its closed form differ there would
be a first (`FirstOf`, from the well-foundedness of the numbers).

Not proved, and checked by TLC only:

* liveness (`SessionEnds`, `SavedInTime`, `LoopEnds`, `DiscoveryEnds`), out of the
  prover's reach under fairness;
* `UnchangedSiteNoNews`, which asks also that the groups and the severities of the findings are the same in two
  crawls of a site. Looking for its inductive invariant is what showed the findings
  that a resumed crawl keeps (section 5), which two sessions do not reach: the run has three for the sites that are compared;
* `ReportAddsUp` and `PanelCountsSites`, whose totals are sums over folds of other folds;
* what `page` says of documents (`ReadAsWritten`, `WordsNeverLost`, `LossesTold`) and of URLs
  (`OneUrlPerPage`): what folds over whole documents, and a sort of a query, compute for every
  input, which is induction over data.

## 7. Not modelled

* Patterns (`pattern.rs`), the decision of the network perimeter (`dns.rs`),
  whether robots.txt allows a path (a library), the list file of a crawl, the
  limits of a licence: pure functions of strings; what they decide is a
  constant.
* `follow_external`, which only a configuration file can set and a resume
  forgets: a different crawl, one without probes.
* Migrations, `compact` and the opportunistic exit from WAL mode; progress events.
* Media handlers of the parser that only keep an attribute, and fragments; the
  tokenizer and the parser of URLs, which are libraries. The value of an attribute is an
  atom: what decoding its entities (`parse.rs:582`, `parse.rs:1388`) makes of it.
* Crawl files of an older schema: `diff` leaves out a table or a column that one of the
  two lacks, and warns (`diff.rs:617-625`, `diff.rs:867`). `Compare` is about two files
  of the present one.
* Texts in each language, layouts, the two formats of a report, `export`,
  `xlsx`, `stats`, the list of rules, the arguments of commands: wording and
  queries over a finished file.
* The FFI and adapter crates, which are empty.

## 8. Hazards without a property

Four of the list: the depth cut that a pause loses, the depth a page gets by the
order of answers and the retries that skip the gate, all three met by the code and
told in section 5; and hosts told apart without their port (section 9). And half of
a fifth: the silent limit of the search for sitemaps (section 5).

## 9. What to keep in mind when reading a result

* The hosts of the site and the foreign ones are disjoint in `Scheduler`. In the
  code a link to another port of the site's own host shares its host name, and
  brings the whole site to one request at a time (`engine.rs:1530`).
* An open file keeps working when its name is removed. On a system that refuses
  to remove it the rotation of `live` fails instead, with its error.
* `index` and `rows` speak of URLs; ids and the SQL that joins them are abstracted
  to "the writer knows this URL". `Audit` has ids, in the order rows came in.
* In the rules the signature of a page is some bytes, and two are alike if enough of them
  agree: what MinHash estimates is not in question, what is done with it is. In the
  parser it is the set of shingles that the permutations take the minima of.
* Some steps are coarser than the code where nothing tells the difference: the rules of
  one category run together (`Audit.SiteRule`; `engine.rs:4193-4214` asks for a cancel
  before each), the deletions, counts and records that end a crawl are one step
  (`Audit.Finalize`), and so is the removal of a backup with its `-wal`
  (`StoreAccess.RemoveBackup`).
* Bytes are units, times are on one side of a threshold or the other, and a text is
  which one it is: lengths in pixels and characters occur only in the rule that measures them.
