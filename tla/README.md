# jellygate in TLA+

jellygate hands out invite links to a Jellyfin server. An admin signs in with
Jellyfin credentials and makes invites; a visitor with a link picks a name and
a password, and jellygate makes the account, restricts it to the invite's
libraries, counts the use and tells Discord. It is a Go process behind
`net/http`, with PostgreSQL under it and the Jellyfin and Discord HTTP APIs
beside it. There are no transactions, no locks around the database, no graceful
shutdown, and most errors after the account is made are deliberately dropped.

This directory holds TLA+ models of that program, TLC configurations that check
them on small instances, and TLAPS proofs for all instances.

## The system

| Component | State | Operations | Talks to |
|---|---|---|---|
| Registration (`handler/invite.go`, `store/registration_store.go`) | table `registrations`; locals of each request | `HandleInviteForm`, `HandleInviteSubmit` | invite table, settings, Jellyfin, Discord |
| Invites (`domain/invite.go`, `store/invite_store.go`, `handler/admin.go`) | table `invites` | create, revoke, list, look up, `IncrementUse`, `IsValid` | dashboard, registration |
| Jellyfin client (`jellyfin/client.go`) | none; reads its URL from the settings at every call | `Authenticate`, `CreateUser`, `SetLibraryAccess`, `ListLibraries` | Jellyfin |
| Discord notifier (`notifications/`) | none; reads its webhook URL at every call | `InviteUsed`, `InviteCreated` (no caller) | Discord |
| Rate limiter (`middleware/ratelimit.go`) | map of buckets under a mutex, in memory | handler, cleanup goroutine | in front of the invite routes |
| Sessions and form tokens (`auth/`, `middleware/auth.go`, `store/session_store.go`, `domain/session.go`) | table `sessions`; two cookies in each browser | sign in, sign out, `RequireSession`, `SetCSRFCookie`, `ValidateCSRF` | settings (admin token), Jellyfin |
| Settings and setup (`handler/settings.go`, `handler/setup.go`, `store/settings_store.go`) | table `settings`, one row per key | settings page and form, setup wizard | everything that reads a setting |
| Setup guard (`middleware/setup.go`) | none | `RequireSetup` | in front of all routes but three |
| Tutorial (`handler/tutorial.go`) | none | three pages behind `RequireSetup` that read the Jellyfin URL | settings |
| Start-up (`cmd/server/main.go`, `store/store.go`, `compose.yaml`) | table `schema_migrations`, the schema, an advisory lock | `Open`, `Migrate`, `ListenAndServe`, restart by Docker | PostgreSQL |
| Health, security headers, templates, scripts | none | | |

What is hard here:

- **Concurrency without transactions.** Every handler is a sequence of single
  SQL statements and HTTP calls, and `net/http` runs any number of handlers at
  once. What a handler read first is stale by the time it acts.
- **Partial failure.** Any call can fail, take effect and lose its answer, or
  hang. After `CreateUser` the errors are dropped and the handler goes on.
- **Crashes.** Redeploying kills the process between any two calls. The
  database and Jellyfin survive, buckets and requests do not. A process killed
  in a migration leaves a flag that no restart takes down.
- **Late effects.** Giving up on a POST, by a hang-up, a lost connection or a
  kill, takes nothing back: Jellyfin may carry it out when its caller is gone.
- **Start-up next to others.** Several processes, of older and newer images, may
  migrate one database at the same time.
- **Configuration that moves.** The Jellyfin URL and admin token are settings,
  read again at each call, and an admin can change them under a request.
- **Silence.** Neither HTTP client has a timeout.
- **Time.** Expiry of invites, sessions and rate-limit windows, each judged at
  one instant and used at another.

What makes each component correct:

- *Registration*: the use count is the number of accounts counted; the quota is
  overrun by no more than concurrency explains; accounts, registrations and
  counts agree as long as nothing fails; an account never gets the scope of
  another invite; an invite that is closed, with nothing of it left on the way,
  makes no more accounts; requests end.
- *Invites*: the dashboard and the gate never disagree about what is open; no
  row the schema refuses.
- *Rate limiter*: no burst beyond twice the limit per window, no undeserved
  refusal, no bucket kept for ever, and fixed windows as if there were no map,
  mutex or cleanup.
- *Sessions*: no session before the admin token is stored, none usable again
  once it is over, and a complete sign-out.
- *Settings and tutorial*: the program never becomes unconfigured again, a form
  changes what its editor typed and nothing else even when it fails half-way,
  and a visitor let in finds the URL the page needs.
- *Start-up*: migrations are applied in order and once; a process gets to serve
  only while the schema is the one its image was written for, and keeps every
  migration of its image while it serves (a newer image may migrate on beside
  it); and the newest image comes up unless a migration was cut short.

`PROJECT.json` lists every component with its status, every definition with
the lines it models, and the hazards of the code with the properties that
watch them.

## The modules

| Module | Contents |
|---|---|
| `InviteRules` | pure rules: a row of `invites`, what the create form makes of its fields, `IsValid`, the dashboard status, the access policy posted to Jellyfin |
| `InviteRegistration` | `HandleInviteSubmit` run by concurrent workers, the admin handlers around it, hang-ups and restarts; extends `InviteRules` |
| `InviteLedger` | the abstract specification of registration: slips, accounts, uses counted |
| `InviteSafety` | the properties of registration, and the mapping to `InviteLedger` |
| `RateLimiter` | `middleware.RateLimit` with its clock reads, mutex and cleanup |
| `FixedWindow` | the abstract limiter `RateLimiter` implements |
| `AdminSessions` | sign-in, sign-out, session rows, cookies and form tokens |
| `Settings` | the settings page and the wizard over the settings table, and the visitors who depend on it |
| `SessionLife` | the abstract specification of a session that `AdminSessions` implements |
| `Startup` | processes that open the database, migrate it and listen |
| `SchemaUpgrade` | the abstract specification of an upgrade that `Startup` implements |
| `MC...` | instances for TLC: constants and symmetry |
| `InviteProofs`, `InviteLedgerProofs`, `InviteRefinementProofs`, `InviteSafetyProofs`, `RateLimiterProofs`, `SessionProofs`, `SettingsProofs`, `StartupProofs` | theorems and proofs |

Conventions. Variables are the program's stores and, per request, a program
counter `pc` and a record of locals `req`. An action is one call or one critical
section: the guard is the code's condition, each disjunct one way the call can
end, including "failed" and, for writes that matter, "took effect but the
answer was lost". `Finish` is a handler's return. History variables only record
(`counted`, `passed`, `refused`, `ended`, `touched`, `intended`, `crowded`,
`applied`, and `via` of an account); no guard reads them. A definition named `X_<Mistake>` is `X` with a plausible bug
in it; nothing uses it, and replacing `X` by it must break the property
`PROJECT.json` lists beside it.

### InviteRegistration

| Action | Code |
|---|---|
| `Receive` | `RequireSetup`, then routing of `POST /invite/{token}` |
| `Lookup`, `CheckInvite` | `GetByToken`; `IsValid` and the form checks, on the row as read |
| `FetchToken` | `GetJellyfinAdminToken` |
| `ReadBase`, `CreateUser` | `Client.url`, then `POST /Users/New` |
| `ReadBaseAgain`, `SetLibraryAccess` | `Client.url` again, then `POST /Users/{id}/Policy`, error dropped |
| `RecordRegistration`, `IncrementUse` | one `INSERT`, one `UPDATE ... use_count + 1`, errors dropped |
| `ReadWebhook`, `SendMessage` | `InviteUsed`; the send has no context |
| `Disconnect`, `Restart` | context cancelled by a hang-up; the process replaced |
| `LateUser`, `LatePolicy` | Jellyfin carries out, refuses or drops a POST whose caller has given up |
| `SaveJellyfinURL`, `CreateInvite`, `RevokeInvite` | the admin's handlers |
| `Authenticate`, `SetJellyfinAdminToken` | `HandleLogin`: a token of the server in force, and its save |

Both POSTs to Jellyfin use the request's context. Whenever the caller of one
goes away without an answer (the call fails, the visitor hangs up, the process
is killed), `Abandon` may put the POST among those still to be carried out,
`lateUsers` and `latePolicies`: it may have been received, or not. From
there it takes effect at any later moment or never: an account if its name is
still free, a policy over whatever the account has by then. Late calls are
modelled for Jellyfin only. A PostgreSQL statement takes effect at latest when
its call returns or its connection is closed, so a failed one is one that took
effect or one that did not. And a message Discord shows late says the same as
one it shows at once, and no step reads it.

A Jellyfin server stands for its URL, an admin token for the server that issued
it, and an invite's URL token for its id (tokens are random and unique). A
server accepts `CreateUser` if the token is its own and the name is free; this
is an assumption about Jellyfin, marked external. `HandleInviteForm` reads the
row and changes nothing, so it has no action. The visitor's form is either
accepted or refused, whatever the reason. `logins` holds the tokens of the
sign-ins that have not saved theirs yet; any number of them may overlap, each
with a token of the server that was in force when it asked, and they save in
any order, so a token of an older URL may be stored last.

### InviteLedger

The handler without its steps. A slip is issued to a visitor while the invite is
valid; it is good for one account of that invite, and then for one use counted;
it may get lost at any time (`Pass`), which stands for every failure, hang-up
and restart. A slip lost before it made its account may leave an order for it,
which is carried out later, if the name is free, or dropped (`Settle`), and
never counted. A worker holds a slip from the lookup of a row that the
check will let through; `SlipOf` reads it off `pc` and the locals, and
`InviteRegistration` implements the ledger with
`slip <- [w \in Workers |-> SlipOf(w)]` and `orders <- lateUsers`.

### RateLimiter and FixedWindow

The handler's critical section reads the clock twice when it opens a window, so
that case is two steps (`FindStale`, `Renew`) with the mutex `mu` held between
them; the others read it once and are one step (`Handle`, `Sweep`). `ClientIP`
is `clientIP`: the forwarded address behind a proxy if it parses, the peer's
otherwise; whatever it returns is one address of `IPs`. The cleanup may run at
any moment, more often than its ticker, so nothing depends on when it does.
`FixedWindow` has neither map entries that outlive their window nor a mutex: a
window vanishes the moment it is over. `RateLimiter` implements it with
`window <- [ip |-> IF Over(buckets[ip]) THEN None ELSE buckets[ip]]`.

### AdminSessions

A browser has several tabs and one cookie jar. `OpenPage` renders a page, which
sets the CSRF cookie (`SetCSRFCookie`), so only the page loaded last matches it
(`lastPage`).
`Submit` freezes the cookies of that moment in the request. `Authenticate`,
`SetJellyfinAdminToken`, `CreateSession` and `SetCookie` are `HandleLogin` and
`Manager.Create` call by call; `RequireSession` admits to `Act` (the other
forms; what they change is in other modules) or to `Delete`, which is
`HandleLogout` with `Manager.Delete`. Each of the three statements (the token's
upsert, the session's `INSERT`, its `DELETE`) may fail or lose its answer after
it took effect. Session tokens are random; each is generated once.

### SessionLife

A session without browsers, cookies, forms or handlers: it is opened once or
never, lives until it expires, and lets requests in while it lives. Only a
request it let in ends it earlier, and such a request may do so late, after the
session has expired or another one has ended it. `AdminSessions` implements it with
`Slots <- Clients`, `expires <- sessions` and
`inside <- [c \in Clients |-> InsideOf(c)]`, the session a request is past
`RequireSession` on. So a handler that trusts the middleware relies on this
module and not on anything a tab can do to the cookies.

### Settings

`HandleSettingsForm` is two reads, `HandleSettingsSubmit` two upserts,
`HandleSetupSubmit` one to three; each statement is a step that may fail, and an
upsert may also lose its answer. `Submit` is the validation that precedes the
writes. A tab may leave a form for another one, and fields may be typed over
again. A restart ends the requests under way and leaves the forms that browsers
show, which can be sent to the new process. Sessions and CSRF are left to
`AdminSessions`.

What the table should show is history: `intended` has the values each key may
show, `touched` the fields of a form that need not agree with it, typed or left
blank by a failed read. `Begin` adds to `intended` what a save is to store; a
save that succeeds leaves that value alone, one that fails leaves both. Two
forms open at once can overwrite each other by design of the pages, so the
history ends there (`crowded`).

`RequireSetup` and `HandleTutorial` are the two reads of the Jellyfin URL made
for a visitor of the tutorial, with the wizard's writes in between.

### Startup

A process is down until Docker starts it, opens the database (`Open`), takes the
advisory lock (`Lock`), reads the version (`ReadVersion`), applies what is
missing by three statements each (`Mark`, `Run`, `Clear`), gives the lock back
and listens. An error, a crash and a kill are one action, `Interrupt`: the
statement it hits has taken effect or not, the process is down and the session's
lock is free. `Known` is the last migration embedded in each process's image.
golang-migrate is not part of the repository; the lock, the dirty flag and the
order of its statements are what `Migrate` relies on, and are marked external.

### SchemaUpgrade

Start-up without lock, flag or statements: the schema moves up by one whole
migration at a time, a process gets to serve at a moment when the schema is its
own, and an upgrade that is cut short leaves the schema before or after that
migration with nothing but stopping to follow. `Startup` implements it with
`schema <- Schema`, `broken <- Broken`, `serving <- Ready`. `Schema` is the version in
the table, minus one while a migration is marked and has not run.

## The runs

All runs explore their instance completely, except that those expected to find
a violation stop at it. Every bound is a constant in the `.cfg`.

| Run | Instance | Question | States |
|---|---|---|---|
| `registration` | 2 workers, 1 invite (unlimited or one use, one library listed), 3 names, 1 server, 1 fault | books, overshoot, accounts lost to the count, scope and messages under any one failure, hang-up or restart and POSTs carried out late; how many messages may carry one number; is closed final, for any name; refinement of `InviteLedger` | 731,066 |
| `servers` | 1 worker, 2 invites of different libraries, 2 names, 2 servers, 1 fault | does moving the URL or the token under a request, or a policy that takes effect late, ever mix scopes | 2,093,710 |
| `lifecycle` | 2 workers, 1 invite with every kind of `max_uses` and expiry, 1 name, clock 0..1, 1 fault | does the dashboard agree with the gate; is closing by revocation or expiry final; is every request answered, does a revocation take hold, does a hang-up free the worker; refinement of `InviteLedger` as time passes | 130,684 |
| `limiter` | 2 addresses, limit 1, window 1, clock 0..4, 1 restart | bursts, refusals, refinement of `FixedWindow`, cleanup | 497,988 |
| `sessions` | 1 browser with 2 tabs, 3 tokens, lifetime 1, clock 0..2, 1 fault | order of sign-in, finality of expiry and sign-out; refinement of `SessionLife` | 135,526 |
| `settings` | 2 editors, 1 visitor, 2 URLs, 2 faults | permanence of the setup, exactness of edits and of failed saves, visitors on the way | 828,669 |
| `startup` | 3 processes (an image with 2 migrations, two with 3), 2 faults | order and completeness of migrations, what a serving process can rely on, finality of an interrupted one, coming up; refinement of `SchemaUpgrade` (which admits a process only on the schema of its own image) | 3,525 |
| `quota_race` | 2 workers, a one-use invite, no faults | *violated*: `QuotaRespected` |  |
| `empty_list` | 1 worker, an invite with no library or one, no faults | *violated*: `OnlyListed` |  |
| `notice_race` | 2 workers, an unlimited invite, no faults | *violated*: `NoticeNumbersDistinct` |  |
| `hourly_limit` | 1 address, limit 2, window 2 | *violated*: `HourlyLimit` |  |
| `logout` | 1 tab, 1 fault | *violated*: `AlwaysLogOut` |  |

Why these bounds are enough to be interesting. Two workers make every race
between two requests; a third only adds to the overshoot, which is proved for
any number. Three names let a slot be used again after a race, so that the
count passes the limit. One fault reaches every single point of failure of a
request, and a restart at every point. The invite with `max_uses` 0 is the
unlimited one, so the registration run has both kinds. In `lifecycle`, time 0 is
the instant of expiry and 1 is after it. Its one name, once taken, would keep a
closed invite from making accounts whatever the code does; that a closed invite
makes none although names are free is asked in `registration`, with three names
and a one-use invite that is used up or revoked, and that no `lateUsers` are
left is part of being closed in both. In `servers` one worker is enough, since
requests on different names touch no account but their own: what can send a
policy astray is the settings that move and a POST of a request that is gone, and
both happen around one request, then a second on the other invite. With limit 1 and window 1 the limiter's
clock passes four windows, enough for a burst across a boundary with a sweep or
a restart in between. In `sessions`, three tokens allow a session of each tab
and one that replaces them, and the clock goes past the expiry of the first
two. Two editors with two URLs can overwrite each other's values, and two faults
let a failed read meet a failed save, or two saves in a row fail. In `startup`,
three migrations leave one that only the new image knows and one in the middle;
two of its processes compete for it, and two faults interrupt a migration and
then the start after it. Safety beyond these sizes is what the proofs are for.

### What the violated runs show

- **`quota_race`.** README.md and `domain/invite.go` speak of one-time
  invites. `HandleInviteSubmit` checks the count on a row it read before the
  Jellyfin calls, and increments afterwards without a condition. Two visitors
  who submit together both get an account. The excess is at most the number of
  requests at once minus one, not counting accounts that a failure kept out of
  the count (`OvershootBounded`, proved), and each failure loses at most one of
  those, a restart one per request (`LossBounded`, proved). Requests that come one
  at a time and meet no failure respect the quota (`QuotaHoldsAlone`).
- **`empty_list`.** The comment of `SetLibraryAccess` says "Only the listed
  libraryIDs will be enabled; all others are blocked" (`client.go:129-130`). For
  an empty list the code enables all of them, and
  `TestSetLibraryAccess_EmptyListEnablesAll` wants it to. An admin who ticks no
  library, or whose page failed to load any (`admin.go:174`), makes an invite
  that opens everything. `ScopeIsolation` and `ScopeApplied` take no side: for
  an empty list they accept all libraries and none (`Promised`), and for any
  other exactly the ones listed.
- **`notice_race`.** A comment says that `inv.UseCount++` gives the notification
  the correct count. It increments the copy read at the start: two concurrent
  registrations are announced with the same number. Without failures at most as
  many messages carry a number as there are requests at once (`NumbersShared`,
  proved), so that the numbers are distinct when requests come one at a time
  (`NumbersDistinctAlone`).
- **`hourly_limit`.** `main.go` says 10 requests an hour per address. The windows
  are fixed, so up to 20 fit in one hour across a boundary, and no more
  (`BurstBounded`, proved).
- **`logout`.** A comment in `HandleLogout` says "always log out". When the
  `DELETE` fails the error is dropped and the cookie is not cleared: the browser
  is sent to the login form with a session that still works.

Other things met while modelling, which contradict no document precisely enough
for a run: `InviteCreated` has no caller, which the README lists as a known issue;
`Purge` has no caller; a setting that could not be read is shown blank and saved
back blank (the one exception `OneAtATime` allows); an
interrupted migration keeps every later start from serving (`BrokenForGood`), so
that `restart: unless-stopped` restarts for ever.

## Fairness

Five properties need any.

- `HangUpReleases` (`LiveSpec` of registration): `WF(Prompt(w))` for each worker.
  A goroutine that can run does, and the database answers; a call to Jellyfin
  ends once its context is cancelled. Jellyfin and Discord may be silent: their
  clients have no timeout, and the Discord send has no context either, which is
  why the property excepts it.
- `Answered`, `RevocationTakesHold` add an assumption of their own, `PeersAnswer`:
  `WF(Work(w))`, every call to Jellyfin and Discord too ends, with a result or
  an error, and `WF(LateUser(a))`, Jellyfin deals in the end with what it has
  received: without it an invite with a POST still on the way would never count as
  closed. Nothing is assumed of visitors, admins, hang-ups or restarts. A
  handler has no loop, so weak fairness of its steps is enough.
- `Forgotten` (`LiveSpec` of the limiter): `WF(Renew)`, since the holder of the
  mutex runs on, and `SF(Sweep)`, since the cleanup competes for a mutex that is
  free again and again, and `sync.Mutex` hands itself to a starving waiter.

- `ComesUp` (`LiveSpec` of start-up): `WF(Start)`, the restart policy of
  `compose.yaml`; `WF(Step)`, each call ends; `SF(Lock)`, since the lock is free
  and taken again and again and PostgreSQL queues those who wait for it.

`AdminSessions` and `Settings` are checked without fairness.

## The proofs

All are about the same modules and specifications the runs check, for every
value of the constants that satisfies the `ASSUME` of the module: any numbers
of workers (finite), invites, names, servers, addresses, browsers, tabs, tokens,
editors, visitors, processes and migrations, any limit and window, and any
bounds on clock and faults.

**InviteProofs**: `TypeCorrect` and `StatusCorrect`. The inductive invariant adds
`Locals`: the snapshot a worker holds differs from the row only in ways that
close an invite (`SnapshotOf`), and beyond the check it was open (`Admits`).
Without this, typing of later steps and everything about closing would not be
inductive, for the row may have changed since it was read.

**InviteLedgerProofs**: `LedgerBalanced`, `AccountsOwned`, `QuotaOvershoot`,
`LossIsBounded`, `QuotaWithLoss`, `QuotaHoldsAlone`. The ledger
needs that the account a worker has in hand is nobody else's, which holds
because Jellyfin refuses a taken name; so the increment adds an element to the
set of counted accounts. The overshoot is made inductive by adding, to the uses
counted, the workers whose snapshot lets them through (`Admitted`): the sum
never passes `max_uses` plus the workers minus one, because a newcomer is
admitted only on a row with uses left, and counting moves one from the second
term to the first. `LossInv` bounds the accounts nobody will count. It adds to
them the POSTs still on the way (`Astray` is `Lost` with `lateUsers`), whose accounts
will not be counted either, and the workers whose client has hung up before the
count (`Doomed`): their failure has happened, their account is not lost yet, and
they may still lose it without another failure. `QuotaWithLoss` puts the two together: all accounts ever made through an
invite of limit *m* by *W* workers under *f* failures number at most
*m + W - 1 + fW*; with one worker and no failure that is *m*.

**InviteRefinementProofs**: `RegistrationImplementsLedger`. Most steps keep a
worker's slip or lose it, which is the ledger's `Pass`; the POSTs that failed
calls and restarts leave behind are the orders of the slips they lose
(`LeavingIsPass`), and `LateUser` is `Settle`. Four steps do more. A lookup
issues a slip only if the row read is valid now (otherwise there is none to
issue); `CreateUser` makes the account and keeps the slip, or loses it with the
reply and leaves an order; `IncrementUse` counts an account that the invariant of
**InviteLedgerProofs** knows to be the worker's own and not counted; a tick may
close snapshots not checked yet, which loses their slips all at once.

**InviteSafetyProofs**: `ClosedStaysClosed`, from `Locals` (rows only close, and a
drained invite has nobody with an open snapshot and nothing of it left at
Jellyfin; a restart or a hang-up adds no POST of it, for a POST is left behind by
a worker past the check). Closed means all of that: an account may well be made
after a revocation, by a request or a POST that was on the way, and the theorem
says that this is the only source. `ScopeIsolated`, from an
invariant (`ScopeInv`) that also covers names nobody has yet and policies still
on the way (`FreeNamesDefault`, `AccountsScoped`, `LateScoped`), which survives
changes of URL and token because a policy is only accepted by the server that
made the account, and which says of each policy that it is the one its account's
invite means (`Meant`); `MeantShows` turns that into what the account sees; `ScopeIsApplied`, from `ScopedInv`, which follows the policy
from its post to the count (with one server the address it goes to, once set, is
the one that made the account);
`BooksAreComplete` and `NoticesAreBacked`, by following an account through the
program counters of the worker that made it; `NumbersSharedByFew` and
`NumbersDistinctAlone`, from `NumbersInv`: the messages that carry a number, with
the workers whose snapshot would make them send it (`Holders`), are never more than
there are workers. Sending moves a worker from the second to the first, and nobody
joins once there is a message, because by then the row has reached the number
(`NoticesAreBacked`) and snapshots are read from the row.

**RateLimiterProofs**: `LimiterTyped`, `BurstAtMostDouble`, `RefusalsAreJustified`,
`LimiterImplementsWindows`. The passes of an address are numbered within their
window, and the ends of two different windows of one process are more than
`Window` apart (`Apart`, which needs `Remembered`, what the map knows of past
windows); so a span of one window meets at most two of them, and each
contributes at most `Limit` numbers. For refusals, `Numbered` says that every
number up to a bucket's count was given to a request that passed. The refinement is proved step by step: a
sweep and a first clock read are stutters, a renewal is the request that opens a
window even when time passed between the reads, and a tick past the end of a
window closes it.

**SessionProofs**: `SessionsTyped`, `SessionsFollowToken`, `SessionsEndForGood`,
`SignOutCompletes`, `SessionsImplementLife`. The fourth needs that a session has one owner: it is held, in a
cookie or in a request, by one browser only, and a session about to be set as a
cookie by its sign-in alone. Otherwise clearing one browser's cookie could leave
another with the token, or a late cookie could bring a session back. The
refinement goes by the change of `InsideOf`: a step moves one request (`OneMoves`)
and most are a stutter; `RequireSession` is the only way in, and it reads the
row; a handler's end and its `DELETE`, whether it succeeds, fails or loses its
answer, is the abstract `Go`.

**SettingsProofs**: `SettingsTyped`, `StaysConfigured`, `EditsAreExact`,
`VisitorsFindJellyfin`. The invariant behind the third: until two forms are open
at once, every key shows an allowed value, at most one editor has a form open,
and the fields of the settings page outside `touched` show what the table does
(those of the wizard are blank); while a save runs, what it is still to write is
allowed already, and what it has written is in the table, so that success may
withdraw the old values. The last theorem follows because whoever is inside was
let in on a stored URL (`LetIn`), and that stays.

**StartupProofs**: `StartupTyped`, `ServesOnlyMigrated`, `MigrationsOnceInOrder`,
`InterruptedForGood`, `StartupImplementsUpgrade`. The invariant says that only the holder of the lock is
between reading the version and giving the lock back (`Exclusive`), and what it
knows meanwhile of version, flag and schema (`AtMigration`); without the first
two processes could apply a migration each on what they both read. It also says
that the version is the image's own when the lock is given back, which is what
the refinement needs when `Unlock` admits a process. There, `Mark` and `Clear`
leave the abstract schema where it is, `Run` moves it, and an `Interrupt` is a
`Break` when it leaves the flag up, whether or not the statement it hit took
effect, and otherwise a process that leaves or nothing at all.

Model-checked only: the liveness properties `Answered`, `RevocationTakesHold`,
`HangUpReleases`, `Forgotten` and `ComesUp` (outside the prover's reach) and the
violated properties, by nature.

## Not modelled

- The health endpoint, security headers, templates and scripts keep no state.
  The password rules are one outcome of `CheckInvite`.
- `List`, `ListLibraries`, `HandleInviteForm` and the flash messages change nothing.
- Handlers of several processes at once (a rolling deploy) are not modelled, only
  their start-up; `compose.yaml` runs one. The database steps would interleave
  as those of workers do, and the limiter's map would be one for each process.
- `InviteCreated` and `Purge` have no caller. So no property covers the growth of
  the table `sessions`.
- A CSRF cookie replaced by a later page makes an earlier form fail
  (`AdminSessions` has that behaviour); whether that is right is a matter of
  taste, and no property judges it.
- An admin page without its libraries shows as an admin who ticks none; nothing
  in the code tells the two apart, so no property can. What such an invite opens
  is the run `empty_list`.
- Time zones: `expires_at` is an instant here.
- Randomness: tokens and ids never collide.

## Plan

Done: the modules in the order of the table above, each with its runs and
proofs. What could follow:

1. A composition of `AdminSessions` with the admin's writes to `invites` and
   `settings`: what a request admitted before a sign-out may still change.
2. The invite form's two stages (GET, then POST) with the limiter in front, to
   relate the rate limit to the number of accounts made.
3. Two forms open at once in `Settings`: which mixtures of them the table can
   show.

## Running

    tlc -workers 2 -config MCRegistration.cfg MCInviteRegistration
    tlapm SessionProofs.tla

`PROJECT.json` names the module and configuration of each run. The longest takes
one to two minutes, and the whole set of proofs several.
