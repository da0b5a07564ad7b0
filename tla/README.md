# The WordPress manager operator: specifications and proofs

TLA+ modules for the WordPress manager: a Kubernetes operator (Go), an admin API
(Go), a web console (TypeScript) and one shared MySQL server. TLC checks the
modules on small instances, TLAPS proves the most important properties for all
values of the constants.

- [The system](#the-system)
- [What is hard about it](#what-is-hard-about-it)
- [Modules](#modules)
- [Runs](#runs)
- [Where code and documentation part](#where-code-and-documentation-part)
- [Proofs](#proofs)
- [Abstractions](#abstractions)
- [What is not modelled](#what-is-not-modelled)
- [Plan](#plan)

## The system

| Part | Code | State it keeps | Operations |
| --- | --- | --- | --- |
| Site controller | `internal/controller` | none of its own; it reads the informer cache and writes the API server and MySQL | `Reconcile`, `reconcileDelete`, `ensureSecret`, `reconcileWorkload`, `apply`, `setPhase`, `fail` |
| MySQL provisioner | `internal/mysql` | schemas, accounts and grants on the shared server | `EnsureDatabase`, `DropDatabase` |
| Resource builders | `internal/resources` | none (pure functions of the site) | `Desired…` for Secret, ConfigMap, Deployment, Service, Ingress |
| Names | `internal/resources/names.go` | none | `DatabaseName`, `DatabaseUser`, … |
| postStart hook | `internal/resources/deployment.go:27-44` | `wp-config.php` and a temporary file on the shared volume | wait, grep, sed, mv, in every replica |
| Site handlers | `internal/apiserver/handlers.go` | none; they read a site, change the copy and send it back | create, update (form), update (YAML), suspend, resume, delete, and the reads |
| Second factor, login | `internal/apiserver/twofa.go`, `server.go` | one Secret with the active and the pending TOTP key | `Setup`, `Enable`, `Disable`, `Enabled`, `Validate`, `login` |
| Tokens, middleware | `internal/apiserver/auth.go` | none (a token carries its expiry) | verify a password, issue and parse a JWT |
| Diagnostics, metrics | `internal/apiserver/status.go`, `internal/metrics` | none | reads |
| Dev mode | `internal/sqlite`, `cmd/apiserver` | an in-memory cluster, one SQLite file a site | `Reconcile` from the handlers |
| Processes | `cmd/operator`, `cmd/apiserver` | leader election lease | start, stop |
| Web console | `ui/src` | what each page shows, a token | pages for list, detail, create, security, login |

How they meet: the console calls the handlers; the handlers and the controller
write the same `WordPressSite` object, which carries a resourceVersion; the
informers bring versions of it to the controller later, and the work queue runs
one `Reconcile` at a time for a name; the controller calls MySQL; the garbage
collector removes what a deleted site owned; the pods mount one shared volume.

What makes each part correct:

- *Controller*: data on the MySQL server is created only under a held finalizer
  and destroyed only for a site somebody deleted; a site is let go only when its
  data is gone (with `DROP_DATA_ON_DELETE`); a password in use is not replaced;
  what the status says is so; every error comes back; the work ends.
- *Provisioner, names*: what is done for one site leaves the others alone, and its
  account opens its own schema only.
- *Handlers, console*: an edit applies to the site as it is or not at all, and
  changes only what it says.
- *Second factor*: racing requests amount to some order of whole requests, and
  the admin always has the key that logins ask for.
- *Hook*: the line is never in `wp-config.php` twice, and a file that a hook has
  found whole stays whole and gets it.
- *Dev mode*: whatever overlapping requests leave behind, the next one by itself
  puts it right.
- *Sessions*: a login is not lost without need, a dead one ends at the login page,
  and the list page shows the sites as they are.

## What is hard about it

- The controller decides on what its cache says. The site it sees may have been
  edited, deleted, or deleted and created again under the same name.
- A call may succeed and its answer be lost; the controller may die between any
  two calls; MySQL keeps half of what a failed call did.
- The Secret is kept, collected and created by three parties.
- The operator watches what it writes, so it could keep itself busy for ever.
- Handlers and the 2FA endpoints read, decide, and write later.
- A page of the console loads while its saves are out; loads overlap and may fail.
- Two sites meet in the MySQL server through names derived from theirs, which the
  server reads as patterns in a GRANT.
- Replicas of a site run their hook on the same files at the same time, and the
  image's entrypoint fills `wp-config.php` while the hook looks for it.
- In the dev mode two requests reconcile one site at once, and nothing retries.
- Tabs share one stored token, and their calls are answered late and out of order.

`PROJECT.json` lists the hazards one by one, each at its line with the
properties that cover it or the reason why none does.

## Modules

| Module | Models | Builds on |
| --- | --- | --- |
| `DataCustody` | abstract: the promise about the data of one site | |
| `MySQLProvisioner` | the server as a value, `EnsureDatabase` and `DropDatabase` as statement sequences that stop anywhere | |
| `Resources` | the objects built for a site, up to what they copy from its spec | |
| `SiteLifecycle` | one site name: API server, informers, controller, garbage collector, MySQL | `MySQLProvisioner`, `Resources`; refines `DataCustody` and `Tenancy` |
| `DevMode` | one site in the dev mode: handlers that reconcile, fake client, SQLite | `Resources` |
| `Tenancy` | many sites on one server | `MySQLProvisioner`; refines `DataCustody` for every site |
| `Naming` | `sanitize`, `truncate`, the default schema and account names | |
| `Console` | pages and handlers, one site, several windows | |
| `Sessions` | the tabs of one browser: token, routes, interceptors, the polling list | |
| `TwoFactor` | abstract: the second factor with atomic requests | |
| `KubeTwoFA` | the second factor on a Secret: load, decide, save; login | refines `TwoFactor` |
| `ForwardedProto` | the postStart hook and the entrypoint beside it, command by command | |
| `…MC` | instances for TLC | |
| `…Proofs` | theorems | |

### SiteLifecycle

One action for each call that leaves the process: `pc` names the call the worker
makes next, `local` is the `site` variable of `Reconcile`, `cred` the password
`ensureSecret` returned.

| Action | Code |
| --- | --- |
| `createSite`, `updateSite`, `updateSiteYAML`, `setSuspend`, `deleteSite` | the write of the handler (Console has the read before it) |
| `DeliverSite`, `DeliverSecret` | an informer delivers a version, or a later one, and enqueues the site |
| `Reconcile` | from the queue to the first call: cache lookup, deletion branch, finalizer check |
| `addFinalizer` | `wordpresssite_controller.go:81-85` |
| `ensureSecret` | 149-179: keep the password of the cached Secret, or draw one and Create or Update |
| `ProvisionDatabase` | 103-112 |
| `apply(k)` | 186-212 for each of the four objects, in the order of `reconcileWorkload` |
| `setPhase` | 237-257: the status update that ends a reconcile, its error returned or not as in the code |
| `DropData`, `removeFinalizer` | 214-235 |
| `CollectSecret`, `CollectObject`, `TamperSecret`, `TamperObject`, `WakeUp`, `Crash` | the cluster around it |

A call ends in one of three ways: `ok`, `refused` (not executed), `lost`
(executed, but the caller sees an error). An Update is refused as well when the
resourceVersion or uid is not current. `Crash` is a restart of the operator or a
change of leader: queue and worker are lost, the new cache is current and
everything is enqueued.

`Refused` holds the specs with a name that `validateIdent` does not accept:
`EnsureDatabase` and `DropDatabase` fail on them before the first statement.

### DevMode

There is no operator. Each handler runs `Reconcile` before it answers
(`maybeReconcile`), so a request goes through the handler's steps, those of the
controller on the fake client, and the handler's last `Get`. `req[r]` holds
where it is, the handler's copy of the site, the one `Reconcile` works on, and
what `apply` has read. Two requests interleave at every call. The fake client
starts resourceVersions at 1 with each `Create` and collects no garbage.
`Restart` forgets the cluster and keeps the SQLite file. `alone` is history: no
other request ran and no call failed during this one.

### MySQLProvisioner, Tenancy and Naming

The server holds schemas, accounts and grants. A grant is an account and the name
it was granted on, which MySQL reads as a pattern: `Covers` has the schemas a grant
on a name opens, `Opens` those an account opens. `Naming!Matches` is that reading
(`_` is any character), and `TenancyMC` makes `Covers` of it.


`Tenancy` has `custody[s]`, the password in the Secret of `s`, and the server.
`Provision` and `Purge` stop after any statement. That the controller does this
and nothing else for one site is the property `IsTenant` of `SiteLifecycle`; that each
site keeps `DataCustody` among the others is `SitesKeepCustody`. `Release` asks that nothing
of the site is left on the server; the code has only the success of `DropDatabase`,
and `IsTenant` shows that it comes to the same. `Naming`
computes the names; `TenancyMC` feeds them to `Tenancy` with the limits shrunk
to 4 and 3 characters (64 and 32 less the prefix in the code).

### Console

A page may have a load and a request out for each of its buttons. `load` shows the
spinner and asks for the site (`getSite`), whose answer or error arrives later
(`setSite`, `catch`), then for the YAML from a later state (`getSiteYAML`); both
fail now and then although the site is there. `saveForm`, `save` and `toggleSuspend`
send a request and load when it is answered; `Reload` is a button that loads without
one, also while saves are out; `onDelete` and `onSave` belong to the list. A handler
fetches the site and updates it in two steps, with other windows and the operator's
`Claim`, `WriteStatus` and `Release` in between. `shown` is the DTO on the page. `saved`,
the version the page was last told it saved, and `last`, what became of the load it
began last, are history.

### Sessions

`stored` is the token in `localStorage`, which all tabs share. `calls[t]` are the
calls of a tab that are out, each with the token it left with, whether its page
has been left since, and its answer. `refresh` is the list page's poll, `Ask`
any call of another page, `Serve` the middleware with the handler behind it.
`ReceiveList`, `ReceiveUnauthorized` and `ReceiveError` are what the page and the
interceptor do with an answer. `Navigate`, `Logout` and `Login` change the page
through the router and leave the calls out; `Open` and `Load` load a page, and the
browser drops them. `holder` is history: the tab that stored the token.

### KubeTwoFA

`req[r]` is a request between its load and its save, with the version it loaded.
`save` is `Create` or `Update` with that resourceVersion. A login loads the
Secret in `Enabled` and again in `Validate`. `known` are the keys an
authenticator has scanned, `sessions` how sessions were opened.

### ForwardedProto

The folder maps two names to inodes, because the redirection, `sed` and `mv` act
on what a name meant when it was opened. `Start` and `Kill` are the pods.

| Action | Code |
| --- | --- |
| `Wait`, `Grep`, `OpenTemp`, `Sed`, `Move` | `deployment.go:42-45`, a command each; the redirection is a step of its own |
| `Look`, `OpenConfig`, `Begin`, `Finish` | the image's entrypoint: it looks whether the file is missing or empty, redirects into it, which makes or empties it, and writes it in two parts |

Writes go to the inode that was opened, whatever has been moved to its name
since. `found` is history: whether each hook found the file whole, with no entrypoint
at work, when it stopped waiting.

## Runs

| Run | Question | Instance |
| --- | --- | --- |
| `recreate` | does the data of a site follow its life? `TypeOK`, `NoOrphanData`, `CustodyInv`, `DropsOnlyDoomedData`, `KeepsCustody`, `IsTenant`, `SettledIsDone` | two lives of a name, one failed or lost call, one crash, data dropped on deletion |
| `edits` | is the status true, is the work done when the queue is empty, whose password counts? `ReadyAccurate`, `SettledIsDone`, `ConfigMapFirst`, `PasswordKept` | one edit out of two specs with schemas of their own and suspend, one fault, one spurious event, the Secret blanked or an object deleted by hand |
| `liveness` | does it come to rest, do deletions end? `EventuallySettled`, `DeletionCompletes`, `ReadyAccurate`, `SettledIsDone` | one life, two edits, one of two specs refused by `validateIdent`, one fault, data dropped on deletion |
| `isolation` | do sites leave each other alone? `TypeOK`, `Isolated`, `NoOrphans`, `OthersUntouched`, `SitesKeepCustody` | two sites of whose names no GRANT for one covers the other, two lives each, three passwords |
| `console` | do edits race? `TypeOK`, `EditsAreAtomic`, `SavedIsShown` | two windows with a reload button each, two creations, two edits or reloads, one status write, one lost answer or failed load |
| `twofactor` | do 2FA requests race? `TypeOK`, `NoLockout`, `TwoFAInv`, `RequestsAreAtomic` | three requests at a time, two keys, the Secret deleted once |
| `restarts` | does the hook survive restarts? `TypeOK`, `ConfigKept`, `InsertedOnce`, `InsertedAtEnd` | one replica, four starts, killed anywhere in the hook or the entrypoint |
| `devmode` | is the mock cluster put right? `TypeOK`, `AloneConverges`, `AnswerShowsResult` | two requests at a time, three in all, two specs, one failing `EnsureDatabase`, one restart |
| `sessions` | what becomes of a login and of the list? `TypeOK`, `OnlyLateAnswersLogOut`, `BouncedToLogin`, `ListCatchesUp` | two tabs, two calls each at a time, two logins, one change of the sites, one move of the user |

Each run ends with no error over its whole state space (from 8763 to 7.7 million
states). Every property is broken by some mutant of the code that `PROJECT.json`
lists: the operators marked *Broken* in the modules, each next to the definition
it spoils.

Why the bounds are enough. *Two lives* of a name give a stale version of the
first life something to harm in the second; a third one adds another predecessor
of the same kind. *One fault* is enough for a call to be lost at each point of
`Reconcile`; after it the key comes back with a fresh read. *One edit* beside the
creation arrives during the reconcile of the version before, *two* make a spec
good, refused and good again. *Two windows* and *three requests* are
what a lost update and a third party between two others need. *Two edits or reloads*
in `console` are two saves that race, or a save answered while a reload of the page is
out. *Two specs with
different schemas* in `edits` make an edit rename the schema. `MaxReplicas` 1 has
both the 0 that the form takes for "not given" and a number that counts. *Four
starts* let a killed hook be followed by one that finishes, twice. *Three
requests* in `devmode` are two that collide and one that comes after. *Two calls*
of a tab are answered out of order, *two logins* make one token old.
Deadlock is not checked: when the bounds are used up and nothing is left to do,
the system rests.

Fairness in `SiteLifecycle` (`FairSpec`, run `liveness`). Weak fairness for the worker, the two
informers and the garbage collector, nothing else: controller-runtime keeps
taking keys from the queue (`Requeue` stands for the rate limiter and for
`RequeueAfter`, both of which end), watches are re-established, and the garbage
collector is part of the cluster. Users, faults, crashes and tampering are not
fair, so they may stop at any time; they are bounded, and with a cluster that
fails for ever nothing could be promised. A site whose spec is refused is
provisioned again for ever, and with `DROP_DATA_ON_DELETE` it stays while it is
being deleted: `EventuallySettled` and `DeletionCompletes` except it, and only it.

Fairness in `Sessions` (`FairSpec`, run `sessions`). Weak fairness for the timer of the
list page (`refresh`), for the apiserver (`Serve`), for answers (`Receive`) and for
the browser that loads the page it is sent to (`Load`). Calls may fail, and users
log out, follow links and reload; these share one bound, since a user who
reloads for ever drops every answer.

## Where code and documentation part

Three runs end in a violation, each of one property that states a sentence of
the repository.

- `rotation`, `LiveCredentialKept`. The Secret of a site and the README say
  that a password in use is kept. `ensureSecret` compares `Data` only: a site
  that is created again before the Secret of its predecessor is collected goes
  on with that Secret, without becoming its owner, and turns Ready. Then the
  garbage collector takes the Secret, and the next reconcile draws a new password
  under the running pods.
- `wildcard`, `ScopedToOne`. "grants it privileges scoped to ONLY that database"
  (`provisioner.go:53-54`), and the README that a site that is broken into cannot reach
  the database of another. `EnsureDatabase` sends the name unescaped, `sanitize` has
  put `_` for the hyphen, and GRANT reads `_` as any character: the account of `a-b`
  has all privileges on the schema of `axb`. (The run has `a-b` and `acb`.)
- `replicas`, `ConfigKept`. ">1 is supported": two hooks share
  `wp-config.php.wpmgr`. One that opens it between another's `sed` and `mv` makes
  that `mv` put an empty file in place. Two hooks that both find no marker also
  insert the line twice (`InsertedOnce` fails with two replicas).

More follow from the models and have no run:

- "A dedicated database and a dedicated, least-privilege user are created for
  every site." `DatabaseUser` keeps 28 characters of the site name, so two sites may
  have one account: with `UserLimit` 2 in the run `isolation`, `Dedicated` fails.
  `sanitize` maps `-` and `.` to `_`, so `a-b` and `a.b` share both schema and account.
- The hook "waits for the WordPress entrypoint to generate wp-config.php"
  (`deployment.go:33-34`). It waits with `[ -f ]`, which holds as soon as the entrypoint
  has redirected its output. The hook then reads an empty file or the beginning of one,
  and moves what `sed` made of it over `wp-config.php`; the entrypoint writes the rest to
  the file that was moved away. Half a file stays for good, because the entrypoint
  generates only what is missing or empty. Without `found = "whole"`, `ConfigKept` and
  `InsertedAtEnd` fail with one replica that is started once.
- A suspended site is reconciled except for its Secret and database, although
  `spec.suspend` "stops reconciliation"; the suspended path does not set
  `status.observedGeneration`, "the .metadata.generation last reconciled".
- The finalizer drops the schema that the spec names at deletion, not those it
  named before (hence the premise `OneDatabase` below).
- A site with a name that `validateIdent` refuses passes the CRD, is provisioned
  in vain for ever and, with `DROP_DATA_ON_DELETE`, cannot be deleted.
- "preserving fields not modelled by the DTO" (`handlers.go:248-249`): `updateSite`
  assigns a new `TLSSpec` and loses `spec.tls.secretName` (`Edited` in `Console`).
- The dev mode "converges immediately" (`server.go:32-33`) and reconciles "so the
  delete completes" (`handlers.go:156`). Of two overlapping requests one may
  meet a conflict, whose error is dropped: the workload stays stale or the site
  being deleted stays there until another request comes. Without `alone`,
  `AloneConverges` fails.
- A page that was told that its save succeeded may go on showing the version before:
  when a reload that was out is answered after the load that followed the save, or
  when that load fails. `SavedIsShown` says that these are the only ways.
- A 401 that comes late clears the token of a login made since, because the
  interceptor does not look at the token the call carried. `OnlyLateAnswersLogOut`
  says that this is the only way to lose a login.

## Proofs

All theorems hold for every value of the constants that satisfies the named
assumptions: any number of creations, edits, faults, crashes, configurations,
sites, windows, tabs, requests and keys. The assumptions are on the constants:
bounds are naturals, default names map configurations to names, `NoConfig` and
`NoSpec` are no specs, there is at least one replica to ask for (`Console`), the
pods are finitely many. Premises of single theorems are in the table.

| Module | Theorem | Statement |
| --- | --- | --- |
| `CustodyProofs` | `TypeCorrect` | `Spec => []TypeOK` |
| | `CustodyInvariant` | `Spec => [](TypeOK /\ CustodyInv)` |
| | `NoOrphans` | `Spec => []NoOrphanData` |
| | `OnlyDoomedDataDropped` | `Spec => DropsOnlyDoomedData` |
| | `PasswordStays` | `Spec => PasswordKept` |
| | `CustodyKept` | `OneDatabase` gives `Spec => KeepsCustody`, the refinement of `DataCustody` |
| | `TenantKept` | `OneDatabase` gives `Spec => IsTenant`, the refinement of `Tenancy` for one site |
| `StatusProofs` | `StatusInvariant` | `Spec => [](TypeOK /\ CustodyInv /\ StatusInv)` |
| | `StatusIsTrue`, `NothingForgotten` | `Spec => []ReadyAccurate`, `Spec => []SettledIsDone` |
| | `MapsBeforePods` | `Spec => ConfigMapFirst` |
| `TenancyProofs` | `TypeCorrect` | `Spec => []TypeOK` |
| | `SitesIsolated` | `NamesDistinct` and `NamesApart` give `[]Isolated` |
| | `NothingLeftBehind`, `SitesIndependent` | `NamesDistinct` gives `[]NoOrphans`, `OthersUntouched` |
| | `EverySiteKept` | `NamesDistinct` gives `SitesKeepCustody`, the refinement of `DataCustody` site by site |
| | `PlainSitesDistinct`, `PlainSitesApart` | `PlainSites` gives `NamesDistinct`, and so `[]Dedicated`, `[]NoOrphans`, `OthersUntouched`, `SitesKeepCustody` |
| | `PlainSitesIsolated` | `PlainSites`, `GrantsAreMatched` and `NoWildcard` give `[]Isolated` |
| `TwoFAProofs` | `TwoFAInvariant`, `TypeCorrect`, `NeverLockedOut` | `Spec => [](TypeOK /\ TwoFAInv)`, `Spec => []TypeOK`, `Spec => []NoLockout` |
| | `RequestsImplementTwoFactor` | `Spec => RequestsAreAtomic`, the refinement of `TwoFactor` |
| `ConsoleProofs` | `TypeCorrect` | `Spec => []TypeOK` |
| | `SavedShown`, `EditsAtomic` | `Spec => []SavedIsShown`, `Spec => EditsAreAtomic` |
| `DevModeProofs` | `TypeCorrect` | `Spec => []TypeOK` |
| | `AloneIsEnough`, `AnswersAreTrue` | `Spec => []AloneConverges`, `Spec => []AnswerShowsResult` |
| `SessionsProofs` | `TypeCorrect`, `OnlyLateAnswers` | `Spec => []TypeOK`, `Spec => OnlyLateAnswersLogOut` |
| `ForwardedProtoProofs` | `ProtoInvariant` | `OneReplica` gives `Spec => [](TypeOK /\ ProtoInv)` |
| | `TypeCorrect`, `ConfigStaysWhole`, `NeverTwice`, `LineIsThere` | `OneReplica` gives `[]TypeOK`, `[]ConfigKept`, `[]InsertedOnce`, `[]InsertedAtEnd` |

*Custody.* `NoOrphanData` alone is not inductive: the worker may hold an old
version that says "held" when the site is gone. `CustodyInv` says why that does
not happen. `VersionsInOrder`: no version is ahead of the API server and one
that carries the current resourceVersion is the site itself; a version that is
held and not being deleted, however old, speaks of a site that is still there
and held, because only the worker takes the finalizer off, from a version that
is being deleted and that its cache has seen; deletion is final. `WorkerOnTrack`:
what the guards of `Reconcile` have established when a call is made.
`DataIsHeld`: while there is data the cache has caught up with the life of the
site and no `removeFinalizer` is on its way. The last part needs `OneDatabase`:
if two specs name different schemas the deletion drops one of them. The proof
has a lemma for each group of actions and each part; `ServerChanges` reduces
the parts about MySQL to the two actions that touch it.

*Second factor.* `TwoFAInv` again ties a loaded version with the current
resourceVersion to the Secret, and says what a request has checked before it
saves. The refinement takes effect at `save`, and at the read that decides for a
login.

*Tenancy.* `NoOrphans` is inductive given `TypeOK`, and so is what lies behind `Isolated`:
an account has rows of the grant table only for the schema of its site. Two lemmas
say what a partial `EnsureDatabase` and `DropDatabase` do to each schema, account and
grant. So a step for one site is one of its `DataCustody`, or invisible to it, and a
step for another is invisible (`SitesKeepCustody` has a conjunct for each site
because TLC cannot check a quantified specification). `NamesDistinct` is not a wish: `PlainSites` says that every site has a name
of letters, digits and hyphens, with a letter or digit at both ends and at most
`UserLimit` characters (28), and no names in its spec; then `Trim` takes nothing off,
`truncate` cuts nothing, and only `-` becomes `_`, so names that differ stay different.

What a row opens is another matter, and distinct names do not settle it. `NamesApart`
says that no GRANT for one site covers the schema of another; the run `wildcard` takes
it away. For plain names, read as MySQL reads them (`GrantsAreMatched`), it follows from
`NoWildcard`: of any two sites with names of one length each has, somewhere, a character
other than `-` where the other differs. `a-b` and `a-c` do, `a-b` and `axb` do not.
Nothing in the code sees to it, so `Isolated` is a statement about sites that happen to
have such names.

*One site of many.* `TenantKept` joins the two levels. A step of `SiteLifecycle` is a
step of `Tenancy`, given `CustodyInv` (to see `Claim`, `Doom` and `Release` in the
finalizer calls) and two more invariants. `PasswordsInvariant`: the passwords a worker
or a Secret may hold are among those drawn for the site, and one is drawn at most
once for each creation and each time somebody loses or blanks the Secret, which
bounds them by `MaxCreates + MaxTampers`. `GrantsInUse`: a grant is there only while its
account is, so a `DropDatabase` sent from a stale copy, when nothing of the site is on
the server, changes nothing. `OneDatabase` is needed as for `CustodyKept`: in `Tenancy` a site has one schema.

*Status.* `ReadyAccurate` is not inductive either: a stale version of the worker may
be applied over what the status calls ready. `StatusInv` says that it is never older
than the generation the status speaks of. `GensInOrder`: the generations of all
versions are in the order of their resourceVersions; `WorkloadOnTrack` and
`ServerOnTrack`: what the worker has applied and provisioned so far is what its copy
asks for; `WorkloadAsReported`, `ServerAsReported`: a status says what is there. So
applying again changes nothing, and `ConfigMapFirst` follows from the same facts.
`SecretInOrder` is the ordering of the Secret's versions: an Update from a stale
cache carries a stale resourceVersion and is refused.

*Work queue.* `QueueInv`: what the informers have not delivered ends with what there
is; each step the worker has behind it is as it was done, or the key is in the queue
again. Every error path ends in `Requeue`, and the last status update leaves the
queue empty only if it changed nothing, since what it changes comes back as an event.

*Console.* A copy a handler has fetched with the current resourceVersion is the site
(`CopiesInOrder`), since every change takes the resourceVersion on; only such a copy
is accepted. `ShownInOrder`: what a page was told it saved is no later than the site, and the
answer to the load the page began last, on its way or shown, is `Recent`: that version
or a later one, or of a site that is gone. Each save that is answered begins such a
load, so whatever other loads are out, that one reads the site after the save.

*Sessions.* `RefusedAreDead`: a call that was refused carried a token that stays
dead; `LoginIsQuiet`: a login page has no calls of its own; `HolderSendsStored`: the
tab that stored the token sends no other, but for calls of pages it has left.

*Dev mode.* `AloneConverges` speaks of the end of a request; `AloneInv` says what holds
on the way. While a request is alone, its copy of the site is the site, since nobody
else writes; each step it has behind it left what the spec asks for; and its reads
since are of what is there, so none of its updates meets a conflict. What an earlier
request left behind does not matter, however stale: each object is read before it is
written and rewritten unless it is as desired. `AnswerShowsResult` follows from the
same copies.

*Hook.* With at most one replica and the strategy `Recreate` one hook is up at a time
(`OneUp`), with one entrypoint beside it. `FileInOrder`: `wp-config.php` is empty, the
beginning of a generated file or a whole one, never a mixture, and whole once a hook has
found it so. `EntryOnTrack`: the entrypoint opens a file that is empty and goes on in the
one it opened, which may have lost its name to one that is not whole. `HookOnTrack` has
what the hook relies on before each command; `Copied`, that what `sed` wrote is no more than
what it read, with the line in it. A kill leaves what the next hook can start from.
`NeverTwice` holds whatever the hook finds; `ConfigStaysWhole` and `LineIsThere` are about
`found = "whole"`: the case of a file found empty or half filled is left out, where they fail. `OneReplica` is
what the run `replicas` takes away.

Only checked by TLC: liveness (TLAPS has no rule for it here), that is
`EventuallySettled`, `DeletionCompletes`, `BouncedToLogin` and `ListCatchesUp`. Every
invariant and action property of a run that passes, and every refinement, is a theorem.

## Abstractions

- A spec is one of a set of configurations; objects carry the configuration they
  were built from, their owner and whether replicas were forced to zero.
- A password stands for the whole `Data` of the Secret, salts included.
  Passwords are numbered as they are drawn: `RandomPassword` does not repeat.
- The names in a spec that `validateIdent` accepts are taken to be ones MySQL
  accepts. The host part of an account is fixed.
- Grants are read as patterns, with `_` for any character. The prefix `wp_` is the same
  in all names and left out; names from `spec.database.name` are not matched (`%`, which
  would match more, is not among the characters `validateIdent` accepts).
- Watch events of workload objects enqueue the site at once; those of the site
  and the Secret go through a log of versions.
- The cache of a fresh leader is current. An old leader that has lost its lease
  is taken to be gone.
- In `SiteLifecycle` a handler is one step at its `Update`; `Console` has the
  read before it, and `EditsAreAtomic` shows that this is sound.
- In `Console` the answer to a request arrives with the end of its handler (a page only
  begins a load on it) and the YAML is read when it arrives; "list" stands for the list
  and for the page that creates a site, and a page is not left while a handler has its
  request.
- A TOTP code is represented by the key it was made from. A 2FA request that an
  early return ends before its save is no step. `Enabled` returns false when
  the Secret cannot be read; such logins are marked in `sessions`.
- The image's entrypoint writes `wp-config.php` in two parts, of which the first has
  `<?php`; `sed` reads what is there at once. A pod is gone before its replacement
  starts.
- In `DevMode` the spec does not rename the schema (one SQLite file), and a failed
  `EnsureDatabase` may or may not have made the file.
- In `Sessions` a login is one step (`KubeTwoFA` has what happens inside), tokens
  die in the order they were issued, `getMetrics` goes with the list it is asked
  for with, and the calls of the other pages are told apart only by their tokens.

## What is not modelled

Status diagnostics and metrics only read. The CRD's defaults and validation, the
text of `php.ini`, probes, mounts, resources, annotations, `escapeString` and JWTs
are data without control. Flags and the shutdown of the apiserver decide nothing
the properties could tell apart; CI and manifests have no behaviour of their
own. The last call of an operator that has lost its lease, beside the new leader,
would need a second worker in `SiteLifecycle`, whose runs are near what TLC
finishes in minutes. `PROJECT.json` has a note for each.

## Plan

Done, in this order: `MySQLProvisioner`, `DataCustody`, `SiteLifecycle` with its
runs, proofs of its type and custody invariants and of the refinement; `TwoFactor`
and `KubeTwoFA` with proofs; `Naming`, `Tenancy` with proofs; `Console`;
`ForwardedProto`; `DevMode` with `Resources`; names that `validateIdent` refuses;
`Sessions`; proofs of `Console`, `Sessions` and `ForwardedProto`, of the status and of
the work queue; proofs of `DevMode`, of `IsTenant`, of `DataCustody` for every site of
`Tenancy`, and of the names; GRANT as MySQL reads it, overlapping loads in `Console`, the
entrypoint in `ForwardedProto`, each with its proofs.

Next, to model: a second worker for the overlap of two leaders.

Next, to prove: what remains of `CustodyKept` and `TenantKept` without `OneDatabase` (the
schema the spec names at deletion is the one that goes); what `ForwardedProto` keeps
with several replicas.
