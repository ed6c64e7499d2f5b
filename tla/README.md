# Verification of 2key-core-sdk

TLA+ models of the 2key device SDK, checked with TLC and proved about with
TLAPS. Paths below are relative to the repository; `.../` stands for
`packages/dp-rust-sdk/src/`.

- [The system](#the-system): the parts, what they keep, what makes them correct
- [The modules](#the-modules): which definition models which code
- [The runs](#the-runs): what each shows, with its bounds and fairness
- [The theorems](#the-theorems): what is proved, from what, and how
- [Disagreements](#disagreements-found): where the code and its documents differ
- [Not modelled](#what-is-not-modelled), and the [plan](#plan)

## The system

The repository is a Rust workspace. A *machine* is a device that owns an
Ed25519 key pair and a certificate for it, issued by its organisation's Entity
CA and recorded by a billing server. A CLI (`dp-cli`) and a library
(`dp-rust-sdk`) take it through its life; an agent stays on the device; a
capability algebra (`dp-rust`) decides what a credential allows; a separate
crate (`2key_core`) keeps license documents up to date in an application.

| Component | Source | State it keeps | Operations | Correct when |
|---|---|---|---|---|
| machine enrollment | `.../enrollment.rs`, `.../types.rs`, `dp-cli/src/commands/machine.rs` | `state.json`, `identity/*` | `enroll_machine`, `pull_enrollment`, `wait_for_approval`, `apply_issued` | only what the server issued is installed; a live credential's key is never lost; a waiting machine learns the decision |
| renewal, decommission | `.../lifecycle.rs` | the same, and `machine.key.new` | `prepare_renewal`, `complete_renewal`, `decommission_machine` | an interrupted renewal goes on; never two live credentials; nothing left after decommission |
| revocation | `dp-cli/src/commands/admin.rs` | the same | `revoke_cmd` | only the machine it names is marked revoked |
| key store | `.../keystore.rs` | files | `save`, `load`, `delete`, `secure_delete` | a file is old or new, never half of a save and never another's; a key is zeroed before it is unlinked, and a wipe cut short leaves zeros in front |
| capability algebra | `dp-rust/src/authorize.rs` | none | `authorize`, `assert_subset` | a chain of accepted attenuations never adds authority |
| agent daemon | `dp-cli/src/agent.rs`, `.../agent.rs` | `agent.pid` | `run`, `daemonize`, the pid file | one agent; `agent.pid` names it; no leftover locks the operator out |
| device login, session | `.../session.rs`, `dp-cli/src/commands/auth.rs` | `session` | device code, polling, paste, sign-out | polls as slowly as asked, ends, loses no approval; logged out stays logged out |
| organisation | `.../admin.rs`, `dp-cli/src/commands/org.rs`, `signup.rs` | CA key, certificate, metadata | `init`, `init --server-keys`, `signup` | the key of the registered CA is kept; an interrupted init can be repeated |
| admin, CSR inbox | `dp-cli/src/commands/csr.rs`, `admin.rs`, `.../admin.rs` | none of its own | list, approve, reject, by number or id | the row decided is the one meant; what is issued is for the key that enrolled, and verifies |
| credentials, mTLS | `.../credential.rs`, `dp-rust-mtls` | none | grants, sign, verify, X.509 | a machine's grants are a part of its organisation's; what is signed is what is verified |
| billing API client | `.../client.rs` | none | one request per call | a list arrives in any of its shapes, nothing else is taken for one |
| names | `.../identity.rs` | none | compose, validate, parse | a name is read back as it was made |
| license documents | `crates/2key_core/src/models/` | none | verify, seats, add-ons, devices | nothing is read from what is not signed; seats add up |
| license session | `crates/2key_core/src/session.rs`, `api/client.rs`, `license.rs`, `facade.rs` | one stored session per account | load, save, clear, sync | the ETag belongs to the license it is kept with |
| bindings, command lines | `ffi.rs`, `c_api.rs`, `frb_api.rs`, `dp-cli/src/lib.rs`, `2key_cli` | none | wrappers, argument parsing | - |

### How the parts interact

- *Shared state.* All CLI commands, the agent and the SDK work on one *state
  directory*, without a lock. A command loads `state.json`, works on its copy,
  awaits the server, and saves the copy.
- *Messages.* Everything is asked of the *server* over HTTP, one request per
  call. The server may act although its answer is lost. Admins on other
  machines approve, reject and revoke meanwhile.
- *Processes.* `agent --keep` starts a child process and both write
  `agent.pid`; a later launcher or operator finds the agent by that pid.
- *Values.* Credentials carry capabilities. Each holder derives the next
  holder's from its own, and `assert_subset` must accept them.

### What is hard to test here

A command makes up to nine writes, with a request in the middle, and may die
between any two. Two commands may run at once, each writing back what it
loaded. Process ids come back. `assert_subset` is asked about one step of a
chain, but what matters is the whole chain, over five algebras with wildcards,
denies and version ranges. A 304 answer to a license request names no license,
so all rests on which ETag was kept beside which license. Three files of a
machine share the name of their temporary file. A number in an inbox is looked
up in a list fetched after the one the admin read. A device-code login has its
own clock, the server's, and the user's. `PROJECT.json` lists each hazard at its line, with
the properties that watch it.

## The modules

```
EnrollmentStatus <---- MachineIdentity (abstract)
       ^                     ^ INSTANCE ... WITH
       +---- MachineLifecycle+ <-- MachineLifecycleInv <-- MCMachineLifecycle, MachineLifecycle_proofs

Semver <-- Authorize <-- Delegation <-- MCDelegation, Delegation_proofs
                 ^----- Credential <--------+
AgentService <-- AgentService_proofs
LicenseService (abstract) <-- INSTANCE ... WITH -- LicenseSession <-- MCLicenseSession, LicenseSession_proofs
                                                   LicensePayload <-------+
AtomicStore (abstract) <-- INSTANCE ... WITH -- KeyStoreFile <-- MCKeyStoreFile, KeyStoreFile_proofs
Authority (abstract) <-- INSTANCE ... WITH -- CsrInbox <-- MCCsrInbox, CsrInbox_proofs
Pki <-- EntityCa <-------------------------------+            |
MachineName, BillingApi <-------------------------------------+
DeviceLogin <-- DeviceLogin_proofs         MachineName <-- MachineName_proofs
```

Operators commented `Broken:` are deliberate bugs. None is used by a
specification; they show that each property can fail.

### `EnrollmentStatus`

The statuses of `types.rs` with `allows_enroll`, `in_renewal` and
`can_transition_to`. `uninitialized` stands for a missing `state.json`.

### `MachineLifecycle`

Three parties: the state directory (`state`, `disk`), the CLI processes
(`pc`, `mem`, `key`, `todo`) and the billing server (`enrollment`,
`credential`). One action is one step of a command that another process or a
crash could see: a request, a write, or a load with its early returns.

| Actions | Code |
|---|---|
| `EnrollBegin` ... `EnrollApproved` | `enroll_machine` (enrollment.rs:54), up to the answer |
| `PullBegin` ... `PullApproved`, `PullRefused` | `pull_enrollment`, `wait_for_approval`, `enroll --wait` |
| `IssueLeaf` ... `IssueSave` | `apply_issued`, from the leaf to `active` |
| `RenewResume`, `RenewBegin` ... `RenewSaveState` | `prepare_renewal`: resume an interrupted one, or start |
| `RenewCheck`, `MachineRenew`, `RenewFile`, `RenewUnlink`, `RenewSave` | `complete_renewal`, `persist_renewed` |
| `DecommissionBegin` ... `DecommissionSave` | `decommission_machine`, `wipe_secrets` |
| `RevokeBegin` ... `RevokeSave` | `revoke_cmd`: the server first, then this machine's `state.json` |
| `AdminApprove`, `AdminReject`, `AdminRevoke`, `Refused` | the server and its admins (external) |
| `Abort` | a crash, a kill, a lost connection, any error return |

Choices a reader should know:

- A file is abstracted to *the key it is about*: the private key it holds, or
  the key a CSR, certificate or credential was made for. `Zeroed` is a file
  `secure_delete` has begun to overwrite, in part or as a whole, and not yet
  unlinked: with zeros at its beginning it is no key and no certificate.
  `KeyStoreFile` tells the two apart.
- A command that returns an error leaves what it wrote and forgets what it
  held: that is what a crash does. Both are `Abort`. A lost answer is an
  `Abort` after the server's step.
- The loop of `enroll --wait` is a choice, after a pending answer, between
  going `idle` and `waiting` for the next poll. `rotate-key` is `renew`.
- `todo` with an order (`IssueOrder`, `RenewOrder`, `WipeOrder`) is the code's
  fixed sequence of writes. A reply that lacks a file skips it.
- The server is not in the repository. It is modelled from its use: it acts on
  active credentials, answers a repeated renewal or revocation like the first,
  and refuses anything else. The reply to a pull is about the key enrolled.
- Keys are generated once (`minted`), at most `Key` of them. That bound ends
  the behaviours in which everything is used up, so the runs of this module
  do not look for deadlock; so does a machine stuck in `csr_created`, which
  really has no command left (see `enroll_crash`).

### `MachineIdentity`

What the lifecycle promises from outside: the status and SKI the machine
records, and the server's credentials. The machine's record only moves on when
the server's allows it: it is active only after an issue, finishes a renewal
only after the server replaced the credential, and closes only after a
revocation. `Issue` needs that no credential is live, `Replace` retires the one
it starts from. `ImplementsIdentity` states that `MachineLifecycle` implements
it, with `status <- state.status` and `ski <- state.ski`.

### `Semver`, `Authorize`, `Delegation`

`Semver` has versions, the parsed forms of ranges and their intervals.
Additions wrap as a `u64` does in a release build; a prerelease label is its
rank. `Authorize` translates `authorize.rs`: `action_covers`, the subset and
overlap of scope values in each algebra (`exact`, `dns_prefix`, `path_prefix`,
`set`, `semver`), `authorize` and `assert_subset` with their verdicts in the
code's order. Texts are taken as parsed: an action is cut at its dots, a path
at its slashes, with no empty pieces, and `*` only stands last in an action.
`Delegation` is the system around it: a first holder's grants, and one action,
`Delegate`, in which the last holder hands on any grants `assert_subset`
accepts.

### `AgentService`

Process ids (`proc`: what each stands for and how far it has come), the file
(`pidFile`), who has it open (`writers`) and what a launcher has read or
started (`watched`). `fs::write` is two steps: create or truncate, then write;
a handle may outlive the file's name, and two writers that overlap may leave
garbled text. `ProcessExists` only asks whether *any* process has the pid. A
child that ended keeps its pid while its parent lives. Loading the identity
and the probe may only succeed (`Probe`) or end the agent (`Die`).

### `LicenseSession`

Hosts, each with a session in memory (`held`) and its place in `sync_license`
(`pc`, `answer`), the storage they share (`stored`), and the billing server
(`current`). A license stands for its signed JWT, and an ETag for the license
it was sent with: the server is taken to give different documents different
ETags. `meant` and `got` are history: the license the server had when it
answered, and what the sync returned.

| Actions | Code |
|---|---|
| `Load`, `Save`, `Clear` | `SessionManager` (session.rs:75-102), by account and storage key (`Slot`) |
| `Sync`, `FetchLicense` | the token check, the request and its answer (client.rs:129); a 304 without an ETag falls back to the request's |
| `NotModified`, `Success`, `SaveLicense` | the two answers of `sync_license` (session.rs:134-155) |
| `ReturnSession` | the exported function (ffi.rs:175), which leaves the saving to the host |
| `Fail` | no connection, an error status or a malformed body, a save that fails |
| `Restart`, `SignIn`, `Reissue`, `ClockMoves` | the application, the server and time (external) |

`verifies` is the set of licenses that now pass `verify_and_decode`: they
expire, clocks are set, keys are rotated, and come back. It changes freely.
The server may go back to an old license. `2key_cli`'s
`sync-license --etag`, which makes up a session with an ETag and no license, is
left out: it is a debugging aid that never stores.

### `LicenseService`

What a sync is to its host, with no cache, no ETag and no storage: a call
(`Ask`) is answered with the license the server has for the host's account at
that moment (`Answer`); it verifies at a later one (`Check`) and is returned
(`Return`), or both at once (`CheckAndReturn`); or the call ends with nothing
(`GiveUp`). `ImplementsService` states that `LicenseSession` implements it,
with `account <- held[h].account` and `call` read off `pc` and `meant`
(`CallOf`): a request is a call asked, its answer - a 304 or a document - a
call answered, and a verified license that is yet to be saved one that is
checked. The server and its clock are the same in both.

### `KeyStoreFile`, `AtomicStore`

`SaveOpen`, `SaveWrite`, `SaveRename` are `save` with `atomic_write`, and
`WipeBegin`, `WipeOpen`, `WipeChunk`, `WipeZero`, `WipeUnlink` are
`secure_delete`; then `Delete`, a failed write or rename, and `Die` anywhere.
An action is a call that changes or looks at what another process can see; a
write may stop short (`SaveWriteFails`). `overwrite_file` writes its zeros in
pieces, so `WipeChunk` happens any number of times before the last
(`WipeZero`), and a process that dies there, or whose next write fails (both
`Die`), leaves `[rest |-> c]`: zeros, and behind them the rest of `c`
(`Rests`). A process writes to the file it *opened*, whatever its name is by
then (`open`), so a rename may move it under another key, and an unlink leave
it `"unnamed"`. `Temp` gives the temporary name of each key, which
`with_extension` makes the same for `machine.key`, `.csr` and `.crt`.
`AtomicStore` is the promise of trait `KeyStore`: a save takes effect at once,
in the step in which it succeeds, or not at all, and a wipe only ever puts more
zeros in front of a value (`Zero`) until it removes it, if it gets that far.
Since the code takes no lock, two operations that overlap on a name keep no
promise: `crossed` is the history of the keys this happened to, and everything
is said of the others.

### `Pki`, `EntityCa`, `CsrInbox`

`Pki` is `dp-rust-mtls` without encodings: a key pair stands for its SKI, a
signature for the key that made it. `EntityCa` is `init`: the three files of a
CA are three writes with a crash between any two, and the metadata decide
whether the next init makes a CA (`InitNew`), registers the one there again
(`InitAgain`), or asks the server for one (`InitServerKeys`). The server takes
the first registration and answers 409 to any other.

`CsrInbox` composes it with enrollments. Machines enroll elsewhere
(`RemoteEnroll`, whose request may be signed with another key) or in the
admin's own directory (`LocalEnroll`, `LocalSubmitted`, `LocalRenew`), which
matters because `load_enrollment` falls back to the files there; an instant
enrollment (`LocalInstant`) goes past the inbox with the CA of that directory. An admin's
command is `Choose` (the list that was read, the number or id given), `Resolve`
(the list fetched anew), `Fetch` (the row, the local fallback, the CA),
`Confirm`, then `Approve` or `Reject`. `meant` is the row the admin meant;
`Confirm` assumes that who is asked reads the id in the question.

| Actions | Code |
|---|---|
| `InitNew` ... `InitReports` | `init_entity` (org.rs:48), `save_entity_ca`, `load_entity_ca` (admin.rs:95) |
| `Choose`, `Resolve` | `load_selector` and its caller (csr.rs:105) |
| `Fetch`, `LocalItem` | `load_enrollment`, `enrollment_from_local_store` (commands/admin.rs:219) |
| `Confirm`, `Approve`, `Reject` | `approve_cmd`, `reject_cmd`, `approve_enrollment`, `issue_machine_leaf` |

The server is external: it registers one CA per entity and takes, for a pending
row, what is signed with that CA. Two inits in one directory at the same
moment are left out: nothing keeps them apart, and what they leave depends on
the interleaving of their writes alone.

### `Authority`

What an organisation's CA promises from outside. An admin comes to keep a CA
once, never one another admin keeps (`Keep`); the organisation is founded once,
on a CA no one but the founder keeps (`Found`); an enrollment is asked for,
rejected, or certified for the key that asked, with a request that was its own,
by the CA of the organisation, while the founder has it at hand (`Certify`).
`ImplementsAuthority` states that `CsrInbox`, inits and crashes included,
implements it: a CA is kept when `load_entity_ca` would load it
(`kept <- LoadEntityCa(p).ski`), the organisation is founded when the server
registers, and an enrollment is its row. The three files of a CA, the commands,
the lists and the directory they share with a machine do not show.

### `DeviceLogin`

Time passes in ticks, also while a request is on its way; clocks count down
(`left` to the deadline, `nap` to the next poll, `code.life` at the server), so
the model needs no bound on time. `Wake`, `Polled`, `Again` are the loop of
session.rs:262: the deadline is looked at before a sleep, never after it.
`Prompt` is `--paste`, and the fallback when the server has no device flow;
there the login waits for the user, who may `Paste` any token, also the one in
the session file. The server, for its part, gives no token twice (`Fresh`).
`pastedBack` is history: a login has saved, by the user's paste, the very
session that the logout under way has found. `owed` is the time until the
server may be polled again, and `atLeast` the interval it has asked for.
`Logout` ... `DeleteSession` run in another terminal. The server answers any
poll that is too early with slow_down, and may say so to others.

### `MachineName`, `Credential`, `LicensePayload`, `BillingApi`

Algorithms without state, as operators, checked over all small inputs by
`ASSUME`s of the MC modules of the runs they belong to:

- `MachineName` in `MCCsrInbox`: names of up to three characters, three
  separators; `MachineName_proofs` for texts of any length. `NamesAreReadBack` says exactly when a name is not read back,
  `NamesCollide` shows the collision, `SignupMakesEntities` that signup's
  entities are valid for `--`.
- `Credential` in `MCDelegation`, in the terms of `Authorize`: a machine's
  default grants are a part of its own organisation's and of no other's, allow
  exactly `machine.connect` to its name and what lies below, and cannot be
  handed on; kickstart credentials verify with their CA alone.
- `LicensePayload` in `MCLicenseSession`: small licenses over every combination
  of the fields that decide. The order of subscriptions does not matter, an
  expired one adds nothing, nothing is read of a token whose signature is not
  the server's; `SeatsOverflow`, `LastSecond` and `AdviceEnds` show the
  boundaries.
- `BillingApi` in `MCCsrInbox`: lists and rows in every envelope and under
  every name `client.rs` knows, filters, the identity shown, and which
  organisation is inferred.

## The runs

| Run | Distinct states | Shows |
|---|---|---|
| `lifecycle_solo` | 997,731 | one command at a time, cut short anywhere |
| `lifecycle_wait` | 9,613 | liveness, with two processes |
| `store_files` | 134,522 | processes that share files and temporary names |
| `entity_admin` | 1,250,606 | inits, enrollments, and admins who decide them, as one authority |
| `device_login` | 265,426 | device-code login, with a logout beside it |
| `delegation` | 10,454 | chains of grants over all five algebras |
| `agent_orderly` | 19,050 | agents and launchers, one command after the other |
| `license_sync` | 205,144 | hosts that share a stored license session, as one cacheless service |
| `renewal_crash`, `enroll_crash`, `stale_save`, `delegation_deny` | to the first counterexample | the [disagreements](#disagreements-found) |

**`lifecycle_solo`**: one process, three keys, and every kind of answer: with
all files, a leaf alone, a credential alone; renewals with and without an
endorsement. Three keys are what it takes to enroll, renew twice, or renew and
enroll again. The properties relate the directory to the server:

- `KeyCustody`: the private key of a credential the server honours is in
  `machine.key` or `machine.key.new`. A renewal is where it could be lost.
- `OneLiveCredential`: never two honoured credentials, although answers get
  lost and enrollments start over.
- `ActiveAgrees`: an `active` record names a credential not yet replaced, with
  its key in place.
- `RenewalRecoverable`: a machine in `renewing` has the material to resume, or
  is installed, or was revoked.
- `DecommissionedIsClean`: nothing of an issued credential stays.
- `ImplementsIdentity`: the refinement.
- `OnlyIssued`, `AuditTrail`: nothing is installed that the server did not
  issue, and `renewed_from_ski` names a credential the server replaced. The
  theorems say that these two, unlike the others, survive any number of
  processes without a lock; the others do not (`stale_save`).

**`lifecycle_wait`**: two processes and one key under `FairSpec`; a second key
would add renewals, which do not wait. `CommandsFinish`: every command ends,
`enroll --wait` included, although the other process may take its token away.
`PendingIsDecided`: a machine in `pending_admin` does not stay there.
Fairness: a started command takes its next step (the runtime polls it, and a
request is answered or fails), and admins decide each enrollment. Nothing is
assumed of starting a command. `PendingIsDecided` is conditional on what only
an operator can supply: pull is repeated, and from some time on commands are
not cut short.

**`delegation`**: 1,014 first grants (an allow with or without a deny beside
it), all single-capability children, twelve resources, chains of any length.
One segment deep and two segments deep names and paths, sets of up to two
tokens, exact, caret, tilde, wildcard, bounded and wrapping version ranges,
and one mixed pair of dimensions; this reaches each branch of each algebra, and
both directions of each overlap. `ChainAttenuates`: whatever the last holder
is authorized to do, the first is, provided the first one's denies reach as far
up the action tree as the allows they cut into (`DeniesAsBroad`; see
`delegation_deny`). `DelegableOnly`: what is handed on comes from delegable
allows of the first holder. `EntityKept`: from grants for one organisation, as
`with_entity_scope` makes them, none for another follows, nor one that leaves
the organisation open. Resources are concrete and versions released (see the
[disagreements](#disagreements-found)). The module also evaluates, as
assumptions, the cases of `conformance/dp-authz/fixtures.json`, the vectors
shared by the implementations. A chain may end, so deadlock is not looked for.

**`agent_orderly`**: three pids - a launcher, its child, and one for another
program or the next launcher; any content of `agent.pid` at the start. The
operator waits for a command to be done before the next, does not stay in the
terminal beside a running agent, and a launcher does not die between emptying
and filling `agent.pid`. `OneAgent`, `PidFileNamesAgent`, and `KeepSucceeds`:
once nothing dies early, no foreign program takes a pid and nobody stops the
agent, there is one for good. Fairness: commands and agents go on, foreign
processes end, and the operator retries `--keep` with a pid other than the one
in `agent.pid` (strong, because the chance comes and goes); a launcher that
happens to have that pid finds itself "running" and refuses.

**`license_sync`**: two hosts, one account, two licenses. Two of each are what
a stale session needs: one host keeps or stores what the other's server answer
has outdated, and the server goes to another license and back.
`ImplementsService`: the refinement; no host can tell the cache from a server
that sends its license every time, except by how long it takes.
`SyncReturnsMeant`: a sync returns the license the server had when it answered,
although a 304 names none. `SyncCatchesUp`: once the server's license stays and
verifies, a host that goes on syncing has it, whatever was refused, unsaved or
stored before. Fairness: a sync that was started goes on. That the host starts
syncs again and again, and that from some time on they do not fail, are
conditions of the property, not of the specification.

**`store_files`**: two processes, two keys with one temporary name, two values.
Two keys on one temporary name and two processes are what a crossing needs; a
third of either meets in no new way. `NothingTorn`: a key no two operations met
on holds nothing, the whole of a value saved under *that* key, or what a wipe
of such a value leaves when it is cut short: zeros over the beginning or all of
it. `OwnTemporary`: such a save finds its own
contents when it renames, whatever dead processes left there.
`ImplementsStore`: the refinement. Processes and values are symmetric.

**`entity_admin`**: two admins with a directory each, three CA key pairs (two
inits cut short, and another admin's), two enrollments; the commands of one
admin are followed step by step, another's are `RejectElsewhere`, and one
directory is a machine's too. Two rows are what it takes for a number to point
at another one. CA key pairs are symmetric.

- `RegisteredKeyKept`: the CA the server knows is, whole, in the directory it
  was registered from, wherever an init died.
- `MetadataComplete`: where `entity-ca.json` is, so are the key and the
  certificate of the same CA: no init gets stuck on another's remains.
- `KickstartedIsOurs`: an init that reports a kickstart has the CA the server
  registered.
- `ApprovedKeyEnrolled`: a certificate is for the key that enrolled, although
  the request may come from files that were renewed or enrolled anew meanwhile.
- `ApprovedVerifies`: leaf, chain, credential and registration fit together.
- `ConfirmedIsMeant`: without `--yes` the row decided is the one meant.
- `ImplementsAuthority`: the refinement.

**`device_login`**: durations in scaled units (interval 2, at least 1,
slow_down +2, deadline 4, at least 2; seconds in the source are 5, 1, 5, 600,
30) that keep their order and leave room for several polls before the deadline;
the server states an interval of 0, 1, 3 or none and a lifetime of 1, 4 or
none; three tokens. Clocks stop at zero, and an interval only grows while the
deadline has not passed, so the states are finite without a bound on time.
`PollsNeverTooSoon`: a poll never reaches the server sooner than it asked.
`ApprovalNotLost`: an approval during the last sleep is fetched though the
deadline passes. `LoginEnds`: every login ends or comes to ask the user for a
token, whatever the server answers. `LoggedOutStaysOut`: what logout found is
gone when it says so, unless the user has pasted that very session into a login
that saved it meanwhile - which the code cannot tell from a new one, and which
is met in the run. Fairness: time passes, the server answers what it is asked
(the client sets no timeout, so this is an assumption), and the login goes on;
nobody has to approve.

## The theorems

All hold for every value of the constants; 6,538 proof obligations. Every
safety property of a passing run is stated by one of them.

| Theorem | States | Assuming |
|---|---|---|
| `TypeCorrect` | `TypeOK` | - |
| `OnlyIssuedCorrect`, `AuditTrailCorrect` | `OnlyIssued`, `AuditTrail` | any number of processes |
| `KeyCustodyCorrect`, `OneLiveCredentialCorrect`, `ActiveAgreesCorrect`, `RenewalRecoverableCorrect`, `DecommissionedIsCleanCorrect` | the first five of `lifecycle_solo` | `Solo`: one process |
| `ImplementsIdentityCorrect` | `ImplementsIdentity` | `Solo` |
| `ChainsAttenuate`, `OnlyDelegable`, `EntityKeptAlways` | `ChainAttenuates`, `DelegableOnly`, `EntityKept` | any catalog, grants and resources |
| `ValueSubsetTransitive` | a concrete value within a value within a third is within that, in every algebra | values of the shapes the JSON types allow |
| `CommonResourceOverlaps` | an allow and a deny with a concrete resource in common are found to overlap | any catalog |
| `MachineIsItself` | a machine is authorized to connect as itself and as the names below its own, in its entity, and for nothing else | `KnowsMachines` |
| `MachinesAttenuate` | its permissions pass `assert_subset` under either kind of organisation's first grants | `KnowsMachines` |
| `MachinesHandNothingOn` | no capability passes `assert_subset` under them | any catalog, any child of the shape the JSON types allow |
| `AgentTypeCorrect`, `OneAgentCorrect`, `PidFileCorrect` | `TypeOK`, `OneAgent`, `PidFileNamesAgent` | `OrderlySpec`, any pids |
| `LicenseTypeCorrect`, `SyncReturnsMeantCorrect`, `ImplementsServiceCorrect` | `TypeOK`, `SyncReturnsMeant`, `ImplementsService` | any hosts, any accounts, also with a shared storage key |
| `VerdictAges` | as time passes a verdict of success only becomes expired, and advice to poll does not come back | an expiry that is a number or missing |
| `StoreTyped`, `NothingTornAlways`, `OwnTemporaryAlways`, `StoreImplemented` | the four of `store_files` | any processes and keys, temporary names shared in any way |
| `InboxTyped`, `RegisteredKeyKeptAlways`, `MetadataCompleteAlways`, `KickstartedIsOursAlways`, `ApprovedKeyEnrolledAlways`, `ApprovedVerifiesAlways`, `ConfirmedIsMeantAlways`, `ImplementsAuthorityAlways` | the eight of `entity_admin` | any admins, CAs and machines, an inbox of any finite size |
| `OwnedAlways` | no two admins have the same CA, and the registered one is only its founder's | the same |
| `LoginTypeCorrect`, `PollsPaced`, `ApprovalHonoured`, `LogoutFinal` | `TypeOK`, `PollsNeverTooSoon`, `ApprovalNotLost`, `LoggedOutStaysOut` | any positive durations, any intervals and lifetimes a server may state |
| `ReadBackUnlessAmbiguous`, `DashesAreAmbiguous`, `NamesApart` | when a name is read back as the machine it was made for | valid names over any characters, of any length |

The constants' assumptions are what the code gives: sentinels are not keys,
pids, licenses or jobs, durations are positive, an answer carries a leaf or a
credential, grants and resources are of the shapes the JSON types allow.
`KnowsMachines` is what the SDK needs of a catalog to speak of machines at all:
`entity` an exact dimension, `name` one of the `dns_prefix` kind, and the action
`machine.connect`; the delegation run's catalog has it.

**Lifecycle.** None of the invariants is inductive: a process about to write
must be known to hold the right thing. `MachineLifecycleInv` gives the
strengthening in two layers.

- `SharedInv`, for any number of processes, only says what no other process
  can undo: a key no one refers to is fresh, enrollment keys and replacement
  keys do not mix (`KeysApart`), and a record - on disk or in some process's
  memory, however stale - only says what the server has granted (`RecordsOK`,
  `ProcessesOK`). The server never takes back a "renewed" or an "issued"
  (`ServerGrows`), so a stale record stays true in that weak sense. This is
  why `OnlyIssued` and `AuditTrail` survive without a lock and the others do
  not.
- `SoloInv` adds, for one process, that its copy is the one on disk
  (`MemoryOK`), how far its files have come (`FilesOK`), and what the server's
  live credential implies for them (`LiveOK`, `RenewalOK`). The other
  properties follow from it by cases on the status.

Each layer has one lemma per conjunct, with one case per action. The refinement
maps each step to a step of `MachineIdentity` or to a stutter, under `SoloInv`.

**Delegation.** `ChainInv` says that the grants are still the first holder's,
or `Inherited`: whatever their allows match, over concrete resources, a
delegable allow of the first holder matches too, and none of its denies does if
they are as broad as `DeniesAsBroad` asks. It speaks of allows alone, since a
holder's own denies do not carry over. `EntityKept` is inductive by itself: a
child's value for an exact dimension is among its parent's, denies included,
and a child cannot leave out a dimension its parent has. The lemmas are the
algebra: covering of actions is transitive and prefixes of one action are
comparable; `scope_value_subset` is transitive in each algebra
(`ValueSubsetTransitive`); two scopes with a concrete resource in common are
found to overlap (`CommonResourceOverlaps`), which for versions rests on
`OverlapFound`, wrapped ends included.

**Agent.** `OrderlyInv`: one launcher, one live agent, which is that
launcher's child once it has one; and every agent that wrote `agent.pid` is
named there unless the launcher has just emptied it.

**License.** `SessionInv`: in memory or stored, an ETag is kept only beside the
license it came with (`Paired`), and a sync in flight knows what the server
meant. `Paired` is what makes a 304 safe to resolve from the cache; it is kept
by every load and save because a session travels whole. The refinement of
`LicenseService` rests on it: the license that `NotModified` takes from the
cache is the one the server answered about, whatever was stored, by whom, in
between, so the step is the service's `CheckAndReturn`, and `Success` with its
save is `Check` and `Return`. Loads, saves, clears and the requests of others
do not show.

**Key store.** `StoreInv`: an operation on a key that is not crossed is alone on
its names (`Alone`); the file it has open is where it opened it, or under a
crossed key, or has no name (`Whereabouts`); and it finds there what it put
there (`Undisturbed`), a wipe the value it measured, with zeros over as much as
it has written (`Expected`). `Alone` is what the history of crossings buys: a new
operation either meets nobody or crosses both keys at once.

**Inbox.** `IInv` has a part for each way a request or a key could get lost.
`Progress`, per admin: how far an init is says what its three files hold, and a
directory with metadata is never written again (`WholeStays`), which is why the
registered key is kept. `RowInv`: an approved row was issued with the
registered CA for its own request. `LocalInv`: while a row is pending, the
request in the directory that claims its id is the row's own; a renewal, which
changes that file, needs an approval first. `Decision`: what an admin has
fetched for a row that is still pending is that row's request. Rows only move
on (`RowsGoOn`), so a stale fetch can only be about a row that is pending no
more, and then the server refuses. An init and a decision disturb disjoint
parts (`InitKeepsInbox`, `CommandStep`, `ForeignStep`).

The refinement of `Authority` needs two things more (`CustodyInv`). `Owned`: a
CA is one admin's, on disk or in memory, from the moment its key pair is made,
so that `Keep` takes a CA no one else keeps, and the registered one is its
founder's. `AtHand`: the CA an approval is about to sign with is the one in the
directory, so that what the server takes was signed by the founder. Under
`IInv` a directory keeps a CA exactly when it has metadata (`KeptAreMetas`).
The step that writes the metadata is `Keep`, the registration is `Found` -
before it, after it or without it, as the init dies - and every other step of
an init is a stutter.

**Login.** `LoginInv` relates two clocks that are never compared in the code.
`KeepsPace`: the login never waits less than the server is owed; a sleep lasts
at least as long, and the interval it will use next is at least what the server
has asked for, the slow_down it has just heard included - raising the interval
is a step after the answer, and time passes in between. `ApprovalKept`: a login
approved while it slept keeps an approved code until it polls, and is never
told to wait; so the test of the deadline is not reached. `TokensApart`: a
token the server gave is neither in the file nor the one logout found while it
waits to be saved, so only a pasted one can bring a session back.

**Names.** A name is cut at the last place where the separator occurs. Its own
place is one (`OwnPlace`); a later one can only be the separator moved to the
right into the entity (`LaterPlaces`), by less than its length since the entity
does not contain it. So `Ambiguous` is exact: such a name is refused or read as
another machine's, any other is read back. For a separator of one repeated
character this is an entity that begins with it (`DashesAreAmbiguous`).

Only model-checked: the liveness properties (`CommandsFinish`,
`PendingIsDecided`, `KeepSucceeds`, `SyncCatchesUp`, `LoginEnds`), since the
prover has no rule for fairness with `ENABLED`, and the counterexamples. The
assumptions of the MC modules are evaluated over bounded inputs: sums of seats,
selections from lists and the other folds would need induction over data.

## Disagreements found

1. **`renewal_crash`** - `persist_renewed` removes `machine.key.new` before it
   saves `state.json` (lifecycle.rs:164-174). A crash in between leaves
   `renewing` without it, which `renew` refuses. The design says "Crash-safe:
   state.json tracks the transition" (docs/RUST-CLI-SDK-SPEC.md:506).
2. **`enroll_crash`** - a crash, or a lost answer, between the first
   `state.json` and the one with the pull token leaves a state no command
   carries on. The design: state is kept "so the CLI can survive process
   restarts" (308).
3. **`stale_save`** - `pull_enrollment` loads `state.json`, awaits the server
   and saves its copy without a lock (enrollment.rs:172-180). Two pulls get the
   same approval; one makes the machine active and a decommission wipes it,
   then the other saves: from `decommissioned`, of which types.rs:99 knows no
   legal next state, back to `active`, without a key. The server has to answer
   a pull token twice for it. The other commands overwrite each other in the
   same way, with less time for it: `prepare_renewal` and `revoke_cmd` load and
   save with nothing awaited in between.
4. **`delegation_deny`** - `parent_deny_blocks_allow` looks for denies at or
   above the child's action only. From `allow cert.*` and `deny cert.issue`,
   `cert.*` alone may be handed on.

What else was met while modelling, without a run of its own:

- In a list of several versions a prerelease is compared as an interval, which
  finds it inside a range `authorize` keeps it out of (`PrereleaseInARange`,
  authorize.rs:430 and 306).
- `agent run` writes `agent.pid` without looking and removes it whatever it
  holds (agent.rs:105-108): an agent in the terminal beside a background one
  leaves the other without a name.
- A repeated init prints "already registered" for any 409 (org.rs:76), also
  when the server knows another CA.
- identity.rs:3 calls names unambiguous; an entity that begins with `-` makes
  one that is read back as another machine's (`NamesCollide`; `ReadBackUnlessAmbiguous`
  says exactly when). `signup` makes
  entities for `--` whatever separator is configured.
- payload.rs:266 speaks of every bound subscription; `allows_local_device` asks
  for one that lists the device.
- A license is good in the second its seats end, with no seats (`LastSecond`);
  `resource_for_product` reads entitlements of version 2, `max_devices` does
  not; sums of seats wrap to a negative number (`SeatsOverflow`).
- A pasted cookie with another name than the session's is sent as a bearer
  token, and a bearer token that begins with `cookie:` as a cookie
  (`TransportIsGuessed`).
- A login into which the stored session is pasted, while a `logout` is between
  its request and its delete, saves it again after "logged out" is printed
  (auth.rs:111, `pastedBack`); and one that saves before the delete has its new
  session deleted without being signed out.
- `resource.access` for service `*`, which every organisation starts with,
  names a service called `*`: the dimension has no wildcard.
- In an answer, a field `data` that is null hides the list beside it
  (client.rs:218), and a row with a field `request` is taken for what that
  field holds (client.rs:592).

## What is not modelled

- *Cryptography and formats* (`dp-rust-mtls`: DER, PEM, TLS set-up): `Pki` takes
  the result, who signed what. Also X.509 validity in time.
- *The API client* beyond the reading of answers and the calls above: one
  request per call, no state, no timeout and no retry.
- *Wrappers, parsing, printing*: bindings, configuration, command lines,
  `2key_cli` and the examples.
- *Two inits at once in one directory*, which nothing in the code orders.
- `logout --token`, which signs out another session than the one it deletes.
- *Server-side rules*: catalog seeding, invitations and the platform commands
  are one request each, without state on this side.

## Plan

What would add most, in order:

1. That `AgentService` under `OrderlySpec` implements a one-agent abstraction.
2. That `authorize` and `assert_subset` agree on single steps without
   `DeniesAsBroad` when the parent has no denies.
3. The length arithmetic of the DER reader in `dp-rust-mtls`, over bounded
   inputs.
