# A TLA+ verification project for mwanachama-backend-auth

The repository is the authentication package of a membership system, a Go
library over one PostgreSQL schema. A gateway links it, mounts its HTTP routes
and gives it what it lacks: who the caller is, and a `SessionMinter`. This
directory holds TLA+ models of its stateful parts, TLC configurations that
check them on small instances, and TLAPS proofs of what holds for every
instance.

It describes what the code does under concurrency and partial failure. Where a
comment of the code says more than the code does, a run shows the difference
(section 5).

## 1. Inventory

### Components

| Component | State | Operations that change it |
|---|---|---|
| Device table (`device_impl.go`) | a row per device: subject, `signed_out_at`, `signed_out_by` | `RegisterDevice`, `SignOutDevice`, `SignOutOtherDevices` |
| Challenge table (`challenge_impl.go`) | a row per challenge: kind, device, subject, expiry, `consumed` | `CreateChallenge`, `ConsumeChallenge` |
| Device door (`routes/device.go`) | none of its own | `DeviceChallenge`, `DeviceVerify` |
| Recovery door (`routes/recovery.go`) | none of its own | `RecoveryRequest`, `RecoveryVerify` |
| Operator credentials (`operator_impl.go`) | a row per address: subject, password hash, `disabled_at` | `Create`, `SetPassword`, `Disable` |
| Operator lock-out (`operator_attempt_impl.go`, `models/operator.go`) | a row per address: failures, `locked_until` | `RecordFailure`, `ClearAttempts` |
| Operator door (`routes/operator.go`) | none of its own | `OperatorSignIn`, `ChangeOperatorPassword`, `DisableOperatorCredential` |
| Phone door (`phoneattempt_impl.go`) | failures per number digest, subject per number digest | `RecordPhoneFailure`, `ClearPhoneAttempts`, `SubjectIDForPhone` |
| Phone salts (`phonesalt_impl.go`) | a row per salt; a unique index keeps one live | `Provision`, `Retire`, read by `Hash` |
| Blind index (`blindindex.go`, `phonenumber/`) | none of its own; the organization's region is behind `RegionSource` | `Index`, `IndexInRegion` |
| Declared sessions (`session_impl.go`) | a row per session | `Start`, `Touch`, `End` |
| Identity sessions and last seen (`identity_sessions_sql.go`, `last_seen.go`) | rows in another project's schema, and a map per host of recent touches | the last-seen upsert, the end function, its cascade |
| Verification records (`routes/verification.go`) | a row per subject | `SetVerification` |
| Provisioning, declarations, validation, user-agent description | none | pure, or DDL sent once |

### How they interact

* **Calls.** The gateway mounts the routes and calls the rest directly:
  `RegisterDevice` and `SignOutDevice`, `Create` for operators, the phone
  operations. Both verify handlers and the operator's sign-in end in
  `Minter.Mint`, which belongs to the gateway.
* **Shared state.** Everything meets in the database. The doors share the device
  and the challenge tables: a recovery signs out devices the device door reads.
  The only memory of a process is the last-seen throttle.
* **Atomicity.** A statement is atomic. A handler holds no lock and no
  transaction across statements, with one exception: the SELECT and UPDATE of
  `SignOutOtherDevices` share a transaction, at READ COMMITTED, which rolls both
  back together but lets other commits in between.
* **Time.** Handlers read `time.Now()` themselves, some milliseconds before the
  statement that uses the reading. Expiry and lock-out compare such a reading
  with a stored date.

### What is hard, and what makes each part correct

| Part | Hard behaviour | Correct when |
|---|---|---|
| Device and recovery doors | two calls on one challenge; a sign-out or an expiry between a check and its use; a sweep beside a sign-out; a failure after the challenge is spent | a challenge yields one session at most, for its own device and member; a recovered session stands beside no older live device; a call that comes in late writes nothing |
| Device table | two columns say one thing, two operations write both | a sign-out is whole, final and first-wins |
| Operator door | a slow password check between reading the lock and writing a failure; a withdrawal or a password change under a sign-in | no session without a password that was good since the call came in; withdrawn stays withdrawn; tries left are honest; a sign-in that comes in under a lock does nothing |
| Lock-out | the fifth failure, the moment a lock runs out, lost updates | it implements the code's policy for every address whose sign-ins do not overlap |
| Phone door | the lock-out's races, a right code between a failure's read and its upsert; two first verifies of a number | a lock rests on enough wrong codes; one number, one subject, for good |
| Phone salts | two operators provision at once; a salt retired between the read and the use | one live salt; a digest names the salt that made it |
| Blind index | the region changes, or is not set, while numbers are indexed | a number is hashed in a region that was given for it, or not at all |
| Declared sessions | touches out of order, touch beside end, an end from a session that is over meanwhile | last use only moves on; an ended session stays ended with its first date; it was ended from a sign-in of its subject |
| Last seen | claims out of order, a failed touch, a sweep of the map, two hosts | a touch is lost only within the throttle's window; a touch never revives a row |
| Verification | a review writes back a record read before a submission | a decision touches an application only if that came in under it, and never mixes two members' |

`PROJECT.json` lists the hazards one by one, each at its line, with the
properties that would catch it.

## 2. Modules

| Module | What it is |
|---|---|
| `AuthStore` | the device and challenge tables, one operator per SQL statement; no actions |
| `AuthDoors` | the handlers of both doors over `AuthStore`, one action per statement |
| `OneUseGrant` | abstract: what a door handing out single-use tickets promises |
| `MCAuthDoors` | the symmetry set for TLC |
| `AuthDoors_proofs` | theorems about `AuthDoors`: types, one session per challenge, the refinement |
| `SignOut_proofs` | theorems about its device table, and about the sessions minted beside it |
| `Lockout` | the lock-out arithmetic, pure operators |
| `OperatorDoor` | the operator door over its two tables |
| `LockPolicy` | abstract: what a lock-out of the code's promises about a key |
| `LockWindow` | `OperatorDoor` with dated failures, for what a comment says of the lock-out |
| `MCOperatorDoor` | the symmetry set for TLC |
| `OperatorDoor_proofs` | theorems about `OperatorDoor` |
| `PhoneDoor` | the phone lock-out and the table of numbers, over `Lockout` |
| `WriteOnce` | abstract: a table whose values, once settled, stay |
| `PhoneDoor_proofs` | theorems about `PhoneDoor` |
| `PhoneSalt` | provisioning, retiring and hashing with salts |
| `BlindIndex` | the blind index over `PhoneSalt`, in front of `Hash` |
| `SaltEpochs` | abstract: salts serve one after another |
| `PhoneSalt_proofs` | theorems about both |
| `LastSeen` | the throttle of each host, over the identity project's rows |
| `LastSeen_proofs` | theorems about `LastSeen` |
| `Sessions` | the declared sessions and ending one's own |
| `Sessions_proofs` | theorems about `Sessions` |
| `Verification` | the verification record under decisions and applications |
| `ReviewDesk` | abstract: what the record of a review promises |
| `Verification_proofs` | theorems about both |
| `MCPhoneDoor`, `MCBlindIndex`, `MCLastSeen`, `MCSessions`, `MCVerification` | the symmetry sets, `LastSeen`'s owner function, the numbers in use |

### AuthDoors

`device` and `challenge` are the two tables, `now` the clock. `req[r]` is the
handler of call `r`: its program counter `pc` and its local variables, named
after the Go ones where there is one. `session[r]` is what the minter made for
it. `arrived[r]` is a history variable: the clock, and which devices existed or
were signed out, as the call came in. No action reads it.

| Handler | Actions, in order |
|---|---|
| `DeviceChallenge` | `CallDeviceChallenge`, `ChallengeGetDevice`, `CreateDeviceChallenge` |
| `DeviceVerify` | `CallDeviceVerify`, `VerifyGetDevice`, `VerifyReadChallenge`, `VerifyTakeChallenge`, `Mint` |
| `RecoveryRequest` | `CallRecoveryRequest`, `CreateRecoveryChallenge` |
| `RecoveryVerify` | `CallRecoveryVerify`, `RecoveryReadChallenge`, `RecoveryTakeChallenge`, `SweepSelect`, `SweepUpdate`, `Mint` |
| `SignOutDevice` | `CallSignOut`, `SignOutUpdate`, `SignOutReread` |
| `RegisterDevice` | `RegisterDevice` |

* `ReadChallenge` and `TakeChallenge` are `ConsumeChallenge`'s two statements
  with what the handler does next. The answer (signature, secret) is judged
  after the UPDATE, as in the code, so a wrong answer spends the challenge.
* An answer is `right`, `wrong` or `missing`; the cryptography is not modelled.
* `since` is the clock at the handler's latest step, and a `time.Now()` between
  two statements takes any value in `since .. now`.
* `Abandon` may end a handler anywhere: a statement fails, the minter fails, the
  client goes away or the process dies. All look the same to the tables.
* A refusal, whatever its status code, is `Finish`.

### OperatorDoor

`cred` and `attempt` are the two tables; a worker serves one call after
another. `at` is `OperatorSignIn`'s one clock reading, `current` the row
`RecordFailure` read. Addresses are normalized, unique and never renamed, so an
address stands for its credential's id. A stored verifier is the password it
accepts. `valid[w]` is history: the passwords that opened the address at some
moment since `w`'s call came in; `minted[w]` is what its latest call earned.
`raced`, history too, holds the addresses whose sign-ins overlapped, until a
right one that is alone clears the row; `shut` the workers whose sign-in came in
under a lock that has stood since. `ReadVerifier` may refuse a right
password: the handler counts any error of `Verifier` as a wrong one.

| Handler | Actions, in order |
|---|---|
| `OperatorSignIn` | `CallSignIn`, `ReadAttempt`, `ReadVerifier`, then `FailRead`, `FailWrite` or `Clear`, `Mint` |
| `ChangeOperatorPassword` | `CallChangePassword`, `ChangeReadVerifier`, `SetPassword` |
| `DisableOperatorCredential`, `Create` | `Disable`, `Create` |

`LockWindow` adds one variable, the date of the first failure each row counts,
and is the module of a run of its own.

### PhoneDoor

`attempt` and `binding` are the two tables, keyed by number, in
whatever form the caller hands it over. The repository
has no handler for the phone door, so a worker makes any of the three calls, in
any order, at any moment: what holds does so for every caller. `told[w]` is the
subject `w` was last answered.

Three variables are history. `streak[p]` counts the wrong codes given for a
number since it last started anew, by a right code or by a failure that finds
the lock run out; the codes still under way then are counted in, as they may be
taken to come after. `overtaken` holds the calls whose row was read before that,
and `revived` the numbers such a call has since written back with failures in
the row: there the row says more than `streak`.

| Operation | Actions, in order |
|---|---|
| `SubjectIDForPhone` | `CallSubjectID`, `ReadBinding`, `InsertBinding`, `RereadBinding` |
| `RecordPhoneFailure` | `CallRecordFailure`, `FailRead`, `FailWrite` |
| `ClearPhoneAttempts` | `CallClear`, `Clear` |

`PhoneAttempt.Fail` is line for line the operator's, so both doors share
`Lockout`.

### PhoneSalt

`salt` is the table; a salt lives while it is not retired. `Admits` is the
primary key with the partial unique index of `provision.go`. `told[w]` is what
`Retire` or `Hash` answered; `ended[w]` and `absent[w]`, history, are the salts
already retired, and yet to be provisioned, as `w`'s call came in.

| Operation | Actions, in order |
|---|---|
| `Provision` | `Provision` |
| `Retire` | `CallRetire`, `RetireUpdate`, `RetireReread` or `RetireCount` |
| `Hash` | `CallIndex`, `HashRead`, `HashDigest` |

### BlindIndex

Extends `PhoneSalt`: a worker's call may start in the Indexer and goes on in
`Hash`. `setting` is the organization's region, which changes when it likes;
`entry[w]` is the number `w` is indexing, as it was written and, from `Hash` on,
in canonical form. `meant[w]`, history, is every number the writing could stand
for: in the region stated, or in those set since `Index` was called.
`Canonicalize` is `E164` and `Parses`: a national number takes the region, an
international one has its own, either is refused without a proper region, and
`Issued` stands for the library's numbering plan. It is local to the call and so
part of the step that hands over.

| Operation | Actions, in order |
|---|---|
| `Index` | `CallIndexDefault`, `ReadRegion`, then as `Hash` |
| `IndexInRegion` | `CallInRegion`, then as `Hash` |
| the organization's settings (external) | `SetRegion` |

### LastSeen

`touched` and `swept` are the map and the sweep date of each host's throttle;
`claim` and `release` hold the mutex, so they are one action each. `session` and
`seen` stand for `auth.sessions` and `session_last_seen`. The upsert is two
actions: what its SELECT saw may be gone when it inserts. `stamp` is the
database's clock, `at` the host's; the model has one clock for both. `Restart`
empties a host's map and drops its calls.

| Operation | Actions, in order |
|---|---|
| `LastSeen.Touch` | `CallTouch`, `Claim`, `TouchSelect`, `TouchInsert`, and `Release` after a failure |
| `IdentitySessions.End` | `End` |

### Sessions

`session` is the table. A worker serves a request as a mount does: the token is
looked up, and the request may then touch its session and end one. A mount with
a `CurrentSession` names the session in use, and that one is refused; a mount
without one names none, and there a session can be ended from itself.
`CurrentOf` leaves it open for each request. `told[w]` is the session `w`'s
request was told has ended; the history field `barred`
holds the sessions that were ended or expired as the request came in.

| Operation | Actions, in order |
|---|---|
| `Start` | `Start` |
| `ByToken` | `CallWithToken`, `ByToken` |
| `Touch` | `CallTouch`, `TouchUpdate`, `TouchReread` |
| `EndOwnSession`, `End` | `CallEnd`, `EndUpdate`, `EndReread` |

An id is random, so a request cannot name a session that is yet to be started;
one that could would find no row, and then, if the session started in between,
be told that it has ended.

### Verification

`record` is the table; a note is the status it explains and the three columns of
an application hold its id, so columns that part company show. `Set` assigns the
columns of the code's list, and only those. `seen[w]`, history, is what the
member's row has held since operator `w` looked at it.

| Operation | Actions, in order |
|---|---|
| `SetVerification` | `CallSetVerification`, `ReadCurrent`, `WriteBack` |
| the gateway's `submitVerification` (external) | `SubmitVerification` |

## 3. Runs

| Run | Question | Distinct states |
|---|---|---|
| `doors_races` | three calls and one challenge among two devices and two members: how many sessions, whose, what a recovery swept first, what rewrites a sign-out, what a signed-out device can still cause | 393 thousand |
| `doors_clock` | two calls, the clock past a challenge's expiry: what a late call can do, and does every call end | 79 thousand |
| `operator_access` | sign-ins, password changes and withdrawals beside each other, with the code's five tries: who gets in, is it the policy, and what a lock still lets through | 412 thousand |
| `phone_races` | two workers, two numbers, two subjects: what a count and a lock rest on, what undoes a lock, whose number it is | 3.0 million |
| `salt_rotation` | two salts provisioned and retired, and the region changed, beside indexing | 214 thousand |
| `lastseen_hosts` | two requests on two hosts touch a session that runs out or ends; hosts restart | 379 thousand |
| `session_races` | two requests on three sessions of two subjects touch and end them, on mounts that name the session in use and on mounts that do not | 1.1 million |
| `verification_overlap` | two operators decide on two members who file three applications | 325 thousand |
| `doors_signed_out_mint`, `operator_lost_failure`, `operator_lifetime_lock`, `phone_cleared_count` | the divergences of section 5 | |

What the passing runs show:

* `OneSessionPerChallenge`, `GrantSpec`: the condition in the UPDATE alone
  makes a challenge single-use. `GrantSpec` is a refinement: spent is for good,
  and a grant answers to a spent ticket no other grant answers to.
* `ExpiredChallengeMintsNothing`: a slow handler may spend a challenge after its
  expiry, but a call that came in at or after it gets nothing.
* `SessionMatchesChallenge`: the checks *after* the consumption keep a recovery
  challenge, or another device's, from yielding a session at the device door.
* `SweptBeforeRecovered`: speaks of the devices the member held when the
  recovery call came in. A device registered between the sweep and the mint
  does stay live (section 5).
* `SignOutIsWhole`, `SignOutIsFinal`, `OnlyStaleSweepRewrites`: a sign-out
  keeps date and reason together and is never undone; a row that moves again
  does so by a sweep that saw it live.
* `LateCallWritesNothing`: the strongest true form of "a signed-out device may
  never challenge or verify again".
* `SessionWasEarned`, `ChangeWasProved`: the verdict on a password is used two
  statements later, so a withdrawal may come too late for a call under way,
  never for one that comes in after it.
* `WithdrawnStays`: holds however calls overlap.
* `PolicySpec`: the door implements `LockPolicy` with several workers. For an
  address whose sign-ins come one after another it is the policy in full: five
  failures in a row bar it, a barred one is not judged, and only a right
  answer, which clears the count, is acted on. Where sign-ins overlap, failures
  are lost (`operator_lost_failure`), but the row stays within bounds, no other
  address is touched, and the next right answer that is alone restores the
  policy. The policy is the code's: failures count however far apart they are,
  which is not what the comment on `Fail` says (`operator_lifetime_lock`). A
  lookup that fails counts as a failure too: the policy is about refusals, not
  about passwords.
* `LateGuessWritesNothing`: the lock is judged once, before the slow check of the
  password, and a right password deletes the row with whatever lock was put
  there meanwhile. That is open to sign-ins that came in before the lock. One
  that came in under a lock which has stood since counts nothing, lifts no lock
  and gets no session, even where it reads the row late and by an old clock.
* `BindingSpec`: `SubjectIDForPhone` implements `WriteOnce`; the insert that
  does nothing on conflict and the read after it leave no window.
* `LockWasEarned`: a number's count is within the wrong codes given for it in a
  row, and a lock rests on `LockAfter` of them; racing failures are lost, never
  counted twice. It says so of every number but those whose row a failure has
  written back that read it before a right code. Of these the run
  `phone_cleared_count` shows that the count, and with it the lock, may be
  early.
* `OnlyStragglersUnlock`: a lock ends early only by a right code, or by a failure
  that read the row, or the clock, before the lock was set.
* `EpochSpec`: one live salt at most, none comes back, none changes its key.
* `DigestNamesItsSalt`, `LateHashUsesLive`: a digest may come from a salt
  retired under the call, never from one retired before it, and always names
  the right one.
* `RetirerIsNamed`, `RefusalIsTrue`: of two who retire one salt, only the one
  the row names is told so; the other is told why not, and wrongly only of a
  salt that was provisioned under the call.
* `HashedAsMeant`: a number crosses to `Hash` as it reads in the region its
  caller stated, or in one that was the organization's during the call. An empty
  region never becomes the default, and no default never becomes a guess.
* `ClaimIsBacked`: the throttle withholds a touch only if the session was seen
  within its width, or a call under way may still see to it.
* `NoRowWithoutSession`, `SeenMovesOn`: no touch brings back the row of an ended
  session; a row moves only on, and by more than the throttle's width.
* `EndedStays`, `LastUsedMovesOn`: hold however touches and ends overlap.
* `EndedByItsHolder`: a session is ended only by a request that came in on a
  session of the same subject which was not over then, and on that very session
  only where the mount does not name the one in use. The session the request
  came in on may be over before it reaches the table: two sessions can end each
  other.
* `EndAnswerIsTrue`: "ended" is never told of a live session.
* `DeskSpec`: the verification record implements `ReviewDesk`. A decision leaves
  the application alone unless one was filed between its read and its write;
  then it may put back an older one of that member's, or none, with its verdict.
  Columns of one application stay together, and a status with its note.
* `VerdictOnSeen`: what a decision is about to write is an application the
  member's row held at some moment since the operator looked at it.

### Bounds

* **Calls.** Each `Request` of `AuthDoors` is used once. Three allow the
  longest interference the code has: two on one challenge and a third that
  signs out, sweeps or issues meanwhile. A challenge must first be issued by a
  call, so two verifies of one challenge need three.
* **Ids** are finite and handed out once, as the sequences do. One challenge
  suffices in `doors_races`: every property speaks of one challenge at a time.
  `doors_clock` has one for each call, so that none waits for a free id.
* **Clock.** It stops at `MaxTime`. `ChallengeTTL` is one tick, so with
  `MaxTime = 3` a challenge issued at 1 expires at 2 and a handler may run on at
  3. `doors_races` keeps the clock still, so it tells a rewritten sign-out by its
  reason alone; that its date is not rewritten either is left to the proofs of
  section 4. `LockAfter` is the code's
  5 in `operator_access`, whose clock runs through a lock and lets a second one
  start, and 2 in `phone_races`.
* **Phone, salts, last seen, sessions.** Two workers race, as each hazard is of
  two calls; two numbers or subjects tell "mine" from "another's". `MaxWrong = 3`
  bounds the wrong codes in a row, given or counted, and reaches past
  `LockAfter = 2`; `MaxTime = 4` reaches past a lock of two ticks. Two salts allow a successor that is
  live while calls still hold the one before; no salt returns, so more would
  repeat that (with three and without the blind index the properties hold as
  well). Two regions and one local number tell a number read in the wrong region
  from itself. The throttle is one tick,
  and a clock of three lets a claim be made, lapse and be made again. One
  session suffices there, as no key of the map and no row touches another but
  through the sweep, which treats all keys alike. `Sessions` has the least clock
  that lets a session expire and two stamps differ.
* **Verification.** Two operators overlap on one member; a second member tells
  one's application from another's; the third application is the one that comes
  in under a decision on the second.
* **Symmetry** is used over requests, challenges, devices and members (and over
  addresses, members, passwords and workers): no definition tells one from
  another. It is not used in `doors_clock`, which checks a temporal formula.
* **Deadlock** is off in the `AuthDoors` runs, because calls and ids run out.
  It is on in all others, where workers are reused.

### Fairness

`FairSpec` adds `WF_vars(Step(r))` per handler: the Go scheduler runs every
handler, and every statement returns or fails. No call is made to come in,
nothing is made to fail and the clock need not move, so `EveryCallEnds` rests
on the handlers alone. Weak fairness is enough, because no other step disables
a handler's next one.

## 4. Proofs

For any number of calls, devices, members and challenges, any lifetime of a
challenge and any bound on the clock, `AuthDoors_proofs` proves

* `TypeCorrect`: `Spec => []TypeOK`, with one lemma per group of actions;
* `ChallengeMintsOnce`: `Spec => []OneSessionPerChallenge`;
* `DoorsGrantOnce`: `Spec => GrantSpec`, the refinement of `OneUseGrant`;

and `SignOut_proofs`

* `SignOutWhole`: `Spec => []SignOutIsWhole`;
* `SignOutFinal`: `Spec => SignOutIsFinal`;
* `SignOutKept`: `Spec => OnlyStaleSweepRewrites`;
* `SessionMatches`: `Spec => []SessionMatchesChallenge`;
* `ExpiredMintsNothing`: `Spec => []ExpiredChallengeMintsNothing`;
* `RecoverySweeps`: `Spec => []SweptBeforeRecovered`;
* `LateCallIdle`: `Spec => LateCallWritesNothing`.

**One session per challenge** is not inductive: nothing in it forbids two
handlers that both stand before the minter with one challenge. `HolderInv` adds
that. A call *holds* its challenge from the UPDATE that consumed it until it
ends, and if it was minted a session, for ever; a held challenge is consumed; no
two calls hold the same one. The only step that starts to hold a challenge is
`TakeChallenge` where `UpdatesConsumed` is true, and then nobody held it, since
held implies consumed. `ChallengesKept` is the lemma that no step takes the mark
off a challenge.

**The refinement** adds `GrantInv`: only issued challenges are spent, and only
finished calls have a session. `GrantSteps` sorts all steps into the three that
`OneUseGrant` knows and those that change neither challenges nor sessions.

**The sign-out theorems** rest on `SignOutInv`, whose parts need each other.
`RowInv` says a sweep holds only devices that exist; for that the member it
sweeps must be one, which `SubjectInv` follows from the device row through the
challenge to the handler that spent it. `SignOutIsWhole` itself needs
`ClockInv`: no handler carries the date 0, which would read as no sign-out.
`HandlerSteps`, `RowSteps` and `ChallengeOrigin` say once what a step can do to
one handler, one row and one challenge; the rest cites them.

**The theorems about sessions** rest on `SessionInv`, over all of the above. The
properties speak of a session and of the moment its call came in; between the
two lie five statements, and `CallInv` carries the facts across them.
`HeldCall`: the row a handler read is still the challenge's, but for the mark,
and had not expired as the call came in. `DoorCall`: who mints at the device
door does so for the device the challenge names, the recovery door's for none.
`SweptCall`: what the member held is signed out or in the sweep's hands, and
past the sweep signed out. `LateCall`: a handler whose device had signed out
stands before a lookup. `ArrivalInv` keeps the history true: a device that
existed, or had signed out, as a call came in still does, or has.

`PhoneDoor_proofs` proves, for any numbers, subjects, workers and lock-out
parameters,

* `PhoneTypeCorrect`: `Spec => []TypeOK`;
* `PhoneBindsOnce`: `Spec => BindingSpec`, the refinement of `WriteOnce`. It
  needs `MintInv`: who is about to insert holds a subject, not the empty answer.
* `PhoneLockLasts`: `Spec => OnlyStragglersUnlock`. A failure judged against a
  locked row extends the lock (`FailExtends`), but only if the row's count is at
  the threshold. `Spent` says so of a row, and `LockInv` says it of every row
  stored or carried, and that no call holds a future clock reading. `CallMoves`
  and `MovedCarries` say once what a step does to one call.
* `PhoneLockEarned`: `Spec => []LockWasEarned`. That the count is within the
  wrong codes in a row is not inductive: a call about to write adds to the row it
  read, not to the table's. `EarnInv` counts the calls with it: where no old row
  was revived, the table's count, and the count of a row in the hands of a call
  that is not overtaken, leave room for every code that is given and not yet
  counted. The number of these calls is a `Cardinality`, of a finite set by
  `WorkersAssumption`; it grows with a code given and shrinks with one counted
  or dropped (`EarnGrows`, `EarnMoves`, `EarnShrinks`), and is what `streak`
  starts from when the count starts anew (`EarnAnew`). The lock follows by
  `Spent`.

`OperatorDoor_proofs` proves, for any addresses, members, passwords, workers and
lock-out parameters,

* `OperatorTypeCorrect`: `Spec => []TypeOK`;
* `OperatorSessionEarned`: `Spec => []SessionWasEarned`, and
  `OperatorChangeProved`: `Spec => ChangeWasProved`. Both need `EarnInv`: what
  opens a call's address now is in `valid`, which every change of a credential
  keeps up for all calls at once, and a call past its verifier named a password
  in it, for the credential's member;
* `OperatorWithdrawnStays`: `Spec => WithdrawnStays`;
* `OperatorTriesHonest`: `Spec => []TriesLeftHonest`, proved but in no run. A lost
  update writes a row
  that was read earlier, so `RowInv` says of rows in a call's hands what it says
  of the table's: no tries left exactly with a lock, none of which ends later
  than `LockFor` from now;
* `OperatorLocksOut`: `Spec => PolicySpec`, the refinement of `LockPolicy`.
  Where sign-ins overlap, a write is `Stray`, and `RowInv` gives its bounds.
  Where they do not, it has to be `Wrong` or `Right` against the row as it is:
  `AloneInv` says that the one sign-in under way found the address unbarred and
  holds the row that is still there;
* `OperatorLateGuess`: `Spec => LateGuessWritesNothing`. `ShutInv` says that who
  came in under a lock that stands has not read it yet and is barred by it
  whenever he does, as he judges by the clock he came in with.

`Sessions_proofs` proves, for any sessions, subjects and workers,
`SessionsTypeCorrect`, `EndAnswerTrue`, `SessionEndStays`, `SessionUseMovesOn`
and `SessionEndedByHolder`. They rest on `SessionsInv`. `HeldCall` says that a
call past `ByToken` is on a session of its caller's subject that was not over
when the request came in, and of a call before it that `ByToken` will refuse a
session that was; `DatedCall` that its clock reading is not ahead. `EndingCall` says what End's
UPDATE has shown when it matched nothing: the session has ended or is another
subject's, so that the second statement cannot be told of a live one. It also
says that a call ends the session it came in on only if its mount named none in
use.

`LastSeen_proofs` proves, for any hosts, workers, subjects, sessions and owners
and any width of the throttle, `SeenTypeCorrect`, `SeenRowReferred`,
`SeenClaimBacked` and `SeenMovesForward`. `ClaimIsBacked` needs that a host's
reading of the clock is no later than the database's (`DatedCall`): then a row
that is written, or that the upsert finds too new to write, stands for the
claim. `EntrySteps` says what a step can do to one entry of one host's map,
`RowSteps` what it can do to one row, and `StandsOn` and `PendsOn` that either
ground for a claim lasts or gives way to the other.

`PhoneSalt_proofs` proves, for any salts, keys, actors and workers,
`SaltTypeCorrect`, `SaltDigestNamed`, `SaltDigestCurrent`, `SaltRetirerNamed`,
`SaltRefusalTrue` and `SaltsServeInTurn`, the refinement of `SaltEpochs`. They rest on `SaltInv`:
`RowInv` (what is retired exists), `ActorInv` (who retires is named) and
`CallInv`, which ties what a call carries or was told to the rows. `RowsKept`,
that a key and a retired row never change, carries `CallInv` over the steps of
others. For the refusals, `Unmatched` says what the UPDATE that matched nothing
has shown of the row by the time it is counted.

The same module proves of `BlindIndex`, for any regions and numbering plan,
`IndexUsesRegister`, `IndexSpec => Spec`: every theorem about `PhoneSalt` holds
under the blind index; and `IndexHashesAsMeant`. The latter needs `Waiting`:
while a call waits for the region, what it could read now is in `meant`, which
`SetRegion` keeps up for every call at once.

`Verification_proofs` proves, for any members, applications and operators,
`VerificationTypeCorrect`, `VerdictIsOnSeen` and `RecordIsDesk`, the refinement
of `ReviewDesk`. They rest on `DeskInv`. `CallInv` says that a row about to be
written has a status, without which it would read as no row; `SeenInv` is
`VerdictOnSeen` stretched back to the moment the call came in; `WholeInv` says
that what a row or a call carries is nothing or a whole application of its
member, so that an application just filed is in no call yet, and filing it can
only expose its member. `CallStep` and `RowStep` show once that a step of a call
and a step on a row keep the invariant. `WriteBackMaps` splits on whether the
application is still the one that was read.

The proofs about `AuthDoors` use `NoneIsNoId` (no id is the empty string), `TTLAssumption`,
`MaxTimeAssumption` and `AllowUnsignedProofAssumption`, nothing else; the others use the assumptions
`OperatorDoor`, `PhoneDoor`, `Lockout`, `PhoneSalt`, `BlindIndex`, `LastSeen`,
`Sessions` and `Verification` state of their constants. TLC evaluates
all of them on every run. The facts about finite sets and their sizes are the
library's (`FiniteSetTheorems`).

So every invariant, action property and refinement that a passing run checks is
a theorem as well. Only model-checked: `EveryCallEnds`, as TLAPS does not reason
about `ENABLED`, and the counterexamples of section 5.

## 5. Where the code and its comments disagree

* **A sweep overwrites a sign-out** (no run of its own; `device_impl.go:108`). `models/auth.go:214` and `:239` promise that the first
  date and reason stay. A `SignOutDevice` that commits between the sweep's
  SELECT and its UPDATE loses both: this is the one exception `OnlyStaleSweepRewrites`
  makes, and without it that property fails.
* **A challenge outlives a sign-out** (`doors_signed_out_mint`,
  `routes/device.go:125`). The comment at `routes/device.go:92` says a challenge
  minted before the sign-out must not be spendable after it. A handler past
  `GetDevice` spends it. `LateCallWritesNothing` is what does hold.
* **A failure is lost** (`operator_lost_failure`,
  `operator_attempt_impl.go:27`). `models/operator.go:205` says `RecordFailure`
  counts one wrong password. Two that overlap count as one.
* **A device registered under a recovery** (no run of its own;
  `device_impl.go:96`). The comment at `routes/recovery.go:59` says a recovery
  ejects every other handset before the session is minted, so that no session
  sits beside a possibly compromised one. A device registered after the sweep's
  SELECT is not in it and stays live. That is why `SweptBeforeRecovered`,
  which is what does hold, speaks only of the devices held when the call came
  in.
* **Failures of a lifetime lock** (`operator_lifetime_lock`,
  `models/operator.go:155`). The comment on `Fail` says the five are
  "*consecutive within one window* rather than cumulative over an address's
  lifetime", and the one at `models/auth.go:191` the same of a number. Only a
  lock that has run out makes `Fail` forget, so five failures with no lock and no
  right password between them lock, however far apart. The repository pins this
  in `models/dev1698_lockout_reset_test.go` and leaves open (DEV-1698 in
  `todo.md`) whether the code or the comment is to change. The run bounds the
  window by two ticks, and the lock comes three after the first failure.
  `LockPolicy`, which `OperatorDoor` implements, is the code's policy.
* **A right code undone** (`phone_cleared_count`, `phoneattempt_impl.go:27`).
  `models/auth.go:261` says the count is of *consecutive* wrong codes and does
  not survive a success. A failure that read the row before the right code
  deleted it writes it back, one up, and the number locks early.
  `LockWasEarned` says that is the one way.
* **Two comments on retiring** (no run: the contradiction is between them).
  `models/phonesalt.go:24` says `Retire` refuses to leave a plane with no live
  salt. It does not, and the comment on `Retire` itself calls that deliberate.
  `SaltEpochs` lets the last salt end.
* **A decision can blank an application** (no run of its own). The comment at
  `routes/verification.go:22` says a decision "cannot blank" the member's
  fields, and `routes/doc.go:36` that a PUT only ever changes the status and the
  note. Both hold of one call by itself. An application filed between `Get` and
  `Set` is overwritten with the columns `Get` returned, empty ones if it was the
  member's first: `ReviewDesk`'s `DecideLate`, without which `DeskSpec` fails.
* **"Already retired" of a live salt** (no run of its own).
  `models/phonesalt.go:54` says `ErrPhoneSaltRetired` is of a salt that is
  retired. `Retire` also returns it of a salt provisioned between its UPDATE and
  its COUNT, the exception `RefusalIsTrue` makes.

## 6. Plan

Done: the modules of section 2 and the theorems of section 4. Left:

1. The lemmas about `Lockout.Fail` are proved twice, for each door's own notion
   of a sound row; one module of them would serve both.
2. Theorems about the abstract specifications themselves, from which a reader
   of `LockPolicy` or `OneUseGrant` could go on: that a bar of `LockPolicy` is
   never longer than `LockFor`, that `OneUseGrant` grants a ticket once.
3. Liveness of the other doors; it would be checked, not proved.

## 7. Not modelled

* Cryptography, password hashing, the numbering plan of the phone number library
  and the user-agent description: pure functions with their own tests. A proof
  or a password is right or wrong, a number is issued or not.
* Declarations, DDL, validation, error mapping and wiring: sequential and
  without state. To the models they are one more way for a call to end.
* Operations that only read: `Get` and `ListForSubject` of the operators,
  `PhoneAttempt`, `Live` and `List` of the salts, `ListLive`, and the identity
  sessions' `List`.
* Which refusal a call gets, where it changes nothing; `Retire`'s are modelled.
* The date of a verification record's last change, which `Set` stamps on every
  write.
* Clocks that differ: hosts and database are taken to read one.
* The identity project itself. Its sessions run out and its end function
  deletes; who signs in there is not the package's.
* Challenges of kind `phone`, which no handler of the repository issues or takes.
