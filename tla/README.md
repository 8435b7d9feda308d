# TLA+ specifications of the LDAP manager

The LDAP manager (`src/src/ldap_manager`) is the identity service of FileEngine: a FastAPI
application that keeps accounts and roles in a directory, its own tables in Postgres and its
short-lived tokens in Redis, and answers to the browser, to tenant administrators and,
server to server, to `http_bridge` and the file doors.

Its routes are synchronous handlers, so FastAPI runs each request on a thread of its pool. There are
no locks around a request: between any two calls to the directory, to Redis, to Postgres or to
the audit service another request, an operator or the clock may act, and every one of these calls may
fail. That is what these specifications are about. In all of them **a worker is a thread, its
`stage` names the call it makes next, one call is one step**, and what a request carries from one
call to the next (a count, a peeked address, a row it read) is a variable of the worker. A request that
is refused or whose call fails goes back to `"idle"` and leaves what it has already written.

## 1. The system

| Component | State | Operations | What is hard | What makes it correct |
|---|---|---|---|---|
| Tenant roles (`routers/admin_roles.py`, `routers/admin_users.py`, `deps.py`) | role groups and members in LDAP, global accounts | create/delete role, add/remove member, invite, add existing, set roles, remove user | guard and write are separate LDAP calls; multi-write edits may stop half-way; administrators change while requests run; the routes compare names letter by letter, the directory without case | an administrator remains; every change recorded first; system roles out of reach; edits exact; keys purged only after the last role |
| LDAP client, failover (`ldap_client.py`, `failover.py`) | two servers, one circuit breaker per instance | reads and writes, retry on the other server | the guard of a removal reads from a lagging replica; the breaker closes between guard and write | a removal that the replica vouched for is written only if the breaker has closed since; the breaker closes once the master stays |
| Invite and reset tokens (`tokens.py`, `routers/public_auth.py`, `routers/me.py`) | Redis keys, one index set per address | issue, peek, revoke all; invite, reset, accept, confirm, change password | peek, set and revoke are three calls; revocation is two round trips; addresses spelled differently | a used link ends all of them; resets are recorded |
| Rate counters and markers (`tokens.py`) | Redis counters with an expiry | increment, expire | a crash between the two; a counter at its limit | counters reset |
| Bearer tokens (`bridge_auth.py`, `token_revocation.py`, `jwt_verify.py`) | verdict caches in memory, denylist in Redis | verify, revoke, prune | overlapping lookups store old verdicts; lookups fail; tokens expire in flight | sign-out takes effect within the cache window; the cache is bounded |
| Two factors (`twofa.py`, `routers/twofa.py`) | a row per account, a mailed code, a policy per tenant | setup, confirm, disable, renew, login checks, grace enrolment, policy | each route reads in one transaction and writes in another | codes used once; enabled secrets proven; enrolments end with a code |
| Tenant gate (`tenant_state.py`) | one cached verdict per tenant | admits, refusal reason | no lock; two times to live; failed lookups | a suspension takes effect, a failure is not called one |
| OAuth (`routers/oauth.py`, `oauth_codes.py`, `oauth_consent.py`) | codes and refresh tokens in Redis, consents in Postgres | authorize, decide, token | two gate checks around a consumption; concurrent presentations | grants used once; scopes never widen; suspended tenants get nothing |
| Service credentials (`service_cred.py`, `routers/service_cred.py`) | a row per key | create, rotate twice over, revoke, purge, verify, status | count then insert, copy then delete, at read committed | ended secrets refused; the limit; a rotation keeps the grant |
| WebDAV session policy (`webdav_policy.py`) | an override per tenant | get, set | the bounds may change under a stored value | what is read is within today's bounds |
| Share-link codes (`routers/share_otp.py`) | codes, two counters and recipient tokens in Redis | challenge, verify | counting and its expiry are two calls, so are reading and deleting a code; windows and codes run out between any two | the budget holds; the newest mail's code works and works once; a lockout ends |
| OAuth clients (`oauth_store.py`, `routers/admin_oauth.py`) | a row per client | register, update, rotate the secret, delete; read by the token endpoint | a PUT is checked field against field and not against the row; count then insert | a client without authentication gets no service token |
| Onboarding (`routers/tenant_onboarding.py`) | none of its own | welcome: a reset token and a mail | the address in the directory's spelling | as for the links |
| OAuth keys, JWTs; password policy; tenant access; home folders; mail and templates; audit; application shell | little or none of their own | mostly pure functions and single outgoing calls | best-effort calls | see section 7 |

They interact through the stores and through a few calls: removing a user from a tenant
(`admin_users`) purges service credentials; inviting issues an account token; every authenticated
route passes the bearer check; every OAuth grant passes the gate; `2fa`, `share_otp` and the public routes
share the rate counters. The audit service is asked before a privilege changes, and a refused
record ends the request with 503.

`PROJECT.json` lists the hazards, each at its line, with the property that covers it.

## 2. Modules

| Module | Models | Composed of |
|---|---|---|
| `RoleLedger` | the abstract promise of role administration | |
| `TenantRoles` | the administration routes, call by call | refines `RoleLedger` |
| `TenantKeys` | a person's door key and bearer beside the administration routes | extends `TenantRoles` |
| `AccountTokens` | invite and reset links, password change | |
| `BearerTokens` | verification, denylist, caches, time | |
| `TwoFactor` | enrolment, login checks, policy | |
| `TenantGate` | the gate, its cache and the registry | |
| `GrantLedger` | the abstract promise about codes and refresh tokens | |
| `OAuthGrants` | authorization and token endpoint | extends `TenantGate`, refines `GrantLedger` |
| `ServiceCredentials` | door keys and a session minted from one | |
| `AttemptBudget` | the abstract promise of an attempt limit | |
| `ShareOtp` | challenge and verification of a share link's code | refines `AttemptBudget` |
| `DirectoryFailover` | master, replica and breaker under the last-administrator guard | |
| `ClientRegistry` | the clients' routes and the token endpoint that reads the rows | |
| `MC*` | the sets and symmetries of the runs | extend the above |
| `*_proofs` | theorems | extend the above |

Definitions that start with "Deliberately wrong" in their comment are never part of a `Next`:
each is a plausible slip in the code, put in the place of the definition it follows to see that a property notices.

**TenantRoles.** `groups`, `members`, `accounts` are the tenant's part of the directory; the
placeholder member that keeps a group non-empty is left out of `members`. `CreateRole`, `DeleteRole`, `AddMember`,
`RemoveMember`, `CreateUser`, `SetUserRoles`, `RemoveUser` are the arrivals of requests with the tests made
before the first call: the caller is looked up in administrators here, once (`require_tenant_admin`).
`LookUp*` are `get_user`/`user_roles`, `CheckInviteRoles` and `DiffRoles` the `list_roles` call and the diff computed from it,
`GuardLastAdmin` the count of `list_members`, `Audit` the acknowledged record (`Refuse` a refused one),
`WriteGroup`, `WriteAccount`, `WriteGrant`, `WriteRevoke` one LDAP write each, `WriteNothing` the end of an edit with no difference,
`WriteFails` a failed one, `Purge` the end of `remove_user`, which succeeds whatever the credential store does. Python compares names with `==` and `in`, LDAP without case:
`exact` tells whether the path spells the uid as the identity does, `literal` whether it spells the role as `ADMINS` and `SYSTEM_ROLES` do. A path that does not passes `delete_role`'s and
`reject_system_roles`' tests, and skips the self test and the guard of `remove_member`; the write finds the group all the same. Roles in a *body* of `create_user` and `set_user_roles` are compared with
the names the directory returned, so a respelled one is an unknown role. `stale` is a history: whether another request has changed what this one read, the number of administrators (`"count"`) or the
member's roles (`"roles"`).

**TenantKeys.** `keys` and `bearers` beside `TenantRoles`: signing in asks for a role, making a key only for a bearer, and the purge of a leaver deletes the keys or fails unnoticed. It is a module of its own since only one question needs it.

**AccountTokens.** `live`, `kind`, `addr` are the Redis keys, `index` the per-address sets. `Issue`, `Peek`,
`Audit`, `SetPassword`, `Find` (SMEMBERS) and `Wipe` (the pipeline of DELs) are the calls; `Mail` may lose the link; `Expire` is the TTL.
`Address` holds spellings: an invitation goes to the spelling that was typed, a reset to the directory's.

**BearerTokens.** `local` chooses between a shared secret with the denylist and introspection. `Check` is the expiry test
and the cache lookup, `Lookup` the call, `LookupFails` an outage with either answer of `FailOpen`,
`Store` the store of the verdict with the pruning before it. `Tick` advances the clock between any two steps.

**TwoFactor.** `row`, `live`, `policy` are the account's row, its mailed code, the tenant's row. Grace enrolment
(`enroll-begin`, `enroll-complete`) makes the same calls as `setup` and `verify-setup`, so `Request` with op
`"setup"` or `"confirm"` stands for both. A TOTP code is identified with the secret it is computed from.

**TenantGate, OAuthGrants.** `Enter`, `Lookup`, `StoreVerdict` are one call of the gate; the token endpoint goes
`Peek`, `FirstCheck`, `Consume`, `Respond`, calling the gate before `FirstCheck` and again before `Respond`. An authorization is one step, because what it
reads only grows: the clients are fixed, and no route takes a consent back. `GrantLedger` is what a client and a user may count on: a grant is issued within what was approved, claimed by one
request, answered at most once, and replaced by a token of the same client with no scope more; it knows neither Redis nor gate nor requests. The instance in `OAuthGrants` says
where a grant stands by what is true of it: `"live"` while its key exists, `"claimed"` while the request that took it out is unanswered (`Claims`), `"over"` after that.

**ServiceCredentials.** One SQL statement is one step, each statement sees what is committed when it starts, and the last of a
method is its commit. `Count`/`Insert` are the create route, `Own`/`Update` a rotation in place, `Own`/`Copy`/`Drop` one to a new id, `Select`/`Touch` a verification by
secret (login) or by generation (refresh).

**ShareOtp, AttemptBudget.** `count` and `ttl` are the two counters of an address, for sends and for attempts, `stored` and
`life` the live code. `Challenge` and `Verify` are the arrivals; `Incr` and `SetExpiry` are the two calls of `rate_ok`, made once or, for a submission whose timing
tripped, `Weight` times of which only the last answer counts; `LinkCapped` is the refusal of the link's daily counter, `Issue` and `Mail` the
rest of the challenge; `Compare` (GET), `Burn` (DELETE) and `MintToken` the rest of the verification. `Tick` runs down the windows and the
code, `Fail` ends a request between any two calls. A window is fixed: it starts with the first INCR and is not pushed out by
later ones, although the module's docstring calls it rolling (`share_otp.py:38`). `AttemptBudget` says what an owner may count on -- at most `Limit` submissions admitted between two ends of the window,
each one paid (one that is admitted just before an end may compare just after it) -- and knows nothing of calls, codes or mails; the instance in `ShareOtp` maps `spent` to the counter, cut off at the limit.

**DirectoryFailover.** `held` gives the members of administrators on each server, `cooling` the ticks until `_down_until`.
A session is `OpenRead` or `OpenWrite` (the list of `_endpoints`), `Dial`, and then either `Redial` (trip the breaker if it was the master, try the
next) or the operation: `GuardLastAdmin`, `Modify`. `Audit` is the call between the two sessions. `Flip` fails or restores the master, `Replicate`
brings the replica up to date at an arbitrary moment. The breaker is one shared variable read and written without a lock.
The read-after-write consistency that SPECIFICATION.md:59 asks for (a mutation's response is read back from the master) is not in the code, and so not in the module.

**ClientRegistry.** `rows` is the table; a route is one or two transactions (`Insert` after the count, `Update` after the look-up, `Rotate`),
and `ClientCredentials`, `Authenticate` the way of `client_credentials` through the token endpoint. Bodies of a PUT hold any subset of the fields.

## 3. Runs

| Run | Question | Bounds |
|---|---|---|
| `roles` | two requests at their calls, every call may fail, names may be respelled: by what is the last administrator lost, is every change recorded first, is `RoleLedger` implemented, are edits exact and never expulsions, does a purge follow the last role? | 2 persons, 1 service account, 3 roles (administrators, one ordinary, one system), 2 workers; bodies name the ordinary or the system role, POST of a group the ordinary one |
| `roles_respelled` (violated) | does an administrator remain? | the same, 1 worker |
| `roles_leftover_keys` (violated) | do keys fail once the roles are gone? | as `roles_respelled` |
| `tokens` | what a password set ends, records, the only ways one link serves two requests that are answered ok | 2 spellings of one address, 2 tokens, 2 workers |
| `bearer` | how long is a dead token honoured? is the cache bounded? | 2 tokens (one expires at 1, one at 4), window 2, clock to 5, cache of 1, 2 workers |
| `twofa` | single use, proven enrolments and one secret shown, how enrolments end | 2 secrets, 2 recovery codes, 1 mailed code, 2 workers |
| `twofa_reenrolment` (violated) | is the secret of a complete enrolment ever replaced without a disable? | 2 secrets, 1 recovery code, 1 mailed code, 1 worker |
| `oauth` | the gate's times, and is `GrantLedger` implemented behind it? | 1 client, 3 scopes of which 2 are asked for, 3 grants, 2 workers, both TTLs 1, clock to 1 |
| `keys` | ended secrets, the limit, copies that outlive their key | 2 users, 2 tenants, 3 ids, 3 secrets, limit 1, 2 workers |
| `share` | is `AttemptBudget` implemented? does the newest code work? does a lockout end? | 2 codes drawn, 1 send and 2 attempts a window, windows of 1 and 2 ticks, a code's life 1, weight 2, 2 workers |
| `failover` | what is left of the last-administrator guard behind a lagging replica? does the breaker close? | 2 persons, 2 workers, cooldown of 2 ticks |
| `clients_public_grant` (violated) | does a client without authentication get a service token? | 1 client, 2 secrets, 1 worker, limit 1 |

Why these bounds. Two workers show every overlap of a pair, and each property blames at most one
other request. Two persons suffice where two remove each other or themselves. A body that names administrators takes the same way as one that names the ordinary
role, since no body is refused for it; the bodies of `roles` differ in whether they keep a system role, and the revocation of administrators by a PUT comes with every body that leaves it out.
Three grants are a code, its refresh token and the token that a rotation puts in its place; every request asks for two of three scopes, so that a rotation can narrow and there is a
scope that nobody approved. The remembered consent then covers all or nothing: that a partial one does not do is `Approved` (section 5). A clock that ends at 1 with a TTL of 1 still lets a verdict be read at 0, the state be switched,
and the verdict lapse; `bearer` has room for a revocation, a full window and an expiry one after the
other. A cache of one entry is at its limit with the first store. Three keys are the smallest number with which a key is rotated while another is created over a limit of one.
The `twofa` run mails one code only, so in it the DELETE of `Burn` never meets a newer code; nothing it checks is about the lost newer code.
In `share` two codes let a newer mail cross the submission of an older one, and a weighted submission may use up the whole budget between the calls of another.
A cooldown of two ticks in `failover` leaves the breaker open across a step of the clock, so that a second trip can prolong it.

Symmetry is used over workers and over values that are only compared; not where a set singles members out.
`roles` has 1.8 million distinct states and takes about three minutes with two workers of TLC, `oauth` 1.1 million and as long.
Deadlock is checked in every run but `roles`: a tenant that has lost its administrators accepts no request any more, and really stops.

**Fairness.** Most runs check safety and assume none. `ShareOtp!FairSpec` assumes that time passes (`WF_vars(Tick)`: the expiry of keys is Redis's own doing) and that
a thread of the pool that has begun a request goes on with it (`WF_vars(Step(w))`), or dies (`Fail`, never forced). Nobody is assumed to send a request, and requests may keep coming for ever:
`LockoutEnds` holds against a client that never stops trying. `DirectoryFailover!FairSpec` assumes only that time passes. The breaker closes by the clock whether or not anybody
asks, so `BreakerCloses` needs no request to be served; that later successes and failures do not undo it is what it says.

## 4. What the runs show

Properties that hold:

- *Roles.* What is left of the last-administrator rule is `LastSeatGuarded`: the group is emptied only (a) by a request whose path spells `administrators` otherwise, or (b) by one whose count another request has overtaken,
  and whose caller has been removed meanwhile or names itself in another spelling. (b) is the race of guard and write: two overlapping removals both count two, and both go through. Each is a way the code really has; (a) is also a run.
  No group changes without an acknowledged record (`WriteAheadAudit`). A protected group is deleted, or a system role granted, only while a request under way spells it otherwise, and service accounts stay in theirs
  unless their group goes (`ImplementsLedger`). A PUT is exact when it completes (`SetRolesExact`) and never leaves the member
  outside when it does not (`EditKeepsMembership`), because grants come before revocations; a purge comes after the last role (`PurgeFollowsRemoval`). These three except a request whose member's roles another one has changed since it read them.
- *Links.* A live token is in its index unless issued between the two calls of a revocation (`LiveTokensIndexed`); a set answered ok ends all others
  (`AnsweredSetEndsTokens`); resets and changes are recorded first (`ResetsRecorded`). The comment of `invite_accept` that a used token "still cannot be replayed" is true of
  a set that is answered ok; `ReplayOnlyByOverlap` says exactly when a token serves two such sets: both requests had found it live before either answered, or a revocation missed it. A set whose revocation fails is answered with an error
  and leaves its token, which may set another password with no overlap at all: neither the comment nor the property is about that one.
- *Bearers.* A signed-out token is honoured for at most `CacheTtl` counted from the sign-out, whichever verdicts overwrite
  each other (`SignOutBound`), because the time of a verdict is taken before the lookup; expired ones only in flight or within a remembered introspection (`ExpiryBound`).
- *Two factors.* Recovery codes are single-use under every overlap (`RecoverySingleUse`); mailed ones and proven enrolments without overlap (`MailCodeSpent`, `EnrolmentProven`);
  a complete enrolment ends only by a setup or by a disable with a code (`EnrolmentEnds`), and that a setup does it at all is disagreement 3 below. Setup shows one secret as long as requests do not overlap, which
  `EnrolmentProven` includes; a double click may show two of which one is stored.
- *OAuth.* Suspension and resumption take effect within their times to live (`SuspensionBites`, `ResumptionBites`, `SuspendedGetNothing`). Codes and refresh tokens follow the ledger: claimed once, answered once, replaced without a scope more (`ImplementsGrantLedger`);
  scopes stay approved through consent, code, refresh and rotation (`ScopesApproved`), nothing is consumed before an admission (`RotationAfterAdmission`). The gate is asked
  again after the consumption, so a refusal there costs the caller the refresh token; the property covers the first check only.
- *Keys.* An ended secret is refused at login and refresh (`EndedSecretsRefused`). The limit is exceeded, and a revoked key lives on as a copy, only by the races named in
  `MarksAfter` (`CapExceededOnlyByRaces`, `CopyOutlivesKeyOnlyByRace`).
- *Share links.* The routes implement the budget, however submissions overlap and whichever request dies between INCR and EXPIRE (`ImplementsBudget`). The newest mailed code works until it is used or expires, and a code whose token is being minted is
  dead (`NewestCodeWorks`), unless the calls of two requests crossed. A refused address is let in again in the end (`LockoutEnds`), except where a request died between INCR and EXPIRE: that counter has no expiry and the
  address stays locked out.
- *Failover.* While the breaker is open no removal goes through on the replica's word; the last administrator is lost only if the breaker closed between the replica's answer and the write, or to
  overlapping removals (`LastAdminLostOnlyByLag`), or to a request that spells the role otherwise and has no guard. Once the master stays reachable the breaker closes for good (`BreakerCloses`).

Disagreements between the code and what its documents and comments say (each is a run that ends in a counterexample):

1. One `DELETE /v1/admin/roles/Administrators` deletes the administrators group, against SPECIFICATION.md:130-132; `DELETE .../Administrators/members/<uid>` removes the last administrator, and `File_Services` is granted and deleted the same way,
   against the docstring of `reject_system_roles`. The routes compare the path's role letter by letter, the directory resolves the DN without case.
2. A leftover door key verifies without any role, against the comment of `_purge_tenant_credentials`.
3. `POST /v1/me/2fa/setup` on an account with 2FA enabled replaces its secret and switches 2FA off, with a bearer token and no code, against the comment at `routers/twofa.py:96-97` and the one in `tests/test_twofa_endpoints.py:190-192`.
4. A confidential client with `client_credentials` that a PUT makes public keeps its grant types and its old secret, and still gets service tokens, against the comment at `admin_oauth.py:82`.

The race of two removals contradicts SPECIFICATION.md:130 as well; it has no run of its own but is the exception (b) of `LastSeatGuarded`.

Smaller observations, without a run: the docstring of `share_email_verify` mentions `attempts_remaining`, which is returned on a lockout only; `DirectoryFailover` has the guard answered by a replica on purpose,
since nothing in the code pins a guard's read to the master.

## 5. What is proved

For every value of the constants that meets the named assumptions of the modules (finite sets of persons, roles and tokens, `Admins` a role that is no system role, times in `Nat`,
placeholders outside the sets they stand beside):

- `TenantRoles_proofs`, for any number of requests and whatever they respell. `TypeCorrect`. `SafeInv` adds to the types what a request has established when it writes (`SafeRequest`): what it grants is no system role unless it is spelled otherwise,
  a caller whom the self test was for does not revoke itself exactly, and everything still to be written is in its acknowledged record. It is inductive (`RequestsSafe`); a lemma then says which four changes of
  the directory a step can make and what the writer has been refused and has recorded (`Effect`). From it follow `AuditFirst` and `Implements` (the refinement of `RoleLedger`, initial states and steps).
  `Tidied` and `Intact` read off the ledger what it keeps: a name without a group has no members; a protected group that no request ever spells otherwise stays, with the service accounts in it.
  `LastSeat` is `LastSeatGuarded` from `SeatInv`: from the guard to the revocation, whoever a literal request takes out leaves somebody behind as long as its count is not stale (`CountHolds`).
  `LastAdministratorApart` is the documented rule, for any number of workers, under the two hypotheses the code does not enforce: no request ever spells administrators otherwise, and no two removals of an administrator are past the guard at a time (`RemovalsApart`);
  `LastAdministrator` is the case of one worker, where only the first remains.
  `Exact`, `KeepsMembership` and `PurgeFollows` come from `EditInv`: until another request changes the member's roles, what is still to be written is the difference between the directory and what was submitted (`Diff`), or the leaver's remaining roles (`Removal`); that a role created anew cannot disturb it is `Tidied`.
- `AccountTokens_proofs`. `TypeCorrect`; `IndexedTokens` and `SetEnds` from `IndexInv` (what a `Find` returned covers the index up to overlapping issues); `Recorded`;
  `ReplayNeedsOverlap` for any number of requests, from `ReplayInv`: a token that was answered ok is dead, or its answers are accounted for by requests that had peeked at it before.
  `OverOnceAnsweredApart` and `SetEndsAllApart` have no exceptions: where no token is looked up while another request uses it, and none is issued for a spelling that is about to be wiped (`Apart`), a token that has served a request answered ok is gone and in nobody's hands, and such a set leaves no live token of its spelling.
  They do not say that a token sets one password: a set that fails in its revocation is answered with an error and leaves the token.
- `BearerTokens_proofs`. `TypeCorrect`; `SignOut` in a deployment that does not fail open, from `SignOutInv`: a remembered or heard "not revoked" was true when its lookup's clock was read (`Fresh`), and no entry
  lasts longer than `CacheTtl`; `Expires` from `ExpiryInv`; `Bounded` from `CacheInv` and the lemma that `Room` leaves place for one more.
  `SignOutAsked`, for introspection alone, does without the assumption and without the exception for expired tokens: what is remembered was answered by the bridge before the sign-out (`Remembered`), and neither a failure nor a refusal is remembered.
- `ShareOtp_proofs`. `TypeCorrect` from `TypeInv`: at most one request owes a counter its expiry (`OneDue`), and a counter that does not exist has none (`NoKeyNoExpiry`). `Implements`, the refinement of `AttemptBudget`, initial state and steps. `NewestWorks`
  from `CodeInv`, which adds whose mail is under way and what a request between GET and DELETE has read. `WithinBudget` is what the refinement was for: no more guesses are admitted in a window than the limit.
  `NewestWorksApart` has no exception: where no challenge stores its code beside another's mail or a DELETE (`ChallengesApart`), the code of the last mail is the stored one until it is gone (`AgreeInv`).
- `DirectoryFailover_proofs`. `TypeCorrect`; `LastAdmin` from `LagInv`. For a removal that is not excused: what the master counted still stands; what the replica counted is followed by an open breaker until the write is listed; and a write that is listed follows the master's
  count (`Guarded`). That needs `Routed`, a service without a replica never hears from one, because only a configured replica makes an open breaker refuse writes. The lemma `Bystander` says when a step of one request leaves the others guarded.
  Where no two removals are past the guard at a time, and every path spells the role as the constant does, the last administrator is lost on a replica's word only (`LostByReplica`, from `MisledInv`), and without a replica never (`AdminRemainsAlone`), whatever outages come between count and write.

- `OAuthGrants_proofs`, over the gate and the routes together. `TypeCorrect`; `Suspended` and `Resumed` from `ClockInv`: every verdict, stored or on its way, of a state that is no longer the tenant's
  was asked for before the change, and lapses within its own time to live; `Nothing` from `ServeInv`, which follows such a verdict into the request that holds it. `Implements` is the refinement of `GrantLedger`, initial state and steps. It and `Rotation` rest on `GrantInv`
  (a grant is drawn, lives, is claimed by one request and used, in this order), `ScopeInv` (every scope that is stored or about to be answered was approved) and `AdmittedInv` (a token of its own client reaches the rotation on an admission only); the refinement needs
  `ClaimInv` besides: who has taken a grant out is the only one, and will answer for its client, within its scopes. `LedgerSound` is proved of the ledger alone (`LedgerInv`: a grant that is not over
  has not been answered, and everything issued is within what was approved), and `Once` and `Approved` follow from the two.
- `TwoFactor_proofs`. `TypeCorrect`; `SingleUse` and `Ends` from `UseInv`, for every overlap: a recovery code that was accepted is in no row, an accepted mail code under no key, and a disable about to delete was given a code that was used once. `Proven` and `Spent` from `AloneInv`, whose
  parts `Account` (an enabled row's secret was proven) and `Relies` (what the one request under way has read still stands) are claimed only until requests overlap.
  Two sharper theorems name the one overlap each promise cannot stand: `ProvenApart`, no setup is about to mint a secret while another request is about to enable the row (`MintsApart`); `SpentApart`, no two requests have read the same mailed code and are about to delete it (`BurnsApart`).
- `ServiceCredentials_proofs`. `TypeCorrect`; `EndedRefused` from `LateInv`: a secret is generated once, so one that has ended never comes back (`EndedForever`, of every step), and what a late check reads is another. `CopyOutlives` from `CopyInv`: what a rotation has copied is still there
  unless the request was overtaken. `Capped` from both `CopyInv` and `CapInv`: a creation that was not crowded still has room for its key. `CappedApart` is the plain limit, for users whose own requests do not overlap (`OneRequestEach`), whatever others do and whatever is revoked or purged meanwhile (`PlaceInv`). The lemma `Witnessed` says that a step either is a request's own or leaves it the mark it should.

The hypotheses of the theorems about requests that do not overlap are predicates on the stages of the requests, and the steps of all others stay free. Nothing in the code enforces them: each says what a lock or a conditional write
would have to exclude for the plain promise to hold. Without them the plain promises are false: `roles_respelled` shows it of one, and the exceptions that the runs' properties carry stand for the others: each is a case that TLC reaches. `OneRequestEach` alone is coarser than it need be, a lock per user.

Every safety property of a passing run is so proved, and so is every refinement. Only model-checked: liveness, and `ClientRegistry`, whose one property the code violates.
Beyond the prover and so left to TLC: liveness (`LockoutEnds`, `BreakerCloses`), `ENABLED`, and induction over recursive data (there is none here so far).

## 6. Assumptions of the models

One directory server, whose writes are seen by the next read, everywhere but in `DirectoryFailover`; one tenant in `TenantRoles`, `TwoFactor` and `OAuthGrants`, since every DN and key carries it; groups exist under the code's own spelling of their names, and `create_role` is asked for names so spelled (a group deleted and created again as `Administrators` would be found by the
directory, and no longer protected in a body either); the audit service configured and fail-closed;
one clock for bridge, Redis and service; Postgres at its default isolation; ids, secrets and tokens never repeat; one deployment configuration throughout a behaviour (a restart with fewer
`MFA_ALLOWED_METHODS` is not modelled). External to the repository, and modelled from how it is used: the directory's answer to a key's owner signing in, the operator who switches
a tenant's state, the door that holds sessions, the bridge's revocation.

## 7. What is not modelled

- OAuth keys and JWTs, password policy, tenant access, TOTP arithmetic, claim and role-name handling: pure functions and cryptography. Their outcomes (accepted, refused) are choices of the requests that use them.
- WebDAV session policy: one upsert and one read of a number, clamped to the deployment's bounds on both ways. The last write wins, and a value stored under other bounds is clamped again where it is read.
- Home folders: best-effort HTTP calls to the bridge after the roles are settled; a failure is logged and changes no state of this service.
- Mail and templates: rendering and delivery; only that a mail may be lost is modelled.
- Application shell: wiring, configuration, request schemas, metrics, probes, the command line.
- Of the modelled parts: profile attributes and the roster (`ldap_client.py`), the throttle of `reset_request`, the rate limits around two-factor routes, records of the audit service that nobody waits for, connections of the health probe.

## 8. Plan

Done, in this order: `TenantRoles` with `RoleLedger`, `AccountTokens`, `BearerTokens`, `TwoFactor`, `TenantGate` and `OAuthGrants` with `GrantLedger`, `ServiceCredentials`, `ShareOtp` with `AttemptBudget`, `DirectoryFailover`, `ClientRegistry`; proofs of all of them but `ClientRegistry`.

Next: what a restart with another configuration does to rows and counters written before it, and the profile attributes of `ldap_client.py`; an abstract promise for the account tokens and one for the door keys, to be refined as the other three are.

New questions will replace or join runs that ask related ones, so that the set of runs stays one a person can wait for.
