# Verification of vaultur

vaultur is a Bitwarden-compatible server that runs as a Cloudflare Worker. Its
state is in D1 (SQLite), KV, R2 and two Durable Objects. Every route handler is
an `async` function that awaits one D1 statement after the other. A statement is
atomic; nothing makes two of them so (the code uses no transaction and no batch
for the operations below), and every await lets the statements of other requests
in. That is the source of most of what is hard to test here, and it decides the
shape of the models: **an action is one awaited statement together with the
checks the code makes on its result, and a request in flight is a record of what
its handler has read so far.**

## Inventory

| Component | State it keeps | Operations | What makes it correct | Hard because |
|---|---|---|---|---|
| Organization membership (`api/org-members.ts`, `api/organizations.ts`, `services/memberships.ts`) | `users_organizations`: user, org, role, status, key | create, invite, accept, confirm, edit, revoke, restore, remove, leave, delete; single and bulk | one membership per user, one Owner at least, Owners touched only by Owners, confirmed members hold the key, a restore undoes a revoke | check-then-act over several awaits; a status integer that encodes two things |
| Policies (`putPolicyHandler`, `services/policies.ts`) | `org_policies` | enable with a sweep over the members, disable | nobody breaks a policy in force | the sweep reads once and writes one row at a time |
| Enforcement at login (`services/twofactor.ts`) | none of its own | `enforce2faPolicy` | as above | writes to the membership table from another component |
| Second factors (`services/twofactor.ts`, `api/twofactor.ts`, Duo, WebAuthn, YubiKey) | `twofactor`, remember tokens, attempt counters | activate, verify, disable, recover | a code works once, attempts are limited | read-modify-write counters |
| Directory import (`api/public.ts`) | writes memberships and groups | import | as for memberships | shares tables with the interactive routes |
| Admin panel (`api/admin.ts`) | writes users, memberships, second factors | delete, disable, deauth, role change, remove 2FA | as above | no session of an organization member |
| Login and sessions (`api/identity.ts`, `auth/*`, `services/devices.ts`, `api/accounts.ts`) | users, devices, security stamp, refresh tokens | password, API key, refresh, SSO and device login; password and key change; deauthorization | a changed password ends old sessions | verification and write are awaits apart |
| Login with device (`api/auth-requests.ts`) | `auth_requests` | create, answer, poll, log in, purge | only an approved, fresh request logs in | two devices and a timer |
| Emergency access (`api/emergency-access.ts`) | `emergency_access` | invite, accept, confirm, initiate, approve, reject, view, takeover, delete | the grantee sees nothing before approval | unconditional updates after a status check |
| Sends and purge (`api/sends.ts`, `jobs/scheduled.ts`) | `sends`, blobs | create, upload, access, update, delete, purge | access limits hold, no orphaned blobs | counters and a blob store next to the database |
| Vault (`api/ciphers.ts`, `services/ciphers.ts`, `services/vault.ts`, `api/folders.ts`, `api/attachments.ts`) | ciphers, folders, collections, attachments | create, update, share, move, trash, delete, import, attach | only those with access read or write, no lost update | stale rows, blobs |
| Collections and groups | `collections`, `users_collections`, `groups*` | assign, replace, delete | access follows membership | rows that outlive a membership |
| Single sign-on (`services/sso.ts`) | login state in flight | authorize, callback, exchange | a state is used once | external provider |
| Rate limiting (`services/ratelimit.ts`) | counters in KV | count, reset | limits hold | KV has no increment |
| Notifications, push, events, mail, icons, domains, configuration, cryptography | none that a modelled handler reads | - | - | not modelled (see below) |

`PROJECT.json` lists each component with its sources and status, and under
`hazards` the lines where each difficulty bites.

## Modules

| Module | Models | Extends / instantiates |
|---|---|---|
| `OrgMembership` | the membership, policy and enforcement handlers on the tables they share | Integers, FiniteSets, MemberLifecycle |
| `MemberLifecycle` | the abstract life of one membership, without integers and requests | - |
| `MCOrgMembership` | small instances for TLC | OrgMembership, TLC |
| `OrgMembershipProofs` | types, who was confirmed, one membership, an Owner, who touches Owners, the sweep, the refinement | OrgMembership, FiniteSetTheorems, TLAPS |
| `EmergencyAccess` | the emergency access handlers, with the ways an account comes to be and the key rotation that write the same rows | Integers, FiniteSets, RecoveryGrant |
| `RecoveryGrant` | the abstract life of one grant: its stage and who holds it | - |
| `MCEmergencyAccess` | small instances for TLC | EmergencyAccess, TLC |
| `EmergencyAccessProofs` | types, keys and approvals of grants, keys that open, invitations, the refinement | EmergencyAccess, TLAPS |
| `Sends` | the Send routes, the blob store and the scheduled purge | Integers, FiniteSets |
| `MCSends` | small instances for TLC | Sends, TLC |
| `SendsProofs` | types, counts and lifetimes of Sends, limits, files | Sends, TLAPS |
| `Sessions`, `MCSessions` | logins, tokens, devices and the security stamp | Integers, FiniteSets |
| `Accounts`, `MCAccounts` | registration, the first sign-in by SSO, the secrets of an account, its address and the rotation of its key | Integers, FiniteSets |
| `SecondFactors`, `MCSecondFactors` | the second factors of an account, the recovery code, remembered devices | Integers, Sequences, FiniteSets |
| `LoginTickets`, `MCLoginTickets` | login with a device, single sign-on, one-time codes, the limit on failed logins, their purge | Integers, Sequences, FiniteSets |
| `Vault`, `MCVault` | items, collections, folders and access to them | Integers, Sequences, FiniteSets |
| `SessionsProofs` | types, what a deauthorization and a disabled account end | Sessions, TLAPS |
| `AccountsProofs` | types, verified addresses, the password opens the vault | Accounts, TLAPS |
| `SecondFactorsProofs` | types, recovery code, codes used once, guesses, remembered devices, enabled addresses | SecondFactors, FiniteSetTheorems, TLAPS |
| `LoginTicketsProofs` | types, denied requests, tickets used once, one identity | LoginTickets, SequenceTheorems, FiniteSetTheorems, TLAPS |
| `VaultProofs` | types, one vault, collections, owners, notices | Vault, SequenceTheorems, TLAPS |

### OrgMembership

*Tables.* `users` and `orgs` are the uuids present. `members` is
`users_organizations`: `None` or a row with `user`, `org`, `atype`, `status` and
`akey`; the status is the integer the code stores. `twofactor` is the set of
users with at least one row of that table, `policies` the enabled rows of
`org_policies` as pairs. `accessAll`, external ids, invitation e-mails, the
reset-password key, collection and group assignments, events and mail are left
out: no condition modelled here reads them.

*Requests.* `requests[r]` is `None` or a record: the handler (`op`), the statement
it is at (`pc`), the actor and organization, `asOwner` (what the last read of the
actor's membership said), the role or policy asked for, `cur` (the row it holds)
and `items` (the rows a sweep still has to look at). The correspondence:

| Code | Actions |
|---|---|
| `requireMember` and the route | `BeginAdminRoute` (`requireMember`) |
| a second `findConfirmedMembership` of the actor | `ReadActor` |
| `confirmedOwnerCount(...) <= 1` | `CountOwners` |
| `POST /organizations` | `CreateOrg`, `CreateOwner` |
| `POST .../users/invite` | `InviteRead`, `InviteWrite` |
| `POST /public/organization/import` | `BeginImport`, `ImportNew`, `ImportInsert`; its revocations and restorations take the `revoke` and `restore` steps with the rights of an Owner |
| `POST .../accept` | `AcceptRead`, `AcceptCheck2fa`, `AcceptCheckSingleOrg`, `AcceptWrite` |
| `registerHandler`, `set-password` | `AcceptOpenInvitations`, `RegisterAccount` |
| `confirmMember` | `ConfirmRead`, (`ReadActor`), `ConfirmWrite` |
| `editMember`, admin `org_type` | `EditRead`, `EditWrite`; `AdminTypeRead`, `AdminTypeWrite` |
| `removeMember`, `leave` | `RemoveRead`, `RemoveWrite`; `LeaveRead`, `LeaveWrite` |
| `setRevoked` | `RevokeRead`, `RevokeWrite`; `RestoreRead`, `RestoreWrite` |
| `putPolicyHandler` | `PolicyReadMembers`, `PolicyCheckMember`, `PolicyRevokeMember`, `PolicyEnable`; `PolicyDisable` |
| `enforce2faPolicy` and its callers | `LoginWithout2fa`, `LoginWithRecoveryCode`, `EnforceRead`, `EnforceRevoke` |
| activate / disable 2FA, delete account, delete organization | `ActivateTwofactor`, `DisableTwofactor`, `DeleteAccount`, `DeleteOrg` |
| a throw, the end of a handler, an evicted Worker | `EndRequest` |
| the `catch` of a bulk loop | `SkipItem` |

A single route is a bulk route whose loop runs once. Reads that a handler makes
one after the other with nothing in between that depends on them are one action
where the pass condition is a disjunction (the second factor and the policy in
`accept`): whichever of the two reads a concurrent write falls between, the
combined read at one of the two moments gives the same answer. The lookup of an
invitee, the creation of its account shell and the lookup of a membership are one
action for the same reason: a concurrent creation of the same shell makes one of
the two inserts fail on the unique e-mail, which is `EndRequest`. Registration is
allowed to accept invitations of any user, although the code does it only for one
without a password: the model allows more than the code there.

uuids never repeat in the code. An identifier of the model may be used again once
neither a table nor a request in flight holds it, which keeps instances finite
and lets their behaviours go on for ever.

`akey` is blank at first, "key" when a confirmation has stored one, and "blank" when the
bulk route has confirmed the row with the empty key it was given, or with none, which
leaves the column as it is (`ConfirmedKey`): the column is empty all the same, but
`ConfirmedByConfirmation` can tell a row that was confirmed from one that never was.

*Two specifications.* `Spec` interleaves the statements of all requests.
`SerialSpec`, with a single request slot, takes the same steps with nothing but the
request's own statements between its first and its last: it separates what a handler guarantees from
what only the absence of overlap guarantees.

### MemberLifecycle

A membership is at a stage (invited, accepted, confirmed) and revoked or not. A
restore brings it back to its stage. The enforcement at login drops it without
remembering the stage, and a restore of a dropped membership leads to "limbo":
that is what the code does, stated in the abstract specification so that the rest
of the refinement can be checked. `LifeOf` is the refinement mapping.

### EmergencyAccess

*Tables.* A user of the model is an address and the account it may have. `grants`
is `emergency_access`; `recoveryInitiatedAt` and `waitTimeDays` together are one of
not set, waiting, elapsed. `invited` is the address an invitation was sent to, which
is also what its mailed token says. Keys are version numbers: `vault` is the version
a user's items are encrypted under (one item stands for all folders, ciphers and
Sends), `akey` the version `users.akey` wraps, `keyEncrypted` the version a grant
holds. `secret` is who set the master password last. `consent` is a history
variable: the grantor and the invited contact of the last approval written for a
grant.

| Code | Actions |
|---|---|
| `POST /emergency-access/invite` | `InviteRead`, `InviteWrite` |
| `updateEa`, `deleteEa` | `UpdateRead`, `UpdateWrite`; `deleteEa` (one statement) |
| accept, confirm | `AcceptRead` (`InvitationMatches`), `AcceptWrite`; `ConfirmRead`, `ConfirmWrite` |
| initiate, approve, reject | `InitiateRead`, `InitiateWrite`, ... |
| view, takeover, password | `AccessRead` (`isValidRequest`), then `AccessAnswer` or `PasswordWrite`, `PasswordDropTwofactor` |
| `registerHandler` | `RegisterRead` (the shell, if there is none), `RegisterRefused` or `RegisterWrite`, `RegisterSweep` (without mail) |
| `ssoLogin` of an unknown identity; `set-password` | `CreateShell`; `SetPasswordRead`, `SetPasswordWrite` |
| `rotateKey` | `RotateRead`, `RotateVault`, `RotateGrant` once per grant, `RotateWrite` |
| delete account, activate 2FA | `DeleteAccount` (both foreign keys cascade), `ActivateTwofactor` |
| `runScheduledJobs`, and the passing of days | `runScheduledJobs` |
| a failed statement, an evicted Worker, a foreign key that no longer holds | `Fail` |

`shells` are the accounts whose password hash is still empty: made by a sign-in by SSO or an
organization's invitation, or left by a registration whose KDF settings were refused after the
insert. `registered` is a history: the accounts that a registration has completed, which is the
only handler that settles open invitations without mail. Addresses do not change. The shell has
the version of its key that its client will draw. The key a client sends with a confirm is the
one it has unlocked, the grants it sends with a rotation are its confirmed ones, and a
rotation's new key is one nobody has used: these are the clients' contributions, which the
server takes as they are. Reinvite only sends mail.

`RecoveryGrant` says what one grant goes through: offered, accepted by a contact who
stays the same, confirmed, and then initiated, approved or rejected as often as the
contact asks, until it is withdrawn.

### Sends

*Tables.* `sends` is the table, with the columns that a condition reads: owner, type,
limit and count of accesses, password, the two dates, disabled, and `hasFile`, whether
`data` names a file. `blobs` is the set of Sends whose file is in the blob store (a Send
has one file, and its key is made of the uuids). Dates are readings of `clock`;
`Horizon` is the 31 days. `restricted` are the users to whom a DisableSend policy
applies. `served` is a history variable: how often a Send's text, or the token that
downloads its file, was handed out.

| Code | Actions |
|---|---|
| `POST /sends`, `/sends/file/v2`, `/sends/file` | `CreateCheck`, `CreateInsert`, and in one shot `UploadPut` |
| `POST /sends/:id/file/:fileId` | `UploadRead`, `UploadPut` |
| `POST /sends/access/:accessId`, `.../access/file/:fileId` | `AccessRead` (`checkAccessible` and the password), `AccessCount` |
| `PUT /sends/:id` | `EditCheck` (the policy), `EditRead` (`Edited`), `WriteRow`; `EditRefused` |
| `PUT /sends/:id/remove-password` | `RemovePasswordRead`, `WriteRow` |
| `DELETE /sends/:id` | `DeleteRead`, `DeleteBlob`, `DeleteRow` |
| `runScheduledJobs`, the part about Sends | `PurgeRead`, `PurgeFile` once per file, `PurgeRows` |
| delete account, register, a policy or a membership changes, time | `DeleteAccount`, `Register`, `PolicyChanges`, `Tick` |
| a failed statement or an evicted Worker | `Fail`, `FailJob` |

The first access route counts nothing for a file and hands out only its description, so
it is no action there. The download by token reads the blob store alone. The text, the
name and the key of a Send are data that no condition reads. The legacy route stores a
file under whatever type the client gives; with type text neither deletion nor purge
removes the file, which `NoOrphanFile` excepts.

### Sessions

One account and its devices. `user` is its row (enabled, stamp, stamp exception),
`devices` the refresh token of each device row, `tokens` the access tokens handed out,
each with its device and stamp. Stamps and refresh tokens are numbers drawn in order,
so that "was handed out before" is a comparison. `floor` is a history: the last number
drawn when the last completed deauthorization began.

| Code | Actions |
|---|---|
| `passwordLogin`, `apiKeyLogin`, `ssoLogin` from the device on | `LoginRight`, `ApiKeyLogin`, then `FindDevice`, `InsertDevice`, `Issue` or `TwoFactorRefuses` |
| `refreshLogin` | `RefreshRead`, `RefreshIssue` or `RefreshRefused` |
| `requireAuth` | `requireAuth`, with the first read of the handler it guards: `Authenticated`, `PasswordRoute`, `DeauthorizeSelf`, `KeyRotation` |
| password, set-password, rotation, kdf, e-mail, takeover and reset | `WritePassword`, `WriteInitialPassword`, `WriteStamp` |
| security-stamp; admin deauth, disable, enable | `DeleteDevices`, `RotateStamp`; `AdminEnable` |
| delete a device, delete the account | `DeleteDevice`, `DeleteAccount` |

A request that is past `requireAuth` may still write after a deauthorization; the
property is about what the tokens open, not about what was already inside.

### Accounts

One account and what belongs together in it: `account` has the columns e-mail, KDF
settings, password hash, wrapped key, pending e-mail change, verified and whether the
hash has too few iterations. A master key is what a client derives from a password,
an address and KDF settings; the hash and the wrapped key are each made of one. `privateKey`
says whether there is a key pair: `set-password` looks at it alone (`SetPassword`), so it
replaces, unasked, the password of an account that was registered without one. A first
sign-in by SSO makes an account that is verified (`SsoCreate`) or verifies one without a key
pair (`SsoComplete`), if the provider says that the address is, or says nothing and
`ssoAllowUnknownEmailVerification` is on (`ssoAccepts`). For an account that is linked
already `SsoComplete` changes nothing: linking verified it. `vault`
gives the user key each item is encrypted with. A handler is one read, with the check
of the password, and one UPDATE that sets the columns it names (`Update`, `WriteColumns`),
whatever the others have become; a rotation writes the items one by one before
(`RotateKey`, `WriteItem`, `RotateAccount`). `mailed` are the tokens under way, `proven`
is a history: the addresses whose owner has returned one, or which the provider, or an
administrator for its silence, has stood for (`vouched`).

Clients are in sync: what a client sends is derived from the account as it is when its
request begins.

### SecondFactors

`rows` is the `twofactor` table: providers, rows that are set up but not enabled, and
challenges, which live in the same table under other types. A request is the list of statements
its handler has left (`todo`) and the row it holds; `Begin` is the read and the checks before
the first write, and each statement is an action (`Totp` and `WriteUsed`, `Code` and
`WriteEmail`, `Drop` and `Insert`, `Protect`, `clearTwofactorRemember`, ...).

| Code | Actions |
|---|---|
| `twofactorAuth` | `Login` (`Passes`, `Verify`, `Selected`, `Offer`) |
| `validateTotpCode`, `validateEmailCode`, `validateWebauthnLogin` | `Totp`, `WriteUsed`, `Refused`; `Code`, `WriteEmail`; `TakeChallenge`, `DeleteChallenge`, `AssertKey`, `UpdateRegistrations` |
| `sendEmailLoginToken`, send-email-login | `Send`, `SendEmailLogin` |
| set-up and enabling of each provider | `ActivateAuthenticator`, `SetupEmail`, `EnableEmail`, `StartRegistration`, `FinishRegistration`, `ActivateService` (`activated`) |
| removal | `DeleteAuthenticator`, `DisableTwofactor`, `DeleteRegistration`, `RemoveYubikeys`, `AdminRemove` |
| `/two-factor/recover` | `Recover`, `Wipe`, `Unprotect` |

The records of incomplete logins are left out: only a mail depends on them. What Duo and
Yubico answer is open; Duo's own state is in `LoginTickets`.

### LoginTickets

What a login may show besides a password, for one account: `asks` is `auth_requests`, `sso` is
`sso_auth` by state, `link` is `sso_users`, `secrets` are the one-time code in KV and the row
of `twofactor_duo_ctx`, `failures` the counter in KV with the time it has left and the counts
that a read may still find (`older`), `purge` what the running job has left to do. Times to
live are scaled, in their order: a request can be answered for longer than it can log in.

| Code | Actions |
|---|---|
| `POST /auth-requests`, `PUT /auth-requests/:id` | `CreateAsk`; `Answer` (`mayAnswer`), `WriteAnswer` |
| `passwordLogin` with an auth request | `DeviceLogin` (`mayLogin`), `WrongDeviceLogin` |
| `buildAuthorizeUrl`, `handleOidcCallback` | `Authorize`, `DropSso`, `InsertSso`; `Callback`, `WriteCallback` |
| `exchangeCode`, `ssoLogin`, `redeemSsoAuth` | `SsoLogin` or `SsoError` (the row is deleted), `Exchange`, `SaveResponse`; `Resolve` (`mayAssociate`), `Provision`, `Complete`, `Login`; `Redeem`, `Link` |
| request-otp, `validatePasswordOrOtp`; `getDuoAuthUrl`, `validateDuoLogin` | `Issue`, `Take`, `Consume` |
| `checkUserLoginFailureLimit`, `recordUserLoginFailure` | `mayTry`; `ReadCount`, `RecordFailure`; `Converge` of the store |
| `runScheduledJobs` | `StartPurge`, `Purge` (`PurgeAsks`, `PurgeDuo`, `PurgeSso`) |

The KV store is eventually consistent, as the code says ("a soft limit"): a read of the counter
finds what was written last or anything written over since (`Readable`), until the store
settles. The code in KV is read as it was written. `history` counts the uses of each
authorization and secret, and keeps the requests that were ever denied (`denied`) or logged in
with (`passed`) and the identities that logged in. The callback that brings an error and no
code leaves a row that no login finds; it is the row without a code. The route that a device
polls compares the access code once more, counts nothing and changes nothing, so it is no
action.

### Vault

`ciphers`, `assigned` (`ciphers_collections`), `folders` and `filed` are the tables of items;
`members` are confirmed memberships, with access to all or by collections; `grants` stands for
`users_collections` and for the pairs of a member and a collection that groups make. A
request holds its statements (`todo`), the row it will write and the collections to add and
remove. `unaware` is a history: the users to whom a sync showed a row when it was written
(`Readers`, by `getAccessRestrictions`) and whose revision is yet to be moved; it is moved for
those that `usersWithCipherAccess` finds, by a query of its own.

| Code | Actions |
|---|---|
| `loadCipherSyncData`, `getAccessRestrictions` | `Reachable`, `CollectionRights`; `Restrictions`, `Access`, `Readers` |
| `usersWithCipherAccess` | `usersWithCipherAccess` |
| `createCipher`, `updateCipherHandler`, `shareCipher` | `CreateCipher`, `EditCipher`, `ShareCipher`: `Upsert`, `Move`, `Unfile`, `File`, `Bump`, `Valid`, `Unassign`, `Assign` |
| `updateCipherCollections`, bulk-collections | `UpdateCipherCollections` (`Diff`), `BulkCollections` |
| `softDelete`, `restore`, `hardDelete`, purge, the weekly job | `DeleteOrRestore`, `Trash`, `Untrash`, `DeleteCipher`, `Purge`, `PurgeNext`, `DropFolders`, `PurgeTrash` |
| import, import-organization | `Import`, `ImportOrganization` |
| folders | `CreateFolder`, `InsertFolder`, `deleteFolder`, `EmptyFolder`, `MoveSelected` |
| `deleteOrg` | `DeleteOrg`, `DropCiphers`, `DropOrg` |
| collections, their users and groups, members and their groups | `CreateCollection`, `DeleteCollection`, `GrantAccess`, `Withdraw`, `BulkAccess`, `replaceMemberCollections`, `upsertGroup`, `Seat`, `Unseat` |

Contents, favourites, archives and attachments are abstracted, and with them two refusals,
of an outdated revision and by the personal-ownership policy: the model allows more than
the code there. The routes for many items act on one after the other. An import is one
item. `Seat` and `Unseat` allow any change of a confirmed membership; which of them the
organization's handlers make is the subject of `OrgMembership`.

## Runs

Users, organizations, memberships and requests are symmetric model values.

| Run | Specification and bounds | Checks | Result |
|---|---|---|---|
| `serial_lifecycle` | `SerialSpec`, 3 users, 1 org, 3 memberships, all four roles, all handlers but policies | `UniqueMembership`, `LastOwnerKept`, `OwnerTouchedByOwner`, `ImplementsLifecycle` | holds |
| `serial_policies` | `SerialSpec`, 2 users, 2 orgs, 3 memberships | `SweptWhenEnabled` | holds |
| `concurrent_lifecycle` | `Spec`, 2 overlapping requests, 2 users, 1 org, 2 memberships, Owners and Admins; accounts are deleted, no policies (the theorems cover their sweep) | `TypeOK`, `ConfirmedByConfirmation`, `OwnerGrantAuthorized` | holds |
| `serial_recovery` | `SerialSpec` of `EmergencyAccess`, 2 users, 2 grants, 2 key versions, mail off | `OneKeyOpensAll`, `InvitationsFollowRegistration`, `TakeoverWhileApproved`, `ImplementsGrant` | holds |
| `concurrent_recovery` | `Spec`, 2 overlapping requests, 2 users, 1 grant, 2 key versions, failures, mail on; without set-password, which touches no grant (the theorems cover it) | `AccessWasApproved`, `GrantHasKey` | holds |
| `serial_sends` | `SerialSpec` of `Sends`, 2 Sends, failures, clock 0..2, 2 accesses | `ServedWithinLimit`, `NoOrphanFile`, `FileKept` | holds |
| `concurrent_sends` | `FairSpec`, 2 overlapping requests and the job, 1 Send, clock 0..2, `Horizon` 1 | `NeverOvercounts`, `ExpiredPurged` | holds |
| `sessions` | 2 devices, 2 overlapping requests of any kind, 4 numbers drawn, failures | `DeauthorizedStaysOut`, `DisabledHasNoSession` | holds |
| `accounts` | 2 addresses, passwords and KDF settings, 1 item, 2 overlapping requests of any kind, 2 keys or codes, 2 mails, a provider's silence accepted, failures | `PasswordOpensVault`, `VerifiedHasGrounds` | holds |
| `second_factors` | 1 device, authenticator, e-mail, 1 security key and 1 service, 2 addresses, 2 attempts, 2 rows, 2 time steps, failures; requests about the e-mail provider overlap | `TypeOK`, `RecoveryCodeWhileProtected`, `CodeAcceptedOnce`, `RememberFollowsProviders`, `GuessesBounded`, `EnabledByOwner` | holds |
| `vault` | 2 users, organizations, collections and folders, 1 item, 6 rows, failures; requests about one item overlap in their writes | `PersonalToCreator`, `CollectionsOfOwnOrg`, `ItemsHaveOwner`, `EditsAnnounced` | holds |
| `login_tickets` | 1 login request, 1 sign-in state, 2 identities, 1 request at a time with single-statement handlers, time and the job between its statements, stale reads of the counter; `LOGIN_TTL` and `SSO_TTL` 1, `ASK_TTL` and `FAILURE_TTL` 2, `MAX_FAILURES` 1, 1 ticket at a time, failures | `TypeOK`, `DeniedStaysOut`, `UsedOnce`, `OneIdentity`, `LockEnds`, `UnansweredPurged` | holds |

*Why the bounds are enough.* The checks a handler makes concern the actor, one
other member and the count of Owners; three users and memberships give an actor, a
target and a bystander. Two organizations are needed only for the
single-organization policy. Every race found needs two requests, and a third adds
nothing to a check-then-act pair on one row. Confirmations carry a key, a blank one or none;
`concurrent_lifecycle` has the latter two, since for its property a key is as good as a
blank one. No bound cuts behaviours
short: `OrgMembership` has no counters. In `EmergencyAccess` two users are enough for
a grantor, a contact and a wrong claimant (the grantor itself), a second grant shows
what a statement does to the rows of others, and `MaxKey` = 2 is one rotation; more
rotations repeat the first, since only whether two versions are equal matters. In
`Sends` the clock has a time before, at and after each date, a limit of one with
`MaxServed` = 2 gives one access within the limit and one beyond, and `MCInputs` has one
input for each condition of `checkAccessible`. A second Send is needed only where the
purge handles several.

*Fairness.* In `Sends`, `FairSpec` lets the cron trigger fire again and again and the job it
starts go on; requests owe nothing. `concurrent_sends` has no failures, because a job that
fails every time purges nothing. `LoginTickets` assumes that time passes (`Tick`), that the
job is triggered when there is something to purge (`StartPurge(FALSE)`, the cron trigger of
every 15 minutes), that it runs to its end (`Purge`), and that the KV store settles (`Converge`),
which is what eventual consistency means. Nobody has to send a request, and no
request in flight has to end.

*The newer modules.* `sessions`: two devices give a device that is logged out and one that
logs in anew, four numbers a stamp before, during and after a deauthorization. `accounts`:
two of each datum are what "belongs together" needs to be wrong; one item stands for all,
since a rotation treats them alike. In `second_factors`, `vault` and `login_tickets` the
constant `Overlapping` names the requests (by provider, or by the statements they consist
of) of which two may be in flight at once; all others run alone, with time, the job and
single-statement handlers still falling between their statements. `MaxRows` bounds the rows
of all tables together: in `second_factors` and `vault` every pair of providers, or of tables,
occurs. In
`login_tickets` each kind of ticket is one, as no condition reads two of a kind but the
identities, and the times to live are the least that differ: a login request can be approved
and too old to log in. There is one ticket at a time, since the kinds meet only in
the counter of failed logins and in the job, which takes them one after the other. Two
requests that count a failure at once need no second request there: the count that one of them
misses is a stale read of the other. The count stops at `MAX_FAILURES`, beyond which no
condition tells values apart. In `accounts` `AllowUnknown` is on, the setting that accepts
more.

*Histories and* `disturbed`. Properties that hold only when requests do not overlap and none
fails are guarded by `Quiet` or `disturbed`. They are the promise of a handler to a sequence of
requests; what overlap does to them is listed below. The others (`DeauthorizedStaysOut`,
`VerifiedHasGrounds`, `PersonalToCreator`, `EnabledByOwner`) hold in every interleaving and with
failures. The type invariants of `EmergencyAccess`, `Sends`, `Sessions`, `Accounts` and `Vault`
hold for every value of the constants, by proof, and are not run again.

## Observations

What the models reach and no run forbids: because requests overlap or fail where a handler
counts on neither, or because the code is meant so. Where a property is named, TLC shows the
behaviour by checking it under the specification named.

*Memberships.* A member revoked at login has status -1, and a restore stores 127
(`MemberLifecycle` calls it limbo). Two overlapping requests can remove all Owners
(`LastOwnerKept` under `Spec`), and two invites give one user two memberships
(`UniqueMembership`). The bulk confirmation stores the blank key that the single one refuses
(`org-members.ts:648-651` against `637`), or keeps an empty one when none comes: the member is
confirmed and cannot open anything. `ConfirmedByConfirmation` says that it was a confirmation
that made it so, not that it has a key. A restore skips the two-factor policy that
accept enforces.

*Emergency access.* A takeover in flight survives the grantor's rejection
(`TakeoverWhileApproved` under `Spec`); an approval written late undoes a rejection; an
invitation can miss the registration it should follow. Accounts made by a sign-in by SSO
(`identity.ts:440`) and completed by set-password (`accounts.ts:373`) never sweep the open
invitations to their address, and a registration that `validateKdf` refuses (`identity.ts:977`)
leaves a shell that has not either; both keep them until they accept or register
(`InvitationsFollowRegistration` is about those who registered). Nothing acts on a recovery
whose wait has run out, although the mail promises an automatic approval.

*Sends.* Overlapping accesses exceed the limit (`ServedWithinLimit` under `Spec`); an upload
that overlaps with a deletion leaves a file without a row (`NoOrphanFile`); an edit that
overlaps with the purge can keep its row and lose its file (`FileKept`), or bring back a
password that was removed.

*Accounts.* Two overlapping changes of the password, the KDF settings, the address or the key
mix their columns, and a login that raises the iterations can put back the hash of the
password it was given (`PasswordOpensVault` without its guard). A rotation that fails between
two items leaves a vault under two keys. A client out of sync, and a takeover or reset whose
KDF settings were fetched by an earlier request, are outside the model. set-password asks for no
old password: whoever has a session of an account without a key pair, also one that has a
password (`accounts.ts:355` looks at the key pair only), sets a new one. Where
`ssoAllowUnknownEmailVerification` is on, an address counts as verified because the provider
said nothing about it.

*Second factors.* A challenge or a pending e-mail row counts as a row of the account, so a
login may be asked for a factor that is not enabled. A login with WebAuthn that overlaps with
the provider's removal inserts it again. Deleting the last security key leaves an enabled row
without keys. The removal of the authenticator keeps the recovery code. The administrator's
removal and the recovery at login do not clear remembered devices, whose rows go with the next
provider's activation. Overlapping guesses at an e-mailed code share a count, and overlapping
logins a TOTP code.

*Vault.* "Bump the sync revision of every user who can read a cipher", says the comment of
`updateUsersRevisionForCipher` (`ciphers.ts:311`). Create and share move the revisions before
they put the item into its collections (`ciphers.ts:167-182`, `518-524`): who comes to see it
through one of these only is not told, the sharer with limited access among them. A hard
deletion moves them after the cascade, which leaves no collection to look through; the weekly
purge of the trash moves none. Who loses access by a change of collections is not told either;
bulk-collections tells only the one who made it. `EditsAnnounced` is about those who could see
the row when it was written. An edit that overlaps with a hard deletion brings the item back;
one that overlaps with a share moves it back. An edit that names an organization moves an item
of one's own there, into no collection. Collections named in a create or share are not checked
for write access. A failure between the item and its collections leaves it in none. A create or
share that overlaps with the deletion of the organization leaves an item of an organization
that is gone (`ItemsHaveOwner` without its guard). Grants survive the membership they were made
for.

*Login tickets.* The job returns early when no login request, Send or incomplete login has
expired, so on a quiet server Duo states and sign-ins stay. Two answers race and the later
wins. An approved request is not consumed: it logs in as often as one likes for five minutes,
and an answered request is never purged. A one-time code has no limit on attempts, and two
overlapping uses of it both pass. The limit on failed logins is soft: failures that overlap, or
that read an older count, count as one, so no bound on the guesses is claimed; the access code of a
login request can be compared without any count (`auth-requests.ts:135-145`). Two sign-ins that
overlap both log in with one authorization, and two identities with one address both are let
in, one of them unlinked.

## Proofs

Every invariant and action property that a run checks is also a theorem, for every value of
the constants, and so are the two refinements. The runs show each of them on a small instance
(and the mutants that it can be broken); the theorem removes the bounds: any number of users,
organizations, rows, devices, collections, identities, any limit, any time to live.

| Theorem | States | Of | Hypothesis |
|---|---|---|---|
| `OrgMembershipProofs`: `TypeCorrect` | `TypeOK` | `Spec` | - |
| `ConfirmedOnlyByConfirming` | `ConfirmedByConfirmation` | `Spec` | - |
| `OwnersMakeOwners` | `OwnerGrantAuthorized` | `Spec` | - |
| `OneMembershipEach`, `LastOwnerStays`, `OwnersTouchOwners`, `SweptByPolicy` | `UniqueMembership`, `LastOwnerKept`, `OwnerTouchedByOwner`, `SweptWhenEnabled` | `SerialSpec` | one request slot |
| `HandlersFollowLifecycle` | `ImplementsLifecycle` (`MemberLifecycle`) | `SerialSpec` | one request slot |
| `EmergencyAccessProofs`: `EmergencyTypeCorrect`, `AccessOnlyApproved`, `RecoverableHasKey` | `TypeOK`, `AccessWasApproved`, `GrantHasKey` | `Spec` | - |
| `TakeoverNeedsApproval` | `TakeoverWhileApproved` | `SerialSpec` | one request slot |
| `OneKeyAlways`, `RegistrationSettles` | `OneKeyOpensAll`, `InvitationsFollowRegistration` | `SerialSpec` | one request slot, no statement fails |
| `HandlersFollowGrant` | `ImplementsGrant` (`RecoveryGrant`) | `SerialSpec` | one request slot |
| `SendsProofs`: `SendsTypeCorrect`, `CountNeverAhead`, `LifetimeAlwaysBounded` | `TypeOK`, `NeverOvercounts`, `LifetimeBounded` | `Spec` | - |
| `LimitKept`, `FilesHaveRows`, `FilesKept` | `ServedWithinLimit`, `NoOrphanFile`, `FileKept` | `SerialSpec` | - |
| `SessionsProofs`: `SessionsTypeCorrect`, `DeauthorizationEndsSessions` | `TypeOK`, `DeauthorizedStaysOut` | `Spec` | - |
| `DisabledAccountHasNoSession` | `DisabledHasNoSession` | `Spec` | guarded: undisturbed |
| `AccountsProofs`: `AccountsTypeCorrect`, `VerifiedOnGrounds` | `TypeOK`, `VerifiedHasGrounds` | `Spec` | - |
| `PasswordAlwaysOpens` | `PasswordOpensVault` | `Spec` | guarded: undisturbed |
| `SecondFactorsProofs`: `TypeCorrect`, `EnablingProven` | `TypeOK`, `EnabledByOwner` | `Spec` | - |
| `RecoverableWhileProtected`, `NoCodeTwice`, `RememberedForProviders`, `FewGuesses` | `RecoveryCodeWhileProtected`, `CodeAcceptedOnce`, `RememberFollowsProviders`, `GuessesBounded` | `Spec` | guarded: undisturbed |
| `VaultProofs`: `VaultTypeCorrect`, `ItemsStayInOneVault` | `TypeOK`, `PersonalToCreator` | `Spec` | - |
| `ItemsInOwnCollections`, `NoItemWithoutOwner`, `EveryoneTold` | `CollectionsOfOwnOrg`, `ItemsHaveOwner`, `EditsAnnounced` | `Spec` | guarded: undisturbed |
| `LoginTicketsProofs`: `TicketsTypeCorrect` | `TypeOK` | `Spec` | - |
| `NobodyPassesDenied`, `GoodOnce`, `LinkedToOne` | `DeniedStaysOut`, `UsedOnce`, `OneIdentity` | `Spec` | guarded: undisturbed |

Three kinds of condition appear, and each is what the code needs. *One request slot*
(`OneAtATime`, `Requests = {slot}`): `SerialSpec` keeps the handlers of one statement and
the job out of a request that is in flight, and the single slot, as in the runs, keeps the
other requests out. In `Sends` the specification does both. *No statement fails*
(`RunToEnd`): a rotation or a registration that stops half-way leaves exactly what these two
properties exclude. *Undisturbed*: the property itself is guarded by the history variable
(`disturbed`, or `history # None` in `LoginTickets`), which overlap and failure set for
good. "Observations" lists what becomes possible without these conditions.

The assumptions are those of the modules on their constants: `None` is none of the other
values, bounds and times are numbers, inputs are among the values there are, and (in
`LoginTickets`) a state at the identity provider is not one of the two secrets, so that the
history can count the uses of both in one function.

### Under any overlap

An invariant about what is stored is never inductive here, since a handler writes what it
computed from a row that was read some statements ago. Each proof therefore says what a request
in flight may still rely on, as a predicate of the request and the row as it is now, and shows
once that no step of another request takes it away.

`OrgMembershipProofs`. `TypeInv` adds to `TypeOK` what a handler knows about the row it holds
(`ReqOK`: a revoke read it unrevoked, a restore revoked, a sweep accepted or confirmed), which
keeps the arithmetic on the status inside the legal values however stale the row is. `KeyInv`
says that whoever holds a row it has read as confirmed still finds it confirmed once, by a key
or by the blank it was given, as long as the row exists
(`HeldKeyed`), and that the identifier of a row to be inserted is held by nobody else
(`InsertsFresh`). `ChecksPassed` says which checks a handler has behind it at each statement;
`OwnersMakeOwners` follows from it.

`EmergencyAccessProofs`. `GoodRow` ties a row to the address it was offered to and an approved
row to the approval; `Claim` is what a request may rely on: an accept that it is the invited
contact, an approve that it is the grantor, a recovery step that the row has a key and a contact;
`Exclusive` is the uniqueness of `uuid()`. Every write has one shape, `RowStep`, and `ClaimKept`
shows that no such step invalidates a claim.

`SendsProofs`. The invariant says of every row a request holds what it says of the rows stored
(`Good`): its count is at most the accesses served and its date within the horizon. A row that
was good when it was read stays good, as accesses served and time only grow (`GoodLater`). That
the code checks the date again on every edit makes the second part inductive.

`SessionsProofs`. The account's stamp and the refresh token of every device are drawn later than
`floor`, and a request that has deleted the devices and is about to rotate the stamp finds no
device from before it began (`Held`). That the devices are deleted before the stamp is drawn is
what makes it inductive.

`AccountsProofs`. An UPDATE sets its columns on whatever row is there by then. `Sound` says of
every request what its UPDATE will make of the account, `MailSound` of every mailed token that
its address is the account's or has grounds, and `Kept` is the one shape of what others do
meanwhile.

`VaultProofs`. Nothing is said about when a row is written: every row that a request holds is
already in one vault (`Held`), which `organizationMatches` and the check of access ensure when
it is made.

`SecondFactorsProofs`. What a request has left to do is part of one of a few programs, in which
the statements come in the order of their `Stage`; so a list is known by the set of its
statements (`Left`), and no lemma needs to take sequences apart. `Inv` says that the list is
such a part and that the row it names has the type it took it for, which is what
`EnabledByOwner` needs.

### With one request at a time

`SerialInv` of `OrgMembership`: what a handler has read is still so when it writes. The row it
holds is the row of the table (`Fresh`), the user it is about to insert has no row (`Unlisted`),
a second confirmed Owner is there when one is about to go (`OwnerLeft`), the actor it took for an
Owner is one (`ActorIsOwner`), and a policy sweep still has every member on its list that the
policy must revoke (`SweepHolds`). The refinement has one lemma per group of handlers, which says
how a statement may move a row (`RowMoves`); each such move is a step of `MemberLifecycle` or
none.

`Current` and `Whole` of `EmergencyAccess`: a request's copy of a row is the row, an invitation
knows whether its contact is there, and a rotation has still on its list every grant whose key
it has not written. `Whole` is what the vault's key and the grants' keys are between two
statements: those on the list may be of the old version, all others are of the new one. A shell
has encrypted nothing (`ShellsFresh`), so that whichever handler completes it, its first key
opens its vault. `HandlersFollowGrant` maps every step to one of `RecoveryGrant` or to a
stutter.

`SerialInv` of `Sends` holds although statements fail. `Current` ties the row a request holds to
the row stored: one to be inserted has neither row nor file yet, one to be counted is below its
limit, a file goes in or out only while its row is there, and the row goes only when its file has
gone. `CurrentJob` says that what the job has left is past its date, and that it has cleared the
files of the others. So a failure leaves a row without a file, never a file without a row.

### Undisturbed

The remaining invariants speak of the time between two requests; between two statements of one
they are false. `Calm` (`Undisturbed` in `SecondFactors`) therefore says what the only request
in flight has still to do, and that with this done the property holds again. In `Accounts`,
what is still to be written makes the password open the vault (`Steady`, `Opens`). In `Vault`,
where the remaining statements are taken as a set, an item that is in no collection, or in
those of another organization, or whose organization is being deleted, is one that a statement
on the list will put right, and whoever has not been told is in what the list still announces.
In `SecondFactors`, a provider without a recovery code is one whose list still has `protect`, a
guess that is not counted is one that the list still counts. In `LoginTickets`, the rows still
there have let nobody pass, or are an approved login request that was never denied (`Agrees`),
what is being redeemed has let nobody pass, and an answer in flight is the first (`Pending`);
time and the job only let rows go (`FewerRows`). Sign-ins there are sequences of up to five
statements; `Fits` and the lemmas about `Programs` say what follows what.

### Only model-checked

Liveness under fairness is out of the prover's reach: `ExpiredPurged` of `Sends`, `LockEnds` and
`UnansweredPurged` of `LoginTickets` are checked by TLC only. So is what depends on overlap at a
small scale: that every action can be taken, and the mutants.


## Not modelled, and why

Notifications, push, the event log and mail are output that no handler reads back.
Icons, domains, metadata and the SSRF guard are stateless. Configuration is parsed
once; settings that matter are constants. Cryptography is library code: a password
check is a yes or a no. Rendering of the admin panel and of JSON answers, the profile,
password hints, favourites, archives and the renaming of folders are data no condition
reads. Attachments are rows and blobs of an item: upload, download and deletion follow the
pattern of the files of Sends, whose deletion order is checked there. The limits on logins
per address and on the admin panel guard no state. The groups loop of the directory import,
the enrollment in account recovery and duplicate policy rows are left out of
`OrgMembership`; the personal-ownership policy and the check of an item's revision date
out of `Vault`. The twenty-four hour records of incomplete second factors only lead to a mail.

The modules are checked each for itself. `OrgMembership` and `Vault` share
`users_organizations`, of which `Vault` allows any change; `Sessions`, `Accounts` and
`SecondFactors` share the account, of which each has the columns its conditions read; what
they take from each other (a login passed its password, a handler passed `requireAuth`) is
an input that may be either way.

## Plan

Done: every module of the table, and a theorem for every invariant, action property and
refinement that a run checks. What is left, the most useful first:

1. Weaker conditions where the code allows them: which of the guarded properties of
   `SecondFactors`, `Vault` and `LoginTickets` survive a failure without overlap, or overlap of
   requests about different rows, and the theorems for those.
2. `NoOrphanFile` and `FileKept` of `Sends` for requests that overlap on different Sends; the
   same for `OneMembershipEach` and requests of different organizations.
3. Attachments, in the pattern of `Sends` and beside the statements of `Vault`.
4. The composition of `OrgMembership` and `Vault` through `users_organizations`.
