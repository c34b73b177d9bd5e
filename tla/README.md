# Oceanix: a TLA+ development of the incident service

Oceanix is a NestJS server (TypeORM on PostgreSQL, Redis, MinIO, socket.io) on
which the employees of logistics companies handle the incidents their clients
report. This directory models the parts of it whose correctness depends on the
order in which awaited steps of several requests happen, checks the models with
TLC, and proves their central invariants with TLAPS.

Paths below are relative to `src/src/`.

## 1. The system and what is hard about it

Every HTTP handler, socket message and cron run is an `async` function of one
Node process. Between two `await`s it runs undisturbed; at an `await` any other
handler may run. Nothing but a few `dataSource.transaction` calls groups
statements, there are no row locks or version columns, and `repository.save(e)`
is a `SELECT` of the row followed by an `UPDATE` of the columns in which `e`
differs from what was selected. So each handler works on an entity that may be
stale when it is saved, and saves back columns it never meant to change. A
relation that was loaded with the entity is saved with it: rows that have gone
since the load come back, rows that have come since are cut off.

| Component | State | Operations | What makes it correct |
|---|---|---|---|
| Incident life cycle (`incidencias/incidencias.service.ts`, `services/reopen-requests.service.ts`) | status, `finalStateReachedAt`, `deletedAt`; reopen requests | create, update, cancel, delete, request / review / execute a reopening | an incident is reopened only on a recorded approval; one pending request; the ten-day limit counts from the closing; a check still holds when the change is made |
| Alert monitor (`services/incidencia-monitor.service.ts`) | `alertLevel` of each incident | cron every minute, reminder by e-mail | never early, never lost, each level announced once |
| Image re-upload (`reuploadImages`, `messages/messages.service.ts`) | permission flag and its end, image records, files in the object store | grant, withdraw, use | one use for each grant; no record without a file |
| Creation and assignment (`create`, `employee-assignment.service.ts`) | incident, image records, workloads | create with images, rollback, images from the chat | a failed creation leaves nothing, unless another handler had loaded it before and saves it after; every image has its object; loads stay close |
| Incident chat (`messages/messages.gateway.ts`, `messages.service.ts`) | room, messages, read marks | connect, join, leave, send, page, mark read | no message is missed between pages and the room; the assigned employee, if connected, hears of a client's message |
| Notifications (`notification/`) | notifications, map of sockets | `sendToUser` over four channels, read, remove, connect | every active channel is tried, none that is off; who listens is known |
| User preferences (`user-preferences/`) | one row per user and channel | defaults, enable, configure, remove | what is enabled is configured |
| Enterprise configuration, e-mail codes, documents (`enterprise-config/`, `redis/`) | configuration, code in Redis, `isEmailVerified`, document versions | send, verify, decide, edit, upload, delete | a code verifies its own address; the row describes the last decision; later uploads have higher versions |
| Registration and login (`auth/`, `enterprise/enterprise.service.ts`) | enterprises, accounts, tokens, sessions | register, Google sign-in, activate, login, edit, remove | a session is for the account's own enterprise, or a super admin's; a registered enterprise has its administrator |
| Roles and users (`roles/`, `users/`) | roles, permissions of roles, users, roles of users | create, update, assign, take away, deactivate, reactivate | enterprises stay apart; a role's permissions are replaced as a whole; what is taken away stays away |
| Chatbots (`chatbot/`) | sessions of guests, conversations | ask, reset, clean up, chat, delete | quotas count answers; nothing said is lost; no answer uses what was not granted |
| Seed (`seed/`, `cli/`) | all tables | clean, save stage by stage | a seed that completes has left all its data, wherever earlier ones stopped |
| HTTP cache (`common/interceptors/cache.interceptor.ts`) | values in Redis | read through, invalidate | idle: registered globally (`app.module.ts:84`), but no route is marked `@Cached` |
| Clients, dashboard, reports, locations, guards and filters | - | queries and single statements | nothing to interleave (section 8) |

Interaction. The incident's row is shared: the life cycle, the alert monitor,
the image permission and the chat load and save it. Reopen requests write the
incident after their own row. Incident creation counts the users that hold a
receiving role, which role and user administration change. The monitor and the
chat call the notification service, which consults the preferences;
registration creates them. Users and roles are two services over one table.
The composition is in the modules: `Registration` and `Notifications` extend
`UserPreferences`, `UserAdministration` extends `RoleAdministration`, `Chatbot`
extends `GuestChatbot`, and each has the steps of both in its next-state
relation. `IncidentChat` and `IncidentCreation` take what other services do to
the rows they read as steps of an environment.

## 2. The modules

| Module | Models |
|---|---|
| `TypeOrm` | what `repository.save` does: `Changed`, `Written`, and for relations `Reinserted`, `CutOff`. External code, modelled from how the repository uses it |
| `Null` | the value of what is missing, one for all modules |
| `Incidencia` | the status enum and the sets of statuses the handlers test |
| `IncidentLifecycle` | the life cycle of one incident and its reopen requests |
| `IncidentContract` | what the life cycle promises: one atomic step per operation |
| `AlertMonitor` | the cron over several incidents, overlapping saves of the same rows |
| `ImageReupload` | the permission to send more images, the images and their files |
| `IncidentCreation` | creation, choice of the employee, images, rollback |
| `IncidentChat` | the chat of one incident: room, messages, pages, announcement |
| `UserPreferences` | the notification channels of each user |
| `Notifications` | sending, the stored notifications, the gateway's map; with the preferences |
| `Registration` | enterprises, accounts, tokens and sessions; with the preferences |
| `EnterpriseVerification` | e-mail codes, decisions, documents |
| `RoleAdministration` | roles and their permissions |
| `UserAdministration` | users and their roles; with the roles |
| `GuestChatbot`, `Chatbot` | the public chatbot; that of signed-in users, with the public one |
| `Seed` | the seed and its foreign keys |
| `IncidentLifecycle_proofs`, `AlertMonitor_proofs`, `IncidentCreation_proofs`, `EnterpriseVerification_proofs`, `Chatbot_proofs` | theorems on the modules they are named after |
| `ImageReupload_proofs` | theorems on `ImageReupload` and on `IncidentChat` |
| `UserPreferences_proofs` | theorems on `UserPreferences` and on `Notifications` and `Registration`, which extend it |
| `UserAdministration_proofs` | theorems on `UserAdministration` and `RoleAdministration`, and on `Seed` |
| `MC*` | instances for TLC; the `MC*.cfg` files give the constants |

One pattern runs through all of them. A handler in flight is a record (`task`,
`run`, `edit`, ...) that holds the point `at` which it is suspended and the
values it has read; there is one action for each stretch of code between two
awaits; the action that ends a `save` writes only the columns the `SELECT`
before it found changed. A failed await and a crash end the handler with what
it has written so far in the database. A `...Workload` constant says which
handlers a slot may run, so a configuration chooses what may overlap what. The
inputs of requests are chosen by `\E` in one action named after the controller
(`EmployeeRoutes`, `RolesController`, ...). Definitions named `X_Something` are
mutated forms of `X`: plausible bugs each property is shown to detect; no
specification uses them. Variables marked *history* only serve a property.

### IncidentLifecycle

`row` is the incident's row (status, `finalStateReachedAt`, `deletedAt`),
`request` the status of each reopen request, `task[s]` what slot `s` is doing,
`today` the calendar, and `finalSince` a history variable: the day the incident
last became final.

* `Update`, `CancelIncidentByClient`, `Touch` load the row, test it and suspend
  before the save; `SaveSelect` and `SaveWrite` are the save. `Touch` stands for
  every handler that saves the row without meaning to change the status; the
  alert cron is the one mapped.
* `CreateReopenRequest`, `CheckPending`, `InsertRequest` are the three awaits of
  a reopen request; `ReviewRequest`, `RequestSelect`, `RequestWrite`,
  `AfterReview` those of a review, which ends in `executeReopen`'s own save of
  the incident.
* `DeleteIncidentByClient`, `Remove`, `SoftDelete` are the soft deletions. A
  stale save writes `deletedAt` back to null, in the model as in TypeORM.
* `HandlerFails` is one handler's await that throws: the `catch` answers 500 and
  what was written before it stays. `Crash` is the process dying with every
  handler in flight.

`IncidentContract` is the abstract specification: the same operations, each
testing and changing the incident in one step. `Contract` in
`IncidentLifecycle` is the refinement mapping.

### AlertMonitor

`run[r]` is one run of the cron: the list it loaded, the incident it is at, the
entity it saves. The scheduler starts a run each minute whether or not the last
one is over (`StartRun`), so several `Runs` may overlap. `RunFails` is a save
that throws: the `try` around the loop gives up the rest of the list. `edit[d]`
is a handler of somebody else who saves the same row. `reminders` is a history
variable counting the reminders of each level (up to 2, enough to refute
"once").

### ImageReupload

`row` has the two columns of the permission, `files` and `images` what is in
the object store and in the database. `ReuploadImages` tests the row as loaded;
`UploadFile` and `StoreImage` alternate for each image; the save that withdraws
the permission comes last; `HandlerFails` ends an upload or an employee's
request at any await. `unused` is a history variable: permissions stored
less uploads that succeeded.

### IncidentCreation

`create` of one enterprise: the holders of receiving roles and the active users
among them (two queries), one count of open incidents per candidate, the save,
the awaited `Reload` of the row, with images or without, then each image's upload
and insert, the addresses of the images, and the notice. Any of these may fail;
`Rollback` is the `catch`, which deletes the row; it may fail too. The same slots
run the upload of chat images. `holds` and `active` change beside them, as the
other services make them. `LoadIncidencia` and `SaveLoaded` are the load and the
save of another handler: `update`, which loads the images with the row, or a
cancellation or the alert cron, which do not. A row deleted in between is inserted
again, with the images that were loaded; images stored in between cannot be cut
off (`CutOff` of `TypeOrm`: `incidenciaId` is not nullable), so such a save fails.
`restored` and `reverted` are histories of what a save put back.

### IncidentChat

A message is `stamped` when its `INSERT` begins and in `message` when it
commits; only then is it `emitted` to the room, and its announcement to the
assigned employee follows from who was found in the room: `Told` are those of the
personal room, nobody if the employee is not connected or nobody is `assigned`.
`ended` and `heard` are histories: the sendings that went through with the employee
each was to tell, and who was given which message. Messages are named in the order
of `createdAt`, a column of microseconds; `Millisecond` gives what the cursor of a
page, a `Date`, keeps of it, and `Page` compares with that. `conn` is a socket:
its user is known only after the awaited query of `handleConnection`
(`Authenticated`), and it is in the room after the awaited test of access
(`Joined`). `view` is what its screen shows. `incident` moves between the
states of the configuration as the other services make it.

### UserPreferences, Notifications

`pref` has a row, or none, for each user and channel. A first request inserts
all four defaults; a request that names a channel may insert that row alone;
the save that follows is a load, a `SELECT` and an `UPDATE` of `isEnabled` and
the configuration. In `Notifications`, `SendToUser` stores the row,
`GetActiveProviders` reads the list of channels once, and each provider then
goes on by itself: `Check` asks again whether it is on (`isEnabledForUser`),
`Deliver` sends. `lost` collects what failed or died in flight. `userSockets`
is the gateway's map, and `conn` each socket with the state of its
`handleConnection`, which awaits the verification of the token.

### Registration

`Register` and `GoogleLoginClient` write an account (`SaveAccount`), then its
preferences (`Defaults`), outside any transaction; `RegisterEnterprise` writes
enterprise, administrator and role in one `Transaction` and the preferences
after it. Registration by Google, `ActivateAccount` and `Login` give sessions;
a session remembers which enterprise its subdomain asked for, if it is one's. A super
admin, an account of the seed without an enterprise, logs in from any subdomain or
none (`BelongsToSubdomain`); an activation makes no exception. `EditEnterprise`
loads the enterprise with its users and saves both (`EditSelect`, `EditWrite`),
which cuts off an account made in between (`CutOff`).

### EnterpriseVerification

`stored` is the one key of an enterprise in Redis, shared by its
administrators, with expiry; verifying is a read, a comparison, a deletion and
a save of the user, each awaited. A decision assigns `Decisions`, in which
`UNDEFINED` is a field the save does not write. `document` is the table in the
order of insertion; an upload finds the latest active version of each of three
types and inserts, one type after the other. `issued` and `entered` are
histories.

### RoleAdministration, UserAdministration

A role's save saves the permissions loaded with it; `DeleteGrants` and
`InsertGrants` then replace them, each a statement of its own. `create` and
`update` of a user validate the roles first and write in a transaction, of
which `ClearRoles` and `CommitRoles` are the read and the commit under READ
COMMITTED; `remove` and `reactivate` save the list of roles loaded with the
user. `revoked` is a history: roles taken from a user and not given again.

### GuestChatbot, Chatbot

`sessionStore` maps a session's id to an object in `session`; a question holds
on to its object while the model answers, and counts it back when the model
fails, whatever a reset, the cleanup or a crash made of the map. The model is external
and may answer anything. In `Chatbot` a chat loads its conversation, asks the
model, executes the function it named if the permissions of the request allow
it, asks again and saves all messages. `chats` and `answered` are histories.

### Seed

A row is a tuple of its table and what identifies it; `Owners` and `Needed`
give the foreign keys that cascade and those that refuse. `CleanTable` is one
`DELETE`, `ReadStage` what a stage looks up before its rows, `SaveRow` one
save. `SeedFails` stops it anywhere. `Use` is the application adding rows
between seeds, or during them when `Serving`. The sequences of rows are the code's
`filter`, `map` and nested loops over the data (`Those`, `FlattenSeq`).

## 3. The runs

| Run | Configuration | Question and answer | States |
|---|---|---|---|
| `lifecycle_serial` | `MCLifecycleSerial.cfg` | Handlers that never overlap, interrupted by a failure or crash at any await, implement `IncidentContract` (refinement); as long as no client cancels, the ten days count from the closing, neither missed nor early, through any number of reopenings | 31,872 |
| `lifecycle_overlap` | `MCLifecycleOverlap.cfg` | Two handlers of any kind overlap, except two reviews or two reopen requests: no decided request is decided again, no incident is reopened before or without an approval, at most one request is pending | 1,133,975 |
| `monitor` | `MCAlertMonitor.cfg` | Through failing saves, crashes and one stale save of an employee no alert is early, and every open incident is RED for good in the end; until that stale save levels only rise and each is announced at most once | 56,150 |
| `reupload_one_client` | `MCReuploadOneClient.cfg` | One upload at a time, an employee overlapping it: no more uploads than grants, no record without its file | 31,947 |
| `access` | `MCAccessAdministration.cfg` | Role and user requests of two enterprises and of super admins overlap: nobody holds a role of another enterprise, a role's permissions are never mixed, no role taken away comes back | 295,898 |
| `onboarding` | `MCOnboarding.cfg` | Accounts, enterprises, edits, tokens and logins overlap: no session reaches another enterprise than its account's, a super admin's excepted, who has none; a registered enterprise has its administrator | 833,168 |
| `notifications` | `MCNotifications.cfg` | A notice is sent over four channels while the user configures them, reads, removes and reconnects: every channel that stays on is tried, none that is off is used, nothing read becomes unread | 104,161 |
| `chat` | `MCIncidentChat.cfg` | Messages are stamped, committed, emitted and announced in any order while sockets join, leave and load pages: only those of a cursor's millisecond fall between pages and room, and the assigned employee hears of a client's, except when nobody is assigned or the employee has no socket | 3,693,880 |
| `creation` | `MCIncidentCreation.cfg` | Creations overlap, fail and roll back beside chat images, deactivations, stale saves and crashes: all or nothing, except what a stale save puts back; every image has its object, loads stay close | 1,210,764 |
| `verification` | `MCEnterpriseVerification.cfg` | Codes, decisions, edits, uploads and deletions of two enterprises: an address is verified by its own code only, decisions are recorded whole, versions follow the uploads | 609,801 |
| `chatbot` | `MCChatbot.cfg` | Guests' questions overlap, fail and are reset while a signed-in user chats and deletes conversations: quotas count answers, nothing said is lost, nothing ungranted is used | 624,198 |
| `seed` | `MCSeed.cfg` | Seeds stop anywhere and are run again on what they and the application left: no deletion is refused, one that completes left exactly its data, the super admin stays | 119,986 |

The configurations keep apart what the properties need apart. What happens
when they are not is part of the result; each line below is one change to a
configuration, or to the workload the `MC` module defines for it, and TLC finds
the property violated:

| Change | Violated | What happens |
|---|---|---|
| `Workload <- TwoReviewers` in `MCLifecycleOverlap.cfg` | `ReopenIsApproved` | two employees review one request; it is recorded as REJECTED and the incident is reopened |
| `Workload <- AnyHandler` in `MCLifecycleOverlap.cfg` | `OnePendingRequest` | two reopen requests pass the duplicate check together |
| `Workload <- AnyHandler` in `MCLifecycleSerial.cfg` | `DeadlineCoversEveryFinalStatus`, `DeadlineNotEarly` | `cancelIncidentByClient` does not set `finalStateReachedAt`: no deadline, or that of an earlier closing |
| `Workload <- ClientAndEmployee` in `MCLifecycleOverlap.cfg` | `CancelRespectsFinalStatus` | a cancellation that read the incident before it was resolved overwrites RESOLVED |
| `Workload <- CronAndEmployee` in `MCLifecycleOverlap.cfg` | `TouchLeavesStatus` | the cron's save puts back a status it read a minute ago |
| `Runs = {r1, r2}` in `MCAlertMonitor.cfg` | `RemindedOncePerLevel` | two runs announce the same change of level |
| `Workload <- TwoUploads` in `MCReuploadOneClient.cfg` | `SingleUse` | two uploads sent at once both succeed on one grant |
| `ChatWorkload <- TwoTabs`, `GuestSlots = {}` in `MCChatbot.cfg` | `NothingSaidIsLost` | two tabs on one conversation each save all its messages; the later save loses the other's |
| one chat and two deletions in `MCChatbot` | `NothingSaidIsLost` | the second deletion loaded the conversation before a chat that made it active again, and saves its old messages |
| `PrefWork` gives `PrefOps` to two slots in `MCNotifications` | `EnabledIsConfigured` | a channel is enabled beside the save of a configuration that takes away what it needs |
| `b2` runs `removeRole` beside `b1` in `MCUserAdministration` | `RevocationSticks` | the deactivation of a user inserts a role again that was taken away after its load |
| `a2` runs `register` beside `a1` in `MCRegistration` | `SessionsApart` | the edit of an enterprise cuts off the account made meanwhile, whose registration goes on to a session |
| `Serving = TRUE` in `MCSeed.cfg` | `CompletedIsWhole`, `CleaningIsNeverRefused` | the application adds rows between two statements of the seed |

`CancelRespectsFinalStatus` and `TouchLeavesStatus` are stated in
`IncidentLifecycle` for these two instances only.

### Bounds and why they are enough

* Two slots: each race of this code is between two handlers, and where section
  5 has a theorem it holds for any number. In `access` and `onboarding` there
  are three slots over the two services, since a race may be between a role
  request and two of users.
* Life cycle: two reopen requests, because the duplicate check and a decision
  need a second one. `REOPEN_DEADLINE_DAYS` is 1 rather than 10 in the serial
  run and `MaxDay` 5, room for an incident to be closed, reopened and closed
  again past its limit; the overlaps do not depend on the date and have two
  days.
* Monitor: thresholds 0, 1, 2 and four minutes, so every level but the last
  lasts one minute, which is what the inclusive comparisons can get wrong by
  one; the last minute stands for all later ones. Two incidents, so that a
  failing save of one aborts the other, one run, one employee.
* Re-upload: `HoursAllowed` 1 and 2, so a renewal changes the date; three
  images and two per upload give an upload of several images and a second one;
  two permissions may be stored and unused, so one can be renewed.
* `access`: two enterprises, two roles, two users of whom one may be created,
  three requests: a role is edited or removed between the validation and the
  insertion of a user's roles, with a third request on what either left.
* `chat`: three messages, the last two of one millisecond, and pages of one
  message, so that one can fall between two pages; two sockets, one of the
  employee and one of the client, and an incident that is nobody's, is assigned
  and taken away again, is resolved and reopened; seven requests: two sendings
  beside a screen that connects, joins and loads two pages.
* `onboarding`: two enterprises of which one may register, two accounts to be
  made, and the super admin, whose address nobody registers with (`NewEmails`).
* `notifications`: one notice and user; the requests name three of the four
  channels, the websocket stays as the defaults have it. With four requests a
  sending, a configuration, a read mark and a removal, or two sockets that come
  and go, overlap.
* `creation`: three incidents over two employees, so that loads can come to
  differ by more than the number of slots; two files, which creations and chat
  uploads take, so that an incident that is rolled back may have an image of the
  creation and one of the chat. Where files are, two incidents (`MaxWithImages`).
  Others make one change: a role, an account, or one load and its save.
* `verification`: three users, of whom two share an enterprise and its key and
  two an address in different enterprises; six documents are two whole uploads.
* `chatbot`: one question per session (`MAX_QUESTIONS`), so that the limit and a
  refusal are reached; two session objects, so a reset one can be answered late.
* `seed`: the data of `seed/data` with fewer rows of each kind, two runs, and
  two rows added or channels failed.

Symmetry is used only in runs without liveness. `CHECK_DEADLOCK FALSE` is in
the configurations because clocks, identifiers and requests are bounded: a
behaviour may end with nothing left to do. `TypeOK` of the modules whose run
does not list it holds in the same instance, and is a theorem of section 5.

## 4. Fairness

Two runs need it. `LiveSpec` of `AlertMonitor` assumes that the clock advances,
that the scheduler starts a run when it is due and that an await is answered
(weak fairness), and, because a failing save throws a run away as often as it
likes, that an incident some run keeps coming to is looked at and saved some
time (strong fairness of `Examine`, of the save's `SELECT` and of its
`UPDATE`). Without the last assumption a database that rejects every save of
one incident would be a counterexample, and no code could meet the property. No
fairness is assumed of `Crash`, `RunFails`, `Create` or of an employee's
request. `FairSpec` of `Notifications` assumes weak fairness of `SendGoesOn`:
the event loop runs every continuation whose answer has come. Failures and
crashes stay possible; what they take away is in `lost`.

## 5. What is proved

All constants are arbitrary, within the named assumptions of each module: any
set of slots and any workload, unless a hypothesis says otherwise. Where one module has the proofs of
two components, the second one's specification has a name of its own
(`ChatSpec`, `RegSpec`, `SeedSpec`). The conditions on overlaps are stated on the
workloads (`OneAtATime`, `OneWriter`, `EditsApart`, `RestoresApart`, `OneChat`,
`OneDelete`, ...), hold in the configurations of section 3, and its second table shows
what happens without them.

| Module | Theorem | Says |
|---|---|---|
| `IncidentLifecycle_proofs` | `TypeCorrect` | `Spec => []TypeOK` |
| | `ReviewIsForGood` | `Spec => ReviewedForGood`: a reviewed request never waits again |
| | `ReviewComesFirst` | `Spec => []ReviewPrecedesReopen`: no reopening before a stored decision |
| | `OneReviewerReopensApproved` | if reviews do not overlap, `[]ReopenIsApproved` |
| | `OneRequesterOnePending` | if reopen requests do not overlap, `[]OnePendingRequest` |
| | `AloneImplementsContract` | with one slot, `Spec => ImplementsContract`: each step is a step of `IncidentContract` or changes nothing the contract sees |
| | `DeadlineIsEnforced`, `DeadlineIsNotEarly` | and if no client cancels, `[]DeadlineCoversEveryFinalStatus`, `[]DeadlineNotEarly` |
| `AlertMonitor_proofs` | `MonitorTypeCorrect` | `Spec => []TypeOK` |
| | `NeverEarly` | `Spec => []AlertNeverEarly` |
| | `RemindedOnce`, `LevelsOnlyRise` | if runs do not overlap, `[]RemindedOncePerLevel` and `LevelsRise` |
| | `NobodyIsLeftBehind` | likewise, `Spec => RunsLeaveNoneBehind`: a run not given up brings every incident to the level due when it fired |
| `ImageReupload_proofs` | `ReuploadTypeCorrect` | `Spec => []TypeOK` |
| | `FilesComeFirst` | `Spec => []FileBeforeRecord` |
| | `OneUploadOneUse` | if uploads do not overlap each other or a save of the row as found, `[]SingleUse` |
| | `ChatTypeCorrect` | `ChatSpec => []ChatTypeOK` |
| | `NoMessageFallsBetweenPages` | `ChatSpec => []NoMessageFallsBetween` |
| | `AssignedEmployeesHear` | `ChatSpec => AssignedEmployeeHears` |
| `UserPreferences_proofs` | `NotificationsTypeCorrect` | `Spec => []TypeOK` |
| | `ListenersStayKnown` | `Spec => []ListenersAreKnown` |
| | `ReadStaysRead` | `Spec => UnreadNeverReturns` |
| | `ChannelsStayShut` | `Spec => NeverThroughAChannelOff` |
| | `NoChannelIsPassedOver` | `Spec => NothingOwedIsDropped`: a sending by a channel that stays on leaves, fails or stays to be done |
| | `EnabledStaysConfigured` | if saves of preferences do not overlap, `[]EnabledIsConfigured` |
| | `RegistrationTypeCorrect` | `RegSpec => []RegTypeOK` |
| | `SessionsStayInTheirEnterprise`, `AdminsStay` | if no edit of an enterprise overlaps the making of an account in an existing one, `[]SessionsApart`, `[]EnterpriseHasAdmin` |
| `UserAdministration_proofs` | `AccessTypeCorrect` | `Spec => []TypeOK` |
| | `TenantsKeptApart` | `Spec => []TenantsApart` |
| | `RolesReplacedAsAWhole` | if role requests do not overlap each other, `ReplacedAsAWhole`, whatever the user service does |
| | `RevocationsStick` | if what removes or reactivates users overlaps nothing that takes roles away, `[]RevocationSticks` |
| | `TheSuperAdminStays` | `SeedSpec => SuperAdminStays`, the application used meanwhile or not |
| | `CleaningGoesThrough` | if it is not used meanwhile, `[]CleaningIsNeverRefused` |
| | `ACompletedSeedIsWhole` | and then `[]CompletedIsWhole` |
| `EnterpriseVerification_proofs` | `VerificationTypeCorrect` | `Spec => []TypeOK` |
| | `OnlyOwnersVerify` | `Spec => []VerifiedOwnsAddress` |
| | `DecisionsAreRecorded` | if decisions overlap neither each other nor edits, `[]DecisionIsRecorded` |
| | `LaterVersionsAreHigher` | if uploads do not overlap, `[]VersionsFollowUploads` |
| `IncidentCreation_proofs` | `CreationTypeCorrect` | `Spec => []TypeOK` |
| | `CreationsAreWhole` | `Spec => []AllOrNothing` |
| | `ImagesAreStored` | `Spec => []EveryImageIsStored` |
| | `AssignmentsStayClose` | `Spec => []LoadsStayClose` |
| `Chatbot_proofs` | `ChatbotTypeCorrect` | `Spec => []TypeOK` |
| | `QuotaHolds` | `Spec => []QuotaIsSpentOnAnswers` |
| | `AnswersStay` | `Spec => []AnswersStayInside` |
| | `NothingSaidStays` | with one chat and one deletion in flight at a time, `[]NothingSaidIsLost` |

The arguments.

*Life cycle.* A request's status only changes where a review stores a decision
or a new request is inserted under an identifier nobody uses, so what a
suspended review holds in its hands is enough to invert each property: the
strengthening for `ReviewPrecedesReopen` says that a review past its save has a
decided request. `ReopenIsApproved` needs more: that the only review in flight
is this one, so nobody rewrites its decision; `OneAtATime("review")` is that
hypothesis, and section 3 shows it cannot be dropped. `OnePendingRequest` needs
that a requester past the duplicate check saw no pending request and that
nobody has inserted one since; only a requester can. The refinement rests on
`AloneInv`, which says of each point where a handler can be suspended that
everything it has tested on the way there still holds of the row and of the
requests (`StillHolds`); it is what the contract's operations test when the
last await makes the change, and what overlapping handlers lose. For the
deadline, `DatedInv` says that a final row's timestamp is the day of the
history variable, and that a save in flight that carries a final status carries
the row's own date, or today's if it is the save that closes the incident.

*Monitor.* For `NeverEarly` the invariant says of each entity in flight (in a
list, in a save, in an employee's hands) what the property says of the rows:
its level was due when it was read or computed, and ages only grow. A save
copies entities to rows, and so preserves it, whatever was written meanwhile.
`RemindedOnce` and `LevelsOnlyRise` rest on `Calm`, which holds until the first
stale save of an employee, as the two properties do: what the one run holds of
an incident agrees with its row, no level above the row's was announced and
none twice, and the level about to be announced was not. `NobodyIsLeftBehind` adds
`Thorough`: whatever the run has passed has reached the level that was due when
the cron fired (`Seen`), and the entity on its way to be saved has. Ages are taken
when the run looks, and an older incident is due no lower level.

*Re-upload.* `FileBeforeRecord` needs that the image a suspended upload is
about to record has its file. For `SingleUse` the invariant `Counted` says who
holds an unused permission: the flag, when it is up, and each upload in flight;
and that both of these are different ones when the upload's save has already
decided not to touch the flag (it was down at the `SELECT`) and the flag is up
again.

*Chat.* `ChatInv` adds to `NoMessageFallsBetween` what it needs of the sends and the
sockets in flight: no two sends are about one message, nothing is stored past the
last stamp, what is sent went through with its sender's row in place
(`SendingInv`), and a screen with a page belongs to a socket in the room
(`ConnectedInv`), so that whatever is emitted after its page reaches it. The
step that could break `NoMessageFallsBetween` is the page: it reads committed
messages only, and a message is emitted only when committed. What the
page leaves out between the cursor and its oldest message was created in the
cursor's millisecond, which is why the cursors are kept. `AssignedEmployeeHears`
is a matter of the two steps that end a sending: whoever is found connected
has been told (`TheOnlineAreTold`), or was in the room at the emit; no other step
adds to `ended` (`OnlyTellingEnds`).

*Roles and users.* `TenantsApart` alone is not inductive: user and role
handlers hold rows they have read (`rows`, `again`), roles they have validated
(`ids`) and whole entities. `Apart` says of all of them that they join what
belongs to one enterprise. It stays true while the other service writes
because no request of either moves a role or a user to another enterprise or
deletes its row (`Keeps`): the validation is stale when the transaction
commits, but only in whether the role is active. `RolesReplacedAsAWhole` adds `Current`: with one
role request in flight the permissions it loaded are those in the table, so
its save cuts off and inserts nothing, and between the `DELETE` and the
`INSERT` the role has none. `RevocationsStick` rests on `Sticks`: no row of the table,
no role a request is about to give and no row that a `remove` or `reactivate`
has loaded is among those revoked. A revocation keeps the last part only because
no such handler of another slot is in flight, which is the condition. The second
part holds because a request that gives a role is later than its revocation in the
sense of the property: it ends it when it begins (`revoked`), and what it is about
to give while another takes it away is not counted as revoked (`Revoke`).

*Preferences and notifications.* `EnabledIsConfigured` is lost by a save between
another's load and its write. With saves in one slot `Configured` says of the
entity in flight what the property says of the rows, and that the columns to be
written are those in which it still differs. The properties of `Notifications` need
that a notice is sent to one user and that a handler's entity is marked read
(`SendInv`, `BoxInv`), and of the gateway that a socket is new until its
handler has its user (`ConnInv`): `ListenersAreKnown` holds through the
disconnection of a socket whose verification has not ended. With these,
`NothingOwedIsDropped` is a matter of each step: only the channel's own
steps settle it, and what the preferences show as on, its provider finds on.

*Registration.* `RegInv` types the tables and handlers and says that what is in
flight names accounts and enterprises that were made. `RegApart` adds that
subdomains are distinct, that the super admins of the seed stay accounts of no
enterprise (`SuperAdminsStay`), that accounts refer to enterprises that exist, and
(`Together`) that an edit in flight has loaded exactly the accounts of its
enterprise, so that its save cuts nobody off; that is where `EditsApart` is
needed.

*Seed.* Rows only refer to rows that are there (`Refers`), which the foreign keys
ensure; a `DELETE` keeps it because nothing is owned by way of more than two
rows (`DeletedRows`). `Cleaning` says which tables are empty when the next is
reached. A row that needs a user belongs to an incident, and incidents went
first; messages go with them. `ACompletedSeedIsWhole` rests on `WholeInv`. Of the
rows, `Data` is what the property counts: not the preferences, which an account is
given in a way that may fail unnoticed, nor the super admin, who stays. When a
stage looks up what is there, these are one of the `Outcomes` of the stages
before; while it saves, they make one of its own together with the rows it has
yet to save (`Makes`), since no row that counts is passed over (`NotPassed`). Two
things start and carry the argument: after the cleaning nothing that counts is left,
for messages, notifications and conversations would belong to a row that is gone
(`EmptiedIsEmpty`); and the sequence each stage makes contains exactly the rows of
the data that are missing (`RolesToSave`, `UsersToSave`, `IncidentsToSave` and the others).
The data are definitions of the module, so the theorem is about them; arbitrary are
the number of seeds, where they stop and what the application did before.

*Verification.* `OwnInv` says of the key in Redis that its code was made for
the address stored with it, and of a handler past the comparison that its user
sent back a code made for that user (`Proven`). `DecidedInv` says that a row is
consistent and that a decision in flight knows the columns it will not write;
`VersionInv` that the version an upload found is above those active.

*Creation.* `Whole` says who owns which incident (a creation in flight its own,
and no two the same), what an answer implies of the row and the images, and that what is
uploaded is in the store. A rollback deletes the images with the row, those
added from the chat too. What another handler has loaded was there when it was
(`LoadedWasThere`): its images have their objects, and its incident, when it has
none any more, was answered as failed, which is when the save restores it.
`Balanced` is behind `LoadsStayClose`: for employees `e` and `f` of whom `f` has at most `y` incidents, a creation in flight is a vote
for `e` if it has counted at most `y` of `e`'s or has chosen `e`; were all votes cast,
the load of `e` would still exceed `y` by at most the number of slots. A creation
that chooses `e` has counted no more for `e` than for `f`, and counts are old but
never too high, since loads only grow until something disturbs them; so nobody
without a vote comes to have one.

*Chatbots.* `Charged` is the property itself with the types: a session's count
is the answers charged to it plus the questions in flight that hold on to it,
so it is the object, not the map, that the argument is about. `Inside` says of
each chat in flight that its conversation is the user's, and that what it
executed was granted when it came in. `NothingSaidStays` rests on `Kept`. A
chat's exchange is newer than all that is stored. What the chat has loaded is at
least as long as the row, so that once it is pushed the save finds messages and
count changed and writes both; it is whole unless the row is deleted, for then
nobody makes the row active but this chat (`GoodChat`). What a deletion has
loaded is the row's messages or shorter, and it marks the row inactive, finds it so, or
writes nothing (`GoodDelete`). Where the two meet on one conversation, `Beside`
says that a deletion that will not mark the row inactive writes nothing if the chat is
going to make it active again: a deletion that found the row inactive changed nothing
the chat had not seen.

Each proof has one step per action, resting on lemmas that say what a group of
actions leaves alone.

## 6. What is only model-checked

* `Escalates` and `EveryActiveChannelTried` are liveness properties under
  fairness, which the prover does not reach. Their safety halves are theorems
  (`NobodyIsLeftBehind`, `NoChannelIsPassedOver`): what a run or a sending that goes on
  achieves, without the promise that it goes on.

What a recursive definition computes for every input would be out of the
prover's reach too; no module has one.

## 7. What the code does that may surprise

Besides the table of section 3, which lists what handlers that overlap
break, modelling showed the following; the models have it as the code does.

* Fields cleared with `undefined` are not written (`enterprise-config.service.ts:307`):
  a configuration that is verified after a rejection keeps the reason and date.
  `documentsUploaded` counts any three active documents, of whatever type.
* Two decisions that overlap can leave `isVerified` beside another status.
* `users.update` may change the e-mail address while `isEmailVerified` stays
  true; with `isActive: false` it commits and then answers 404.
* The guard of permissions does not look at `role.isActive`.
* `WHATSAPP` can never be enabled: its configuration needs `isVerified`, which
  nothing sets. A row made for one channel before the defaults keeps them from
  ever being made, and a failure to make them does not undo the registration.
* Cancelled incidents still take messages; a message may be stored after the
  incident was resolved; a failure after the store answers "Failed to send",
  and a retry stores it twice.
* A client's message is announced to nobody when nobody is assigned
  (`messages.gateway.ts:406`) or the employee has no socket (`:477`); nothing is
  stored for them to find later, other than the message.
* A page begins before the cursor's millisecond (`messages.service.ts:184`), so
  messages of the same millisecond that were created before the cursor are on no later page.
* A super admin logs in from any subdomain or none, as the comment there says.
* `create` deletes the incident also when nothing but the reading of the stored row
  failed. An `update` or a run of the alert cron that had loaded it before inserts
  it again, and an `update` may give the images of a creation the store's address
  again, or fail because images were stored since its load.
* After a rollback the loads of two employees may differ by more than the
  creations in flight, since the choice was made on a row that went.
* The save at the end of a chat undoes a deletion of its conversation made
  meanwhile; a guest's question that fails puts its session back into the map,
  in place of the one a reset has made.
* The seed matches configurations and documents to enterprises by the order of
  an unordered `find()`; failing preferences are logged only; the README of the
  seed speaks of three roles and three users where the data has five; the super
  admin gets no preferences.

## 8. What is not modelled

* `clients/`, `dashboard/`, `reports/`, `location/`: single statements and
  read-only queries, with no state between two awaits.
* The cache interceptor: without a route marked `@Cached` it never stores or
  invalidates anything.
* Guards, filters, interceptors, configuration, tenant middleware: stateless.
  Whether a caller may use a route is assumed to be decided before the handler
  starts, which the models express by the inputs they enumerate.
* Object storage and Redis are thin wrappers of client libraries and modelled
  where they are used (`objects`, `files`, `stored`); image resizing is left out.
* The content of messages, e-mails and prompts, passwords, hashing and the
  signature of tokens.
* Of modelled components: the lists and statistics of incidents, the monitor's
  manual trigger, `imageUploadRequestedBy`, the chat message that announces a
  grant and `markEvidencesAsViewed`; attachments of messages and the list of
  conversations; the WhatsApp session; branding files; profile pictures and
  global users; `enterprise.create` by a super admin, one insert. Each is a
  single statement or independent of the rows the models share.
