# Discodeit: a TLA+ verification project

Discodeit is a chat server (Spring Boot, one JVM, a relational database, local
disk or S3 for files).  Accounts log in with JWTs, join public and private
channels, post messages with attachments, and a browser tab keeps an SSE stream
on which the server pushes notifications and refresh hints.  What is hard about
it is not any single request: it is the state that several threads share (the
JWT blacklist, the SSE connection map, the Caffeine caches), the work that goes on
after a request has answered (file uploads, notifications), and a browser whose tabs
share a cookie and whose view is fed by fetches and pushes that know nothing of each
other.

Paths below are relative to `src/src/main/java/com/spirnt/mission/discodeit/`.  *The
bundle* is `src/src/main/resources/static/assets/index-CEsbCts1.js`.

## 1. Inventory

| component | state | operations | talks to | what makes it correct |
|---|---|---|---|---|
| JWT sessions (`security/jwt`, `AuthController`, success/logout handlers, `BasicAuthService.updateRole`) | table `jwt_sessions`, `JwtBlacklist` in memory | login, refresh (rotation), logout, role change, hourly clean-up | users table, request filter | a revoked token is refused, a closed session stays closed, one session a user, no accepted access token without a session (a refresh token, which the filter accepts as well, belongs to none) |
| Request filter and authorization (`JwtAuthenticationFilter`, `SecurityConfig`, `AuthorizationEvaluator`) | none | per-request checks | JWT sessions, users | only live tokens of existing accounts are admitted |
| SSE emitters (`sse/SseEmitterManager`) | `userConnections`, `eventCache`, both in memory | subscribe, send, ping, remove (callbacks) | notifications, uploads, users, channels | an open stream is reachable, dead ones are dropped, nothing is retained |
| Binary contents (`BasicBinaryContentService`, `LocalBinaryContentStorage`, `S3BinaryContentStorage`, `BinaryContentStatusUpater`) | table `binary_contents` with an upload status, files, the connections of the pool held meanwhile | create, async put with retries, recover, status update | users, messages, SSE, executor | the status says what happened to the file, every uploader is told, nobody waits for ever |
| Notifications (`NotificationListner`, `BasicNotificationService`) | table `notifications`, executor queue | publish in a transaction, store after commit, list, delete | messages, role changes, caches, SSE | one notification per receiver of a committed event, cached lists are invalidated |
| Messages (`BasicMessageService`, REST and STOMP controllers) | `messages`, `message_attachments` | create, update, delete, cursor paging | channels, uploads, notifications | author and channel exist, paging misses nothing |
| Channels (`BasicChannelService`) | `channels` | create public/private, update, delete, list | read statuses, SSE, cache | private channels are seen by participants only and cannot be edited |
| Read statuses (`BasicReadStatusService`) | `read_statuses` | create, update, list | channels, users | at most one per user and channel |
| Users (`BasicUserService`, `AdminInitializer`) | `users` | create, update, delete, list | uploads, SSE, cache, sessions | unique name and e-mail, one admin |
| Caches (`CacheConfig`, `CacheEventListener`, `@Cacheable`) | Caffeine caches users, channels, notifications | read-through, evict | the services | a cached list is the current list |
| Executors (`AsyncConfig`) | two thread pools; the one in use has an unbounded queue | submit | uploads, notifications | every accepted task runs |
| Front-end bundle (the stores of login, SSE stream, STOMP connection and messages, with the effects that drive them) | the stores of each tab, the cookie jar they share, subscriptions | log in, log out, refuse, reconnect; open a channel, load a page, receive a push | JWT sessions, SSE, messages | a page that signed out keeps no live token, is not stuck, and hears its user; a view shows the channel's messages, all of them and no others |
| WebSocket/STOMP configuration, MDC interceptor, mappers, DTOs, exceptions, Swagger, admin server, `kafka` (commented out), build and deployment files | none of their own | wiring, conversion | - | outside the model |

Hard behaviours, each with its line, are the `hazards` of `PROJECT.json`.

## 2. How the modules are laid out

| module | builds on | role |
|---|---|---|
| `SessionRegistry` | - | abstract: what the login sessions promise |
| `JwtSessions`, `MCJwtSessions` | instance of `SessionRegistry` | sessions, blacklist, filter, and the requests that use them; instance for TLC |
| `JwtSessionsProofs` | `JwtSessions`, `TLAPS` | types, revocation, admission, closed and lost sessions; for requests that do not overlap, the refinement, one session each, roles |
| `SseEmitterManager`, `MCSseEmitterManager` | - | the connection map and its threads; instance |
| `SseEmitterManagerProofs` | `SseEmitterManager`, `TLAPS` | types, nothing retained, every lost stream explained |
| `BinaryUpload`, `MCBinaryUpload` | - | an upload from its caller to its last callback, over a pool of threads and one of connections; instance |
| `BinaryUploadProofs` | `BinaryUpload`, `TLAPS` | types and the bound of the pool, every wrong status has its cause, S3 settles at the commit |
| `NotificationDelivery` | - | abstract: what notifications promise |
| `NotificationPipeline`, `MCNotificationPipeline` | instance of `NotificationDelivery` | event, commit, pool, store, evict, cached read; instance |
| `NotificationPipelineProofs` | `NotificationPipeline`, `TLAPS` | types, commit, deletion, receivers, stale lists, and the refinement |
| `Accounts`, `MCAccounts` | - | the users table with its images, the start-up administrator, the cached list; instance |
| `AccountsProofs` | `Accounts`, `TLAPS` | types, names, changes, images, the cached list |
| `ChannelDirectory`, `MCChannelDirectory` | - | channels, read statuses, the cached list of an account; instance |
| `MessagePaging`, `MCMessagePaging` | - | the messages of a channel and a client that pages through them; instance |
| `ChannelProofs` | `ChannelDirectory`, `MessagePaging`, `TLAPS` | types; private lists stay private, wrong lists are explained; pages, nothing missed, no dangling message |
| `ClientTabs`, `MCClientTabs` | instance of `SessionRegistry` | the tabs of a browser, their cookie and streams, against the registry as their server; instance |
| `ClientTabsProofs` | `ClientTabs`, `TLAPS` | types, dead tokens, the first user of a page; no good access token without its session, and that the tabs' server is a registry |
| `ClientMessages`, `MCClientMessages` | - | the message view of a page, fed by fetches and pushes; instance |
| `ClientMessagesProofs` | `ClientMessages`, `TLAPS` | types, nothing falls through, foreign messages, deafness |

The registry is where server and browser meet.  `JwtSessions` is shown to implement it, but
only for requests that do not overlap; the requests of two tabs do.  `ClientTabs` therefore
does not assume what `JwtSessions` is proved to keep: its server is the registry with a login
cut where the code cuts it (find and withdraw, delete, insert), and two of them may leave
two sessions, as in run `jwt_two_logins`.  The registry's actions are those that hold either
way; that an account has one session is not part of it, but of `RegistrySpec`.

Conventions shared by all of them:

- One step is what a thread does between two accesses to state that other
  threads see: a query, a commit, one call on a concurrent collection.  What a
  thread does between two such accesses is in the step of the second one.
- An `Optional` or a nullable reference is a set of at most one element; where
  the code would throw because a query found two rows, the step ends the request.
- A variable called *history* is read by properties only; no guard reads it,
  except that a client can only present a token or an event id it was given
  (`issued`, `received`).
- Bounds are CONSTANTS named `Max...` and appear in guards only.
- A definition commented *mutant* stands beside the definition it varies.  It is a
  plausible fault of the code (a dropped test, a swapped argument), used to
  confirm that the property named with it in `PROJECT.json` would notice. No
  action uses it.
- `PROJECT.json` maps each definition to the lines it stands for.

## 3. The modules

### 3.1 JwtSessions

`sessions` are the rows of `jwt_sessions`, `blacklist` the map inside
`JwtBlacklist`, `users` and `role` the parts of the users table that tokens
depend on, `req` the program counter and locals of each request in flight, `now`
the clock in ticks, `TicksPerSecond` of them to a second.

| actions | code |
|---|---|
| `Login`, `FindByUser`, `Invalidate`, `Delete`, `Generate`, `Insert` | `CustomAuthenticationSuccessHandler` → `JwtService.deleteJwtSession`, then `createJwtSession`: two transactions |
| `Refresh`, `CheckExpiry`, `CheckBlacklist`, `FindByRefresh`, `Blacklist`, `Generate`, `Update` | `JwtAuthenticationFilter`, then `AuthController.refresh` → `JwtService.rotateToken` |
| `Logout`, `FindByRefresh`, `Blacklist`, `Delete` | `JwtLogoutHandler` → `invalidateToken`; the logout filter answers before the bearer token is looked at |
| `RoleChange`, `CheckExpiry`, `CheckBlacklist`, `ChangeRole`, `FindByUser`, ... | `BasicAuthService.updateRole`, then `deleteJwtSession` in a second transaction |
| `CleanExpiredToken` | the hourly `@Scheduled` method of `JwtBlacklist` |
| `DeleteUser`, `Restart`, `Tick` | `BasicUserService.delete`, the JVM, the clock |

Three details carry the results.  A token is a *function* of account, role, type
and second of issue (`Mint`): two tokens made in one second are equal, because
the claims hold whole seconds and nothing random.  The row keeps the exact instant
(`NewRow`), so its expiration is never earlier than its token's.  And
the UPDATE or DELETE of a row that another transaction has deleted fails and
rolls its transaction back (`Stored`): it is not an insertion.

`isValid` and the filter never read the claim that tells an access token from a refresh
token, so `Accepted`, the tokens the filter lets pass, has both kinds.  Nothing ever
blacklists a refresh token: sent as a bearer token it is good from its issue to its
expiry, whatever becomes of its session.

`SessionRegistry` forgets the clock, the blacklist and the requests.  An account has the
access tokens of its sessions (`current`); some tokens, `good`, are accepted.  `HandOut`
issues an access token and perhaps refresh tokens, and makes them good, but for one that
equals a token revoked in the same second.  A login opens a session whatever sessions there
are (`Open`); a session is replaced (`Rotate`) or closed (`Close`) only when its access token
is refused; tokens turn bad at any time (`Revoke`), and only a restart makes any good again.
`RegistrySpec` says that requests that do not overlap implement this, with `Accepted` for
`good`, and that an account then has one session at most.  With requests that overlap neither
is true.  `AtMostOneSession` fails, and `GoodIsLostToStaleRead` says how the rest fails, and
that there is no other way: an access token that is still accepted loses its session only to
a request that had read the table before that session was there, or the row before it was
rotated.

### 3.2 SseEmitterManager

`userConnections` maps a user to the list created by some subscription, `heap`
holds what is in each list, so that a list that left the map can still be
referred to by a thread - this is where the interesting orders come from.
Threads: one per stream (its `subscribe`, later its container callback), one per
`send`, and the scheduler.  `computeIfAbsent`, `get`, `remove` of the map and
`add`, `remove`, `isEmpty` and the copy of the list are one step each; the loop
over the copy is one step per emitter, in any order.  A stream is `open`,
`broken` (client gone, nobody noticed), `failed` (completed with an error,
callback to come) or `complete`; `DeliverFails` is the caught `IOException`,
`DeliverThrows` the `IllegalStateException` of a stream completed since the copy,
which nobody catches.  `send` draws a new id for each delivery (`IdSent`).

The history `overlapped` collects the streams whose subscription stood between
`computeIfAbsent` and `add` while a removal of the same user stood between its `get`
and its `remove`.  `LostHasCause` says that only these can be lost.  There are two ways,
and the second needs no empty list at the start: the removal found the list empty just
before the stream was added, or it still held a list that had left the map, and
`remove(userId)` took out the list that had replaced it.

### 3.3 BinaryUpload

One upload is a request thread (`request`), a task in the pool (`task`), the two callbacks
of `thenAccept` and `exceptionally` (`accept`, `rescue`), the status inside the open
transaction (`inTx`), the committed status (`row`), and the file. A callback runs in the
request if the future was complete when it was registered, in the pool thread otherwise
(`by`), and that decides which transaction its UPDATE belongs to (`SetStatus`): the one that
inserted the row, or one that cannot see it yet.  After its UPDATE a callback sends the
status event, and the sending may throw in either one.  A callback thus ends *done* (the
event was sent), *unsent*, in *error* (it had no status to set, or no connection to set it
with), *skipped*, or *lost* with a restart.  When the first one ends unsent or in error it
is the turn of the second; when that ends so, nobody hears of it.  A pool thread stays taken
while it sleeps between two attempts and while it runs callbacks (`OnThread`); `TypeOK`
bounds how many are taken at once.  Whether the storage is the local disk or S3 is fixed at
the start of the server: a variable chosen in `Init`.

The caller's transaction holds a connection of the data source and `REQUIRES_NEW`
wants a second one; the status update of a pool thread wants one as well
(`MaxConnections`, `Free`).  Whoever finds none waits until the data source gives up
(`GivesUp`): `create` then throws (`CreateTimesOut`), and a status update goes through
`exceptionally` or is lost (`UpdateStarves`, `starved`).

### 3.4 NotificationPipeline

A notification is the pair of an event and a receiver.  `tx` is the publishing
transaction, `task` the event's task in the pool with its stages (push, insert
and commit, evict), `cache` the Caffeine cache by user, `client` a request that is
between the cache lookup, the query and the put of `@Cacheable`, or between the
commit of a deletion and its eviction.  The task evicts the lists of its receivers one after
the other; `keys` are those still to come.  `late` and `overtaken` are histories: readers
that had queried before an eviction of their key, and the keys under which such a reader has
put its list.  `StaleHasCause` says that no other cached list is out of date for longer than
its eviction takes.  Accounts are deleted at any time with
what the database cascades; the switch `notificationEnabled` is flipped at any time.

`NotificationDelivery` keeps of this the accounts, the fate of each event, its addressees
and what is in the inboxes.  `DeliverySpec` is the refinement: an event that commits is
delivered once and to all its addressees or dropped for all of them, never to an account
that is gone; one that does not commit reaches nobody; what was removed does not return.

### 3.5 Accounts

`account` is the users table, one record of columns an account, `file` the rows of
`binary_contents` that are profile images, `cache` the one entry of the cache
`users`.  A request holds the row as it `loaded` it and what it was asked for;
`Written` is the row Hibernate writes: *every* column, those nobody asked for with
the value that was loaded (there is no `@Version` and no `@DynamicUpdate`).  The
upload commits by itself (`Upload`), the rest at `Commit`, where the UNIQUE
constraints, the foreign key of the image and the row counts of UPDATE and DELETE
decide; the eviction follows, because the caching advisor is outside the
transactional one.  `server` is *starting* while requests are already answered and
`AdminInitializer` has not run.

| actions | code |
|---|---|
| `Create`, `Upload`/`NoUpload`, `Commit`, `Evict` | `BasicUserService.create` |
| `Update`, the same steps | `BasicUserService.update` |
| `UpdateRole`, `Commit` | `BasicAuthService.updateRole`: no eviction |
| `Delete`, `CommitDelete`, `Evict` | `BasicUserService.delete` |
| `InitializeAdmin`/`AdminIsThere`, `Commit` | `AdminInitializer.run` |
| `FindAll`, `Query`, `Put`, `Expire` | `BasicUserService.findAll` through `@Cacheable`, the expiry |

The checks of e-mail and username are one step, and the two are one column: they
are checked, constrained and written alike, and it is the constraint that decides.

### 3.6 ChannelDirectory

`channels`, `name` and `statuses` are the tables, `cache` the entries of the cache
`channels` by account, `req` a request with the channel and the accounts it is about.
`createChannelPublic` has no transaction: its row is committed first, then the refresh
events are sent, then `@CacheEvict` runs, unless the push throws.  Private creation
and deletion are transactions with an AFTER_COMMIT listener; the accounts a
deletion evicts are the participants read at its start (`DeleteChannel`).
`findAllByUserId` is a cache lookup, two queries and a put.  A rename (`UpdateChannel`) and a new
read status (`CommitStatus`) evict nothing.  `cause` records which entries the code
may leave wrong and why; `WrongListHasCause` says there are no others.

### 3.7 MessagePaging

A message is `saving`, with its creation time but not visible, then `stored` or
`failed`, then perhaps `deleted`.  The reader is a client that sends the cursor it
was given until it is told there is nothing left: `Query` is
`findByChannelIdAndCreatedAtLessThan` with ORDER BY `createdAt` DESC and a limit; rows
with equal times may come in any order, which is where a message can be missed.
Deleting the channel or the author acts through ON DELETE CASCADE and SET NULL, in
any order with a creation that has already looked both up.  The module has no name in
common with `ChannelDirectory` (hence `PagingSpec`, `PagingTypeOK`, `authors`, `KeysHold`):
the proofs of both are in one module that extends the two.

### 3.8 ClientTabs

`jar` is the one cookie of the browser, `tab` what the login store of each page holds,
`stream` its `EventSource`, `subscribed` whether the page has subscribed to the events of
its stream, `req` the requests in flight.  The server is the registry of 3.1, without
refresh tokens: no page sends one as a bearer token.

| actions | code in the bundle, and what answers it |
|---|---|
| `Login`, `LoginServed`, `LoginAnswered` | `login` of the store, then `connect` of the SSE store and the effect that subscribes; the server finds and withdraws the old session, deletes it, inserts the new one, in steps that another request may come between, or fails |
| `Api`, `ApiServed`, `LogoutAfterRefusal` | a call through the interceptor; 401, a refresh that is refused, and `logout` |
| `Logout`, `LogoutServed`, `LogoutAnswered` | `logout`: only `currentUser` is cleared, and only if the server did not fail; the cookie is deleted either way |
| `StreamAnswered`, `StreamEnds` | the `EventSource` with the headers it was made with; any answer but 200 closes it, the filter's 401 (*closed*) and an error of the server, such as a query of the filter that gets no connection (*failed*) |
| `Reload`, `Forget` | a new page: stores in memory, and `GET /auth/me` without a bearer token; the answer to a request of the old page may still set the cookie |
| `Elsewhere` | expiry, another device, an administrator |
| `Restart` | requests are lost, streams connect again, and revoked tokens that have not expired are good again: the blacklist is in memory |

Three variables are histories.  `displaced` are the good tokens whose cookie left the jar
other than through the logout that closed their session: an answer to another login came,
or one to an earlier logout, of any page, this one's included, or to a logout that failed.
`revived` are the tokens a restart brought back, `reused` the pages somebody logged in to more
than once.  Only the streams of the tabs in `Watched` are followed: a stream has no effect on
anything but itself, so following one of two tabs shows what following both would.

### 3.9 ClientMessages

`sent` are the messages at the server, from their creation time to the push after the
commit; `active`, `messages`, `newMessages`, `pagination` and the scroller's `triggered`
are the view; `fetch` the requests for pages; `socket`, `subscriptions` (what the store
believes), `live` (what the server has) and `wire` the STOMP connection.  `Open` and
`Leave` are `setActiveChannel` with the clean-up of the old view's effects and the effects
of the new one.  `Fetched` adds what it got to the view of *whichever* channel is open by then.
`Closed` leaves the store's entries behind, and `subscribe` does nothing for a channel
that has one.  The histories `unheard`, `lost` and `spoiled` record pushes that found no
subscription, channels open when a connection went, and fetches that failed or were
overtaken.

## 4. What the runs show

| run | question | states | outcome |
|---|---|---|---|
| `jwt_concurrent` | two requests of one account interleaved at every query, blacklist change and commit: does what was revoked or closed stay so, is only what is live admitted, and does an accepted token lose its session only to a stale read? | 2.25 M | holds |
| `jwt_sequential` | one request at a time, two sessions, two roles, half seconds, refresh tokens as bearer tokens, a restart at any point: do the sessions implement the registry and carry the account's role? | 0.94 M | holds |
| `jwt_two_logins` | is there one session a user when logins overlap? | | violated |
| `sse_streams` | does the map keep leftovers, has every lost stream its cause, is a dead stream found by the ping? | 0.56 M | holds |
| `uploads` | has each wrong status a known cause, is S3 settled at the commit, is the status event sent to every uploader when connections and threads run out? | 0.45 M | holds |
| `upload_success_not_stored` | is a SUCCESS file stored? | | violated |
| `notifications` | does the pipeline deliver as promised, is every committed event handled, has a stale list its cause? | 0.36 M | holds |
| `user_accounts` | are names unique; has every lost change, stray image and wrong cached list a known cause? | 0.43 M | holds |
| `channel_lists` | are private channels listed to participants only, has every wrong cached list a known cause? | 0.32 M | holds |
| `message_pages` | do pages descend and miss nothing but at a tie, do messages point at existing rows? | 0.29 M | holds |
| `client_tabs` | with overlapping logins, failures and a restart: is a token dead once its user signed out, is a page's first user served, does a refused page get back to the login form? | 0.99 M | holds |
| `client_messages` | does a view show every message of its channel and no other, and hear the channel? | 0.40 M | holds |

### Findings

The two violated runs are disagreements between the code and what its comments
or tests say; `PROJECT.json` quotes both sides.

1. *Two logins, two sessions.*  Both look for the old session before either
   inserts its own; nothing in the table makes `user_id` unique.  From then on
   `findByUserId`, an `Optional`, refuses to choose, and every login and role
   change of the account fails.
2. *A failed upload is a success.*  `recover` completes the future normally.

What the passing runs name as causes is worth a reader's attention too:

- *A lost stream* (`LostHasCause`): one whose subscription overlapped a removal of the
  same user, in the two ways of 3.2.  Neither an event nor the ping finds it; it ends
  with its timeout.
- *A token that outlives its session* (`GoodIsLostToStaleRead`): two refreshes with one
  cookie, or a logout that read the row before a rotation committed.
- *A stored upload that waits for ever* (`WaitingOnlyIfMissed`): the file is written
  before the row is committed and the update changes no row, or the update got no
  connection, or a restart lost the callbacks.
- *A stored upload that FAILED* (`FailedHasCause`): its first status event could not be sent,
  because it met a completed stream, or its first update got no connection.
- *An uploader who hears nothing* (`UploaderIsTold`): neither event could be sent, the status
  update got no connection, or a restart lost the callbacks.
- *A change undone* (`ChangesHold`).  An update of an account writes the whole row back
  as it was loaded before the upload of an image; a role given in between is gone,
  although the user was told of it.  This is the only way to lose a change.
- *A wrong channel list* (`WrongListHasCause`): after a rename, after joining a private
  channel, after an exception of the push, after deleting a channel that an account had
  just joined, or when a reader is overtaken by an eviction.  The last one holds of
  the notifications (`StaleHasCause`) and of the users (`UserListHasCause`) as well.
- *A missed message* (`MissedOnlyAtTie`): only one whose creation time equals that of
  a message that was shown.
- *An image without an account* (`OrphanHasCause`): after a failed request, a stop, or
  two updates at once.
- *A live token in a page nobody is signed in to* (`SignedOutIsDead`): the tabs share a
  cookie, so a logout closes the session of whoever logged in last, or none, if the answer
  to an earlier logout took the cookie or a logout failed after it had; and a restart makes
  the token of a closed session good again.
- *A page without a stream* (`FirstUserIsServed`): one error of the server while the stream
  connects, and it is given up for good, the session being as good as before.
- *Foreign messages in a view* (`ForeignHasCause`): a page fetched for the channel the
  user just left.
- *A message a view never shows* (`ViewIsComplete`): committed after the first page was
  read and pushed before the subscription was there, lost with the connection, or behind
  a fetch that failed - the scroller then waits for a page that does not come.
- *A view that hears nothing* (`DeafHasCause`): the channel was open when a connection was
  lost, and the store believes it is still subscribed.

Met while modelling, without a run of their own because one request is enough to
see them:

- a refresh token is accepted as a bearer token, and still is after the logout that closed
  its session: `isValid` does not read the `type` claim and only access tokens are
  blacklisted (`JwtService:64-85`, `JwtAuthenticationFilter:44`, `Accepted` in the model);
- a token is born revoked: a rotation in the second of the previous issue mints
  the very token that was just blacklisted (`JwtService:100`, `Mint` in the model);
- nothing is ever replayed: `send` records the event under one id and sends it under
  another (`SseEmitterManager:158`, `IdSent`);
- the refresh route is behind the bearer filter, so an expired access token cannot be
  exchanged (`JwtAuthenticationFilter:67`);
- an exception of the SSE event after SUCCESS was written goes through
  `exceptionally` and writes FAILED (`BasicBinaryContentService:57`);
- the `ASYNC_FAILED` event is published where no transaction is active and its listener
  never hears it (`LocalBinaryContentStorage:116`);
- one receiver's stream or one deleted account costs all receivers of the event
  their notification (`BasicNotificationService:52`);
- the author of a message is null once the account is deleted, and
  `AuthorizationEvaluator:21` dereferences it;
- `getLastMessageAt` takes the first row of a query without an order
  (`BasicChannelService:207`);
- `eventCache` is never pruned (`SseEmitterManager:30`);
- the second user of a page hears the first one's stream, or none: logging out takes down
  neither the stream nor its subscriptions (the bundle, line 635);
- a message typed while the connection is down is gone: the form is cleared and the store
  only logs (the bundle, line 968);
- a status event for a file whose data is still being fetched is dropped, and the answer
  to the fetch may be older (the bundle, line 192);
- `JwtSession` declares its token columns unique, the table does not.

### Properties that needed care

- `RevokedStaysRevoked` speaks of tokens revoked since the last start, because the
  blacklist is in memory; it includes tokens `invalidate` did *not* blacklist because
  the session had expired.
- `AdmittedIsLive` allows a token to expire between the two halves of `isValid`:
  `CleanExpiredToken` may then have forgotten it.
- `RegistrySpec` holds of requests that do not overlap, `GoodIsLostToStaleRead` says what
  is left of it when they do.  It exempts refresh tokens, which the code accepts and
  never revokes.  `SessionCarriesRole` is stated between requests and, as
  a restart in the middle of a role change really breaks it, without one.
- `FirstUserIsServed` ends with a page's first user, leaves out the streams an error has
  ended and sessions that were refused and came back with a restart.  `SignedOutIsDead`
  excepts displaced and revived tokens.  Beyond that the code promises nothing, as the
  list above shows.
- `UploaderIsTold` counts an event as sent only if the sending returned, and names each
  way in which neither callback gets that far.
- The SSE properties that mention the map are stated when no thread is inside the
  manager; inside, the code promises nothing.
- `FailedHasCause`, `WaitingOnlyIfMissed`, `CommittedIsHandled` and the properties whose
  names end in `HasCause` list *all* the ways the code can miss its purpose; a new
  one would be a counterexample.  Where a cause is a history variable (`cause`,
  `disturbed`, `suspect`, `failed`, `overlapped`, `overtaken`, `missed`, `starved`, `displaced`,
  `revived`, `lost`, `spoiled`), it is set where the cause happens, never where the
  damage shows, so the property is about steps that lie apart.

### Bounds, and why they are enough

- `JwtSessions`: two concurrent requests are what each race needs (one reads, the
  other commits in between).  Access tokens live one second, refresh tokens two,
  a second is two ticks, and a token has expired when its time lies strictly before now.
  So "same second" and "expired access, live refresh" occur in both runs; "both expired" needs
  `MaxTime` = 5 and occurs in `jwt_sequential` only: in the other the clock stops at 3,
  before a refresh token expires.  One account in each run: no row,
  token or blacklist entry of one account is ever read for another, and the role
  change needs an administrator, which the account itself may be.  Two logins and any
  number of rotations let a row be replaced and closed and another take its place.
- `SseEmitterManager`: two streams of two users or of one, a send that may go to
  one user or to all, the ping, three threads inside at once; that is one more
  thread than any race found needs.  Three streams of one user, explored apart from
  the runs, gave no error, and the proofs of section 5 are for any number.
- `BinaryUpload`: two uploads over one pool thread is the smallest instance in
  which one upload waits behind the retries of the other, and over two connections the
  smallest in which two callers hold what both wait for; two attempts reach
  both the retry and the recover (the violated run uses the real three).
- `NotificationPipeline`: two users, two events, one request and one restart.
- `Accounts`: two accounts and two names let one account take the name another gives
  up; two images let one replace another; two requests overlap, and five in all
  are one more than the longest scenario met (register, load, rename, register
  under the free name, write back) needs.  One start reaches the race with the initializer.
- `ChannelDirectory`: a list is wrong about one channel at a time, so one channel is
  enough; a private one needs two participants, and the third account is the one
  that joins or must not see it.  Two requests overlap while renames, account
  deletions and expiry happen at any time.
- `MessagePaging`: pages of two and four messages give two pages, an extra row that
  proves there is more, ties at the end of a page and inside it, and a message that
  becomes visible late; four instants order all of them.
- `ClientTabs`: two tabs, two logins and two requests in flight let one tab displace the
  cookie of the other while a request of either is under way, let logins overlap, and let a
  page be used twice; one restart.  One account and one watched stream: a second account
  makes some 4-6 M states of it and adds no way to lose a cookie, and the theorems
  hold for any number of accounts and streams.
- `ClientMessages`: two channels, two fetches and pages of one message let a fetch be
  overtaken; two messages, which may be committed and pushed in either order, give two pages.
  Creation times are distinct here: ties are what `MessagePaging` is about.  Three messages,
  explored apart from the runs to depth 24 (5.6 M states), gave no error.

Deadlock checking is off where the system may come to rest: all streams used up,
all uploads settled, all events handled.

### Fairness

`Spec` alone is used for safety.  `FairSpec` adds weak fairness of the steps of
threads that are already at work (the scheduler of the JVM and the pool), and:

- SSE: the ping is `@Scheduled` at a fixed rate, so it starts again and again;
  the container calls back for an emitter that was completed with an error.
  Nothing makes a client leave, a stream time out or a send happen.
- uploads: an attempt ends, in whatever way; retries are bounded by the code.  No
  request is forced to start.
- tabs: a page that was refused logs out and its request is answered (`Leave`).  No user
  is forced to do anything, and no stream to be answered.
- notifications: tasks and requests at work go on; no transaction is forced to commit, no
  client to ask, no cache entry to expire.

## 5. What is proved

`tlapm` checks the proofs for every value of the constants that satisfies the
named assumptions: `JwtConstants` (positive validities and ticks, natural bounds,
the administrator is a role), `PipelineConstants` (natural bounds), `PagingConstants`
(a page holds at least one message, finitely many messages are ever sent),
`UploadConstants` (at least one attempt, one pool thread and one connection, natural
restarts, a storage that is local or S3), `DirectoryConstants` (a natural bound of renames),
`AccountConstants` (natural bounds, finitely many names, the administrator's among
them), `TabsConstants` (natural bounds, finitely many requests in flight, watched tabs are
tabs), `ClientConstants` (a page holds
at least one message) and `SseConstants` (streams, sends, the ping and the random id are
different things).  Users, roles, requests, events, streams, tabs, channels and clients
are otherwise arbitrary sets, infinite ones included.

**JwtSessionsProofs.**  `RevokedStaysRevoked` is not inductive: nothing in it stops
`CleanExpiredToken` from dropping the entry of a token that is still valid, nor
`Invalidate` from skipping a session whose token is.  Both rest on times.
`RevocationInv` adds that a row's time is never earlier than its access token's expiry
(`RowsCover`, for rows in the table and for rows a request still holds), and the
same of blacklist entries (`EntriesCover`).  `RowsStep` and `RevocationStep` have one
step per action; `NewRowType`, `BlacklistingKeeps` and the other lemmas say what the
helpers return.  From it follow `RevokedForGood` and, as an action property,
`AdmissionRefusesRevoked`.  `ClosedForGood` has an invariant of its own, `KeysInv`:
keys of rows and of closed sessions are below `nextId`, so an insertion never
reuses one, and an update only replaces a row that is there.

`GoodLostOnlyToStaleReads` is an action property, and holds for any number of overlapping
requests.  It needs to know why a request that deletes or rotates what is in the table
takes nothing good from it: `PairsInv` says that the two tokens of a row were minted
together (so the access token that `rotateToken` blacklists, found by the refresh token, is that
of the row), and that a request about to write has revoked what it read.  What is
left is the row that changed after it was read.

The last three theorems of the module have a hypothesis, `OneAtATime`: `Requests` has one
element at most, that is, requests follow one another.  It is not there for convenience:
with two logins at once `AtMostOneSession` is false, as run `jwt_two_logins` shows, and so
is the refinement.  `AloneInv` adds to `PairsInv` that keys and accounts identify rows
(`TableInv`) and what a request that runs alone knows at each stage: no row of its account
remains, or the one it found is the current one (`Owner`).  From it follow
`OneSessionAlone`; `ImplementsRegistry`, where initial states map to initial states and each
action to an action of `SessionRegistry` or to a stutter (an insertion opens a session, an
update rotates one, a deletion closes one whose token is refused, a revocation, a tick or
the end of an account makes tokens bad, a restart forgets the blacklist), the tokens the
filter accepts being counted whatever their type; and, with `RolesInv`, which says that the
tokens of a row show their account's role unless the role change is still on its way to the
row, `RoleIsCarriedAlone`.

**NotificationPipelineProofs.**  `PipelineInv` says that a task
exists only for a committed transaction (`Submitted`) and that what is, or was,
in the table was put there by a task that is past its insertion (`Stored`).  Without
`Stored`, a deletion followed by the insertion would bring a notification back; without
`Submitted`, a stage of the task says nothing of the transaction.  Three properties are
stated here only, as theorems: `CommittedOnly`, `DeletedForGood` and `ReceiversExist`.
`StaleListsHaveCause` has an invariant that follows the readers: one that has queried holds
the present table, or an eviction of its key is to come, or one went by and it is `late`.
`PipelineDelivers` is the refinement: initial states map to initial states, and each
action maps to the action of `NotificationDelivery` it is for, or to a stutter.

**SseEmitterManagerProofs.**  Neither `NoDeadRetained` nor `LostHasCause` is inductive:
they speak of quiet states and the damage is done in busy ones.  `ManagerInv` follows the
threads.  `RoleInv` says what the thread of a stream can be at, and that a removal never
has an open stream for its victim; `NewInv` that a list nobody created is nowhere, so that
`computeIfAbsent` brings an empty one.  `MapInv` says that a stream that is open, added and
not `overlapped` is reachable, and that a removal under way for its user holds the very
list that is mapped and is not about to unmap it - which is why the removal's `isEmpty`
answers rightly.  `DeadInv` says where a completed stream can still be while its callback
is between `get` and `remove`.  Steps that leave map and lists alone share one lemma
(`SmallStep`); the five that change them have a proof each.

**BinaryUploadProofs.**  The properties speak of settled rows and finished callbacks, and
say nothing of how a callback came to run.  `IInv` follows each upload: how far the request
came, in its row and its callbacks, sent, unsent or lost (`Flow`); that a task in back-off
has attempts left (`Tries`); that the `exceptionally` callback runs only after a failed put,
a failed status event or a status update without a connection (`Causes`); that a status that
was set is in the transaction, in the row, or came too early for both (`Effects`); and that
with S3 all this happens in the request itself, before the commit (`OnTheSpot`).
`FailureHasCause`, `WaitingHasCause` and `S3SettlesAtCommit` follow, for any number of
uploads.  The bound of the pool in `TypeCorrect` counts the uploads that occupy a thread, so
that the invariant also says that they are finitely many: one step adds one at most, and
only while a thread is free.

**AccountsProofs.**  `AccountsInv` is `UniqueNames`, `ChangesHold` and `OrphanHasCause` with
three strengthenings: a request that makes an account is alone with it, and one that loaded
an account has its row unless another wrote it in between (`StageInv`); an image is never
passed from one account to another, in the table or in what a request holds
(`ImageInv`); and a list, cached or about to be, differs from the table only where an
eviction is still to come or the account is suspect (`ListInv`).

**ClientTabsProofs.**  `TabsInv`: each good token that no restart brought back is that of
a session (`Revocable`, in `ServerInv`), types and the bound of the logins (`PageInv`,
`BoundInv`), that a live token a page has or had is that of the cookie in the jar, or was
displaced or revived, and that the session a logout was answered for is closed
(`CookieInv`), and that the subscription of a page's first user is that of its stream
(`StreamInv`).  `GoodIsRevocable` says of overlapping and failing logins that they lose no
session whose token is good: a second session may appear, but each stays in the table, where a
logout finds it.  It is the browser's counterpart of `RegistrySpec`, without one session
an account, which does not hold here.  `BrowserUsesRegistry` says that every step of
`ClientTabs`, restarts included, is a step of the registry or leaves it alone.

**ClientMessagesProofs.**  `ClientInv`: whose entries the store has (`EntriesInv`), whose
pushes are on the wire (`PushInv`), what a served fetch carries (`ServedInv`), that a fetch
nobody overtook fits the view it returns to (`ViewInv`), and that a pushed message is with
the view, older than its cursor, or covered by the fetch in flight (`CoverInv`).  The last
is the heart: it ties the cursor of a page to messages that were pushed before the page
was read, whatever committed in between.

**ChannelProofs**, messages.  `PagingInv` adds to `PagesDescend` and `MissedOnlyAtTie` that
the cursor bounds from below the time of all that was shown (`ShownAbove`), that
nothing found at the start and not older than the cursor is left out, but for ties
(`ShownComplete`), when there is a cursor (`CursorWhenShown`), and that what was
shown was in the table (`ShownSettled`), for only then its time is fixed
(`WriteKeeps`).  `PageLemma` and `LastLemma` say what a page and its cursor are;
they rest on the library's facts on cardinality and on well-founded orders.
`NoDanglingMessage` is inductive, and gives the case of a channel that is gone.

**ChannelProofs**, channels.  `WrongListHasCause` speaks of states in which no request is at
work, and what makes a list wrong happens when some are, so it is far from inductive.
`DirectoryInv` says of every state: the foreign keys of read statuses hold (`StatusesInv`);
a channel in creation is that of one request, and the deletion of a public one is to evict
everybody's list (`WorkInv`); a list, cached or carried by a request, names channels that
exist or did, and private ones to participants only (`ShownInv`); and such a list is right
about a channel unless a request is on its way to evict it because of that channel
(`WillEvict`) or there is a cause (`ListsInv`).  `ShownInv` gives `PrivateStaysPrivate`: a
participant is never removed but with the channel or the account, so an old list cannot show
too much.  `ListsInv` gives `ListsAccounted`.  Its proof takes the steps that neither read
nor put a list (`Keeps`) apart from those of a reader (`Looks`).  `SeesStep` says that what
a list should say of a channel changes only with an excuse, `EvictionStep` that an eviction
to come takes place, leaves a cause or is still to come. Each invariant was first checked by
TLC, on two instances.

Every invariant and every action property of the passing runs, and both refinements, are
theorems.  Only model-checked: liveness (`BrokenIsDropped`, `UploaderIsTold`,
`CommittedIsHandled`, `RefusedSignsOut`), for which the prover has no rules
under fairness.  Two properties are violated and so cannot be proved: `AtMostOneSession`,
which is a theorem for requests that do not overlap, and `SuccessIsStored`.

## 6. What is not modelled

- *Formats and cryptography*: a token that parses is a record; a forged one does
  not pass the filter and is not a case.
- *Database isolation beyond commits*: a transaction is its reads and one commit;
  lock waits do not change the order of commits.
- *Order of deliveries to one client* and the content of events: SSE events are
  refresh hints and single notifications; a set is enough for the properties.
- *Timeout and rate values*: the ping, the expiry of cache entries and the
  completion of streams happen at any time.
- *Queue limits*: `propagatingExecutor` has an unbounded queue; `defaultExecutor`,
  with its bounded one, runs none of the `@Async` methods.
- *Columns no property reads*: passwords, descriptions, the text of a message and
  its update, the time of the last reading and of the last message, and who is
  online.  The cached user list holds the last of these and nothing evicts it when it changes.
- *Of the bundle*: the stores of read statuses, channels, file states (line 192) and
  notifications (line 1217), forms and styles.  The file is a minified build: the
  application's own code is on some twelve of its lines (46, 192, 634-635, 960, 967-968,
  984-986, 1217, 1413), and the rest is library code and style sheets.  Only the lines that
  are translated are mapped.
- *Of the message view*: a message that is both fetched and pushed, which the view shows
  once; changes and deletions, which are never pushed.
- *Of the tabs*: a logout request that is lost on its way, an error of the server in answer
  to anything but a login, a logout or a stream, a page that gets a login's error or is left
  without an answer (it changes nothing), and `disconnect`, which nothing calls.
- *Several reads of the clock*: `generateJwtToken` asks for the time once for each token of a
  pair (`JwtService:53-54`, `107-108`), the model once for both.
- *A second removal*: an emitter that times out or fails has its removal run by that callback
  and again by the completion (`SseEmitterManager:61-64`), in the model once: the second
  takes nothing more of the stream itself, and what it may do to a subscription it overlaps
  is what the first may do (`LostHasCause`).
- *Inside one transaction of the accounts*: what a deletion or an update does up to its
  commit takes effect in one step, whatever the order of its statements.
- *Several attachments in one transaction*: an upload has a caller of its own; a caller
  that is rolled back after a committed upload is a case (`CallerEnds`).
- Configuration, mappers, DTOs, exceptions, logging, Swagger, the admin server and the
  commented-out `kafka` package keep no state the properties could be about.

## 7. Plan

Done: `JwtSessions` with its registry and its proofs (first, because everything else trusts
the filter), `SseEmitterManager`, `NotificationPipeline`, `Accounts` and `MessagePaging` with
their proofs, `BinaryUpload` with its connection pool and `ChannelDirectory`, with theirs, and
of the browser `ClientTabs` and `ClientMessages` with theirs.

Next, in this order:

1. The store of file states of the bundle, joined with `UploaderIsTold`: whether what a page
   shows of an upload settles, given that status events are dropped while the file's data
   is fetched.
2. Proofs: what is left of safety is lemmas about causes, such as that each of the five
   reasons in `WrongListHasCause` marks no more accounts than it must.
3. The attachments of a message: several uploads under one caller, which is rolled back
   when a later one fails.

The runs are kept few: a new module takes one passing run for its properties, and
instances that ask the same question are merged rather than added.
