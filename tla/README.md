# mumbleBE, specified

mumbleBE is the back end of a chat application: gateways that hold the users'
websockets, a message service that owns the table of messages, a user service
that owns accounts and tokens, and between them RabbitMQ, Redis and Postgres.
This directory holds TLA+ modules of the parts where several processes or
goroutines meet, TLC configurations that check them on small instances, and
TLAPS proofs of their invariants for instances of every size.

Paths below are relative to `src/`; `gateway` stands for
`mumble-gateway-service`, `message` for `mumble-message-service`, `user` for
`mumble-user-services`.

## 1. Inventory

| component | state it keeps | operations | talks to |
|---|---|---|---|
| gateway: sessions (`ws/websocket.go`, `types/websocket.go`, `wsclients`) | `ClientConns`: user id → websocket, one per user and gateway | `Handler`, `wsConnHandler`, `AddConn`, `DelConn`, `Exists` | Redis, RabbitMQ, the child goroutine |
| gateway: inbound (`ws/websocket.go` 94-153, `rbmq/saveMsg.go`) | a goroutine per frame | `PublishMsg`, the `save_err` notice | queue `q_save_msg` |
| message service: saving (`rbmq/saveMsg.go`, `db/insert.go`, `db/update.go`) | table `message`, unacknowledged deliveries | `consumeMsgsToSave`, `InsertMessage`, `UpdateMessageStatus` | Postgres, `q_save_msg` |
| message service: routing (`rbmq/saveMsg.go`, `redis/get.go`) | goroutines per stored message | `GetUserHost`, publish on `x_send_msg` | Redis, the gateways' queues |
| gateway: outbound (`rbmq/sendMsg.go`, `types/websocket.go`) | its exclusive queue `q_send_msg_<hostname>` | `consumeMsg`, `ExistsAndSendMsg` | sockets |
| presence (`ws/websocket.go`, `redis/set.go`) | Redis keys `<id>:lst-sn` and `<id>:hstnm`, exchange `x_last_seen` | `SetUserOnline`, `SetUserOffline`, `PubLastSeen` | everybody who reads the keys |
| status relay (`ws/websocket.go` 154-252, `rbmq/lastSeen.go`) | per connection: parent, child, three Go channels; per user: a queue and a consumer tag | `get_lst_sn`, `SubToLastSeenQ`, `CancelSubToLastSeen`, `ExistsAndSendLastSeen` | RabbitMQ, Redis |
| MQ connections (`gateway/rbmq/*.go`) | two connections, four channels, ready flags, notify channels | `reconnConns`, `reconnLastSeenCh`, `reconnSaveMsg`, `reconnSendMsg` | RabbitMQ |
| sessions and tokens (`user/controller`, `user/redis`, `gateway/controller/user.go`, `utils/middleware.go`) | `<id>:refTk` in Redis, cookies in browsers | login, refresh, logout, `AuthMiddleware` | Redis |
| accounts and contacts (`user/controller`, `user/db`) | tables `users`, `user_contact` | register, change password or picture, search, add contact | Postgres |
| key pair (`user/main.go`, `gateway/main.go`) | `private.pem`, `public.pem` | first start, `GetRSAKeys` | gRPC |
| history (`message/controller/get.go`, `message/db/select.go`) | the table `message` | `GetMsgs` by offset | Postgres |
| media, HTTP glue, generated gRPC, deployment | none | | S3, clients |

What is hard here: a goroutine per frame and per delivery; state that is
checked, used and written in different steps (the connection list, the host
key, the refresh token); three stores that must agree without a transaction
(list, Redis, broker); redelivery after a lost acknowledgement; closing
handlers that overlap with the next connection of the same user; goroutines
that wait for each other on unbuffered channels; broker objects named after the
user and shared by all his connections. `PROJECT.json` lists each of these
under "hazards", at its line, with the properties that cover it or the reason
why none does.

What makes each component correct:

- message path: what was accepted is stored, what is shown is true, it goes to
  the right user and at most once, and the parts together behave like one log;
- presence: list, keys and announcements are undone by whoever made them, and a
  connection that is served can be found;
- status relay: a user follows exactly the contact he asked about last, and a
  connection can always be cleaned up;
- MQ connections: after the broker is back, everything that was consumed is
  consumed again, unless two of the recovering goroutines met;
- sessions: whoever holds a session keeps it until he or another login of his
  ends it, and a logout is final;
- accounts: an address is doubled only by registrations that overlap, a
  password is changed by whoever knew it, a refusal has changed nothing;
- keys: both files belong together, and what one service signs the other
  accepts; history: no message is skipped.

How far each is modelled:

| component | status | modules |
|---|---|---|
| message path: publish and save; route and deliver | modelled | `Pipeline`, `MessageLog` |
| presence | modelled | `Presence` |
| status relay | modelled | `Relay` |
| gateway's MQ connections | modelled | `Recovery` |
| sessions and tokens | modelled | `Sessions`, `Http` |
| accounts and contacts | modelled | `Accounts`, `Http` |
| key pair; start of the services | modelled | `Startup`, `System` |
| history | modelled | `History`, `System` |
| writers of one websocket; HTTP glue and validation | partly | `Pipeline`, `Relay`; `Http`, `Sessions`, `Accounts` |
| media, generated gRPC code, deployment | not modelled | |

## 2. The modules

```
MessageLog  <--implements--  Pipeline  <--  PipelineProofs
Handler     <--implements--  Presence  <--  PresenceProofs
            <--implements--  Relay     <--  RelayProofs
Recovery  <--  RecoveryProofs
Http  <--  Sessions  <--  SessionsProofs
Http  <--  Accounts  <--  AccountsProofs
Startup, History  <--  System  <--  SystemProofs
```

An arrow reads "is extended by", and each of `Pipeline`, `Presence`, `Relay`,
`Recovery`, `Sessions`, `Accounts` and `System` is extended by an `MC` module.

### MessageLog and Pipeline: from socket to table to socket

`MessageLog` is the promise: a log that only grows and the four things a user
may be shown about it: a message for him, that his was stored, that it was
refused, a status his peer gave. It has no queues, no processes, no Redis.
`Promise` and `IdsStay` say what users can count on, in terms of that log alone.

`Pipeline` is the code. A goroutine is a record in a set, a queue is a set of
deliveries, so that everything may overtake everything, as goroutines do.

| action | code |
|---|---|
| `Connect`, `SetUserOnline`, `SocketDies`, `DelConn`, `SetUserOffline` | `Handler`, end of `wsConnHandler`, `redis/set.go` |
| `ClientSend`, `ClientMark` | the `msg` and `msg_status` cases of `wsConnHandler` |
| `PublishMsg`, `PublishMsgFails`, `PublishMsgLost` | the publishing goroutine, its error branch, a frame lost without publisher confirms |
| `Deliver`, `Save`, `SaveFails`, `SaveReplyLost`, `Acknowledge` | `consumeMsgsToSave`: statement, `Nack`, `Ack`, then the routing goroutines |
| `GetUserHost`, `HostUnknown`, `PublishSend` | those goroutines |
| `ConsumeMsg`, `WriteJSON`, `WriteFails` | `consumeMsg`, `ExistsAndSendMsg` with the pointer it read before the write |
| `GatewayCrash`, `GatewayRestart`, `ServiceCrash`, `HostExpires` | containers and keys that go |

A delivery for a user who is not listed goes to `unacked`: the code neither
acks nor nacks it. A session is a pair of user and gateway because the gateways
know only their own lists. `ClientMark` is the frame of a client that marks
only what it was shown; the gateway does not look (`gateway/ws/websocket.go`
120-152), so what depends on it is an assumption about clients, not a property.

### Presence: three stores and their handlers

One step per shared write: check, `AddConn`, the two keys of `SetUserOnline`,
the announcement, and at the end the same four undone. `pc` is the handler's
place. Handlers of one user interleave at one gateway or at two. A Redis write
can fail, a key can expire, a gateway can crash and leave its keys. `unclean`,
`broke` and `stale` are history: they say which connections met another one or
a failure, whose child ended by itself because its subscription broke, and which
keys were left behind, so that the properties can say what holds without and
what still holds with them. A handler whose child ended by itself may never get
past `closeChildChan` (171), so it does not count as one that will delete its
entry and keys: `NoOrphanEntry` and `NoOrphanRoute` except it by name, and only
with the cause it must have.

### Relay: parent, child and a queue named after the user

`parent` is where `wsConnHandler` is and `child` where `wsPubSubHandler` is.
`buffer` is `contactIdChan` (capacity one), `SignalClose` the rendezvous on
`closeChildChan`, `Respawn` the one on `closeParentChan`. `consumer`,
`bindings` and `feed` are the user's queue: whose Go channel it is consumed
into, what it is bound to, what is in that Go channel. `cancels` counts the
goroutines that a child left behind to cancel "the consumer of the user":
whoever's that is when they run.

A handshake looks the entry up (`Exists`, line 31) and adds its own (`AddConn`,
line 44) in two lock sections, so two connections of the user may pass one after
the other or together, and those that overlap share entry, queue and consumer
tag: the child of one cancels the consumer of the other, the second subscription
is refused (`Consume`, which closes the connection or the channel of all), and
either `DelConn` takes the entry of both. `SubToLastSeenQ` is two steps as well:
`Bind` declares and binds without waiting for the broker, `Consume` waits.

Three histories name who was concerned. `hit`: connections whose subscription
failed or was taken away by somebody else. `met`: connections that were added,
or running, beside another. `failed`: contacts to whom the queue stayed bound
though `Consume` failed. An auto-delete queue goes with its last consumer and so
one that never had a consumer stays: the next subscription consumes the
leftover binding too, and its child is told of two contacts.

### Handler: what Presence and Relay have in common

`Handler` is a connection's two goroutines without anything around them:
`phase` is none, serving, leaving or over, `aide` the child: up, waiting to be
noticed, or done. It says who waits for whom: a leaving parent gets past the
close signal only while its child listens (`SignalClose`), a child that ended
by itself is noticed only by a parent between two frames (`Respawn`). Presence
has the parent in detail and takes the child from here (`child`, `ChildBreaks`,
`ChildRespawns`); Relay has both in detail, with the channels between them and
all that can end a child. Both define the mapping (`Phase`, in Relay also
`Aide`) and implement it: `ImplementsHandler`, in both modules.

### Recovery: four goroutines, two connections, four channels

`life` and `chans` are the connections and AMQP channels there have been;
`conn`, `note`, `ready`, `ch` and `chNote` are the package's variables, which
name one of them each; `watch` is the notification channel a `select` evaluated
before it went to sleep, which need not be the variable's any more. `job` says
what a goroutine is at: `reconnConns` (`StopUse`, `DialFails`, `Dialed`, then
the init functions of the side, one after the other), and the watchers
`reconnSaveMsg`, `reconnSendMsg` and `reconnLastSeenCh` (`Select`, `Notice`,
then the init function of the slot). `Check`, `Channel`, `ChannelFails`,
`Opened`, `InitSendMsgQ`, `Consume` and `ConsumeFails` are the four init
functions, which differ in the slot they name.

`ConnDies`, `ShutChannel` and `Answers` are the library, amqp091-go, which is
not in the repository; they are modelled from how `rbmq/*.go` uses it. A
connection that dies tells its notification channel and then those of its
channels, one at a time, each of them unbuffered, with the connection locked:
who calls into the connection meanwhile waits. `ChannelCloses` is the broker
closing one channel of a connection that lives: the connection's reader is held
by the notification until the watcher takes it, and a channel without
`NotifyClose`, which the second one of `saveMsg` is until the first reconnection
(`gateway/rbmq/saveMsg.go:66`), is closed without anybody hearing of it.
`BrokerNotices` is the broker,
which keeps an exclusive queue until it has noticed that its connection died.
The three statements that follow each `Channel()` are one step, as are the
three calls of `initSendMsgQ`; the channels' own ready flags guard publications
only and are left out.

`NothingForgotten` is the safety half of `ChannelsBack`: at every moment, a
channel of a live connection is in use and the host's queue consumed, or a
goroutine is about to see to it (`Attended`). Excepted by name are a channel that
was closed without a notification (`Unnoticed`), which stays closed for good,
a channel that the error of another call erased (`lost`) and what follows a
`Consume` the broker refused (`denied`).

### Http, Sessions, Accounts: requests and their two stores

`Http` holds what the handlers share: the gRPC codes, `MapGrpcErrors`, and how
a body can be refused.

In `Sessions` and `Accounts` a record of `call` or `request` is one request on
its way: it holds what the gateway's handler passed on and where the service's
handler is. `heard` becomes false when the gateway gives up after its ten
seconds; the service's handler goes on and nobody gets its answer.

| module | actions | code |
|---|---|---|
| `Sessions` | `LoginUser`, `RefreshAccToken`, `LogoutUser`, `Route` | `gateway/controller/user.go`, `AuthMiddleware` |
| | `SelectUserByEmail`, `Check`, `SetRefToken`, `DelRefToken`, `ServiceDies` | the handlers of the user service, statement by statement |
| | `Reply`, `ReplyLost`, `GiveUp`, `Tick` | the answer and its cookies, time |
| `Accounts` | `RegisterUser`, `ChangeDP`, `ChangePassword`, `SearchUser`, `AddContact`, `GetContacts`, `OtherClient` | the gateway's handlers; another client of the service |
| | `CheckRegistration`, `InsertUser`, `SelectUserById`, `UpdateUserPwd`, `UpdateUserDp`, `InsertContact`, `SelectUserByEmailSearch`, `SelectContacts` | the handlers of the user service |
| | `Reply`, `GiveUp` | the answer |

A token is its claims: signatures are deterministic and times whole seconds, so
two tokens of a user made in one second are one string. Cookies have the path
they are set for: login sets `/mumbleapi`, refresh and logout set `/api`, below
which the gateway serves nothing, so their cookies are never sent back.

`Accounts` has two things a reader of the code would not expect. The middleware
stores the user's id as an `int64` and four handlers assert a `float64`: they
answer 500 and call nobody, so the methods behind them are reached only by
`OtherClient`. And a handler that returns a nil message with a nil error has it
refused by the gRPC marshaller: its caller sees `Internal` after the change was
made (`Sent`).

### Startup, History, System: processes that start while others run

`Startup` has the three mains as places: the user service between the writes of
its key files (`priv`, `pub`, one of them torn if it stops within a write), the
message service between `InitMq` and `InitRedis`, the gateway between its own `InitMq`,
`GetRSAKeys` and serving. `roster` says whether Redis has users at this
gateway's host name, whose deliveries a restarted gateway gets before its list
exists. `History` is one conversation: `table` in the order of a page, `skip`
the offset of the next, `loaded` what was got. `System` composes them: rows are
stored by a message service that consumes, pages are given by one that serves,
through a gateway that serves, while all three stop and start.

### Names

A definition `X_Something` right before `X` is a variant of the action or
helper `X` with one plausible mistake in it; no behaviour uses it. It documents
which mistake the properties would notice, and `PROJECT.json` says which
property notices which variant. The `MC*` modules give constants that a
configuration cannot write, and the symmetries.

## 3. What the runs check

| run | instance | result |
|---|---|---|
| `pipeline` | 2 users, 2 gateways, 1 message, 1 status update, 2 sessions, window 1, 1 failure | all invariants and `ImplementsLog` |
| `pipeline_crossing` | 2 users, 2 gateways, 2 messages in opposite directions, window 2, no failure | wires of two rows are not mixed up |
| `pipeline_live` | 1 gateway, 1 message, 1 failure, fair | accepted messages are stored, reachable users get them |
| `presence` | 3 connections of one user, 2 gateways, 1 failure | orphans, routes, statuses |
| `presence_twice` | 2 connections, no failure | **violated**: two connections of a user at one gateway |
| `relay` | 2 connections, in turn or overlapping, 2 contacts, 2 questions, 1 change of status each, 1 failure | subscription, feed, who ends when |
| `relay_live` | 1 connection, 2 contacts, 3 questions, 1 failure, fair | clean-up, follow, show |
| `relay_refused` | 2 connections, no failure, fair | **violated**: a user refused for good |
| `recovery` | all four channels and 1 fault, or one channel of each connection and 2, a fault being a connection that dies or a channel that is closed; 1 failed Dial; fair | connections and channels come back, none is forgotten |
| `sessions` | 1 user, 2 browsers, 2 requests at a time, lifetimes 1 and 2, 2 ticks, 1 failure | sessions kept, logouts final, refusals with a cause |
| `accounts` | 2 addresses, 3 passwords, 2 calls at a time, 3 writes, 1 failure | duplicates, passwords, refusals |
| `system` | 3 keys, 3 stops, 4 messages in pages of 2 | files, tokens, pages |

Properties worth a second look:

- `AcceptedNotLost`, `DuplicateNeedsFault`: at-least-once, and the duplicates
  it costs. The table has no column for the uuid, so a redelivery after a lost
  ack is a second row; the bound says that nothing else makes one.
- `WiresTruthful`: every notice on its way to a user, through all queues and
  goroutines, agrees with the table; a `save_err` is about a message that is
  never stored afterwards. It includes `RoutedToAddressee`: the two services
  never exchange the addressee, and both work out the same one.
- `NoOrphanEntry`, `QuietMeansOffline`: the list is checked, changed and
  cleaned up without atomicity, and the clean-up deletes by user id, even what
  a later connection wrote. Still, every entry is that of a handler on its way to
  delete it, and so is every host key, but for two causes: a child whose
  subscription broke, whose handler may wait for it for ever, and for keys a
  crash, a failed delete or a robbed entry.
- `SoleSessionRoutable`: without overlap and failure a connection is found.
  Overlap alone breaks it: `SetUserOffline` (`gateway/redis/set.go:31`) deletes
  the host key whoever wrote it, and a user who reconnects while his old handler
  cleans up is served without a route.
- `QueueFree`: declare, bind and consume on the user's exclusive queue never
  meet a consumer of his earlier connection, although that one's child may end
  later than the next one starts. It speaks of connections that overlapped with
  none: for the others it fails, and the refusal closes a channel or connection
  that all users of the gateway share.
- `SubscriptionLives`: holds of overlapping children too, as far as the one who
  has the consumer goes; what the queue is bound to is only promised to a
  connection that met no other.
- `FeedMatches`: the status message carries no contact id; the property says
  that it cannot be read as another contact's. The comment at
  `ws/websocket.go:215` claims as much. The exceptions are overlapping connections, which bind one
  queue, and the leftover binding of a failed `Consume`. What may still happen, and the property
  does not exclude it, is that an update already in the child's hand is written
  after the parent's answer about the next contact.
- `ChildEndsOnlyIfHit`: parent and child wait for each other in opposite
  directions on two unbuffered channels; the property says when that can
  happen (a subscription taken away, or an entry deleted by an overlapping
  connection), `relay_refused` that it does.
- `ConnectionBack`, `ChannelsBack`: what the recovery promises and when it does
  not keep it. Each exception was found necessary: `reconnConns` waits for ever
  in a call on a connection whose death only it would read (`Stuck`), a watcher
  dereferences a connection that was never opened again (`panicked`), the error
  of a call erases the channel a later call stored (`lost`), the broker refuses
  the exclusive queue to the second of two consuming channels, or before it has
  noticed the death of the first (`denied`), and a channel is closed that nobody
  listens to (`Deaf`): it has no `NotifyClose`, or its watcher is in a call or
  waits for another channel, and the notification holds the connection.
- `NothingForgotten`: a goroutine that sleeps on a notification relies on the
  others for everything else. Of two that race for one channel it is never the
  case that each leaves it to the other, but for the exceptions named above.
- `SessionIntact`: whoever holds a refresh token that has not expired finds it
  in Redis, unless it was replaced or deleted by another request; no failed
  write, lost answer or given-up call costs a session.
- `LogoutFinal`: once a logout has deleted the token and no call was about to
  write another, no cookie and no request on its way brings the session back.
- `PasswordFromHolder`: the old password is checked in one statement and the
  new one written in another; the password given may have been replaced in
  between, but not before the call.
- `RefusedUnchanged`: with nil replies, failed statements that were made and
  calls given up, an answer may deny a success only as 500 or 408, never as a
  reason the user would act on.
- `FilesMatch`, `TokensVerify`: `public.pem` is written before `private.pem`
  and the latter decides whether keys exist, so a stop between them or within
  one leaves no pair that does not match; a gateway refuses what the user
  service signs only when that service's container, with its files, was replaced.
- `NoGap`: the offset of the next page is what was loaded so far while new
  messages go to the front. A page may repeat a row but none is skipped, unless
  a page was cut short by an error that `rows.Next` hides.

### Bounds

`MaxFaults`, `MaxSessions`, `MaxMarks`, `MaxAsks`, `MaxUpdates`, `MaxRefusals`,
`MaxTime`, `MaxWrites`, `MaxLapses`, `MaxKeys`, `MaxStops` and `MaxRows` bound
counters that would grow without end, in the guards. One failure is enough for
every property that speaks of failures: each concerns one message, one user,
one connection or one request, and a failure at any point of any step is among
the behaviours. Recovery needs two faults for a connection that dies, or a channel that is
closed, while the goroutines are still busy with the last one; with all four
channels and two faults the instance is too large, so it is checked with a publishing and the
consuming channel, one on each connection, between which every pair of
goroutines can meet. Two gateways are needed for stale routes; three
connections for a handler that overlaps with two others; two contacts and two
questions for a change, or one of each of two overlapping connections, and three
in `relay_live` for a change, a change back and a repetition. In `relay` the two
connections, and the two contacts, are symmetric: nothing in the module tells
them apart. Two browsers and two
requests let a refresh meet a login, a logout or another refresh; two ticks
with lifetimes of one and two make an access token, then a refresh token
expire. Three passwords of which one is not accepted are a change, a change
back and a refusal; three writes are two rows and a change or three rows. Four
messages in pages of two are two full pages and inserts before, between and
after them; three stops leave each service stopped in the middle of its start.
A window of one makes the prefetch limit bind. The theorems of section 5 have
no bounds on any of these. `CHECK_DEADLOCK FALSE` stands in every configuration
because the system really may stop: when all bounded sessions, messages,
requests and failures are used up nothing is left to do.

### Assumptions

- Clients are honest: a message has its own uuid, `from` is the sender's id,
  and only messages that were shown are marked. A frame for which the gateway
  closes the socket is a socket that dies.
- One message service (the `scale` lines of `docker-compose.yml` are
  commented out). When it loses its broker connection it has to be restarted;
  the code does not reconnect (`message/rbmq/conn.go` 12-43), and Pipeline
  takes that as a `ServiceCrash`.
- A call to Redis, RabbitMQ or Postgres is one step that succeeds, fails, or
  succeeds without the caller learning of it, where the code distinguishes these.
- A consumer whose cancel fails is taken to have a dead channel, so that it is
  gone with the channel.
- Relay has one user at one gateway. The same user at a second gateway would be
  refused the exclusive queue, which closes the gateway's channel: this is the
  fault `ChannelDies`.
- Sessions and Recovery let a tick or a death happen at any time; the lifetimes
  keep their order (15 minutes, 7 days), not their ratio.
- Whether the table `users` has a unique constraint on the address is not in
  the repository; Accounts takes the weaker case, without one.

### Fairness

A goroutine that can go on does, in the end: weak fairness of the steps of
handlers, children, publishing and routing goroutines. A read from a broken
socket returns an error in the end (`EndLoop` once the socket is not open). In
Pipeline `Deliver` and `Save` have strong fairness: a Nack or a crash sets them
back each time, but the broker offers the delivery again and again and failures
are bounded. Clients, failures, expiry and status changes have no fairness.
A `select` of the child's takes each ready case in the end, because Go chooses
among ready cases at random. In Recovery each of the four goroutines, the
library's shutdown and the broker's noticing (a heartbeat) have weak fairness
while the process runs; deaths, closings and failed Dials have none. Presence, Sessions,
Accounts and System are checked for safety only and assume no fairness.

## 4. Where the code does not do what it says

1. `presence_twice`: "User already connected" (`gateway/ws/websocket.go:32`) is
   checked at line 31 and made true at line 44, after the upgrade. Two
   connections opened together are both served; one has no entry.
2. `relay_refused`: the late cancel (244) of a former connection closes the
   subscription of the next; its child ends by itself and waits at 251; when
   the socket breaks the parent waits at 171. The entry is never deleted and
   the user is "already connected" until the gateway is restarted.

Others were met on the way and have no run of their own: the deleted host key
of a successor (see `SoleSessionRoutable`); two overlapping connections of a
user, who are refused the second consumer of one queue, to the cost of everyone
on that channel or connection (see `QueueFree`); the queue a failed `Consume`
leaves bound (`failed` in Relay); the channel of `saveMsg` that is opened a
second time without `NotifyClose` and, once closed, stays so (`Unnoticed` in
Recovery); and a goroutine left behind by every orderly disconnect, because
after "last seen handler closing..." (`gateway/ws/websocket.go:250`) the child
sends on a channel nobody reads any more (251).

## 5. What is proved

All theorems hold for every value of the constants that satisfies the module's
assumption (a sentinel that is none of the values, natural bounds, total maps
from messages or connections to users; in Recovery, that an instance has the
channels of `saveMsg` and `sendMsg`, as the program does). No assumption bounds
a set; the prefetch window and the size of a page are any positive numbers.
Every safety property that a passing run checks, and the refinement
`ImplementsLog`, has its theorem. `Promise`, `IdsStay`, `ImplementsHandler`,
`RefusedForGood` and `HungForGood` are theorems only: no configuration lists
them.

**Pipeline** (`PipelineProofs`). `IInv` in `Pipeline.tla` adds to the types:
every body is what a client's frame was turned into (`BodiesOK`), only accepted
bodies reach the service and the table (`OnlyAccepted`), a body waiting for its
ack is in the table (`DoneInTable`), and a message is in one place of its way
in, or refused (`SentOnce`). The last is what `WiresTruthful` needs: without it
a `save_err` notice could be about a message that is stored later. From it
follow `NothingLost`, `WiresTrue` and `TypeCorrect`. `DuplicatesCost` counts:
`HandledOnce` says that a message's body is ready, in the service's hands or
waiting for its ack, in one of these; `CopiesBounded` that its rows, and one
more while it is ready or being saved, are at most one more than the failures.
A body that is saved trades its claim for a row; one that comes back costs a
failure. `NoSecondWrite` follows a row's wire from hand to hand: `CarriedOnce`
says that it has one carrier, and none before its body is acknowledged; a
step takes a carrier away or replaces it by another (`Passes`).

**Refinement** (`PipelineProofs`, `MessageLog`). The mapping computes the abstract
variables from the concrete ones: accepted texts from the bodies, the log from
the table, what was shown from the inboxes. Each action is one abstract step or
a stutter; the proof has one case per action and uses `IInv` for the guards of
the abstract one (a shown id exists, a refused message was not accepted). The
log's own theorems, `Promised` and `IdsForGood`, are proved in `MessageLog`,
where the invariant `LogInv` is small: what the log was made of (`Made`) and the
promise itself. Through the refinement they hold of the message path
(`PromiseKept`, `IdsNeverReused`): a reader who wants to know what users can
count on has one page to read, and the queues and crashes need no second proof.

**Presence** (`PresenceProofs`). An entry belongs to a handler that is between
`AddConn` and `DelConn`; a host key to one between its write and its delete, or
it is stale; status keys likewise; and a connection that met nobody finds its
own values. That a child waits only for one of the two causes the exceptions name
needs a step of its own (`WaitsForCause`): an entry that is gone was taken by
another handler. Overlaps are no problem for the induction because `DelConn` and
`SetUserOffline` delete by user: each can only remove more than its own.

**Relay** (`RelayProofs`). `Lives` says that a child between select and select
belongs to a parent that runs (a parent lets its child go before it deletes the
entry); `Apart` that a connection that met no other is the listed one and the
only one between `AddConn` and the end of its clean-up, so its child is the only
living one. Hence it subscribes alone, which gives `QueueFree`. What the queue
is bound to is followed through `Bind` and `Consume`: without a consumer every
binding is one of a child about to consume or left by a failure (`Leftover`),
with one it is the contact of the child that consumes, or left (`ConsumerBound`).
With `NoChannel` the feed of such a child can only hold what its contact, or one
of `failed`, published. Overlapping children are in the induction as far as
`SubscriptionLives` and `ChildEndsOnlyIfHit` speak of them: each step that takes
a consumer away puts its owner into `hit`.

**Handler** (`RelayImplementsHandler`, `PresenceImplementsHandler`). In Relay
the steps that start, end or respawn parent or child or signal the close map to
one step of Handler each and all others, with those of the broker and of the late
cancels, to stutters; `Lives` gives that a child that has not ended listens
until it is told. In Presence `ChildOK` is needed: a child is up only while its
handler serves or leaves. A crash ends every connection of a gateway in one
step; Relay, which has no crash, never takes it. The two theorems say that both
models keep to one protocol; that Presence lets a child end whenever Relay's
may is seen from `ChildBreaks`, which asks only for a failure or a missing entry.

`DeadlockRefuses` (`RelayProofs`) is the other side of `relay_refused`: once
parent and child wait for each other nothing frees them, overlapping connections
included, because only they could (`RefusedForGood`, first half). Another
connection's `DelConn` may delete their entry; when none is left that could,
`listed` stays and the user is refused for good (second half).

**Recovery** (`RecoveryProofs`). `RecoveryTypeOK` is not inductive: that a
`Dial` may append a connection needs the last one to be told, which is known
only because `reconnConns` alone reads that notification. `ReconnOK` and
`WatchersOK` therefore say what each place of a goroutine knows about the
connection and the channel it works on, and `OpenersApart` that a channel being
opened is so by one goroutine, so that no other step closes or numbers it
meanwhile. `SlotsOK` is `NothingForgotten` before the goroutines have heard: each slot of a
connection that is up has a channel on it that is open, or closed and not yet
read of (`Held`), or a goroutine that opens one (`Opens`), or was erased (`lost`).
`ConsumerOK` is the same for the host's queue: the open channel of `sendMsg`
holds it, or a goroutine will consume from that very channel (`Consumes`), or a
`Consume` was refused. A closed channel does not end this: its watcher, which
takes the notification, is by that at `check`, and opens. The proof has a lemma per action.
`HangsForGood` follows from the same invariant: while `reconnConns` is in a call
on a connection that died, the connection's channels are never told, because
they are told after `reconnConns` itself has read that the connection died.

**Sessions** (`SessionsProofs`). A token is genuine if Redis holds it or held it
(`Genuine`); every token in a jar, in a request or about to be answered is
genuine or expired (`CallOK`), because an answer carries a token only after the
write that stored it, and the key in Redis outlives the token in it
(`KeyOutlivesToken`). For `LogoutFinal` the invariant adds that no request of a
user who is logged out is at its write (`NoWriter`).

**Accounts** (`AccountsProofs`). `RequestOK` says what a call may rely on while
others run: the rows with the address it looked up are newer than its look-up,
the password it was given is one the row has had since the call, and an answer
that follows a change is not a refusal. It survives the others' steps because
rows and passwords are only added at the end (`Grows`, `Kept`); from it follow
`DuplicatesOverlap`, `HoldersChange` and `RefusalsChangeNothing`.

**System** (`SystemProofs`). `StartupInv` says how far the files are at each
place of the user service's start and that a gateway's key is the service's or
that container was replaced; `HistoryInv` that what was there when the
conversation was opened is still in the table and that all of it before the
offset was loaded. An insert shifts rows behind the offset but never over it to
the unloaded side, which is the one case that needs work (`SaveMsgKeeps`).

Only model-checked: liveness, which needs fairness and `ENABLED`, out of the
proof system's reach: `AcceptedEventuallyStored` and `ReachableGetsMessage`
(`pipeline_live`), `SessionEnds`, `AskFollowed` and `UpdateShown`
(`relay_live`), `ConnectionBack` and `ChannelsBack` (`recovery`). Of the last
two the proofs have the safety part: what is not back has somebody at it, and
`reconnConns`, once the death of a connection has caught it in `Channel()`,
stays caught. The two violated runs are counterexamples and need no proof; that
what `relay_refused` shows never ends is `DeadlockRefuses`.

## 6. What is not modelled

- The contents of frames, regular expressions, JSON and protobuf; validation is
  a set of values that pass. The generated gRPC code: a call is one step of its
  caller.
- Media and S3, HTTP routing, CORS, nginx, loggers: stateless or pure I/O. Of
  pictures Accounts keeps the checks of an upload and their answers.
- Two writers that meet within one write of a websocket: a write is one step in
  Pipeline and Relay. The library forbids the overlap and the code does not
  prevent it (`types/websocket.go:75`); what comes of it is the library's.
- `CloseMq` and the three close functions of the gateway: they run when `main`
  returns, which it never does.
- A message service whose broker connection died and which runs on without it;
  it is taken as crashed.
- Containers and load balancing: from them come only the facts that there are
  several gateways, that a connection may land at any of them, and that
  containers restart or are replaced.

## 7. Order of work and what is left

The modules were written in the order message path, presence, relay, sessions,
accounts, start and history, recovery: first what all users depend on and what
fails without anybody noticing. Worth adding, in this order:

1. Recovery with all four channels and two faults, on a smaller model of the
   library's shutdown; the theorems already cover that instance for safety.
2. Pipeline with a second status update per message, so that `read` and `del`
   can cross; the abstract log already allows it.
3. Presence and Pipeline share sessions and host keys; a proof that Presence
   implements Pipeline's `Connect` to `SetUserOffline` would let the two be read
   as one, as Presence and Relay already can through Handler.
