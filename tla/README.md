# Fetchr in TLA+

Fetchr is a web front end to SFTP servers. A Go process keeps login sessions and one SFTP
connection per session in memory, serves a JSON API over them, and ships a single-page
client. This directory holds TLA+ modules of its concurrent core, the TLC configurations
that check them, and TLAPS proofs about them. Paths below are relative to `src/`.

## The system

| part | source | state | operations | talks to |
|---|---|---|---|---|
| connection pool | `internal/sftpconn/pool.go` | `conns`: session id to `*Conn`; per connection `lastUsed`, a lock, the SSH and SFTP clients; `stop` | `Connect`, `Get`, `Disconnect`, `Close`, `evictIdle`, janitor, the goroutine closing a replaced connection | SFTP servers |
| session store | `internal/auth/session.go` | `sessions`: id to identity and expiry; `onEvict`; `stop` | `Create`, `Get`, `Delete`, `Close`, janitor, set and clear cookie | the pool, by `onEvict` |
| auth middleware | `internal/auth/middleware.go` | none | find, reject or mint a session | store |
| OIDC login | `internal/auth/oidc.go` | the sealed state cookie in the browser | `Login`, `Callback` | Keycloak, store |
| auth handlers | `internal/api/handlers_auth.go` | none | me, login, callback, logout | store, OIDC |
| SFTP handlers | `internal/api/handlers_sftp.go` | the `*Conn` and path a request resolved | connect, disconnect, status, list, download, upload, mkdir, rename, remove | pool, SFTP server |
| paths, errors | `internal/api/paths.go`, `errors.go` | none | `CleanPath`, mapping of errors to answers | |
| configuration | `internal/config/config.go` | none after start | `Parse`, `parseSize` | environment |
| wiring | `cmd/fetchr/main.go` | life of the process | start, signal, `Shutdown`, deferred closes | all |
| browser client | `web/src` | query cache (`me`, `status`, `list`), route, upload list | route guard, connect form, file table, uploads | the API |
| static files | `internal/web/embed.go` | none | serve with fallback | |
| deployment | `deploy/`, `Makefile` | none | | |

How they interact. A request runs in a goroutine of its own: the middleware asks the store
for the session of its cookie, the handler asks the pool for the session's connection, locks
the connection and talks to the SFTP server. The store never holds its mutex while it calls
`onEvict`, which is `pool.Disconnect`; the pool never holds its mutex while it dials or
closes. Two janitors (a ticker of one minute each) evict sessions and connections
independently, with the same ttl but different clocks: the session is refreshed by the
middleware, the connection by `Get`. On a signal main waits up to 15 seconds for the
requests, then closes the pool and the store whatever the requests are doing.

What is hard here:

* check then act across an unlocked dial: the ceiling, the slot of the session, and whether
  the session still exists may all change before `Connect` stores its connection;
* connections leave the map in five ways (`Disconnect`, replacement, the janitor, the store's
  `onEvict`, `Close`), each of which closes them outside the lock;
* `*Conn` pointers outlive the critical section that produced them;
* session and connection expire separately, and a session's end is announced after the fact;
* cookies travel with requests and responses, which overtake each other or get lost;
* transfers hold a lock for as long as the client or the SFTP server likes, and a request whose
  body does not come holds its handler;
* handlers look with Stat and act afterwards, on files that other connections change meanwhile,
  and any exchange with the SFTP server may fail after it took effect;
* the client decides from cached answers that may be older than what its user did, and hears of
  its changes and uploads when the user is elsewhere;
* tabs that sign in share one state cookie, which each writes and clears without looking.

What makes each part correct:

* pool: every connection is owned by one hand, and is open exactly as long as a hand holds it;
  a slot holds only its own session's connection; the ceiling; idle connections are closed;
* store: a session's end is reported once, an unused session ends and an ended one never comes
  back; a session in use is one browser's;
* handlers: they work only on their own session's connection; connections disappear only for
  cause; a session begins without remains of an old one and takes its connection along when it
  ends; every request ends unless a peer stalls; shutdown ends and leaves little behind;
* SFTP file operations: uploads over one connection do not mix, a session alone on the server
  gets what it sends and sees what is there, the limit holds to the byte, files go for cause only;
* login: one that nothing crosses never fails on its own state, and any that gets in ends on the
  page it was begun for, though all tabs share one cookie;
* client: no redirect loop, no late answer undoes a disconnect, the connect form starts with a
  target that was reached; a listing catches up with the changes the page was told of, no file
  of an upload is skipped, and the panel tells what is under way.

`PROJECT.json` lists the hazards with their lines and the properties aimed at each.

## Modules

| module | models | extends |
|---|---|---|
| `SessionIds` | the ids shared by store, pool and cookies | |
| `ConnLifecycle` | what the pool promises for one connection (abstract) | |
| `ConnPool` | `pool.go` | `SessionIds`, instance of `ConnLifecycle` |
| `SessionStore` | `session.go` | `SessionIds` |
| `SessionLifecycle` | what the server promises for a session and its connection (abstract) | |
| `Server` | middleware, handlers, main, browsers' cookies | `ConnPool`, `SessionStore`, instance of `SessionLifecycle` |
| `RemoteFiles` | the file handlers of `handlers_sftp.go`, exchange by exchange | |
| `SignIn` | `oidc.go`: login and callback over the state cookie of a browser's tabs | |
| `Browser` | the client's route guard, redirects, the form of `/connect`, and signing in | `SignIn` |
| `FilesPage` | the page `/files`: listings, dialogs, uploads | |
| `MCConnPool`, `MCServer`, `MCRemoteFiles`, `MCBrowser`, `MCFilesPage` | values for the constants | |
| `ConnPoolProofs`, `SessionStoreProofs`, `ServerProofs`, `ServerSessionsProofs`, `RemoteFilesProofs`, `BrowserProofs`, `FilesPageProofs` | the theorems | |

**ConnPool.** `conns` is `Pool.conns` with `NoConn` for a missing key. A call of `Connect` or
`Disconnect` takes several steps, one per critical section or exchange with the SFTP server:
`pc`, `callSess` and `callConn` are its program counter and locals. `ConnectCheck` is the three
refusals and the unlock; `DialOk`/`DialFail` and `StartOk`/`StartFail` are `ssh.Dial` and
`sftp.NewClient` (with `Getwd`, whose failure changes nothing that is modelled); `Publish` is
the second critical section, which hands an old connection to a goroutine (`replaced`,
`CloseReplaced`). `EvictIdle` empties the slots of idle connections into `dead`, which
`CloseDead` closes one at a time, and the janitor collects nothing while `dead` is not empty.
`PoolClose` takes the map (`drained`) and `CloseDrained` closes it. `link` is ghost state: what
the SFTP server sees; `cred` is ghost state: the session whose credentials opened the connection.
`lastUsed` becomes `age`, which saturates at one past the timeout, where nothing can tell larger
ages apart. A closed connection may be opened again under the same name, so `Conns` bounds
connections open at a time, not connections opened. The janitor's `now` is taken as the current
time: after a long close a buffered tick may carry an older one and find fewer idle
connections, which the model covers by the janitor being free to run later.

**SessionStore.** `live` is the key set of `Store.sessions`; `sessAge` is the time since the last
refresh, saturating like `age`. `Delete` and the janitor drop a session in one step and report it
in another (`deleting`, `expired`); `Valid` distinguishes a session that is in the map from one
that `Get` would find.

**Server.** `req` is what each handler goroutine is doing: its place, the session id it got from
the middleware, its `*Conn`, and the cookie its response will set. Handlers that do the same to
the modelled state are one action: `Resolve`, `LockConn`, `UnlockConn` and `LeaveConn` are list,
download, upload, mkdir, rename and remove, where `parts` tells an upload, which takes the lock
again for its next part and to remove a file over the limit. `Login` is a skip-login login or a
successful OIDC callback. `cookie` is each browser's cookie jar: `Arrive` sends what it holds at
that time, and `Reply` stores what a response sets, or loses it; every other response leaves no
trace. Initially a browser may hold any cookie, that of an earlier process included. The
store's janitor is the caller `Sweeper` of the pool. `Tick` advances both clocks; it may happen
while a handler waits anywhere. connect, mkdir and rename first read the request's body
(`ReadBody`), and what follows from `reading` waits for the client. `phase` is main: a signal leads
through `draining` to `closing`; when the listener fails (`ListenerFails`) there is no `Shutdown`, and in
`failing` requests still come on connections that were kept alive, until the process exits. `Fresh` says that `newID` draws an id nobody
still refers to; an id nothing refers to may be drawn again, which makes the state space finite.

**SessionLifecycle.** The server seen from one session: whether it lives, is ending (dropped, its
end not yet reported) or is none, whether a request past the middleware may still open a
connection for it (`admitted`), and whether it has one (`linked`). `Server` maps these to `live` and
`Dying`, to the requests `Inside` (past the middleware and before their answer from the pool), and to `Pooled`. `Report` tells the end and takes
the connection in one step; `Link` may come later all the same, from a request that was let in
before, and only from such a one: that is the one way in which the promise of README.md:24
fails (`LogoutEvicts` below).

**RemoteFiles.** `Server` says how a request comes by its connection and its lock; this module says
what happens to the files of one SFTP server between lock and unlock. `job` is a request: its
place, the path, the open file and how far it got, what Stat said, its answer. A handler takes
the lock right before its first exchange and gives it back right after the last, so the lock
needs no variable: a connection is locked while one of its jobs is at a place of `Locked`. One
step is one exchange: `UploadCreate`, one block of the copy (`UploadWrite`), the close with the
size check (`UploadStored`, `UploadTooLong`), the removal under a second lock (`UploadRemove`), `DownloadStat`,
`DownloadOpen`, `DownloadRead`, and for mkdir, rename and remove a Stat and a change. A file is a sequence
of blocks, a block is the request that wrote it (`old` for what was there, `hole` for a gap), so
that `UploadsApart` and the exactness properties can say whose bytes are where. `entry` maps a name to
nothing, a directory, a dangling link or a file, `data` a file to its blocks; an open file that
lost its name keeps its blocks, as on POSIX. The SFTP server is outside `src/`: `StatOf`, `Target`, `Put` and
the branches of `RenameMove` and `RemoveUnlink` allow what servers do (rename over a file is refused or
replaces it; Create on a dangling link is refused or creates the file it leads to, which lies
outside `Names`; an answer may be lost after the change). `Conns` stands for sessions as well: two
connections are two sessions, or another user of the server. Listing only reads and is not an
action. Errors of `Stat` other than "missing" are one value, as `writeSFTPErr` tells no more of them.

**SignIn.** `jar` is the state cookie, one for all tabs of a browser, and holds what `authState` holds:
the login's state and verifier (one number, as they are drawn together) and the page to return to.
`trip` is where each tab is: at the provider (`abroad`), with a callback sent (`asked`), served
(`answered`), or on an error page (`failed`). `LoginStart` is `Login`; `CallbackServed` is `Callback` up to its answer,
and `CallbackAnswered` what its Set-Cookie lines do to the browser when the answer arrives: the clear is
there in every answer but the missing cookie's, whichever login the cookie belongs to by then.
`Finds` is what the callback comes upon, in the order of its checks: no cookie, one of another login or
expired, a refusal, or a login. The provider is outside `src/`: it lets the user in or not (`ProviderReturn`), takes
a code once (`spent`), and may fail the exchange even so, or give a token without `id_token`, or one that
does not verify (all `refused`, as the answer and the cookie are the same).
A callback or its answer may be lost, and an error page loaded again (`CallbackAgain`). `CookieExpires` is the
ten minutes, for the browser and, with a cookie already sent, for the server's own check.
`alone` is history: whether anything else has touched the cookie since the login began.
`seal` and `open` are not computed: a cookie is one the server made, or none. `safeReturn` accepts every
page of the client, and the model has no others.

**Browser.** One tab in detail, and of the others what they do to the server, the cookies and
`localStorage`. `session` and `linked` are what the server holds for the browser's cookie; `page` is the
route, `abroad` while the tab is at the provider; `me` and `status` are TanStack Query's entries for
`/auth/me` and `/sftp/status`: the data of the last success, whether the last fetch succeeded, and the fetch
under way, which the server answers in one step (`MeServed`, `StatusServed`) and the browser receives in a
later one (`MeDelivered`, `StatusDelivered`). `click` is the same for the requests behind the buttons. The
redirects are the effects of the pages: `TurnAway` (`RequireAuth`), `Welcome` (`Landing`), `ToFiles` (`Connect`),
`ToConnect` (`Files`). `Mount` is the library's rule that a mounting page fetches again unless a fetch is
under way, which it shares; `DisconnectAnswered` is `queryClient.clear()`, which drops that fetch too. `Load` is
a fresh page: after a logout, a login, a reload. `form`, `recent` and `dial` are the fields of `/connect`, the
target in `localStorage`, and the connect under way: `dial.target` is what was sent, `dial.typed` what the form
holds by now, because `onSuccess` is the closure of the last render. `reached`, `edited` and `since` are
history: the targets connected to, whether the form was edited during a connect, and whether
there was a connection since this page was told of its own disconnect. A second tab signs in
through the same cookie (`SignInElsewhere`, `ArriveElsewhere`); `Elsewhere` is what it or the janitors do to the session
and the connection.

**FilesPage.** `Server` and `RemoteFiles` say what a request does; here it is a step of the server (`ListServed`,
`ChangeServed`, `UploadServed`) and a later one of the page. What a directory contains is a version number, so that
an answer can be older than a change. `list` is the query cache by directory. `Refetch` is `invalidateQueries`: a
fetch under way is given up and sent again, unless it is the listing's first, which is shared.
`change` is the mutation behind each dialog and `batch` each call of `startUploads`, a loop over its files that
keeps the directory and the `refresh` of its start; a mutation instead uses the directory shown
when it is answered (`seen`, `last`), as TanStack Query takes the options of the last render. `Unmount` is what dies
with the page: dialogs and the panel, not the requests. `Lands` maps a directory to the page a link to it opens, which for a name
with `%`, `#` or `?` is another or none, because paths go into URLs unescaped and are read with
`decodeURIComponent`. `Follow`, `Climb` and `History` are the links of the rows, those of the breadcrumbs, and Back and Forward,
which work under an open dialog. `Concerns` is which directories a change may be about: the typed name
is joined to the directory shown and sent unchecked, so with a slash or `..` in it (`CleanPath` on the server only
cleans it) a new folder or a renamed entry may end up anywhere. `told` is history: the version each listing has to catch up with.

## Runs

Two workers finish each within about four minutes.

| run | instance | checks |
|---|---|---|
| `pool_safety` | 2 callers, 3 sessions, 4 connections, ceiling 1, timeout 1 tick, an allowed and a denied host; symmetry | `PoolTypeOK`, `OwnedOnce`, `NoLeak`, `OwnSession`, `CeilingOvershoot` |
| `pool_live` | 2 callers, 2 sessions, 2 connections | `IdleCloses`, `ImplementsLifecycle` |
| `pool_ceiling` | as `pool_safety` | `Ceiling` is violated |
| `server_login` | 2 browsers, 2 requests, 2 sessions, 2 connections, real logins; symmetry | `ServerTypeOK`, `OwnConnection`, `DroppedForCause`, `NoRevival`, `ReportedOnce`, `OneBrowser`, `ImplementsSessions` |
| `server_logout` | 1 browser | `LogoutEvicts` is violated |
| `server_busy` | 1 browser | `BusyNotEvicted` is violated |
| `server_live` | 1 browser, 2 requests, 2 sessions, 1 connection, `--skip-login` | `LeftoverDropped`, `RequestEnds` |
| `server_stop` | 1 browser, 1 request, 2 sessions, 1 connection, `--skip-login`, a signal or a failing listener | `StopLeaves`, `ShutdownEnds`, `IdleSessionEnds` |
| `remote_files` | 2 requests, 2 connections, 2 names, 3 files, a cap of 1 block, parts of 0 to 3 blocks; symmetry | `FilesTypeOK`, `UploadsApart`, `UploadExact`, `DownloadExact`, `CapExact`, `FilesKept` |
| `remote_remove` | 1 request, 1 connection | `RemoveTold` is violated |
| `browser` | 2 tabs, 2 targets, 3 actions of the user, another tab or a janitor | `BrowserTypeOK`, `TurnedAwayAbroad`, `Remembered`, `NoReturn`, `LandsWhereAsked`, `BouncesEnd` |
| `files_page` | 2 directories and one whose name breaks the page, 2 uploads at a time, 3 changes, files and refreshes, 1 move; symmetry | `PageTypeOK`, `ShownFresh`, `PanelTells`, `EveryFileTried` |

Why the bounds suffice to see the interesting cases. Two callers pass one check of the ceiling,
replace each other's connection, and cross a janitor, which is a third actor with its own list;
four connections let one be in a slot, one in a call, one replaced and one on the janitor's list
at a time. Three sessions over a ceiling of one are what two extra connections need. A timeout
of one tick gives three ages: fresh, at the limit, past it. Two requests of two browsers are the
smallest instance in which one session's handler could meet the other's connection, and two
sessions let an id end and a later one take its place; two browsers, a stale cookie each, and a
login whose answer is lost are what `OneBrowser` has to survive, and what `NoRevival` needs: a late cookie
of a session that expired and is not swept, and a second request that could find it. With the
one request of `server_stop` `StopLeaves` is sharp: it allows the one connection whose dial was under way
when `Close` came, and none while that request is still dialling. In `server_live` one connection is enough
for a leftover and for two requests to queue for one lock; with `--skip-login` both requests of one
browser mint a session, and the cookie of one is lost. In `remote_files` two
requests meet on one connection or on two, on one name or on two; three files let one be named
by each name while a third is open without a name; with a cap of one block a part can be empty,
fit, be one block over (and be cut at the cap plus one), or two over. A request sends a name once.
In `browser` the shortest way to a wrong return takes two actions, a disconnect here and a
connection made elsewhere; a third lets a click follow. Two logins that cross take two actions
and a third tries again. `Browser` has one request of each kind at a time, and lets another tab's
sign-in arrive only when no request of this tab is waiting for the server: one that does is about
the session of before, and is served as if it was earlier. In `files_page` three clicks are a file of two uploads and one
more, or a change between two uploads, and one move is what separates a request from its answer.
A dialog is not opened once its request could not be sent any more; a request of a kind waits
for the one before it, also across a page that was left; and a breadcrumb may lead to any directory,
more than there are above. Beyond the bounds the theorems hold the safety properties.

Deadlock is checked wherever the system goes on: after `Exit` the server stutters explicitly
(`phase = "exited"`), and so does `RemoteFiles` once all requests are served (`AllServed`). In `browser` and `files_page` it is off, as
a browser whose user does nothing stops.

What the violations show:

* `Ceiling`: README.md:86 calls `FETCHR_MAX_CONNECTIONS` a ceiling; `Connect` compares before the
  dial and never again. What does hold is `CeilingOvershoot`: the ceiling plus the other callers.
* `LogoutEvicts`: README.md:24 says that the connection goes with the logout; a dial in flight
  stores its connection afterwards, under a session that no longer exists. `LeftoverDropped`
  shows that the pool's janitor removes it after the idle timeout, and `ImplementsSessions` that there is
  no other way to it: the request was let in while the session lived.
* `RemoveTold`: `handleRemove` looks with `Stat`, which follows links, goes on when that fails, and then
  answers with the error of `Stat`: a dangling link is deleted and the answer is 404.
* `BusyNotEvicted`: the same line makes eviction depend on inactivity; a transfer that lasts
  longer than the ttl is evicted while it holds the connection's lock, as `lastUsed` is set only
  when the request starts.

## Fairness

`PoolFairness` and `ServerFairness` assume only what the code's own scheduling gives: a runnable
goroutine goes on (`WF` of `Handle`, `Publish`, the janitors' steps), time passes, the tickers tick, and a
close returns. `SF` of `LockConn` is Go's mutex, whose starvation mode hands the lock to the
longest waiter. Nothing is assumed of the peers: a dial, an SFTP call, the body of a request, the next part of
an upload or the reading of a download may never come (`Exchange` is unfair), and no client is obliged to
send a request. So `IdleCloses` and `RequestEnds` name those waits as exceptions. (A response without a
file is taken to fit the socket's buffer, so that writing it waits for nobody.) The runs with this
fairness are with `--skip-login`: a callback's exchange with the provider, which could hold its request
as well, is part of `Login` and has no place of its own. That a close
returns is an assumption about `x/crypto/ssh`, outside `src/`; without it the janitors stop, which
is listed as a hazard. For shutdown, `ShutdownPool` is fair once main is draining: that is the
15-second limit of `Shutdown`. In `Browser` every request is answered or fails, and React runs its effects
(`WF` of `Redirect`); users, other tabs and the provider are not fair. `RemoteFiles` and `FilesPage` have no fairness: a
transfer may stall for ever, and the page promises no end of it.

## Proofs

Proved by TLAPS for every number of sessions, callers, requests, browsers and connections, every
timeout and ceiling, from the assumptions named in the modules (`SessionIdsAssumption`,
`PoolAssumption`, `StoreAssumption`, `ServerAssumption`, `FilesAssumption`, `SignInAssumption`, `BrowserAssumption`, `PageAssumption`), which TLC evaluates on every run:

* `ConnPoolProofs`: `PoolTypeCorrect`, `PoolOwnsOnce`, `PoolNeverLeaks`, `PoolSeparatesSessions` from one
  inductive invariant `PoolInv`. The three safety invariants are not inductive alone: a step of
  a call relies on what its place says about the connection and session it holds (`CallState`, part of `PoolTypeOK`:
  a connection exactly between the dial and the return, opened with the call's session), `Shut`
  and `DialOk` rely on `NoLeak` and `OwnedOnce` of each other (a closed name is in no hand; a
  connection being closed is in no other), and `PoolClose` would lose connections if `drained`
  were not empty before (`BeforeClose`). `PoolOvershoot` counts the sessions that have a connection or
  a call past its check (`Claimed`): a check adds one only below the ceiling, and the calls are
  at most one per caller. The bound is proved for any set of callers outside which nobody
  connects (`ConnectOnly`), because the server's is smaller. `PoolFollowsLifecycle` maps each step to a step of `ConnLifecycle` or a stutter.
* `SessionStoreProofs`: `StoreReportsOnce`, with the types (`StoreTypeCorrect`); both are inductive.
* `ServerProofs`: `ServerImplementsPool` and `ServerImplementsStore` show that the server takes only steps of the
  two components (`PoolStep`, `StoreStep`), so their invariants carry over by their step lemmas: that is
  what they are for, and they are no properties of the code.
  `ServerInv` adds what the place of a handler says (`HandlerState`, part of `ServerTypeOK`: a handler past the
  middleware has a session; one that connects is the caller of a `Connect` for that session; one
  with a connection is resolved or using it). From it follow `ServerTypeCorrect`, `ServerSeparatesConnections`
  (a slot's connection belongs to the slot's session when it is resolved, and a connection's name
  is not reused while a handler points to it) and `ServerDropsForCause` (each step that empties a slot
  has its cause in the state before it). `ServerNoRevival`: only `Create` makes an id valid that was not, of a
  fresh id nobody refers to; `Get` refreshes only what it finds valid. `ServerKeepsParts` and `ServerFollowsLifecycle` state for the server what is
  proved of its parts. `ServerOvershoot` applies the pool's bound to the requests alone, since the store's
  janitor only disconnects (`SweeperCalls`). `ServerStopLeaves` counts the requests that are past connecting
  (`Past`): after `Close` no request arrives, so they only become more, and a connection is stored
  by a request that becomes one of them (`StopInv`).
* `ServerSessionsProofs`: `ServerImplementsSessions` goes through the handlers one operation at a time (`HandleSession`),
  with a lemma for each thing that can happen to a session: `MintBegins` (an id is fresh, so with
  `OwnSession` no slot has it), `LogoutEnds`, `ReportTakes` (for the handler and the janitor alike; it needs `ReportedOnce`), `LetInSteps`. A
  request leaving need not change `admitted`, as another one of the same session may be in (`Leaves`).
  `ServerOneBrowser`: `OneBrowser` is not inductive, because a dial or a request past the middleware brings an id
  back into use. `KnownOnce` says the same of every id in `Granted`, which adds those of requests let
  in and of dials; a step takes nothing into `Granted` but what it mints (`GrantTakes`, which uses the
  refinement just proved), tells a browser nothing it did not know (`HandlerTells`), and tells what it
  mints to one browser (`MintTells`).
* `RemoteFilesProofs`: for any number of requests, connections, names and files and any cap. `FilesTypeCorrect`
  and `UploadsStayApart` follow from `FilesInv`, which adds that one request of a connection at a time is
  at a locked place (`LockAlone`), that only started requests have written (`Started`), and that the file
  of an upload has no block of another request of its connection (`OwnFile`). `UploadsApart` alone is not
  inductive: the next block keeps uploads apart because Create has truncated the file and the
  lock has kept its connection's other uploads away since. `UploadsAreExact` and `DownloadsAreExact` add
  `OpenExact` (what Stat told a download still holds when it opens); each step rests on `Quiet`: while
  a session is alone on the server and one of its requests is inside the lock, the others change
  nothing.
  `CapMetExactly` has an invariant of its own, `CapIInv`: the only request that has written the block after the cap is one
  that is not yet, or never, answered as stored (`Late`), and a file never has two such blocks.
  `FilesGoForCause` rests on `MoveExact`: what Stat told a rename of its target holds until the move, by `Quiet` again.
* `BrowserProofs`: for any number of tabs, targets and clicks. `BrowserIInv` has three parts. `SignInIInv`: no two tabs are
  on the same login, and one that nothing crossed still has its cookie and its unspent code, so
  `UncrossedKeepsState` (`TurnedAwayAbroad` speaks only of the answer; the cookie and the code are what makes it). `ClientIInv`: at the
  provider a tab has no request (`Away`), a target is dialled as long as its connect is under way (`Dialled`), and an
  answer that says connected, or a connect that succeeded, means that there was a connection
  since the last disconnect (`Known`); from it `NothingReturns` and `RemembersReached`. `Held`: whatever cookie belongs to the login
  the tab is on has the page it came from, whoever wrote cookies in between; from it `LandsWhereItWasAsked`.
* `FilesPageProofs`: for any number of directories, uploads and files. `PageIInv` adds to the types that an open
  dialog has an entry if its kind has one and that an upload with a panel has a page;
  from it `PageTypeCorrect` and `UploadsGoOn`. `ShowsNothingStale` rests on `Fresh`: besides
  what `ShownFresh` says of a listing shown, it has to speak of a first fetch under way and of what `told`
  can be. `PanelTellsUploads` rests on `PanelIInv`: an id in the panel is below `nextId`, so a new item is new.

Only model-checked: the liveness properties (`IdleCloses`, `IdleSessionEnds`, `LeftoverDropped`, `RequestEnds`,
`ShutdownEnds`, `BouncesEnd`, and the liveness half of `ImplementsLifecycle`), which need fairness and `ENABLED`, beyond
the prover's reach. The four violations are
counterexamples and need no proof. That ids are never drawn twice while somebody remembers one
(`Fresh`) is an assumption of the model about 256 random bits, on which both theorems of
`ServerSessionsProofs` rest.

## Not modelled

* Configuration (`config.go`): parsed once at start-up; what it yields are the constants of the modules.
* `CleanPath`: a pure function over strings, without state, order or failure; `paths_test.go` tables it.
  Paths are names in the model. Of `errors.go`, the answers that the file handlers' properties tell apart.
* In the sign-in: the cryptography of the cookie and of the token, and `safeReturn`, which decides about
  strings no page of the client sends.
* In the client: filter and sort of the rows, download links, toasts, theme, progress figures,
  `--skip-login`, and two hosts in one cache (the key of a listing has no host).
* Static files and deployment; identities, the contents of credentials and log lines, which no
  property reads.

Only a single process is modelled: sessions and connections are in its memory. `OnEvict` and `NewStore`
are one initial state: no session exists before main has set the callback. `RemoteFiles` and `Server` are not
composed: a job of one is a request of the other between `Resolve` and its answer, and a connection that
is closed under a job is an exchange that fails. Nor are the client's modules and `Server`: a request of
the page is served in one step, which is what a handler's effect on the page amounts to.

Some behaviours of the client are in the models and break no promise of the repository:

* A page that mounts shares a status fetch the server answered before the last connect, and its
  late "not connected" leaves a connected user on `/connect` until a page is mounted again. `BouncesEnd`
  says that the pages come to rest, not where.
* Two tabs that sign in at the same time may both fail: the second's login replaces the cookie of
  the first, whose callback then clears it (`TurnedAwayAbroad` speaks of uncrossed logins).
* A form edited while its connect is under way is remembered as edited (`edited` in `Remembered`).
* A change answered while the listing's first fetch is already served may be missing from it until
  the next refresh (the exception in `Tell`).
* A rename may move its entry to another directory: by a slash or `..` in the typed name, or by Back
  under the open dialog, as the name is joined to the directory shown by then. The page refreshes only
  the directory it shows. A late success closes the dialog of its kind whichever entry it is open for.
* A directory with `%`, `#` or `?` in its name cannot be opened by a link.

## Plan

1. The safety of `Server` over `RemoteFiles` (one lock, a connection closed under a job).
2. `--skip-login` in `Browser`, and a second host in `FilesPage`'s cache.
