# Cookpit in TLA+

A model of Cookpit, a Flickr client whose logic is a C++ core (`src/cpp/src`)
shared by an Android application (`src/android`, Kotlin, RxJava) and an iOS
application (`src/ios`, Swift, RxSwift), with the model checking runs and the
proofs that go with it. The interface between the core and the applications is
declared in `src/djinni`.

## 1. The system

| part | state it keeps | operations |
|---|---|---|
| explore controller (`explore_controller.cpp`) | `observer_`, `items_` (the list of photos), one curl handle | `subscribe`, `unsubscribe`, `reset`, `request(page)`, `request_db(page)`, and the callbacks `on_success`, `on_failure` |
| explore cache (LMDB, through `api_impl::db`) | a file: URL of a page -> the text the server sent | read in `request_db`, written at the end of `on_success` |
| `curl_get` (`utility.cpp`) | the options set on the handle it is given | one blocking GET, then one of two callbacks |
| search controller (`search_controller.cpp`) | `observer_`, `items_`, the recent search keys, a curl handle | `search(key, page)`, `reset`, `fetch_recents` |
| photo detail and photo comment controllers | `observer_`, a curl handle each | `request(id)` |
| map controller (`map_controller.cpp`) | `observer_`, a curl handle | `request(box)` |
| data controllers (`*DataController.kt`, `*.swift`) | `currentPage`, the flags `loadings` (and `loadingMores` on Android), the last view data | implement the observers, expose streams |
| screens (`*Fragment.kt`, `*ViewController.swift`) | pipelines from gestures to the data controller, each on a background worker | pull to refresh, load more, search, tap |
| view models | the list shown | pure |
| `api` singleton, application shells | path of the cache, proxy | set once at start |
| LMDB (`vendors/lmdb`), as `api_impl::db` uses it | the cache file, its lock region with the reader table and the writer mutex | open, a read or a write transaction, close |

How they interact. A gesture on the main thread becomes a job for a background
worker (debounced or throttled). The worker calls the data controller, which
calls the C++ controller. `request` is synchronous: on the calling thread it
calls `on_begin_update`, reads the cache, calls `on_update` with what it found,
blocks in `curl_easy_perform`, and in one of the callbacks calls `on_update` and
`on_end_update`; after a success it then saves the text in the cache. The main
thread calls `unsubscribe` when a screen goes away.

What is hard. No member of a controller is locked, and a screen has several
workers: requests overlap on `items_`, on the single curl handle (whose options
are set one by one before it is known to be free) and on the cache file, which
each access opens anew. The observer may go away between a test of `observer_`
and its use. The observer is told before the cache is written, so the process
may die in between. The page of a response is not passed along but read back
from the URL. The page counter moves before the request that may fail. The
indicators are cleared by any request that ends.

The search and the photos of the map are no different: a text of the search bar
waits for a timer, then for a worker, then for an answer, and may be overtaken at
each of the three; the photo screen makes two requests one after the other and
is left between them; the map and its photos arrive in either order. Below the
cache, LMDB lets readers and a writer use one file at once, provided that every
thread uses the same environment, which `api_impl::db` does not.

What makes each part correct:

* every controller: the observer hears begin, update, end of each request and
  nothing after unsubscribe; a begun request ends.
* explore controller: a page goes into its place and leaves the others alone; the
  list shown is the list held; what the cache gives back is what the server said
  of that page, and never older than what was shown.
* explore screen: the list is page 1, 2, ... in order; the indicators tell the
  truth and go off again.
* search: the list holds the results of one search; when all is quiet they belong
  to the text in the search bar; a text left alone is searched for; every key
  whose photos are shown is among the recent ones.
* photo screen: the two requests follow each other, what they brought is drawn
  together, and drawn even if one of them fails.
* map screen: photos that came are listed, and those listed have their markers,
  whichever of map and photos came first. The second is not so (`map_markers`).
* cache file: a reader keeps the version it began with, there is one writer at a
  time, the newest version is whole after a loss of power, and no commit is lost.

## 2. Modules

| module | what it is |
|---|---|
| `PagedList` | constant module: photos, response bodies, `Merge` (overwrite in place or append), `PageOf` (the digit that `on_success` reads back). |
| `ControllerContract` | the abstract specification: what any controller promises its observer. Refined by the three modules of controllers. |
| `ExploreController` | the controller, the cache and the handle. `pc[w]` is where worker `w` is inside `request`; one action per stretch of code between two points another thread can observe. |
| `ExploreScreen` | extends `ExploreController` with the data controllers and the screens of both platforms; constant `Platform` picks the code, `WorkerOf` deals the three pipelines to workers. |
| `SearchController` | the search controller: `reset`, `search`, `fetch_recents`, several workers inside at once. |
| `SearchScreen` | extends `SearchController` with the search bar, its timer, the queues of the workers, the recent searches and the list shown, on either `Platform`. |
| `RequestControllers` | the controllers that keep nothing between requests (photo details, photo comments, map): one module for any number of them. |
| `PhotoScreen` | extends `RequestControllers` with the screen of one photo; variable `platform`, chosen at the start. |
| `MapScreen` | extends `RequestControllers` with the list, the markers and the camera of the map; variable `platform`. |
| `CacheFile` | the file behind the cache: what LMDB does for `api_impl::db` and for one read or save. |
| `VersionStore` | the abstract specification of that file: saves in one step, reads that find and keep one version. Refined by `CacheFile`. |
| `MCExplore`, `MCExploreScreen`, `MCPhotoScreen`, `MCSearchScreen` | instances for TLC. |
| `*Proofs` | the lemmas and theorems about the module whose name they carry. |

Definitions named "Variant of ..." are what the operation of that name would be
with a plausible mistake in it. No specification uses them; each shows, put in
the place of the operation, that some property would notice.

### The explore list

A photo is `[page, ver, idx]`: which page, which version of it, which place in
it. A body is `[page, ver, size]`: `size` is the number of photos parsing it
yields, which is 0 both for `{"stat":"fail"}` and for a text that is not JSON,
because the parser then yields a null value with an empty array. `MaxVersion`
bounds how often the server changes a page.

| code | model |
|---|---|
| `observer_`, `items_` | `observer` (not null), `items` |
| the file `explore` | `db`, kept by `Die`; a missing row is `NoBody` |
| the options of the handle: URL, write target, transfer in progress | `handle.url`, `handle.sink`, `handle.busy`, `handle.fetch` (the URL it took) |
| the `ostringstream` on the stack of `curl_get` | `body[w]` |
| the last `explore_view_data` | `view` |
| `request(page)` up to `on_begin_update` | `Request`, `BeginUpdate` |
| `request_db` | `ReadCache`; the environment is open while `pc = "reading"` |
| the merge of what it returned | `MergeCache` |
| `on_update(..."cache"...)` | `ShowCache` |
| `curl_get` | `SetUrl`, `SetSink`, `Perform`/`Refused`, `Answer`/`HttpFail` |
| `on_success` | `Succeed` (the merge and the test of `observer_`), `ShowAnswer` (`on_update`), `EndUpdate`, `Save`; the environment is open while `pc = "saving"` |
| `on_failure` | `Fail` (the test), `ShowError` (`on_update`), `EndUpdate` |
| a call through a null `observer_`, also one that was tested before | `NullCall`: the process ends |

`curl_easy_perform` on a handle in use returns `CURLE_FAILED_INIT` (`Refused`).
A response is written to whichever stream was set last: `Answer` lets the text
arrive whole, or be cut off because another worker moved `CURLOPT_WRITEDATA`
first (its owner then finds text of another request in its stream, `Spilled`).
Two unlocked changes of `items_` at once may lose either one (`Merged`,
`Cleared`); that such a race, or an uncaught `lmdb::error`, brings the process
down is covered by `Crash`, which is possible at any time. `weak_self.lock()` in
the callbacks always succeeds, because the caller of `request` holds a reference.

`heard` and `gap` are history variables: the last callback each request made,
and whether some page since the last reset came in short or not at all.

On the screen, `refreshing` is what the pull-to-refresh control shows. It goes up
with the gesture and follows `loadings` from then on (`rx_refreshing`,
`isRefreshing`). On Android the binding delivers at once, and `onEndUpdate`, which
writes two flags, is one step (`AndroidEnd`). On iOS `loadings` is observed on the
main scheduler: each value is put in the queue `posted` (`IosBegin`, `IosEnd`) and
reaches the control, and `seen`, the flag that the scroll is combined with, in a
step of the main thread (`Arrive`). A refresh is two calls of the worker, `reset`
(`RunRefresh`) and `request(1)` (`Reload`), between which another worker may act.
The set of the RxSwift variable and its emission are one step in `IosBegin` and
`IosEnd`: two workers could emit in the other order than they set. The runs and
the theorem speak of `loadings`, as set, and of the control when all posted values
have arrived; a worker emits its own begin before its own end, and a request is
between the two in `pc`, so what they say does not rest on that order. The debounce or throttle of load-more is the time
between `ScrollEnd` and the worker taking the job up. On Android the initial
request is not among the subscriptions that a fragment drops, so `AndroidDestroy`
leaves it; on iOS the view controller cannot be deallocated while a job runs.

### Search

A search puts one block of photos at the end of the list; the block is named by
its key, so `items` is a sequence of keys. An answer is the key it was produced
for, `NoPhotos`, or `NoTotal` (a 200 without a total, or no JSON), on which
`stoi` throws and the process ends (`Throw`). The steps two workers take on the
shared curl handle are those of `ExploreController`; here `asked[w]` keeps their
outcome: the keys whose answers may reach worker `w`. A change of `items` or of
the set of recent keys that overlaps another change may be lost.

| code | model |
|---|---|
| `items_`, `recent_search_key_` | `items`, `recents` |
| `search(key, page)` | `Search`, `Remember`, `BeginUpdate`, `Answer`/`HttpFail`, `Extend`, then `Succeed` or `Fail` (the test of `observer_`), `ShowAnswer` or `ShowError` (`on_update`; or `Throw`, in its arguments), `EndUpdate` |
| `reset()`, `fetch_recents()` | `Reset`, `Recents` of what the walk sees (`Seen`) |
| the text of the search bar, the 0.6 s timer, `distinctUntilChanged` | `typed`, `pending`, `last` |
| the buffer of `observeOn` (16 texts), the dispatch queues of iOS | `queue`, bounded by `Buffer`; on Android a text too many ends the process, because nothing handles the failure |
| `searchWith`: `reset`, then `search` | `TakeJob`, `RunJob`, two steps |
| `onUpdate` | `Hand`: on Android the list is set; on iOS the result is kept in `result` until it is posted |
| iOS: the variable tells its subscribers, after it was set, and the value is posted to the main queue | `posting`, `Post`; two workers may do so in either order |
| results on their way to the main queue of iOS | `inbox`, `Deliver` |
| the list and the recent searches shown | `list`, `rows`, `offered` |

`newest` is a history variable: the results told last, and those that had not been
posted when they were told. `search` is only ever called for page 1. `Type` stands for any change of the text
to another that is not empty, `Clear` for one to the empty text. On iOS a tap on
a recent key sets the text without an event and goes to the queue of a second
worker (`TapRecent`), the empty rows of `fetch_recents` included.

### Photo and map

What a controller shows is "full" (what was asked for) or "hollow" (an error, or
an answer without it); a text may also be "odd": a photo without latitude, on
which the `stod` of the map controller throws (`Throw`). `Silent` are the
controllers whose `on_failure` is empty: the map's.

| code | model |
|---|---|
| `request_detail`, `request_comments`, `request` | `Request`, then `Continue`: `BeginUpdate`, `Answer`/`HttpFail`, `Succeed`/`Fail` (the test of `observer_`), `ShowAnswer`/`ShowError` (`on_update`), `EndUpdate` |
| the worker that makes both requests, details first | `queue`, `RunNext` |
| Android: the streams are subscribed to when both requests returned; iOS: bound from the start, on the main queue | `bound`, `Bind`; `Deliver` |
| what the screen shows | `drawn`; the details of a failure are not drawn on iOS |
| `mapboxMap`, set when the map library calls back | `ready`, `MapReady` |
| items of the view model | `model` |
| its first subscriber, on the thread that brings the value: `addMarkers`, if the map is there | `markers`, `AddMarkers` |
| its second subscriber, on the main thread: the list | `list`, `Load` |
| a tap on the list: the camera moves, then the marker is looked up with `first()` | `TapItem`, `CameraThere`; without a marker the process ends |

### The cache file

`ExploreController` takes a read and a save of the cache for one step each;
`CacheFile` opens both up. A version of the database is reduced to one page, its
root: a write takes another page, and the page of the version before goes to the
free list with the transaction that freed it. The two meta pages name, by turns,
the newest version and the one before. `page` is what every thread sees, `disk`
what remains when the power goes.

| code | model |
|---|---|
| `mdb_env_open` | `SetupLocks` (lock region made afresh), `ShareLocks` (last transaction from the newer meta page) |
| `mdb_txn_renew0`, reader | `BeginRead`, `ClaimSlot`, `StoreTxn`/`CheckTxn` (repeated until no commit came between), `CopyMeta` |
| `mdb_txn_renew0`, writer | `BeginWrite`, which takes the writer mutex |
| `mdb_page_alloc`, `mdb_find_oldest` | `Allocate`/`MapFull`, `Reusable`, `Needed` |
| `mdb_txn_commit` | `Flush`, `Sync`, `WriteMeta`, `Publish` |
| `mdb_env_close` | `Close`: the slots of the table that the environment looks at are given up |
| a killed process, a loss of power | `Kill`, `PowerLoss`: pages not synced are there or not |

With `Shared = FALSE` each access opens the file by itself, as `api_impl::db`
does; the lock of the file belongs to the process, so a second open takes itself
for the first (`SetupLocks` has no guard against that). With `Shared = TRUE` all
threads use one environment, as `lmdb.h` asks. `ApartSpec` has accesses one after
the other (`Apart`: between the open and the close of one thread no other has the
file open); with `Shared = FALSE` that is the program as long as no two requests
overlap. Nothing in the program keeps them apart: on iOS and on an Android device
with two threads a refresh may run beside another request.

Seen from outside (`VersionStore`), the store holds the version that the newer meta
page names, and the one before. A save (`Commit`) is the write of the meta page; it
returns when the transaction is published. A read starts when it looks at the
transaction published, and anew each time it looks again (`StartRead`); what it
finds (`Find`) is the version of the meta page it copies, the newest or the one
before, but none older than a save that had returned. Kills, losses of power and
the first half of an open are `Stop`. `StoreKept` says that `CacheFile` does nothing
else: slots, the mutex, the free list and the syncs are invisible.

## 3. Runs

| run | instance | checks |
|---|---|---|
| `core_blocks` | 1 worker, pages 1..3 of 0 or 2 photos, base 3, 2 versions | `TypeOK`, `BlocksWhole`, `CacheOwnPage`, `Settled`, `NeverOlder` |
| `core_concurrent` | 2 workers, 1 page, 0 or 1 photo | `KeepsContract`, `EveryBeginEnds` |
| `screen_serial` | Android, 1 worker, pages 1..3 of 1 or 2 photos, 2 versions | `ScreenTypeOK`, `InOrder`, `EarlierPagesKept`, `SpinnerStops`, `MoreStops` |
| `screen_ios` | iOS, 2 workers, pages 1..2, the user acting and requests beginning with up to 1 value posted | `SpinnerHonest`, `SpinnerStops` |
| `search_android` | 1 worker, 2 keys and the empty text, a buffer of 2 texts | `ScreenTypeOK`, `OneSearch`, `SettledOnTyped`, `FoundIsRemembered`, `TypedIsSearched`, `EveryBeginEnds` |
| `search_ios` | 2 workers, 1 key and the empty text | `ShowsTheLast`, `KeepsContract` |
| `photo` | both platforms, 2 controllers | `PhotoTypeOK`, `DrawnTogether`, `OneAtATime`, `KeepsContract`, `EveryBeginEnds`, `ScreenFills` |
| `map` | both platforms | `MapTypeOK`, `KeepsContract`, `PhotosListed` |
| `cache_shared` | 2 threads, one environment, 5 transactions, 4 pages | `CacheFileTypeOK`, `SnapshotKept`, `CrashSafe`, `OneWriter`, `NothingLost`, `StoreKept` |
| `page_ten` | as `screen_serial`, base 3 | `InOrder` is violated |
| `map_markers` | as `map` | `MarkerForEveryPhoto` is violated |
| `cache_writers` | as `cache_shared`, an environment for each access | `OneWriter` is violated |

* `core_*` drive the controller as any application might: any page, any order,
  resets in between. With one worker they show what the controller guarantees to
  a caller that does not overlap its requests. `core_blocks` uses `Radix = 3` so
  that page 3 is written with two digits: even then blocks stay whole.
* `core_concurrent` shows that overlapping requests, a refused handle, a response
  in the wrong stream, a lost merge and an unsubscribe at any moment, also between
  the test of `observer_` and the call, leave the protocol of callbacks intact as
  far as the process survives. A call through a null `observer_` ends it, which the
  contract, like every property here, allows: such ends are represented, not
  caught, and the hazards of that kind have no property. One page is enough: the protocol does not depend
  on which page is requested.
* `screen_serial` is the screen on a device whose computation scheduler has one
  thread, or used without overlap. `InOrder` is stated until a page fails or is
  short (`gap`), because `requestNextPage` counts the page before requesting it:
  after a failure the next page is appended in the wrong place.
  `EarlierPagesKept` needs one-digit pages.
* `screen_ios` has the two serial queues of the view controller. Its answers hold
  no photo (`Sizes = {0}`): whether a request begins and ends, and with it every
  indicator, does not depend on the photos, and on iOS an empty list can be
  scrolled to its end. `SpinnerHonest` is stated of the flag at any time and of the
  control when nothing is posted any more: while a value is on its way the control
  may be up after the request has ended, and down after the next has begun. That
  `onEndUpdate` clears both flags on Android, whichever request ends, keeps them
  honest there too: the theorem `SpinnerHonestCorrect` is for both platforms.
* `search_android`: two keys suffice for a text to be overtaken by another and
  to come back; with a buffer of two texts the queue fills up while a search
  hangs. Most of these properties are false on iOS, where two queues search with
  one controller and `SearchScreen` shows the mixed list; no text of the
  repository promises otherwise, so `search_ios` checks what does hold: the list
  is empty or one that was newest when it was told, and the contract. (Two workers
  may set the variable in one order and post in the other, so the list may end with
  the second to last.)
* `photo`, `map` and `map_markers` need no bound: their state is finite.
  `EveryBeginEnds` is not asked of the map, whose `on_failure` is empty.
* `cache_shared`: with four pages and five transactions the free list is used,
  runs dry while a reader holds a version, and the meta pages take several turns.
* `page_ten`: scrolling to the first page with a two-digit number overwrites the
  page named by its first digit, `explore_controller.cpp:95`.
* `map_markers`: the markers of photos that come before the map are never put on
  it, `MapFragment.kt:66`; TLC's trace ends with the photos listed, the map there
  and no marker on it.
* `cache_writers`: two saves that overlap are both inside a write transaction,
  against `lmdb.h`, because each opened the file by itself, `api.cpp:20`.

Bounds. Two photos a page distinguish a page half replaced from one replaced;
three pages have an earlier page, the page itself and a later one; two versions
tell old from new. `MaxItems` bounds the list of `core_*` runs to five pages (six
in the concurrent one), which leaves room for pages requested twice and out of
order; on the screen the page counter bounds it, and `MaxItems` is not used
there. `MaxQueue` lets a job wait behind another of the same worker; on iOS the user
pulls or scrolls, and a request begins, only while at most `MaxPosted` values are
on their way (running requests may post more). `MaxPage` of
the explore runs is far below 128, so the `int8_t` does not wrap. On the search
screen a worker takes a text only while fewer than `MaxInbox` results are on
their way and the list has fewer than `MaxBlocks` blocks; on Android neither
limit is ever met (`OneSearch`). On iOS `Buffer` bounds a queue that the platform
does not. `MaxPage`, `MaxTxn` and `MaxReader` of `CacheFile` are the size of the
map, the number of commits of a behaviour and the size of the reader table.

Fairness is weak fairness of the program's own steps. A thread inside a request,
or with a job waiting, is scheduled again, as the RxJava pools and libdispatch
do; this includes the end of a transfer. The code sets no timeout, so that is an
assumption about servers and networks, not something the code enforces: with a
server that never answers the indicators stay up and the queue fills. The timer
of the search bar elapses (`Elapse`), the main queue is served (`Arrive`, `Deliver`,
`Bind`, `Load`), a value told is passed on (`Post`, a step of its worker, and
`AddMarkers`), and for `PhotosListed` the map library comes to call back. Nothing is
assumed of gestures, of the server changing, of crashes or restarts, and of the
cache file nothing at all: its properties are safety.

## 4. Proofs

All for arbitrary constants; besides the assumptions named in the modules
(`PagedListAssumption`, `ExploreAssumption`, ...), which the runs evaluate, some
theorems have hypotheses of their own:

| hypothesis | what it says | why it is needed |
|---|---|---|
| `Serial` | one worker: requests do not overlap | with two, a request can be answered for the URL of another (`SetUrl` of the second before `Perform` of the first) |
| `MaxPage < Radix` | page numbers have one digit | `page_ten`: the page is read back from one character of the URL |
| `Sizes \subseteq {0, ItemPerPage}` | a page comes in full or not at all | a short page leaves blocks that belong to no page |
| `[]Orderly` | one environment for all threads (`Shared`), or accesses that do not overlap (`Apart`) | `cache_writers`; the program opens an environment for each access and does not keep accesses apart, so it meets this only while one request runs at a time |
| `Platform = "Android"` | one worker for all searches of a screen | on iOS two queues search with one controller |

### The explore controller

* `TypeCorrect`: `Spec => []TypeOK`. `TypeOK` is not inductive: that a response
  has a page and a stream depends on the other workers having set them. `InFlight`
  says what the shared handle holds at each step, and `Inv == TypeOK /\ InFlight`
  is inductive (`InvCorrect`). One lemma per action.
* `EarlierPagesKeptCorrect` (`MaxPage < Radix`): by `Inv` and the lemma
  `MergeKeepsEarlier`, that a merge for page `p` drops no slot and leaves those
  before page `p`; for any number of workers.
* `ContractKept`: `Spec => Contract!ContractSpec`, see below.
* `CacheOwnPageCorrect`, `SettledCorrect`, `NeverOlderCorrect` (`Serial`), from
  one invariant. The three need each other's reasons: that what is shown never
  gets older, although the cache is written last, rests on the list being no older
  than what is shown (`NotBehind`), on every photo merged being in the file or
  still on its way there (`AllKept`), on the answer being of the page asked for
  and no older than what the file has of it (`Coherent`), and on the file not
  being ahead of the server (`Dated`); `Shown` says when list and view agree.
  `SerialInv` is their conjunction with `CacheOwnPage`, relative to `Inv`.
  A restart is where `AllKept` could break: the process dies between the
  update and the save, but then the list and what was shown are gone too.
* `BlocksWholeCorrect` (`Sizes \subseteq {0, ItemPerPage}`), for any number of
  workers. `WholeInv` says that the list is `n` blocks, each a page in one
  version, and that every body is full or empty. A merge puts a block at a
  multiple of `ItemPerPage` or at the end, and a merge or a clear that is lost to
  another worker's leaves the outcome of one of them, which is whole as well.

### The contract of an observer

`Spec => Contract!ContractSpec`, for each module of controllers (`ContractKept`,
`SearchContractKept`, `RequestContractKept`). The mapping takes the observer,
`heard` and `view`; `ContractInv` relates `heard` to `pc` while there is an
observer and says that a dead process has neither observer nor request. Every
action then maps to one of the contract's or to a stutter. For
`RequestControllers` the theorem asks that the controller watched is not
`Silent`: with an empty `on_failure` a second request would begin without the
end of the first. The map's controller is `Silent`, but its screen asks once
(`AskedOnce`), so `MapContractKept` holds of the two together.

`PhotoUsesControllers` and `ScreenUsesController` say that a screen implements
the specification of its controllers, so that the contract carries over to it
(`PhotoContractKept`, `ScreenContractKept`) without being proved again. The
explore screen takes the same way by `CoreStep`: each of its steps is one of the
controller's, given `Ahead`, that the pages still to be asked for exist. From it
come `ExploreContractKept`, `ScreenEarlierPagesKept`, `ScreenPromises`
(`CacheOwnPage`, `Settled`, `NeverOlder`) and `ScreenBlocksWhole`.

### The explore screen

* `ScreenTypeCorrect`: in particular the page counter, which moves before the
  request that may fail, stays within the pages. `ScreenTypeOK` alone does not say
  so: `ScreenInv` counts the jobs that wait (`Ahead`), and needs that a worker has
  only jobs dealt to it (`Dealt`).
* `SpinnerHonestCorrect`, for both platforms, from the invariant itself, the shape of
  `pc` and `queue`, and `InPost`: on iOS the last value posted is the flag, so the
  control will be what the flag is, and if nothing is posted it has been told so or
  was pulled since. A worker that saves no longer counts: its end was already told.
* `InOrderCorrect` (`Serial`, `MaxPage < Radix`). `OrderInv` says, for each step
  of a request, how far the list goes (`Filled`): up to the page before the
  current one until the first merge (`Open`), to that page or the current one
  while the answer is out, to the current one when the request ends (`Full`); that
  each photo is in the slot of its page (`Placed`); and that the initial request
  can only be the first job (`FirstOnly`), because it is the one that does not
  reset the list. A merge into an open list appends a page in its place, one into
  a full list overwrites the last page with itself (`PlacedMerge`).

### Photo, map

`PhotoInv` is inductive: it adds to the types where each request is with
respect to the worker's queue (`Progress`), that Android is bound only when both
requests are over (`BoundLate`), and that one request runs at a time
(`OneRunning`). `PhotoTypeCorrect`, `DrawnTogetherCorrect` and
`OneAtATimeCorrect` follow. `MapInv` adds to the types that the map is asked for
once (`AskedOnce`) and that view model and list hold what the controller said
(`ListTold`); it gives `MapTypeCorrect` and `MapContractKept`.

### Search

`FoundIsRememberedCorrect` (`Serial`): a worker holds only the text of its own
key, which is among the recent keys from the second step on (`AsksItsKey`).

`ScreenInv`, the types and that a search under way has its key, is
inductive for both platforms and any number of workers. `ShowsTheLastCorrect`
holds as widely: every result not yet posted is among the newest, and so is the
last of those posted, or the list if none is on its way (`LastShown`).

For Android `AndroidInv` has three parts: `NoBlank`, the empty text is nowhere on
the way to a search; `OneKey`, what the one worker finds is of the key it holds,
in a list that was emptied before; `LastGoes`, the text in the search bar waits
for the timer or was the last to leave for the queue, and the last of the queue
is the last searched for. Each part needs the others: that the list shows the
last text (`SettledOnTypedCorrect`) rests on the list holding one search
(`OneSearchCorrect`). `RemembersWhatItFinds` gives `FoundIsRemembered`.

### The cache file

All as long as `Orderly` holds: threads share one environment, as `lmdb.h` asks and
the program does not, or each access has its own, as in the program, and no two
accesses overlap. In the second case there is one thread in the file at a time,
and what remains to be shown is that opening, closing, dying and losing power
between accesses keep the file. `ApartKeepsStore` says so of `ApartSpec` without
further hypothesis. Of accesses that overlap, each with its own environment, nothing
is claimed (`cache_writers`). `FileInv` is inductive under that condition. Besides types (`CacheFileTypeCorrect`)
and who holds the mutex (`Session`) it says: the versions that the two meta pages
name are in the file and on the disk (`Durable`); the last transaction published
is the newest, or its writer has still to publish it (`Published`); a reader has
a slot of its own that holds the transaction it reads (`Registered`); and every
version that a meta page or a reader names has its page either as the newest root
or in the free list with a later transaction (`Kept`). The last is what makes
reuse safe: such a record is not older than all that is needed, so `Reusable`
does not offer it (`AllocateKeeps`), and the writer's next version (`Draft`) lists
it still (`Drafted`). A reader may copy a newer meta page than the one it
published, which is harmless because `Kept` holds of both. `OneWriterCorrect`,
`SnapshotKeptCorrect`, `CrashSafeCorrect` follow from the invariant and
`NothingLostCorrect` from the one action that changes a meta page.

`StoreKeptCorrect`: `CacheFileSpec => Store!StoreSpec`. With `Blank`, that only a
file never written has no root, `FileInv` gives what disk and page hold in terms
of the meta pages alone (`Held`, `FoundKept`). So every step that leaves them
leaves the store (`SameStore`), whatever it does to pages; the other is
`WriteMeta`, which `CommitMaps` maps to `Commit`. A reader's steps change its own
read only (`OneRead`).

### Only model checked

The liveness properties (`EveryBeginEnds`, `SpinnerStops`, `MoreStops`,
`TypedIsSearched`,
`ScreenFills`, `PhotosListed`) stay with TLC, because the prover handles neither
fairness nor ENABLED. Every invariant and every other action property of a
passing run is proved, under the hypotheses above. `KeepsContract` is proved for
all the modules that state it.

## 5. Not modelled

Formatting of URLs, titles and messages; image loading and layout; the drawing of
the map; the error stream of the data controllers; the generated bridging code;
the build. Two instances of a controller after an Android activity is recreated
share the cache file; the explore model has one instance at a time. `request_db`
on its own is exposed but not called by the applications.

More than nine lines in ten of the repository are third-party code: curl headers,
googletest, json11, lmdb++ and LMDB. Of these only LMDB is modelled, because the
program depends on how it is used, and only the part between `mdb_env_open` and
`mdb_env_close` that a cache of one database goes through. Simplified there: a
version is its root page, so B-tree pages, overflow pages, nested transactions,
cursors and page splits do not occur; the write of a meta page is atomic and
durable (it is a single synchronous write); no I/O error occurs; one process uses
the file, so stale readers of dead processes are not looked for. The tests of
googletest, the headers of curl and the parser of json11 have no state that the
program's properties depend on.

## 6. Plan

Done: the explore core, its contract and its screen; search, photo and map with
their screens; the cache file and the store it implements; the theorems of
section 4. Left, in the order of importance:

1. That the cache of `ExploreController` (`ReadCache`, `Save`) is a client of
   `VersionStore`: a read and a save of one step each, with `db` as the version.
2. `PageNumber`: the page through `toByte()`/`Int8()`, `to_string` and back
   through `stoi` of one character, against the identity.
