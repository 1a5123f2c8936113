# open-server in TLA+

Specifications of the parts of open-server that are hard to test: sessions that
reconnect, launchers whose subprocesses can end at any time, shell programs on a
remote host that outlive their connection, concurrent requests of a browser,
uploads whose caller goes away, and browser pages whose requests come back late,
down to the PDF viewer the live page runs. Each module is a translation of the
code and is checked by TLC on a small instance; those of the server's programs,
`Navigation` and `LivePDF` carry proofs for every value of their constants.

    tlc -config Keeper.cfg RemoteKeeper.tla       # any run of the table below
    tlapm Session_proofs.tla                      # any module of proofs

## 1. The system

One process serves file browsers for the targets of its command line; a target
is a local directory or a directory reached over SSH/SFTP.

| part | code | state it keeps | operations |
| --- | --- | --- | --- |
| session supervisor | `cmd/open-server/main.go` (`runSessions`, `startSession`) | sessions that are active, errors, who asked to close; per session its context, connection, backend, HTTP server, launchers, listener | start every target in turn, supervise, reconnect, tear down, drain the events |
| reconnect loop | `cmd/open-server/reconnect.go` | attempt, delay | back off, dial, look at the root again |
| SSH session | `internal/sshsession` | one `ssh` subprocess, an SFTP client, `done` | start, close, notice the end |
| JupyterLab launcher | `internal/jupyter/launcher.go` | `instances`, `closed`; per instance its process, `retired`, `stopOnce`, life cycle | start, stop, close, reattach |
| TensorBoard launcher | `internal/tensorboard/launcher.go` | the same, as records | the same, and it waits for a sentinel |
| remote shells and keeper | shell programs in the two launchers | run directory, lease, `watcher.pid`, shutdown marker | launch, re-attach, evict, watch the lease, kill |
| application launches | `internal/web/app.go` | `jupyterByDir`, `tensorByDir`, the proxies; per launch its state and its channels | start or join, complete, respond, stop, watch |
| uploads | `internal/filesystem` | a staged payload and the destination | stage, write, publish, clean up |
| saved sessions | `internal/sessions/store.go` | one file shared by all processes | add, delete, update the port, resolve |
| browser pages | `internal/web/assets/browser-v2.js`, `live-v2.mjs` | the page, the pending request, a cache; the PDF that is shown | navigate, refresh, retry; poll, replace |
| directory listing, file reads | `internal/filesystem/sftp.go` | a worker pool; requests that may be given up | list, open, read |
| PDF viewer | `internal/web/assets/pdfjs-5.7.284/web/pdf_viewer.mjs`, as the live page uses it | document, page, scale, location; views with their canvases, the queue and the buffer; the layers of each page | install, go to a page or a destination, zoom, scroll; draw, pause, cancel, evict; render layers |
| rendering of pages, routing, editor, target parser, import | `internal/web`, `cmd/open-server`, `internal/target` | none worth a model | - |

How they meet. The supervisor owns the launchers and the connection of its
session and hands the backend to the application (`SetBackend`,
`SetDisconnected`); the application posts a close to the supervisor through a
channel of one element. HTTP handlers call `Start` and `Stop` of a launcher while
the supervisor may call `Reattach` or `Close`. A launcher and the shells at the
other end of its SSH subprocesses share nothing but the standard input of those
subprocesses and the answers of the service. Uploads use the backend they were
given, and outlive neither it nor, in what they promise, their caller. The live
page polls the server for versions of its file and puts documents into a viewer
that is drawing, scrolling and following links meanwhile; the viewer's events move
the page's controls.

What is hard here: two goroutines at one instance; a result that arrives when
nobody wants it any more; a connection that ends at any step; a process on
another host that must neither die early nor stay for ever; an exit that has to
wait for everything. `PROJECT.json` lists every such hazard at its line with the
properties that watch it, and those that nothing watches yet.

What makes each part correct:

* sessions: the exit leaves nothing behind, one connection at a time, requests
  never meet a closed connection, no error is lost, interrupts and closes end
  what they must;
* launchers: one tunnel per instance, a stopped instance stays stopped, stopping
  ends a service it can reach, `Close` covers every process of a successful launch, every
  call returns;
* remote shells: the run directory and the keeper outlive the service, a told or
  abandoned service ends, the recorded pid is the right one, the grace window;
* application launches: the launcher holds one service per directory, registry and
  launches agree, a service outlives its launch only where the server cannot reach
  it, every request is answered;
* uploads: never half a file at the destination, nobody else overwritten, nothing
  published behind the back of a caller that waited for its answer and had a
  connection, nothing staged left behind;
* the directory page: a settled page shows what the server said of the URL the tab
  is at, and nothing older than a write it knows of; its history keeps its
  entries; a lost read is tried again;
* the live PDF: only complete versions are loaded, the document on the screen is
  never a destroyed one, the page number and the zoom stay, the controls tell the
  truth, the last version is shown in the end;
* the PDF viewer: what can be seen is drawn in the end, canvases are bounded, a
  detail view covers what is looked at; the layers over a page are those of its
  last drawing.

## 2. The modules

`Session` - `runSessions`, `startSession` and `reconnectSSH`. `mainPc` is the main
goroutine, `pc[t]` the supervisor of target `t` (before it exists, the main
goroutine inside `startSession`). Each case of the supervisor's `select` is an
action, each step of the reconnect loop, and each line of the teardown; `open`
holds the connections whose subprocess was not closed and `alive` those that
work, so that a lost connection which was never closed is seen. `backend` is what
the HTTP handlers use. A close request is `queued` in the channel until a
`select` takes it. Left out: what is printed, the opening of a browser, how
`Session.Close` escalates to a kill.

`Launcher` - one launcher, of JupyterLab or of TensorBoard, remote or local (chosen in
`Init`), with its instances. The two programs share their state and most of their
steps. JupyterLab's start sends its configuration before the instance is
registered and TensorBoard's after; TensorBoard waits for a sentinel of its remote
helper before it probes (`StartSentinel`, `ReattachSentinel`), its `Reattach` looks at
the context instead of `retired` (`ReattachCanceled`), and a start that fails stops
the process it started, where JupyterLab's stops the one the instance holds. An instance holds the number of its current subprocess; number 1 is
that of `startOnce`, later ones come from `Reattach`. `stopOnce` is a variable
with the steps of `process.stop`, because the first caller's steps are the ones
that happen and later callers only wait. `Reattach` is the supervisor's loop over
its snapshot, with the two sections it runs under the lock as `Swap` and
`Confirm`. A subprocess ends by obeying SHUTDOWN (`ShellObeys`) or in any other
way (`ProcessEnds`), and the remote service can outlive it. `MCLauncher`
adds a symmetry set.

`RemoteKeeper` - the shell programs of either launcher on the remote host over one run
directory: the launch shell, re-attach shells in the order of their connections, the
detached keeper. JupyterLab's launch shell holds the lease before it starts the
service; TensorBoard's starts the service first, and exits when it then cannot take
the lease (`TakeLeaseFails`). `lease` is the holder of the `flock`, the keeper's own probe included.
Time is `Tick`, for the keeper's pauses; `free` counts ticks since a shell held
the lease. Nothing orders the `setsid` of the service before the keeper's look for
its process group, and so either comes first here; an execution in which the keeper
came first is told by `missed`.

`AppLaunch` - the handlers of `app.go` that start and stop services. What runs
between `Lock` and `Unlock` is one action; a call of the launcher is a step of its
own. The two applications keep maps and locks of their own and differ before a
launch is acquired and in the interpreter of the kernel; `application` says which
one an execution is about, `remote` whether its session is. Of the launcher there is
what its calls leave behind. `service` is what runs; `tunnel` is what the launcher
reaches it by, the process itself or its SSH connection, which can be lost and
re-attached; `over` says that nobody holds the instance any more. `Stop` returns nil
whatever it met: it ends a service only through a tunnel that is up, and not at all
when `Close` has retired the instance before (`ServiceStops`). A start that fails may
leave a remote service behind too (`StartFails`). `Close` is the end of the session, in
the two steps of the code: it retires the instances (`Close`) and then ends one after
the other (`CloseStops`). Left out is what an answer says, so that the error of a stop,
which both launchers never return, makes no difference.

`Upload` - `SFTP.Upload` and `Local.Upload` of several callers to one name. An
operation is sent, served or refused, and its answer handled in three steps, so
that a caller can give up between any two (`Abandon`, which is `awaitSFTP`) and
leave the request with the server (`ServeOrphan`) while its own clean-up runs. A
connection that is lost does the same to every request that was sent
(`ConnectionLost`): the caller has an error, and the server may still do what it was
asked.
A payload is absent, a part, or all of the content.

`Navigation` - the directory page. JavaScript runs one callback at a time, so a
click, `popstate`, an answer, a timer, `visibilitychange` and `pageshow` are one
action each; `Navigate` is `navigate` with its abort, its look into the cache and
the request it leaves `pending`. `flight` is the read of the pending request,
`late` one that was aborted and may still come back. A listing is the version of
the folder it shows, and `acked` the version the page knows its own writes have
made. The tab's history is `entries` and `at`; while a file is open the page is
kept or lost. The age limit of the cache is the choice not to find a listing.

`LivePDF` - the page that follows a PDF. The file has a version for every write, odd
when complete. A poll is its request, the two `Stat`s and the read of the tail of
`pdfComplete`, and the answer; several overlap. `load` is where `loadVersion` awaits:
the document, the installation in PDF.js, the rollback; `current` compares its
generation with `loadGeneration`. Documents carry `alive`, so that one that was
destroyed is seen when it is shown.

`Viewing` - where the page is in its document. `s` is one record of `PDFViewer` and of
the page's controller, because nearly everything they do happens between two waits:
the setters of PDF.js are operators from record to record, in the order of the calls
and of the events they fire (`SetCurrentPageNumber`, `SetScale`, `ScrollIntoView`,
`Update`, `OnPageChanging`, ...), and an action is one callback. What the code waits for
are variables: `timer` and the frame of a scroll, `eager` for the pages that
`setDocument` asks for without waiting, `links` for destinations that
`goToDestination` looks up, with the zoom and the place on the page they lead to, `copy` for the text that `getAllText` collects page by page
from whatever document is shown by then. A page is `Points` whole points high, to
which PDF.js rounds the location it goes back to after a zoom (`PagePoint`), and from
which it rounds to whole pixels (`ViewportPoint`). Installing a document is one step: its first page was
awaited before, so the awaits up to the commit are of settled promises.

`Rendering` - what the viewer draws, when. `Visible` is `getVisibleElements` with its
binary search, the walk back to the start of the row and its early end;
`PDFRenderingQueue` is the choice of the next view (`HighestPriority`) and the kicks
that follow a drawing; views are pages and their detail views, with their
rendering states, tasks and canvases; the buffer is `PDFPageViewBuffer` with its
resize around the visible pages. A drawing goes on in chunks and may be paused,
cancelled or dropped at each; a page may arrive from the worker late or not at all.
No detail view is ever put off: `forceRendering` looks for `detailView` in the records of
the visible pages (pdf_viewer.mjs:9222), which have no such field (509-522).
`MCRendering` gives it layouts: a column, spreads, wrapped rows, zoomed pages.

`PageLayers` - the layers over one page. Each draw leaves a chain of awaits (`chain`)
that builds text, structure, annotations, links and the editor layer in turn; a
zoom or an eviction resets the page under it and a later draw starts another.
Builders carry the number of the draw that made them, so that one that outlived
its draw is seen. The page's highlighter, its accessibility manager and the
listener for selections, which all builders share, are in `mind`. The editor layer
is built and stays hidden: the live page has no editor, and `show` returns early for an
empty layer (pdf_viewer.mjs:4433-4436).

`AppService` - the abstract specification of an application of a directory: stopped,
starting, running, stopping; with a service or none, which the server can reach or
not; open to pages or not. It does not know launches, requests or locks. It says that
a directory is over only when its service is gone or out of reach, or the session has
closed the launcher, and that what goes on then is `left` behind. `AppLaunch` defines
`Phase`, `LiveDirs`, `ReachDirs`, `LeftDirs` and `OpenDirs` as its view of them,
instantiates it with these as `Service`, and has `ServiceSpec == Service!Spec` as a
property.

How they fit together: `Session` uses the launchers by `reattach` and `closeJupyter`;
the subprocesses of `Launcher` are the clients of the shells of
`RemoteKeeper`; `ServiceStarts`, `StartFails`, `ServiceStops`, `Reattach`, `Close` and
`CloseStops` of `AppLaunch` are what the calls of `Launcher` come to, whose
`StoppedIsOver`, with its exception for a tunnel that broke, and `CallsGoOn` are what
`AppLaunch` takes from it. `LivePDF` sees an installation that takes a while, fails or commits,
and `Viewing` what it does to the viewer; `Viewing` takes for granted that the visible
pages are drawn, which is `Rendering`; and a drawing that ends there (`EndDrawing`)
is `Finish` in `PageLayers`.

## 3. The runs

| run | module | instance | shows |
| --- | --- | --- | --- |
| Sessions | Session | one SSH and one local target, 2 attempts, 2 connections, a deadline on the first | the exit releases everything and reports every error (`ExitComplete`); one connection, which is the one that is served (`ServesItsConnection`); an interrupt, a close or a deadline ends what it should (`EndsWhenTold`) |
| Launcher | MCLauncher | 2 instances, 2 subprocesses each, local and remote, both launchers | one tunnel (`SingleTunnel`); what is over after a stop, a close or Done (`StoppedIsOver`); no revival (`RetiredNotRevived`); no call waits in a circle (`CallsGoOn`) |
| Keeper | RemoteKeeper | either launcher, a launch and two re-attach shells, grace 3, pause 2 | what a live service needs is there unless the keeper missed it at first (`ServiceKept`), the length of the window (`GraceNearlyFull`), and that the service ends when told or abandoned (`ServiceEnds`) |
| AppLaunches | AppLaunch | one directory of either application, local or remote, 2 interpreters, 2 requests at a time, 2 launches, tunnels that break and are re-attached, a close | registry, services and stops agree (`RegistryAgrees`), every request is answered (`RequestsAnswered`), and the handlers implement `AppService` (`ServiceSpec`) |
| Uploads | Upload | 2 uploads, each local or SFTP, with or without overwrite, beside another writer | the destination is whole (`NeverTorn`), publications are those the callers hear of (`PublishesAsTold`), staged files go (`StagingRemoved`) |
| Navigate | Navigation | 2 folders, 1 cached listing, 2 history entries, 1 write of each folder, 1 failed read | what a settled page shows (`SettledView`), its history (`HistoryKept`), the retries (`RetryHappens`) |
| LiveFollows | LivePDF | 2 polls, versions 1 to 3, 2 pages, 1 failure, 1 download | what is loaded, shown and kept (`ShowsWholeVersions`), and that the page follows the file (`FollowsFile`) |
| Viewing | MCViewing | documents of 4, 2 and 3 pages of 2 points, 4 zooms, 2 inputs of the user, 2 installations that fail, copies of the text | the controls tell the truth (`ControlsTrue`), no page of a replaced document stays (`PagesBelong`), page and zoom survive updates (`KeepsPlace`) |
| Rendering | MCRendering | 5 layouts of 1 to 5 pages, a scroll, up to 2 zooms, a page that never comes | the canvases are bounded (`CanvasesInBuffer`), the visible pages found (`VisibleExact`), details cover the view (`DetailCovers`), the queue rests only when all is drawn (`RestsDrawn`) |
| PageLayers | PageLayers | 3 draws, 2 zooms, 1 eviction | layers belong to the page that shows them (`LayersOwned`), the shared helpers follow the text (`HighlighterFollows`), a page at rest has all its layers in place (`RestsLayered`) |
| LauncherStale, LiveDownload | Launcher, LivePDF | | a sentence of the documentation that the code does not keep (section 6) |

Bounds. Two attempts and two connections let a session reconnect, lose the new
connection, back off twice and give up; a second, local session is what an exit
has to wait for and an error can be lost from; the deadline passes for the first of
them, `Timed`, since the local one has no step that could notice it differently. Two
subprocesses are a launch and a reattach; the proofs cover any number of them. Three shells
let an evicted one evict in turn. Grace 3 with pause 2 does not divide, which is
where rounding shows. Two requests at a time are enough for every pair of
handlers to meet, and a handler that is done can be any other next; two launches of
one directory are one that is over and its successor. The key of the registry is the
directory and each application has maps of its own, so that directories meet nowhere;
the proofs cover any number of all three. Two uploads are one and its competitor, beside a writer
that is not an upload. One cached listing is the limit at which every new one
evicts another, and two history entries give Back, Forward and a push that drops
what was ahead; one write of the page beside one of somebody else is what a read
can be older or newer than. Version 3 is a rewrite of a file that was complete,
with everything between; two polls overlap in every order. Three documents are one
that is shown page by page, one that is shorter and one that is longer than that, and two inputs are one
that another overtakes. Two points let a page be at its upper edge, half or at its lower
one. A scroll makes a drawing obsolete and a zoom all of them; two
zooms leave a view drawn for the zoom before. Three draws of a page let a chain of
awaits meet the layers of the draw after the next. Bounds named in the modules (`MaxConns`, `MaxProcs`,
`NShells`, `MaxLaunches`, `MaxInputs`, `MaxDraws`, ...) stop the counting only: the guard that uses one disables
a step of the environment or a new launch.

Deadlock is allowed everywhere, because a process that has exited, a launcher that was
closed, a service that has ended and a viewer that rests do nothing more. What
must not stop early is a property of its own: `CallsGoOn`, `RestsDrawn` and
`RestsLayered` say what holds when nothing is left to do. They are how termination is
stated where a step may be taken only so often (a retry of a reattach, a scroll):
every call has a bounded number of steps of its own, so it ends if something of it
always can go on.

Fairness. Weak fairness of the steps of a goroutine or a shell that can go on, and
of a subprocess that is being stopped: Go schedules every goroutine that can run,
dials and probes have timeouts, `process.stop` ends in a kill, and shells read
the end of their input when `sshd` gives up a dead connection. Nothing is assumed
of users, signals, the network or of a service ending by itself, and none is
assumed of a source that an upload reads from. In the browser, requests come back
and timers fire, LaTeX finishes what it began, and nothing is assumed of the user;
a poll may fail, but not for ever (`MaxFaults`). The properties of termination
hold under these and would not without: they are conditions such as "a request
is answered", not "the user asks".

## 4. The proofs

All proofs are in modules beside the one they are about, follow the same line -
`Init => IInv`, one step per action for each part of `IInv`, and a last step in
temporal logic - and assume nothing but the named assumptions on the constants. Each part of `IInv` is checked by TLC first.

`Session_proofs`: `TypeOK`, `ExitComplete`, `ServesItsConnection`, for any number of
targets, attempts and connections. None is inductive. `IInv` adds which targets the
main goroutine still counts (a session is active exactly while its supervisor runs
or its event is under way), what a session holds at each place of its code (no
connection but the held one outside a reconnect; nothing at all when it is over),
that the backend is the held connection or none, and where an error is before it
is among those of the process.

`Launcher_proofs`: `TypeOK`, `SingleTunnel`, `StoppedIsOver`, `RetiredNotRevived` and
`CallsGoOn`, for any number of instances and of reattaches. `IInv` adds that a subprocess that runs is
the instance's own or the one candidate of the supervisor, whose predecessor is
done (`Tunnels`); that a retired instance keeps its subprocess, so that a stop waits
for the one that runs (`Stops`); that a service that is up behind a subprocess that is
done has lost it (`Outlived`); that whoever takes an instance off the list is at
stopping it (`Lists`); and, so that no call waits in a circle, that whoever waits for
another's stop finds one that has begun and can go on (`Waits`). `CallsGoOn` names for
every call the step it can take, since the prover knows no ENABLED.

`RemoteKeeper_proofs`: `TypeOK`, `ServiceKept` and `GraceNearlyFull`, for any number of shells, any window and any pause. `ServiceKept` excepts the executions with `missed`
and says of these that it was the keeper's first look. `IInv` adds what the launch shell has
done by each of its steps (`Launching`), that the lease has one holder, which is at
the place of its script that holds it (`Holder`), that the run directory goes only
with the service, or with one the keeper has missed before it counted anything
(`Kept`), and how the keeper's count of free probes bounds the ticks
since the lease was held (`Counting`, `Window`).

`AppLaunch_proofs`: `TypeOK`, `RegistryAgrees`, `ProxyOnlyRunning` (a proxy handler
belongs to a running launch), and `ImplementsService`, the refinement: for any number
of requests, directories and launches. `IInv` adds that the registry and the active
launches name each other (`Registry`), that one request at most starts a launch and
finds it without a service (`Owner`), that whoever ends a launch finds its instance over
or the launchers closed (`Endings`), and that a tunnel is up only for an instance that
is not over, of a launch that is registered or that the close has retired (`Tunnels`).
That the launcher holds one service per directory follows: the launches of such tunnels
are in the registry, a directory has one there, and after a close none is added. For the
refinement each action is a step of `AppService` for the directory of its launch, or
changes nothing that is seen.

`Upload_proofs`: `TypeOK`, `NeverTorn`, `PublishesAsTold`, for any set of uploads. `IInv`
adds that an upload that is past its writes has a whole payload until it publishes
or removes it, whoever is cleaning up beside it; that a request nobody waits for
belongs to an upload that was cancelled or whose connection was lost, and that sends no
other (`Left`); and that a rename was the caller's choice.

`LivePage_proofs` is about both modules of the live page, whose names are therefore
distinct (`ViewInit`, `ViewSpec`, `ViewTypeOK`). Of `LivePDF`, `TypeOK` and
`ShowsWholeVersions`, for any number of polls, versions, pages, faults and downloads.
`IInv` adds that no poll has seen a version later than
the file's, so that two `Stat`s that agree have nothing between them (`Polled`), that
the page number is one of the document (`Numbered`), and at which place a load is that
no download cut short, with which documents (`Held`, `Placed`). Of `Viewing`, `ViewTypeOK`,
`ControlsTrue`, `PagesBelong` and `KeepsPlace`, for any documents, zooms, heights, inputs and
installations that throw. A step there is a chain of setters, in the middle of which the
controls agree with nothing; so each operator has a lemma of what it keeps of the record
(`DocKept`, `ZoomKept`, `SpotKept`) and what it brings about, from a record that is only
sound (`AtRest`: the numbers exist, the view is inside the pages), and the lemma of an
action joins them to a record that is `Good`, which `ViewIInv` asks for between two steps.
`Good` adds that the location names the first visible page and the place in it unless a scroll is
under way (`Located`), without which a zoom could not keep that page in view. The place
is in whole points: half a point that is shown does not round to the lower edge of the
page, and a place above that edge does not go back below it, which is why `KeepsPlace`
has `HalfAPoint`. A page that is gone to is in view or ends where the view begins
(`SeenOrAbove`), at whatever place on it, which is the exception `EndsAbove` of
`ControlsTrue`. That the
current page can be seen after `update` rests on the page that is most visible: a set of
page numbers has a least one (`WellOrdered`), and the first page that is seen is found
by division (`FirstVisible`). For copies and late pages
`ViewIInv` adds that a copy asks one document after another, never an older one
(`Copying`), and that pages are asked for only once their installation has begun to
(`Asking`).

`Navigation_proofs`: `TypeOK`, `HistoryKept`, `SettledView`, for any folders, sort
orders, cache size, entries, writes and failed reads. `IInv` adds that every write the
page was told of is in its folder (`Written`), that a read which was answered is not
older than one of those (`ReadFresh`), and that a timer runs only for a request that
nobody reads (`TimerIsOfRequest`); `Traversed`, for the history, that a request which came
from it, or is committed already, is for the URL the tab is at. The cache loses
listings from its middle, by a recursive function (`Without`) whose result is found by
an induction: the library's induction theorems are out of the provers' reach, but
that a set of numbers which holds 0 and each successor holds them all follows from
the least element of what it would lack (`SetInduction`), and a set, unlike a
predicate, can be instantiated.

`Drawing_proofs` is about both modules of what PDF.js draws. Of `PageLayers`,
`LayersOwned`, `HighlighterFollows`, `RestsLayered`, for any number of
draws, zooms and evictions. `IInv` is about the record of the layers, so that each
operator on it has a lemma of what it keeps (`Kept`) and what it drops (`Drops`): a page
holds one text layer, which alone may stream and which no layer is once it is done
(`TextsSound`), and what the text layers share is on exactly for it; the builders of draws
to come are untouched (`Unmade`); and a render of annotations that the page has dropped
is of a layer that was cancelled (`CallsSound`), which is why its late answer adds
nothing. A second invariant, `LayeredInv`, is what a page at rest follows from: a layer
that was rendered has its node in the page, and an annotation that is built is owned by
a text div or waits for one (`Layered`, `Shared`); a layer with a div is built or has a
render that will build it (`Builds`); and a page that was drawn has each layer or waits
for what brings it, the chain of its last draw above all (`Drawn`).

Of `Rendering`, all of its invariants - `RenderTypeOK`, `CanvasesInBuffer`, `VisibleExact`,
`DetailCovers`, `RestsDrawn` - for any documents and layouts, view heights, overflows
and sizes of the buffer, any number of scrolls and zooms, and pages that never come. None
but `VisibleExact` is inductive: what bounds the canvases and what makes the queue go on is
spread over views, buffer, tasks and counts. `RenderInv` is again one predicate of the
record of the views, `ViewerSound`, with four parts.

* `ViewSound`: a view's state is what its drawing does; a drawing has a canvas and the
  page; a finished view has them too, unless its page never came; nothing asks for a
  detail view that its page has dropped.
* `BufferSound`: no page is in the buffer twice, and a page with a canvas is there, or
  one whose detail view has a canvas, keeps the one before, or is asked for and will
  have one (`Held`, `Asked`). The last is what makes it inductive: a detail view is drawn
  after its page was asked for, and by then the page might have been evicted.
* `Covered`: unless a frame will come, whoever has a detail view that may show something
  is a visible page, and its area is for this zoom and covers what is shown.
* `Awaited`: unless a frame or a timer will come, all is drawn or something will ask for
  the rest: a kick, the drawing that has the priority, or a request for a page whose view
  is not finished. A paused view waits for nothing by itself, so that the drawing that
  goes on must be the one of the priority, and a request for a dropped detail view counts
  because its answer kicks the queue.

`Cancel`, `Reset`, `DropDetails` and `Shrink` only take away: `Fewer` says what all of them
keep, above all that what was under way still is, or has ended and left a kick. Each
operator a record passes through in an `update` has its lemma, and `UpdateSound` joins
them: whatever the record was, after `update` the areas are right and something asks for
what is not drawn. `Without` and the binary search are recursive functions; what they
return is found by the induction over a set of numbers that was described above.

`VisibleIsExact` has a hypothesis on the layouts, `InRows`: pages come row by row, the
pages of a row side by side, and the last page ends less than a view's height before
the document does. The first two are what the code lays out; the third is a limit of the
code, because the search gives up when the bottom of the last page is above the view,
although a taller neighbour in its row may be visible (pdf_viewer.mjs:362, 479). The layouts
TLC checks satisfy it (`LayoutsInRows` in `MCRendering`). `DetailCovers` speaks of a view
that shows a page: an update that finds none changes nothing (9078-9080).

Only model-checked: `EndsWhenTold`, `ServiceEnds`, `RequestsAnswered`, `StagingRemoved`,
`RetryHappens` and `FollowsFile`. They are about what must happen in the end, and the
prover has no rules for that under fairness. Every invariant, every action
property and the refinement that the runs check are proved.

## 5. What is not modelled

The components marked so in `PROJECT.json`, with the reason there. Of the modelled
ones: the retry of a launch on a port clash, the kernels shut down over HTTP
before a stop (its outcome is ignored), the redaction of captured output, the sweep
of old run directories, and the escalation of a stop from a message to signals,
which is one step here (`ProcessEnds` of a process that is being stopped).

The sessions file is loaded, changed and saved whole, with no lock between processes:
two of them at once lose one change, and nothing in the code tries to prevent it.
That is a hazard in the list, and a model could only repeat it. The pool that
lists a directory lives for one call, and its workers and the loop that feeds them
leave by the same context; a read that is given up leaves one request behind, the
shape that `Upload` has already.

Of PDF.js the server's page uses the viewer only. Not modelled there: search, the
outline and the other sidebars, optional content, forms, signatures, the tools of
the annotation editor, printing and scripting, which the page does not load; the
worker, fonts and the drawing of glyphs and images, which compute on data; the second
canvas that hides a redraw (`tempCanvas`); scroll and spread modes the page does not
offer, except the one page at a time that the viewer itself forces on long documents;
pages of different sizes in `Viewing` (`Rendering` has them).

## 6. Where the code and its documentation differ

* An instance can stay available without a tunnel (`LauncherStale`).
* The Download button of the live view cuts a load short, and updates stop
  (`LiveDownload`).

More were seen while modelling and are not in a run (`launcher.go` is JupyterLab's).

* A close that is posted while the last reconnect attempt dials or looks at the root
  again is dropped, and the other sessions go on (reconnect.go:89; README.md:54-56 of
  the repository says that closing one ends the process). `EndsWhenTold` therefore
  speaks of the process only when a `select` has taken the close, and else of the
  session that was closed.
* Reattach "swaps in the new process so Close still stops it" (launcher.go:372). A
  `Start` that fails uses up `stopOnce` (292) before it takes the instance off the
  list (293); a tunnel that is swapped in between is stopped by nobody.
* The comment of `graceProbeCount` (launcher.go:822) says that the window is never
  shorter than asked for. The keeper probes first and pauses after, so `n` probes
  span `n - 1` pauses; `GraceNearlyFull` states what holds.
* The keeper is started right after the service and asks for its process group
  with `kill -0` (launcher.go:725), which fails until `setsid` has made the group.
  A keeper that comes first removes the run directory and leaves the service alone;
  `ServiceKept` says that this is the only way a service loses its keeper (`missed`).
* `Close` of the launcher "waits for their exit" (launcher.go:320), but cannot reach
  a service behind a tunnel that is down. Nor can `Stop`, which returns nil at once
  (1439-1444): the handler answers that the application is stopped (app.go:1404-1409),
  the service lives on for its grace window, and a start in that time puts a second one
  beside it. A remote start that fails over a lost connection is the same.
  `StoppedMeansGone` says that nothing else leaves a service behind.
* An upload whose connection is lost is told of an error, while the server may have its
  link or rename and publish the file (sftp.go:314). `PublishesAsTold` excepts a caller
  that was told so.
* TensorBoard's launch shell starts the service before it takes the lease and has no
  exit trap: when the lease cannot be opened or locked (tensorboard/launcher.go:699-700)
  it exits and leaves a service that no keeper ends. `ToldEndsService` and
  `AbandonedServiceEnds` speak of the other executions (`Unkept`).
* A slow re-attach shell whose client has gone evicts the shell of the connection
  after it, although the comment at launcher.go:786 calls any holder stale.
* After a load that failed for good the request stays pending, and a write that is
  acknowledged for the folder still on the page does not read it again
  (browser-v2.js:262-267). No text promises that it does.
* A client that re-attaches between two probes of the keeper and goes again is not
  seen: the window is not started anew (launcher.go:732). `GraceNearlyFull` says so.
* A rewrite of the same size within the resolution of the modification time has the
  version of the file before it (app.go:1752); no page reloads for it.

Of the vendored PDF.js, seen by comparing a property that does not hold with one that
does:

* A page that is loaded while its zoom is restricted gets its detail view at the
  next scroll only. A page that was scrolled past and arrives late may evict a
  visible one, which the next kick of the queue draws again.
* In wrapped rows and spreads `getVisibleElements` finds no page when the bottom of the
  last one is above the view while a neighbour in its row is visible.
* `setDocument`'s requests for pages do not ask which document is shown when they are
  answered. Destroyed documents reject instead, which keeps `PagesBelong`; "pagesloaded"
  can come early by such rejections. An answer for a page without a view throws and ends
  its loop.
* `goToDestination` applies the destination of a replaced document to its successor; the
  page number is checked against the range only.
* A link to the lower edge of a page, followed when the view begins there already, makes
  that page the current one without a scroll (8777-8806): the controls show a page that
  ends just above the view until the next event (`EndsAbove`).
* The location is rounded to whole points (9061-9062). When less than half a point of the
  first page is shown, a zoom goes back to its lower edge, and it is not in view.
* The delay of detail views that were cancelled never happens (9222), see `Rendering`.
* An update of the file keeps the page and not the place within the page.
* A zoom that only scales the canvas while it is drawn may have the links of a page
  injected before its annotations are rendered; a chain of an earlier draw may build
  the editor layer over an annotation layer that is not rendered yet; and a structure
  tree that is late is put into the canvas of a later draw. All of these are repaired
  by the chain of the later draw.

## 7. What could follow

1. A model of the sessions file once it is locked: an abstract map of names to sessions
   that each process implements.
2. The retry of a launch on a port clash, with the port as shared state.
