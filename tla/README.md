# A TLA+ model of claudops

claudops runs Claude Code instances in Docker containers on one machine. One Node
process serves the API and the web UI, keeps identities in SQLite, and asks Docker
for everything else. The database is synchronous and Docker is not: nearly every
handler reads a row, awaits Docker, and then acts on what it read. What goes wrong
there goes wrong *between* two awaits, which is why this project exists beside the
unit tests.

- [Inventory](#inventory)
- [Modules](#modules)
- [Instances](#instances)
- [ImageBuilder](#imagebuilder)
- [Activity](#activity)
- [ModelSwitch](#modelswitch)
- [Terminal](#terminal)
- [Session](#session)
- [Files](#files)
- [Firewall](#firewall)
- [The web client](#the-web-client)
- [Runs](#runs)
- [Proofs](#proofs)
- [What the runs found](#what-the-runs-found)
- [Not modelled](#not-modelled)

## Inventory

Paths are under `src/server/src` unless they start with `src/`.

| Component | State it keeps | Operations | Talks to | What is hard |
| --- | --- | --- | --- | --- |
| Instance lifecycle (`instances/service.ts`, `db/instances.ts`) | `instances` rows: id, `container_id`, project, model, effort | create, delete, stop, start, list/get, startup reconcile | Docker engine; project service for the template; activity tracker | handlers interleave at every Docker call; a crash between row and container; cleanup that fails; a reconcile that works from a snapshot while requests are served |
| Docker engine (`docker/dockerode-engine.ts`) | none of its own; containers, volumes, images, execs live in the daemon | run/remove/stop/start container, list and remove volumes, build and remove image, exec, attach, archives | the daemon, without timeouts | which answers count as success (404, 409, 304); start that fails after create |
| Project images (`projects/images.ts`, `projects/service.ts`, `projects/routes.ts`, `db/projects.ts`) | `image_status`, blocks, log; a promise chain and the set `queued` | request, build, flush, remove, resumePending; project create, PATCH, rebuild, delete | Docker engine; instance creation reads the status | an edit during a build; the outcome written over it; the chain lost in a restart; a deleted project still being built |
| Activity (`instances/activity.ts`, `status/routes.ts`, `src/docker/base/claudops-status`) | two maps in memory: activity with time, last probe | record (hook), observePane, beginProbe, forget | hooks over the status port; pane probes by un-awaited exec | late probe answers, lost reports, restart, delete, stop/start |
| Model switch (`instances/service.ts` `setModelEffort`) | row, two override files in the container, the running session | PATCH | Docker exec, tmux, `entrypoint.sh` | three places to keep in step over several awaits, two PATCHes at once |
| Terminal bridge (`terminal/*.ts`) | per socket: `ending`, `alive`, paused stream | attach, frames both ways, resize, heartbeat, close | WebSocket, exec stream | either side may end first, during attach too |
| Uploads and files (`instances/files.ts`, `instances/service.ts`, `docker/tar.ts`) | files in the container | upload with quota, list, read | exec, archive | quota measured before an await; size checked before the read; an archive in chunks |
| Login and sessions (`auth/*.ts`, `src/web/src/main.ts`, `router.ts`, `views/login.ts`) | failure map per address; the browser's cookie, its address and its page | login, gate, renewal, logout | every request of the browser | a stateless token, renewed by answers that race a logout; window and bound of the map |
| Container entrypoint (`src/docker/base/entrypoint.sh`) | tmux session | start, shutdown | firewall script, git, tmux | Claude only behind the firewall |
| Egress firewall (`src/docker/base/init-firewall.sh`) | filter tables, ipset, state file | seal, resolve, install, probe, refresh | iptables, ipset, DNS | fail closed at every step |
| Web: list and notifier (`src/web/src/views/list.ts`, `notify.ts`) | what is on screen, last activities | poll, choose, power, delete, create | the API | answers out of order, a table that must not be repainted under its user |
| Web: console and files panel (`views/console.ts`, `views/files.ts`, `terminal/session.ts`) | socket, size, uploads; tree, preview, object URL | connect, fit, attach; unfold, show | the terminal socket, the API | late events of an older socket, late answers for an older path |
| Web: projects (`views/projects.ts`, `api.ts`) | list, open log, form | poll while building, read the log, save, drop a secret, delete | the API | a log that must be read once more after the last poll; one form for many projects |


## Modules

| Module | What it is |
| --- | --- |
| `Instances` | rows and containers under create, DELETE, reconcile, stop/start, crashes |
| `InstanceLife` | the abstract life of one instance; `Instances` implements it |
| `InstancesProofs` | inductive invariant, safety theorems and the refinement |
| `ImageBuilder` | project status, blocks, image tag, build chain, routes, restart |
| `ImageBuilderProofs` | inductive invariant and safety theorems |
| `Activity` | the activity tracker between hooks, pane probes, views and DELETE |
| `ModelSwitch` | PATCHes of model and effort: row, override files, session, the next start |
| `ModelSwitchProofs` | type correctness and three invariants over any number of PATCHes |
| `Terminal` | one WebSocket, one exec and the bridge between them |
| `TerminalProofs` | type correctness and three invariants over any number of frames |
| `Session` | login and its brake, the cookie, the gate, and the browser that carries it |
| `SessionProofs` | type correctness, the brake, the logout and the renewal, for any number of requests |
| `Files` | uploads, listings and reads of one instance, and the agent in its container |
| `FilesProofs` | type correctness and the invariants of uploads, listings and reads |
| `Firewall` | the firewall script, the entrypoint that runs it, restarts |
| `FirewallProofs` | inductive invariant and two safety theorems |
| `Page` | the page that is mounted, and destroyed |
| `ListView`, `ConsoleView`, `FilesPanel`, `ProjectsView`, `ProjectForm` | one page or panel of the web client each |
| `ProjectStore` | the secrets of the projects on the server, which `ProjectForm` changes |
| `Web` | the composition of the pages |
| `ViewProofs` | what is told to the browser and what it makes of it: `Activity` and `Web`, for any number of everything |
| `MCInstances`, `MCImageBuilder`, `MCActivity`, `MCModelSwitch`, `MCFiles`, `MCFirewall`, `MCWeb` | the same modules for TLC (symmetry sets, names, sizes) |

An action is what the code does between two awaits, or what the daemon, a container
or a browser does in between. Definitions named "deviation" in a comment are not part
of any specification: each is a plausible mistake in the definition that follows it,
used to see that a property would notice.

## Instances

| Code | Model |
| --- | --- |
| `instances` row, `container_id` | `containerId[i]`: `NoRow`, `NoContainer` or a container |
| the daemon's containers and their label | `docker[c]`, `label[c]` |
| a labelled volume no container holds | `i \in volumes` |
| `create` up to, between and after its awaits | `CreateRow`; `DockerCreates`, `DockerStarts`; `Attach`; on errors `CreateFails`, `StartFails`, `AttachFails`, `Cleanup`, `CleanupFails`, `Rollback` |
| `delete` | `DeleteBegin`, `DeleteContainer`, `DeleteListsVolumes`, `DeleteVolume`, `DeleteRow`, `DeleteFails`, one handler per request |
| `reconcile`, started by `onReady` and not awaited | `Restart` (the snapshot is read in the same turn), `RecLists`, `RecRemoves`, `RecDetaches`, `RecListsVolumes`, `RecRemovesVolume`, `RecEnds`, `RecSkips` |
| `removeContainer` and the answers it takes for success | `RemoveContainer`, `InProgress` |
| `stop`, `start`, an OOM kill, `docker rm` by hand | `StopContainer`, `StartContainer`, `ContainerExits`, `RemovedByHand`, `RemovalEnds` |
| the process dies and starts again | `Restart` |

Abstractions, all of them deliberate: ids are never reused (random UUIDs) and Docker
hands out each container id once; a create makes at most one container;
a create that is refused before its row is written is no step; the readiness of the
project's image is left to `ImageBuilder`; labelled volumes arise only from outside,
one per instance; a listing is one atomic look at the daemon. A removal that a handler
waits for is done, fails, or is answered 409 because another one is under way: that of
another handler, one by hand, or one the process before this asked for. `isGone` takes
the 409 for success, and the other removal may yet fail. `leftovers` and `contested` are
history variables: what was out of step when the process began, and which containers
are still there although a removal was answered 409, and to whom it was.

Properties: a row never names a foreign container (`OwnContainer`); a DELETE never
outruns its container (`RowOutlivesContainer`); a create that failed leaves nothing
(`FailedCreateLeavesNothing`); a pass without failures leaves none of the three
leftovers (`ReconcileRestores`); the whole implements `InstanceLife`
(`ImplementsLife`). The three in the middle except a container whose removal was
answered 409 to the very caller they speak of: a DELETE that meets another one goes on
to the volumes and the row, and when the other's removal fails, the row is gone and the
container is not, which "if the removal fails the row survives" (`service.ts`, `delete`)
does not foresee. The startup pass is
not awaited and judges by its snapshot: a container that was created and attached
meanwhile may be removed under its row, and `ImplementsLife` says what is left then, a
row whose container is missing. That only a container that is gone is forgotten
(`OnlyMissingDetached`) and `TypeOK` are proved.

## ImageBuilder

| Code | Model |
| --- | --- |
| `projects` row: `image_status`, blocks | `status[p]`, `blocks[p]` |
| instances of the project | `rows[p]` |
| the tag in Docker | `image[p]`: the blocks it was built with |
| the promise chain, `queued` | `queue`, `queued` |
| the running build | `job`, `spec`, `tagged` |
| `DELETE` waiting for `images.remove` | `removing` |
| routes | `CreateProject`, `Patch`, `Rebuild`, `DeleteProject`, `ImageRemoved`, `CreateInstance`, `DeleteInstance` |
| `build` | `BuildBegins`, `Flush`, `DaemonTags`, `BuildReady`, `BuildFails` |
| death and `resumePending` | `Restart` |

`TurnOver` states what the event loop gives for free: the chain advances in
microtasks, so no request is handled between the end of one build and the beginning of
the next. The log's text and `builtAt` are left out. An interrupted daemon build has
tagged its image by the time of the restart or never does. Projects are resumed in any
order (the code: oldest first). Nobody removes a tag by hand; the code answers that
with an error when an instance is created, and the status column does not change.
A failing write to SQLite is taken for the death of the process.

Properties: `pending` means queued (`PendingIsQueued`), once (`QueuedOnce`), and
`building` means being built (`BuildingIsRunning`), together `StatusAgrees`; an
instance's project and image exist (`InstanceHasImage`); an outdated `ready` is about
to be rebuilt (`OutdatedIsQueued`); everything settles (`BuildsSettle`). That deleted
stays deleted (`DeletedStays`) is proved. `ready` is written over the `pending` of an
edit made during the build: while the rebuild waits behind another project, instances
start from the old image, and as that rebuild is only in memory (`resumePending`
requeues `pending` and `building` rows) a restart in between drops it. That is why
`OutdatedIsQueued` is stated of a process that has not been restarted.

## Activity

| Code | Model |
| --- | --- |
| `states` entry: activity, `at` | `known`, `age` |
| `probes` entry | `sinceProbe` |
| what Claude really does, the container | `claude`, moved by `Container` (external, except stop, start and delete) |
| the hook's `curl` | `report`; `ReportArrives`, `ReportLost` |
| `GET /instances/:id` | `view`; `ViewAsks`, `DockerLists`, `DockerListFails`, `ViewAnswers` |
| an un-awaited `capture-pane` | `probe[p]`; `Captures`, `ProbeFails`, `ProbeAnswers` |
| `delete`'s last turn, a restart | `InstanceDeleted`, `Restart` |

The maps are keyed by instance and never read for another one, so the model has one
instance. Claude waits for its hooks (the script's `--max-time` exists because of
that), so reports do not overtake each other; they may be lost, and may arrive after
the container stopped. The pane shows the interrupt hint exactly while a turn runs,
which is the assumption the code itself makes. Time is counted in ticks up to the two
thresholds; only their comparison matters, and the proofs hold for any two. A view
waits when `Probes` probes are already in flight; the code has no such bound.

Properties: a question on record is not probed, and only a report, the DELETE, a restart
or a look at the pane that had already seen a turn running takes it off
(`QuestionStands`). The last of these the code's comment rules out (`activity.ts:129`, "it
must never overwrite a `needs_input`"): the run `question_overwritten` shows that it
happens (`PaneKeepsQuestions` fails). A deleted instance is not revived by late reports or views
(`StaysForgotten`); a `running` ends although its Stop was lost (`RunningEnds`); a
restart is caught up with (`Relearned`). Stop and start do not reach the tracker, so a
new Claude is reported with the activity of the old one until the pane is read or the
next hook comes: `RunningEnds` is what holds.

## ModelSwitch

| Code | Model |
| --- | --- |
| the row's `model`, `effort` | `row` |
| `CLAUDE_MODEL`, `CLAUDE_EFFORT` of the container | `env`, never changed |
| `~/.claudops/model`, `~/.claudops/effort` | `file`: `NoFile`, `Null` for an empty one, a value, or `Garbled` where two scripts wrote over each other |
| the script of `overrideCommand`, running in the container | `write`: `WritesModel`, `OpensEffort`, `WritesEffort`, `ScriptFails` |
| the container, from the entrypoint's start to a tmux session | `box`; `ContainerStops`, `ContainerStarts`, `ReadsModel`, `ReadsEffort`, `SessionUp` |
| the Claude in the pane, what stands in its prompt | `session`, `prompt`; `HumanTypes`, `HumanSubmits` |
| `setModelEffort` between its awaits | `PatchArrives`; `SeesReady` or `SeesNotReady`; `Overrides`; `Types` and `Enters` for each of the two commands; `Records` |
| its errors | `ExecRefused`, `CallFails`, `Restart`; `Mistaken` for an exec that `exitCodeOf` takes for a success while it is still running |

Values are only ever compared, so one model and one effort beside Claude Code's own
default are enough for TLC, and the proofs hold for any. The names a PATCH may ask for
are left to the schema. `ready` is both a tmux session and a healthcheck that reports
it; a session that outlives a failed healthcheck is not modelled. A container
that is started without Claude, because the firewall failed, belongs to the firewall
module. What Claude does with a line is external
(`Submit`): a line that is one command is obeyed, or answered with the dialog of a warm
prompt cache that nobody has to answer; every other line is a message to it. The
instance keeps its container; DELETE is the business of `Instances`.

The script is a process of the container: a redirection empties a file when it opens it,
`printf` fills it afterwards, and the script goes on when the handler that asked for it
has lost its answer or died with the server. Such a script counts as a PATCH under way.
The entrypoint reads the two files one after the other, so a start can find one of them
empty, or one new and one old. Two scripts that overlap may leave a mixture of their
values (`Garbled`); that it could spell a third allowed name is left out. So are keys of
a misjudged exec that reach the pane late: a session it concerns counts as spoilt.

History variables: `told`, the choices the container has ever been given; `assumed`,
those a handler took for given without knowing; `settled`, no PATCH has failed half way,
had its script misjudged or met another one since the last that succeeded alone; `spoilt`, the
session may have missed a command or read a file too early.

Properties: the row never claims what the container was not told (`RowWasTold`); after
a PATCH that succeeded alone, the next start uses what the row says, whatever failed
before it (`NextStartAgrees`), which makes precise that a half-done PATCH is repaired
by the next one, with one exception: a PATCH that asks for what the row already says is
answered without a step and repairs nothing. Two PATCHes at a time may leave the files
with one choice and the row with another, both answered 200, so the property is of a
PATCH that met no other. And then the session agrees as well, if
nothing got between the commands and Claude (`SessionAgrees`), a reset of the model
excepted, as the code's comment says.

Two exceptions are the code's own and documented nowhere. `exitCodeOf` asks twice
because a zero for an exec that is still running "would call a failed command
successful" (`dockerode-engine.ts:224-227`), and returns that zero after the second time:
what such a script was to write may be in the row and nowhere else (`assumed` in
`RowWasTold`). And a PATCH rewrites both files, the one whose value it does not change
included: a start in the moment in which that file is empty brings up a session without
the value, and no command will follow (`Torn` in `SessionAgrees`).

## Terminal

| Code | Model |
| --- | --- |
| the browser: what it has sent and shown | `browser`, `typed`, `screen`; `Sends`, `Leaves`, `FallsSilent` |
| the socket at the server: `readyState`, `pause()`, frames taken | `sock`, `held`, `taken`; `HearsClose`, `Resets`, `ClosesDone`, all with `CloseEvent` |
| the route's handler | `route`; `ExecStarts`, `Wires`, `Refuses` |
| the exec, its stdin and its output | `exec`, `stdin`, `written`; `ExecWrites`, `SessionEnds`, `Detaches` |
| the duplex, `stream.pause()`, the frame under way | `stream`, `read`, `paused`, `unsent`; `ReadsChunk`, `GoesOut`, `SendFails` |
| `endSocket` and what calls it | `ending`; `StreamEnds`, `StreamBreaks`, `Backstop`, `ExitKnown` |
| `session.close()` | `CloseSession`, `leaving`, `Backstop` |
| the heartbeat | `beating`, `alive`; `Pings`, `Terminates`, `Answers` |

Frames and chunks are numbers in their order. A control frame changes nothing here: a
resize and an error frame leave every other piece of state alone. `Refuses` covers
every reason before the exec runs. A browser that is there answers a ping within the
interval. tmux obeys the detach sequence, which is the premise of `TMUX_DETACH`.
A stream that breaks leaves the bridge no way to end the exec (Docker cannot kill one),
and neither does the death of the server; the first is an exception in `ExecEnds`, the
second is not modelled.

Properties: every key reaches the exec in order, those typed during the attach included
(`NoKeyIsLost`); a session that ends is shown to its end (`SeenToTheEnd`) and as ended,
and no frame leaves the stream paused (`EndIsTold` and `ScreenCatchesUp`, together
`ConsoleKeepsUp`); a browser that is gone leaves no exec attached (`ExecEnds`), except
where its socket closed during the attach: then the close event comes before the bridge
listens, and nobody ends the exec. That a slow client holds up one frame
(`OneFrameAtATime`) is proved.

## Session

| Code | Model |
| --- | --- |
| the map of failed logins | `failures[a]`: count and ticks left; `Locked`, `Purged`, `Recorded` |
| `POST /login`, `/logout`, everything behind the gate | `LoginRoute`, `LogoutRoute`, `Gate`, with `Verified` and `ShouldRenew` |
| the cookie | `jar`: the ticks left of the token in it; `Keeps` where an answer sets none |
| requests under way and their answers | `req[s]`; `Serves`, `Loses`, the `Hears` actions |
| `location.hash`, the mounted view | `hash`, `page`; `HashChange`, `Opens`, `UserGoes` |
| other clients | `OtherGuess` |

A token is only its remaining life, in ticks, which are hours against the seconds of a
request: a tick passes when nothing is under way and a list that is open has been
answered since the last one. `gone` is history: logged out with nothing else under way,
and no login answered since.

Properties: who logged out stays out (`LogoutSticks`); an address that is locked stays
so for its window and cannot be freed or kept locked by attempts, and the map grows
past its limit only when every entry is live (`BrakeHolds`; there is no hard bound);
the passing of time does not log out a browser that has the list open (`KeptIn`); a
list whose session is gone ends at the form (`EndsAtTheForm`).

What the model shows beside them: a poll under way when somebody logs out, with a token
past its half, is answered with a renewed cookie and undoes the logout, which is why
`gone` asks for nothing else under way; the comment at `views/list.ts:120` that the
cookie is gone either way does not hold for a call that fails; a 401 to a request sent
before a login throws the browser back to the form after it.

## Files

| Code | Model |
| --- | --- |
| `uploadFileName` | `UploadFileName`, on sequences of characters |
| `upload`: the running container, the quota, the archive, the line typed | `UploadArrives`, `Finds`, `Measures` (with `Used`, `Fits`), `Puts`, `Announces` |
| `listFiles` | `ListArrives`, `Finds`, `Checks`, `Opens`, `Lists` |
| `readFile`, `readFirstEntry` | `ReadArrives`, `Finds`, `Checks`, `Stats`, `Fetches`, `ChunkArrives`, `StreamEnds` |
| a call that fails, a script with an exit code of no meaning | `Refused`, `Fails` |
| an exec that still runs at both inspects (`exitCodeOf`) | `MeasuresShort`, `RefusalMissed` |
| the container, the agent in it | `BoxChanges`, `AgentWrites`, `AgentTidies` |

A path is what its scripts find there (`Targets`): file, directory, link, out of the
workspace by itself or through a directory above it, missing, with a size; the agent
changes it between any two steps, and `steady` records whether it did so since the
check. `resolveWorkspacePath` is a function on text without a state, and taken as
passed. An archive is its header (`Block`), its flag and its length, and comes in chunks
of any size. `find` hands out any number of entries if it fails or the directory changes
under it; the one that measures the quota counts in one step.

Properties: the quota is exceeded only by uploads under way at the same time, and by
one file each (`OverrunIsParallel`); every name is one usable file name
(`NamesAreUsable`); a listing that was cut says so, and only then (`ListingIsTrue`); a
read answers what the archive amounts to, wherever it is cut and whatever the agent did
since its size was asked, and takes no more of it than decides that (`ReadIsExact`).

Exceptions the properties state, each a behaviour of the code:

- `OverrunIsParallel` ends with a measuring that failed and passed for a success:
  `exitCodeOf` answers 0 for an exec that both of its inspects see running
  (`docker/dockerode-engine.ts:229-236`), and what was counted till then is the quota.
- `ListingIsTrue` is not stated of a `find` that failed or whose directory changed under
  it: `LIST_SCRIPT` drops its errors, and the exit code is that of `head`
  (`instances/files.ts:170-171`), so the answer is a 200 with entries missing and
  `truncated` false. Nor is it of a refusal that both inspects missed, which is an
  empty listing.
- `ReadIsExact` admits a file from outside the workspace if the path was changed after
  its check: `getArchive` resolves the path again and follows the links above its last
  name, and nothing checks it then.
- A regular file whose flag is NUL is refused as no file: `docker/tar.ts:143-146` means
  to read it, but `readAscii` (171-183) has ended the field at that very NUL.

What the model states of the code as it is: an upload under a name that exists is
counted on top of the file it replaces; an archive of fewer bytes than a header is
answered as an empty one; a container that stops between the archive and the line
answers with an error although the file is there. One detail of the reader has no
place in it: a name ends at its first space (`docker/tar.ts` takes it from a padded
field).

## Firewall

| Code | Model |
| --- | --- |
| the filter tables, IPv4 and IPv6 | `net`, the calls that took effect; `Hole`, `Leaves`, `LeavesOnSix` |
| the ipset, the refresh loop | `allow`, `loop`; `Refreshes` |
| the steps of the script | `run.step`; `Begins`, `MakesChain`, `MakesSet`, `Resolves`, `Installs`, `Succeeds`, `ProbeFails` |
| `seal`, the EXIT trap | `Sealings`, `Listed`, `Trapped`, `Fails`; a kill that no trap sees is `Killed` |
| `/run` state file | `file`: its token, and whether it was written since the start |
| `entrypoint.sh` | `Starts`, `SetsUp`, `Stops`, `claude` |
| the agent, who may run the script with names of its own | `RunsAgain` |

Destinations are addresses, served by names of which a look-up finds some or none.
Loopback, the nameservers and the status port are not destinations. Of the calls the
script does not check any may be without effect, those of `seal` included, and where
ip6tables cannot be listed none of IPv6's is made ("nothing to filter"). The accepts
that are not the set's, and INPUT, only ever narrow. A probe may fail to reach a host
the filter lets through. The state file can be written. One run of the script at a time.

Properties: Claude runs, where the firewall is asked for, only behind an active filter
that lets nothing out but what the operator allowed (`ClaudeIsConfined`); the state
file says no more than the tables do (`StateIsTrue`). The file survives a restart, so
it means something only from its first write on (`file.fresh`).

Exceptions the properties state, each a behaviour of the code:

- `ClaudeIsConfined`: no rule is checked when it is installed
  (`init-firewall.sh:275-331`). The policy and the REJECT behind the jump are two locks
  on one door, so IPv4 is open only if two calls failed (`Hole`); IPv6 is open if the
  two of ip6tables failed or if ip6tables could not be listed (329-331). Either way the
  one thing that would notice is the probe of example.com, and that passes whenever
  example.com does not answer (`missed`): then the state is "active" and Claude starts.
- `StateIsTrue`: "failed" comes with the text "egress sealed: loopback only", and
  `entrypoint.sh:223` repeats it. `seal` does not touch ip6tables, so it is true of IPv4
  only; and if its flush of OUTPUT fails, which nothing checks, the way to the set
  stays. What it does check is the policy.

## The web client

`Web` composes the pages. A page begins from nothing and is destroyed when another is
opened; what it awaits still arrives and finds `destroyed` (`Page`). A request changes
the server with its answer, a list is read when it is asked for, and answers come in
any order.

| Module | Code | Properties |
| --- | --- | --- |
| `ListView` | polls (`Polls`, `Hears`, `PollFails`), dropdowns (`Focuses`, `Blurs`, `Applies`, `Switched`), buttons (`PressesPower`, `ClicksDelete`, `Creates` and their answers), the notifier (`Announced`) | `DeleteIsConfirmed`, `ListIsTrue`, `ListCatchesUp` |
| `ConsoleView` | sockets (`Connects`, `Opens`, `CloseArrives`), the size (`Resizes`, `Fits`), attached files (`Attaches`, `Uploaded`) | `ConsoleIsTrue` |
| `FilesPanel` | the tree (`Folds`, `Loaded`, `RefreshesTree`), the preview (`Clicks`, `Read`, `ReadFails`, `Decoded`) | `PanelIsTrue` |
| `ProjectsView` | the list and its timer (`TimerFires`, `Schedules`, `ListArrives`), the log (`TogglesLog`, `LogArrives`), requests (`Answered`) | `ProjectsPageIsTrue`, `LogIsCompleted` |
| `ProjectForm` | the form (`StartsEditing`, `Cancel`, `Submits`, `DropsSecret`, `Deletes`, `Answers`) | `ProjectsPageIsTrue` |
| `ProjectStore` | `insert`, `update`, `delete`, `writeEnv` of the server (`Inserts`, `Updates`, `Removes`, `Merged`) | `SecretsAreKept` |

The panel and the form are pages of their own here: what they share with their
neighbours is a call to refresh, which the neighbour allows at any time. Secrets are a
token and the names of variables; in a form they are typed or left blank
(`withoutBlanks`). Ready and failed builds differ by `builtAt`, which a failed one
keeps, and the log of an image is known by the build that was started last.

Exceptions the properties state, each a behaviour of the code:

- `ListIsTrue`: a list that overtakes an older one may announce a turn twice. A click
  on Delete and the arrival of the projects repaint the rows whether or not one is in
  use, so a second switch of the same instance can be sent while the first is under way
  (against `views/list.ts:526-528`); nothing else lets that happen.
- `ConsoleIsTrue`: a resize while the socket is connecting does not reach the pane.
- `LogIsCompleted`, `ProjectsPageIsTrue`: nothing schedules a poll after a refused list; a
  list or a log that overtakes an older one leaves the older on screen; and a build that
  fails as the one before it did has the same status and `builtAt`. If the panel still
  holds the log of that one when the list comes, the end of the new build is not read:
  because no list has shown it in flight, or because one did and the log it asked for
  came after the next list (`MayBeShort`). Then an old log, or a part of the new one,
  stays, although "it cannot have changed" is what `views/projects.ts:341` says.
- `ProjectsPageIsTrue`: the answer to a dropped variable that finds another form
  (`wrong_project`).

Left as they are, without a property: uploads go on after the console was left, and a
new console has its own `uploading`; a refused log empties the panel of whichever
project is open; a save's answer empties a form that was filled meanwhile; builds that
somebody else starts are not followed until a list is asked for.

## Runs

| Run | Bounds | Shows |
| --- | --- | --- |
| `instances` | 2 instances, 2 containers, 1 DELETE handler, 2 faults, 1 restart | the safety properties and the refinement; 2 faults let a start and its cleanup fail, 1 restart gives a process with leftovers, 2 instances can be confused with each other; the removals a DELETE can meet are those by hand, of the sweep and of the process before. Two DELETEs and more are covered by the theorems; two of one instance, and of two with 1 fault, were also checked |
| `image_builder` | 2 projects, 2 block sets, 3 edits, 2 faults, 1 restart, 1 instance each | everything about the chain; two projects are what a wait behind another build needs, three edits an edit during the build of an edit |
| `activity` | 2 probes, thresholds 2 and 1, 1 fault, 1 restart | two probes can answer in the wrong order; `StaleAfter > ProbeInterval` as in the code |
| `model_switch` | 1 model, 1 effort, 2 handlers, 3 PATCHes, 1 fault, 1 stop or human input | two PATCHes that meet, or one that leaves its script behind, and a third that repairs; a stop and start, with its two reads, in any of them. Two PATCHes with 2 faults, a stop and a human input were also checked |
| `terminal` | 3 frames, the second a control frame, 3 chunks | keys before and behind a control frame; one chunk read, one waiting, one to come when either side ends |
| `session` | 2 addresses, 2 requests at a time, a token of 3 ticks, 2 guesses, a window of 1 tick, a map of 1, 1 lost request | two requests are what a race of answers needs, three ticks a token before, at and past its half, a map of one an address that does not fit |
| `files` | 3 uploads, or one listing or read (they share nothing with other requests), 3 names, sizes to 2 with limits of 1, a header of 2 and chunks to 2 | each limit met and passed by one; chunks that end before, at and behind every border; names that lose a directory, their dots, an illegal character, their middle or everything |
| `firewall` | 4 names, 5 addresses, one of them in two names | a name that is allowed and shares an address with one that is not, one only the agent adds, and example.com behind an allowed name; every combination of calls without effect |
| `web` | 1 instance, 2 lists under way, 3 events; 3 sockets, resizes, 2 selections of 2 files; 1 directory, 2 files, 2 loads; 2 projects, one of them moving, 2 lists and 2 logs under way, 1 request; a form for 3 projects and 3 requests | two answers can overtake each other on every page; three requests are a drop, another form and a save. The projects page alone was also checked with two requests |
| `unknown_container`, `question_overwritten`, `wrong_project` | as small as the disagreement allows | [the findings](#what-the-runs-found) |

Every bound that is not a set is a constant with a name (`MaxFaults`, `MaxRestarts`,
`MaxEdits`, `MaxRows`, `MaxPatches`, `MaxOutside`, `MaxFrames`, `MaxChunks`,
`MaxPolls`, `MaxEvents`, `MaxSockets`, `MaxResizes`, `MaxDrops`, `MaxFiles`,
`MaxLoads`, `MaxBeside`, `MaxLists`, `MaxSteps`, `MaxRequests`) and a guard that uses it. Deadlock is not checked: a server
nobody asks for anything does stop.

Fairness. Node runs what is runnable, and the daemon answers every call with a result
or an error (dockerode sets no timeout, and the code relies on just that), so every
handler, pass and build that has begun is weakly fair; a request that nobody sends is
not. `Activity` adds that a browser with the list open asks every three seconds
(`src/web/src/views/list.ts`), and says nothing of Claude. In `Terminal`, Docker answers, timers
fire, events are handled, and a browser that is there takes what it is sent; that it
types or leaves and that the exec writes is never assumed. `ModelSwitch` states no
fairness, nor do `Files` and `Firewall`. In `Session` the server answers, the browser
hears it, the list polls and a changed address is rendered; nobody has to log in. In
`Web` timers fire, requests are answered and a build that was queued ends. Faults and
restarts are never fair.

## Proofs

`tlapm` proves every obligation of the eight proof modules for all values of the
constants that satisfy the named assumptions: the sentinels lie outside the sets they
extend, bounds are naturals, the sets of projects, handlers and addresses are finite,
names are sequences of characters. Every safety property a run checks is a theorem; the
inductive invariants were checked by TLC before they were proved.

`InstancesProofs`. `OwnContainer` is not inductive: that an attach writes a row's own
container depends on what the create remembers of its own. `IInv` adds three parts to
`TypeOK`. *Ownership*: a container in use was made for the instance on its label, a
create knows the container it made, a row names it only after the attach. *Making*:
what Docker may say of a create's container at each point of the create. *Removing*: a
handler has a target and, past its first await, a container that is gone or was
contested. There is one lemma
per action, and the theorems follow from `IInv`, among them the refinement:
`ImplementsLife` maps every step to a step of `InstanceLife` or a stutter, with
`life` and `box` computed by `LifeOf` and `BoxOf`.

`ReconcileRestores` has an invariant of its own on top of that, one part for each kind
of leftover, each saying what the pass knows at each of its points: a left container is
an orphan from the listing on (`ContainersGo`), a left row's create has ended, so that
nothing attaches a container to it behind the pass (`RowsForget`), and a left volume
is of an instance whose one container is gone (`VolumesGo`). What the
others do meanwhile enters through one relation, `Bystanding`: gone is gone, a label
stays, a volume appears only where a container was.

`ImageBuilderProofs`. The invariant ties `queued` to the chain (exactly the projects
on it, each once), status to chain and build, and an instance's row to a tag that
nobody is removing. Chain lemmas (`RequestChain`, `BeginChain`, `OrdersChain`) say what
appending, taking and rebuilding the chain do to it.

`ModelSwitchProofs`. `RowWasTold` needs what a handler has told the container by the
time it records (`ToldFirst`), and that the script it waits for writes what it wants
(`ScriptIsOurs`). `NextStartAgrees` speaks of quiet states only; in between, a handler
marked `alone` is the only one in flight and no other script runs (`AloneIsAlone`),
while `settled` holds every handler in flight is alone (`SettledIsAlone`), what an alone
handler has written stays until it is through, and is known at each stage of its script
(`WrittenStays`, `Halfway`), and as long as nobody writes or has written, the overrides
say what the row says (`Agreement`). `SessionAgrees` follows the commands through the
prompt and the two reads of a start (`Known`): before a handler is at the overrides the
session is as the row says and the prompt holds text at most (`BeforeFits`); while its
script runs what it will not type is as it should be (`WritingFits`); from there on what
it need not type is as it wants it already, and what it does type is in the prompt until
somebody, the handler or the human, has entered it (`AfterFits`).

`TerminalProofs`. `Attaching` says what is still untouched before the bridge is wired,
`KeysInOrder` that stdin holds exactly the keys taken while the stream is open, `Shown`
that for a browser that stayed every chunk read is on the screen or the one under way,
`EndedIsRead` that a stream ends only when it has been read, and `ClosingIsOver` that
the server closes the socket only after that.

`FirewallProofs`. `RunFits` says who may be running the script and what is in place at each
of its steps, `SetFits` that the entrypoint's run puts only the whitelist's addresses
into the set, `ClaudeFits` what stands while Claude runs (the chain, what the probe has
seen or missed (`Probed`), a set and a loop within the whitelist, whatever the agent's own
run failed at), and `FileFits` what each token implies of the tables. Every checked step
may fail, and one lemma carries all of that (`TrappedIInv`).

`SessionProofs`. `AnswersFit` says which answers set the cookie (only "ok", and a
logout's clears it), `GoneFits` that once logged out for good whatever goes through the
gate carries no token and so can set none. The brake needs no more than the types, which
say that no entry is counted past `MaxFailures`; `RecordedBrake` follows one failure
through the purge, with the cardinality of the table before and after. `KeptIn` is an
action property whose invariant relates every request under way to the jar
(`JarLasts`, `KnowsIt`): a token sent past its half comes back renewed, and one that
was not renewed was not past it. It is proved for a life of three ticks or more, and
fails for two: a tick may then take a token that was just not renewed. In the code the
life is twelve hours and polls are three seconds apart.

`FilesProofs`. `ReadFits` says of a read under way that it is unanswered, that its
header has been looked at exactly if a block is held, and that one that goes on past it
is of a file within the limit that has not all come; before that, that a path which is
still as it was checked is within the workspace. `ListFits` is what the listing
promises. Handlers only touch their own request, so one lemma (`OneChanges`) carries
every action but the agent's, which takes `steady` from whatever was checked
(`UnsettledFits`). `OverrunIsParallel` adds up sizes over the directory and over the
requests. Sums are folds and the provers know no induction over them, so the model
counts bytes as the elements of a set of pairs (`Bytes`), whose cardinality is the sum;
`BytesWithOne` and `BytesWithoutOne` say what one file more or less makes of it, and the
invariant (`Room`) adds only that the directory is finite. `NamesAreUsable` follows
`uploadFileName` step by step: what is cleaned has legal characters and begins with
none but them (`CleanedIsClean`), and a name that is cut keeps that and its extension
fits (`ShortenedFits`).

`ViewProofs`, the tracker. Types are inductive (`ActivityTypeOK`); the two action
properties follow from them step by step. (The names of `Activity` carry its name
where `Web` has the same: the two are read together here.)

`ViewProofs`, the client. `WebInv` is a conjunction of one invariant per page, since a
step of a page leaves the others alone (`WebStep`).

- The list (`ListInv`): as long as no list has overtaken another, the list that is
  known, those under way and the server follow one another in the order `Before`, and
  nothing was announced beyond what is known (`InOrder`); a row with a switch under way
  that nothing has rebuilt is disabled and has no focus (`SwitchHeld`); the question
  that is open is the one the table shows (`AskShown`).
- The console (`ConsoleInv`): of the sockets only the page's own may be other than
  closed (`SocketsAreOne`); the size that was sent is the screen's unless the debounce
  runs, and the pane's unless a resize was lost (`SizesAgree`); one selection at a time
  is being uploaded, behind all that is typed (`OneSelection`).
- The panel (`PanelInv`): the object URL that is held is the one that is shown, and
  none is where there is no panel.
- The projects table (`ProjectsInv`). That a page at rest has seen the end of every
  build (`RestIsTrue`) is a statement about a state with nothing under way; the
  invariant (`InStep`) says of every other state who will still ask. A build in flight
  is in the newest list under way, or the timer runs (`Watched`); the newest list, on
  its way or painted, has the projects there are (`TableIsNewest`); logs are read in
  the order the images took (`LogsAge`), and what is shown was read before those on
  their way (`ShownAge`), where the order `AsOf` goes by the build and by how far it
  has come; and of the open log either the newest is shown or on its way, or a list
  is that will ask for it (`Followed`). It holds until an answer is refused
  or overtakes another, which is what the property excepts.
- The form (`FormInv`): an answer that drops a secret was asked for by its button
  (`DropsAreAsked`).

Only model-checked: liveness (`BuildsSettle`, `RunningEnds`,
`Relearned`, `ExecEnds`, `ConsoleKeepsUp`, `EndsAtTheForm`, `ListCatchesUp`,
`LogIsCompleted`), which is beyond the prover. For two of them the safety half is a
theorem: `SeenToTheEnd` of what `ConsoleKeepsUp` shows at the end, `RestIsTrue` of what
`LogIsCompleted` waits for.

## What the runs found

- `question_overwritten`: a look at the pane that saw a turn running, answered after the
  question was reported, takes it off the record, although "it must never overwrite a
  `needs_input`" (`activity.ts:129`).
- `unknown_container`: a DELETE during the create of the same instance leaves a running
  container that no row names, until the next start.
- `wrong_project`: a variable of a project is dropped from the form, and while that is
  under way the form is cancelled or filled with another project. The answer makes the
  first project the one that is edited and touches no field; Save then writes the
  other's fields to it.

## Not modelled

- `secrets/cipher.ts`, `status/tokens.ts`, `projects/env.ts`: cryptography and
  formatting, without state.
- Configuration (`config.ts`), plugins, the mapping of errors to status codes: read
  once, or without state. What `onReady` starts is in `Restart` of `Instances` and
  `ImageBuilder`.
- `resolveWorkspacePath` and the wording of paths: a function on text.
- The geometry of the terminal and the parsing of control frames.
- Clone, trust and credentials in `entrypoint.sh`: in order, once, before anything that
  could meet them.
- Rendering, styles, Markdown (`dom.ts`, `markdown.ts`, `styles.css`).
- tmux clients that outlive a server that died: nothing in the code looks for them.
- Which of two images of one project a container was made from: nothing the program
  keeps tells.
- A database that fails to write while the process lives: taken for its death.
- Tests and scripts, which were read as documentation.
