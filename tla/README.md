# MEICAN in TLA+

A formal model of MEICAN, the web application with which users of research
networks reserve circuits that cross several domains. MEICAN is a PHP program
(Yii 2): every action of a user and every callback of the NSI provider is a web
request of its own, served by whatever PHP process is free, and all state lives
in MySQL. There are no transactions and no locks around the handlers.

## The system

| component | state | operations |
|---|---|---|
| circuit life cycle (`modules/circuits`: `Connection`, `NSIRequester`, `RequesterController`, `ConnectionController`, `ConnectionForm`) | the row of `meican_connection`: status, resources, data plane, authorization, version, external id; the `USER_UPDATE` events | create, edit, refresh, cancel; the callbacks reserveConfirmed, reserveFailed, reserveTimeout, reserveCommitConfirmed, reserveCommitFailed, provisionConfirmed, releaseConfirmed, terminateConfirmed, dataPlaneStateChange, querySummaryConfirmed |
| authorization workflows (`modules/bpm`: `BpmFlow`; `ConnectionAuth`, `AuthorizationController`) | one row of `meican_bpm_flow_control` per circuit and domain, the rows of `meican_connection_auth` (questions and verdicts) | start, run, ask, answer, accept, deny, expire, cancel |
| workflow administration (`BpmWorkflow`, `WorkflowController`, `GraphNode`; the editor over WireIt) | graphs and which of them is active; the drawing that is open in a browser | draw, save, load, activate, disable, delete |
| reservations (`Reservation`, `ReservationForm`, `create2.js`) | a reservation and its circuits; the path and the schedule that are being drawn up | choose, draw, create, confirm |
| topology discovery (`DiscoveryService`, `DiscoveryTask`, `Change`) | rules, tasks and the changes they found | discover, apply one, apply all, delete |
| topology storage (`Domain`, `Network`, `Device`, `Port`) | the rows the discovery and the pages write | create, update, delete |
| scheduler (`ScheduledTask`, `TaskController`, `CrontabManager`) | tasks and a crontab | create, update, delete, execute |
| tester, notifications, users and their roles, monitoring | rows, and a page for each | see the modules below |
| web front end (jQuery scripts, a map over Leaflet, a graph over vis.js) | what a page holds and shows, and its requests that are not answered yet | clicks, timers, answers |
| dummy requester, OSCARS bridge, NSI parsers | | not modelled, see below |

A circuit is reserved by `Reservation::confirm`, which calls `reserve` at the
provider. The provider answers with callbacks; each handler saves the row and
makes the next call (reserve, commit, query). The answer to the query brings
the path of the circuit, and with it the domains whose workflows must
authorize it. `Connection::executeWorkflows` starts one flow per domain and
runs them; the last verdict provisions the circuit. Later the user may edit the
circuit (release, reserve, commit and provision again), refresh it or cancel
it.

What is hard here: callbacks that cross each other and the requests of the
user; a row that is a copy of the provider's state and is repaired only by
reading it; handlers that look at no status before they write one; workflows
that are continued by whichever request comes next, in loops that end only if
the data does; answers that come twice, late, or after the flow has moved on;
administrators who disable a workflow while circuits are in it. In the pages:
answers that overtake one another, because nothing matches an answer to the
state it was asked for; timers that poll for answers; dialogs that are hidden
and not emptied, and keep the handlers of every earlier opening; and lists and
drawings that several scripts keep of the same thing.

## The modules

**Connection** is one circuit, from its creation to its termination: the row
(`conn`), the newest edit (`update`), the callbacks in flight (`inbox`) and the
provider's side (`nsa`, external). Every web request is one step: its handler
loads the row, decides, saves and calls. The exception is the creation, which
waits for the provider to learn the external id: callbacks handled meanwhile
find no row and are dropped. A call is a change of `nsa` if the provider's
state machine allows it, and a fault that is swallowed if not
(`ConnectionRequesterClient` catches `SoapFault`). A call may also not get
through, by `Calls`: the handler goes on as if it had, and nobody calls again;
`faults` counts the requests this happened to. The authorization is reduced to
its outcome (`WorkflowOutcomes`, `Authorize`), and each web request about the
circuit is handled by itself here; module AuthOverlap is about those that are
not.

| state | code |
|---|---|
| `conn.status`, `.resources`, `.dataplane`, `.auth`, `.version`, `.hasId` | columns `status`, `resources_status`, `dataplane_status`, `auth_status`, `version`, `external_id IS NOT NULL` |
| `update` | `getUpdateEventInProgress`: the newest `USER_UPDATE` event, whether finished or not; its `needRelease` |
| `creating` | a request is inside `NSIRequester::create` |
| status `BLANK` | what MySQL stores for `FAILED ON CREATED`, which the ENUM of the column does not list |

**AuthWorkflow** opens the authorization of one circuit. `flow[d]` is the row
of the flow of domain `d`, `request[<<d, m>>]` the row that asks manager `m`,
`verdict[d]` the rows of type WORKFLOW, and `task` says where the request that
is being served is inside `executeWorkflows`, `continueWorkflows` or
`BpmFlow::response`. Requests are served one after the other here, each to its
end. One iteration of a loop over the domains and one call of
`BpmFlow::execute` are one step each; this is the module in which the passes of
the engine are easy to follow, and the one the promise is stated of. The graph
of a workflow is given by constants; a filter takes either output.

**AuthOverlap** is the same authorization statement by statement, since PHP
serves requests side by side and nothing locks the tables. Each query and each
save is a step; several workers take turns at every one of them, and any of
them may be killed anywhere (`Abort`).

| state | code |
|---|---|
| `flow`, `request` | the tables as sets of rows with keys, so that one domain may have two rows and a row may be gone |
| `task[w].pc`, `.at`, `.asking`, `.back` | the statement worker `w` comes to, the domain of the loop, `$asking`, and where a call returns to |
| `task[w].todo`, `.copy`, `.left`, `.asked`, `.value` | the PHP objects it has loaded: the rows of a `foreach`, the one at hand, those a disabled workflow still has, questions, a status |
| `said` | which answers managers of a domain ever sent |
| `disturbed` | whether a request ever overlapped another or was killed |

A save writes the columns that differ from what was loaded, and nothing if the
row is gone (`Saved`); a delete goes by key (`Deleted`). So `nextNodes` is
`InsertNext` and `DeleteOld`, a denial is `Deny`, `CountDenied`, `DenyAll`,
`DenyRead`, `DenySave` and `DenyTell`, a question is `FindQuestion` and
`InsertQuestion`, an approval `ReadCircuit`, `Approve`, `Provision`,
`RemoveFlows` and one `RemoveNext` for each row. Statements that only load what
no other request writes (nodes, workflows other than their `active`, domains)
belong to the step they serve.

**AuthPromise** is what the authorization promises whatever the workflows are:
verdicts come in while the circuit waits, one decision follows from them, and
it is final. `AuthWorkflow` implements it (`PromiseKept`, with `Voters` the
domains that are still known). So there are three levels: `AuthOverlap`
implements `AuthWorkflow` as long as requests are served one after the other
(`SerialImplements`), and that one the promise.

**MCAuthWorkflow** gives the workflows TLC uses: three domains, of which the
first has a filter before a user, a group and another user, the second asks a
user, and the third asks the requester and then filters. Two more sets of
edges change one workflow each: somebody is asked behind the requester, and a
user is asked twice. **MCAuthOverlap** has two domains: one that denies, or
asks a group, as a filter decides, and one that asks the requester.

**WorkflowEditor** is the editor in which an administrator draws a workflow,
and the three requests it makes.

| state | code |
|---|---|
| `page` | which page is open: the list, `create.js` or `update.js` |
| `containers` | `layer.containers`, in their order: id, module, whether the form is filled in |
| `wiring.layer`, `.containers[c]`, `.terminals[t]` | the three lists of wires that WireIt keeps: `layer.wires`, `container.wires`, `terminal.wires` |
| `drag` | the terminal a wire is being dragged from |
| `check`, `loading`, `post` | requests that are not answered: isActive, loadWorkflow, saveWorkflow |
| `server` | the saved workflow and its column `active` |

A click or a drop is one step with all the events it fires: a new wire tells
its two terminals, they tell their containers, they tell the layer, and
`MeicanContainer.onAddWire` swaps its ends if it was drawn backwards. Saving
turns containers into positions; `Accepted` is the validation of
`saveWorkflow`.

**WorkflowList** is the page that enables, disables and deletes workflows,
with `actionActive` in its two statements (`ActionActive`, `FinishActive`);
every click starts a chain of requests, and chains run side by side.
**NewWorkflow** is the page that chooses the domain of a new workflow,
**WorkflowForm** the forms over inputEx (the name, and the value of a module
edited in place), **EditorCanvas** what the editor draws: containers at places,
arrows on canvas elements that stay where they were drawn until they are drawn
again.

**WebPage** holds what the modules of the pages share. A page is a module: its
variables are what the script holds and shows and which of its requests are
under way; an action is one handler, of a click, a timer or an answer, with
everything the handler calls. Handlers do not interleave, as a browser runs
them one at a time; answers come in any order.

| module | page (script) | part of the server in it |
|---|---|---|
| **ReservationPage** | the path of a reservation (`create2.js`): points, the dialog that edits one, the map | topology, as the answers bring it |
| **SchedulePage** | its schedule (`create2.js`): a calendar of events and their dialog | |
| **CircuitPage**, **CircuitDialogs** | a circuit (`view2.js`): status block, path on the map, traffic; the dialogs that edit and cancel it | the circuit; what others change in it |
| **AuthorizationPage**, **AuthorizationCalendar** | the answers of a manager (`authorization.js`) | the status of each authorization |
| **ViewerPage** | the topology viewer (`viewer2.js`), over **LMap** and **VGraph** | |
| **TrafficPage**, **TrafficHistory** | the traffic of a domain (`traffic.js`) and the history of a link | |
| **Discovery** | a discovery task (`task.js`), with `DiscoveryService` and `Change` | the topology, the tasks and their changes |
| **RulesPage** | the discovery rules (`discovery/public/index.js`) | rules and running tasks |
| **PortsPage** | the ports of the domains (`port.js`) | the rows of the ports |
| **RolesPage** | the roles of a user (`roleDomain.js`, `roleSystem.js`) | what is posted |
| **TesterPage**, **CronWidget** | a new test (`status.js`) and its schedule (`jquery-cron.js`) | what is posted |
| **NotifyMenu** | the menu of notifications (`notify.js`) | the rows of the user's notifications, and `getNotifications`, which cuts them into pages by date |
| **FeedbackDialog** | the opinion of a user (`feedback.js`) | what was mailed |

**LMap** and **VGraph** are the two widgets as values: every method of the
classes is an operator from a map or graph to another one. `ViewerPage`,
`CircuitPage` and `ReservationPage` draw with them.

**Discovery** is the one with most of the server in it. A task reads a
description, compares it with the rows (`stored`) and stores what differs as
changes; applying one is a step, whether by a click, in the order the user
clicks, or in the loop that applies them all, type by type and within a type in
any order, as the query that reads them has none; `gen` makes a row that was
deleted and created again another row, as the primary key does.

**Pages** puts all pages into one browser: `openPage` says which is open, and
only that one takes steps. The pages share no state but the server's, so this
loses no behaviour of a page. **MCPages** gives the network TLC shows on them.

**Connection_proofs**, **AuthWorkflow_proofs**, **AuthOverlap_proofs** and
**WorkflowEditor_proofs** extend the components of those names and hold the
theorems about them; **AuthWorkflowPrompt_proofs** extends the second of them
with those about prompt answers. **FormPages_proofs** is about the pages that
fill in forms, lists and menus, **NetworkPages_proofs** about those that draw
the network and about the discovery, **Pages_proofs** about the browser that
has them all.

`Mutant` operators sit in front of the definition they vary. They are not part
of any specification; each is a plausible slip in that piece of code, and the
property it is paired with in `PROJECT.json` is violated when it replaces the
original.

## What is checked

| run | asks | bounds |
|---|---|---|
| `circuit_in_order` | does the row agree with the provider whenever nothing is in flight, and does what the provider accepted end in the row, with edits, refreshes and cancellations at any moment? | two versions (so one alteration after the first reservation), reports wait while two callbacks are in flight, none lost; the calls of one request fail |
| `circuit_any_order` | what repairs the row when callbacks overtake each other and two are lost? | one version, reports wait while three callbacks are in flight; the calls of one request fail; refreshes, no edits |
| `circuit_altered` | is a circuit that is altered an authorized one, as a comment says? No. | as the first |
| `workflow_prompt` | does the engine implement the abstract authorization, and does every request end? | three domains, five managers of which one domain has three in a row |
| `workflow_late` | is a circuit authorized that a domain did not accept, provisioned twice, or left with a flow when it is decided, when answers repeat and workflows are disabled? | the same |
| `workflow_overlap` | what holds of the single statements, when two requests overlap and may be killed, and what do they do when they do not? | two domains, two workers, three keys of rows, three beginnings and kills |
| `workflow_requester_first` | is every manager asked, if the first one is the requester? No. | as `workflow_prompt` |
| `workflow_asked_twice` | is an answer taken over when the same manager comes again? No. | as `workflow_prompt` |
| `workflow_editor` | do the lists of wires agree, does a drawn workflow have an end, and is what was saved what is loaded? | three modules on the layer, of three kinds |
| `web_pages` | does each page show and post what belongs together, whatever overtakes what? | one page at a time, see below |
| `reservation_half_filled` | is a path checked before it is posted? Only its first point. | a path of two points |
| `authorization_dialogs` | does the dialog answer the authorization it was opened for? Not only that one. | two authorizations, two openings |

What `web_pages` checks, property by property:

* `DrawnLegsFollowThePath`: moving, removing or saving a point leaves no leg of
  the old path on the map. `ListsOfTheChosen`: a port is picked from the ports
  of the chosen device, and so on, unless an overtaken answer was shown.
* `DialogIsOfTheEvent`: the dialog of the schedule changes the event it was
  opened for, and what is posted ends after it starts.
* `LinksShowDataPlane`, `PollsForAnAnswer`: the path has the colour of the
  status block; who polls for markers waits for an answer that will come.
* `OnlyTypedIsChanged`: an edit of a circuit changes what was typed since the
  form was last filled, and what others changed meanwhile.
* `MapAndGraphAgree`: the two views of the topology hold the same links, none
  before its nodes.
* `TrafficIsOfTheListed`: the traffic of a link is that of the circuits its
  dialog lists. `HistoryIsOfTheLink`: its history shows all its circuits.
* `NoticesInOrder`: notifications are shown from the newest to the oldest, none
  twice, while others are written, dated anew and deleted; what stays as it is
  is left out only if it has the date of one that is shown. Such do get left
  out: the next page is that of the dates before the last one shown, dates are
  to the second, and only some of those that write notifications avoid one that
  is taken (`Notification.php:136`, `AaaNotification.php:104` and 168).
* `PostedEndMatches`, `CronReadsBack`: a test is posted with ends that belong
  together, and its schedule reads back as it was chosen.
* `AtMostOneActive`: a domain has at most one active workflow, however the
  chains of several clicks interleave.
* `FormShowsWhatItSaves`, `CanvasShowsTheLayer`: forms and arrows show what the
  editor holds.
* `GroupsOfTheDomain`: a role is offered the groups of its domain.
* `DescribedIsThere`: once all changes of a task were applied, what was
  described is there.

Several of them name the case in which they fail (`stale`, `mixed`, `hasty`,
`overtaken`, `missed`, `unhurried`, `moved`): that is a defect of the page
which the code's authors promise nothing about, and the property says that it
is the only way in. Without that clause TLC finds each of them violated.

Why the bounds are enough: an alteration differs from a reservation only in
the version being above zero, and a second alteration starts in a state the
first one reached, so two versions see both. Answers of the provider to
requests are never held back by `MaxInbox`; only reports, which may repeat for
ever, wait. Three domains are the least with one that waits behind another
and one that has already spoken.

`AuthOverlap`: two workers are the least that overlap, and each may begin while
the other is anywhere inside its request. `MaxRequests` counts requests that
begin and kills together: three are the start of the workflows and two requests
about what it left, side by side or one after the other, or one such request
and a kill. That is what the mapping to `AuthWorkflow` is checked with; for
`VerdictIsAnswered` there is the proof, which needs no bound. `Ids` are reused
once no row and no copy of it is left, and three are enough for the rows of two
domains and one that is being inserted; a worker that finds no key waits.
Workers and keys are interchangeable (`Symmetry`), which is sound as no
liveness is checked and the mapping to `AuthWorkflow` names neither. The run
may stop when the requests are used up, which is why it does not look for
deadlocks. A second pass that spins, see below, is finite here as a cycle of
states.

Versions start at 0 and are never reset; `MaxVersion` refuses the provider's
side of a later alteration. `MaxLost` counts losses over a whole behaviour,
`MaxFaults` the requests whose calls failed: once one has, what the properties
say of that case is the same after another.

The editor: a start, a filter and an end are the least that make a workflow the
server accepts, and with three identities of containers a workflow can be
drawn, saved, cleared and loaded onto other identities. Identities are
interchangeable (`EditorSymmetry`), which is sound as no temporal property with
liveness is checked. Wires can be drawn both ways, onto themselves, twice, and
onto taken terminals. A larger language only repeats the filter.

The pages: every bound counts clicks (`MaxClicks`, `MaxOpen`, `MaxChosen`, ...)
or requests (`MaxAsked`, `MaxRefreshes`, `MaxForms`, ...), and is large enough
for an answer to be overtaken by a newer one and for a dialog to be opened,
left, and opened again for something else; the mutants need no more than that.
Two sites, devices, links, workflows or domains are the least between which
something can be confused; a path of three points has one in the middle to
move or to remove; a map link needs a third device to be drawn wrongly.
`Sampled` lists which numbers of a select TLC tries: the first ones, at which
the selects differ in where they start, and 12, the hour the page starts with
and the last month. `MaxTasks`
is 1: two discovery tasks over the same topology are in the module and out of
the reach of the run, and so is a port that moves twice. `MaxEdited` is a
change of the topology by hand between search and application.


### What the runs rest on

* `InOrder`. The provider posts callbacks over HTTP and nothing in the code
  orders their handling. With `InOrder = FALSE` and the rest as in
  `circuit_in_order`, `RowTellsTheTruth`, `CommittedVersionIsRead`,
  `CancelledStaysCancelled` and `VersionNeverDecreases` all fail, and
  `ProvisionNeedsApproval` fails once a refresh is allowed: an old answer to a
  query takes the version back to zero, or makes it leave zero early. They hold
  for the provider that waits for the HTTP answer to a callback before it
  posts the next one, which is the assumption the runs name.
* Promptness. The authorization page asks whether a question is open when the
  button is pressed, and the server does not ask again. `LateAnswers = FALSE`
  means that the answer arrives before anything else changed. With late answers
  `OnlyTheAskedAnswers`, `WaitingIsAsked` and `PromiseKept` fail: an answer is
  put into whatever row the domain has by then. With three managers in a row
  `OneQuestion` fails too: the second answer of the first manager passes the
  second one's open question and has the third asked.
* Calls that get through. `CommittedVersionIsRead` and
  `AuthorizedIsProvisioned` end with "unless a call of the provider failed":
  `ConnectionRequesterClient` logs a `SoapFault` and returns false, no caller
  looks at that, and nothing asks again. After such a fault a committed version
  may stay unread and an authorized circuit unprovisioned for ever. All other
  properties of `Connection` hold with any number of failed calls.
* Requests that do not overlap. All of `AuthWorkflow` is about requests about
  one circuit that are served one after the other, each to its end. MEICAN does
  nothing to see to that; it is so as long as answers, cancellations and
  callbacks about one circuit come further apart than a request takes. When
  they overlap or are killed, `AuthorizedByAll`, `OneQuestion`,
  `ProvisionedOnce`, `WaitingIsAsked`, `DecidedLeavesNoFlow` and `PromiseKept`
  do not hold of the code, and `AuthOverlap` has the behaviours that break
  them: one request inserts the next row of a flow after another has approved
  the circuit and removed its flows; one approves while another is denying;
  two ask the same manager; a cancellation that expires a question, but has not
  removed the flows yet, lets another request approve; a circuit is cancelled
  and provisioned between two statements of `continueWorkflows`; the pass that
  asks spins over a question that another request asked, until somebody answers
  it; a kill leaves two rows to a domain, or a circuit that waits for nobody.
  What holds nevertheless is `VerdictIsAnswered`: a workflow gives no verdict
  that its managers did not give. A filter, the default policy or the requester
  may decide by themselves; what they leave to a manager, one of the domain's
  managers has said.
* `SerialImplements` is checked with `LateAnswers` and `MayDisable` TRUE, so
  that every request AuthWorkflow knows is among those that are taken apart.
* Disabling a workflow can deny a circuit while a question of another domain
  stays open; a later cancellation then turns DENIED into EXPIRED, which breaks
  `PromiseKept`, and a later domain that is visited again while an earlier one
  has its question open makes the engine spin, which breaks `RequestsEnd`.

### Fairness

`Connection!Fairness`: a request that is being served ends
(`CreateAnswered`), callbacks that arrived are handled, and the provider
answers the requests it accepted, as the NSI protocol obliges it to; that a call gets
through is not assumed. Users, timeouts and reports of the data plane are not fair. `AuthWorkflow!FairSpec`: a
request that is served goes on (`Work`), which is what PHP does unless it is
killed; managers need not answer, and nothing about the circuit being decided
is claimed.

The pages and the editor have no fairness: a request may never be answered and
a user may leave the page, and nothing is claimed that needs it.
`PollsForAnAnswer` is the safety half of "the poll ends".

### Findings

1. `Connection::confirmCommit` takes a version above zero for an authorized
   circuit. The version leaves zero when the authorization only starts, and a
   circuit that is edited while it waits, or after it was denied, is
   provisioned (`circuit_altered`).
2. A workflow that asks the requester and then somebody else never asks the
   second manager, and the circuit is authorized (`workflow_requester_first`).
3. A workflow that comes to a manager who answered before runs for ever
   (`workflow_asked_twice`).
4. The check of a path looks at the first point only (`create2.js:62`): a path
   whose other points are empty is posted (`reservation_half_filled`).
5. The dialog in which a manager confirms an answer keeps the handlers of every
   earlier opening: confirming one request answers those whose dialog was
   closed before, too (`authorization_dialogs`).

Met on the way, and not the subject of a run: `taskFailed` overwrites
`$this->task` (`DiscoveryService.php:53`), so a discovery that cannot read its
source stays in progress; a port that moved to another device is lost when the
old device is deleted (`DiscoveryService.php:347`, the exception of
`DescribedIsThere`); `Change::apply` does not look at its status, so a change
is applied twice; after the first refresh of the rules the start button has no
handler and submits the form that deletes rules (`discovery/public/index.js:32`);
the handlers of `port.js` pile up as those of the authorizations do; the edit
form of a role fills the selects of the add form (`roleDomain.js:91`, the
exception of `GroupsOfTheDomain`); an event without an end makes the request of
a reservation fail after it was reported as received (`create2.js:131`).

## What is proved

`Connection_proofs` (TLAPS, for all values of the constants that satisfy
`ConstantsAssumption`):

* `TypeCorrect`: `Spec => []TypeOK`.
* `ApprovedBeforeProvisioned`: if callbacks are handled in order or nobody
  refreshes the circuit by hand, `Spec => []ProvisionNeedsApproval`. The
  property is not inductive: that a circuit is provisioned only after its
  authorization rests on confirmCommit seeing version zero, and the version on
  every reading that is still to be handled. The invariant `IInv` adds that a
  row without an id belongs to a circuit the provider just created
  (`Unnamed`), that the version the provider holds is one it was asked for
  (`HeldIsAVersion`), and, while nobody edits the circuit, `NeverEdited`:
  no commit is under way or confirmed once the row has a version, no reading
  with a version is in flight before the commit is confirmed, and the provider
  is asked to provision only after AUTHORIZED. One lemma per action shows that
  it keeps the invariant; lemmas about `Post`, `Receive` and `RemoveAt` say
  what happens to the inbox.

The same module, about the row of a circuit, the first four if callbacks are
handled in order, and all for any number of failed calls:

* `RowIsTrue`: `Spec => []RowTellsTheTruth`,
* `CommitsAreRead`: `Spec => []CommittedVersionIsRead`, which speaks of the time
  before the first failed call, and
* `TerminatedIsCancelled`: `Spec => []CancelledStaysCancelled`, each for
  `MaxLost = 0`, that is if no callback is lost;
* `VersionRises`: `Spec => VersionNeverDecreases`, with any number of losses;
* `ReadingHeals`: `Spec => ReadingHealsTheRow`, in any order and with any number
  of losses.

The first three speak of the row when nothing is in flight. What has to be said
of the callbacks that are in flight is what the later ones make of the earlier
ones. `Says(column, c, q, v)` is that the last word on a column in the queue `q`
is `v`, or that there is none and the column holds `v` already; a callback that
is posted has the last word (`PostSays`), and handling the oldest one leaves the
last word as it is (`HandleSays`). `RowFollows` says with it that resources, data
plane and version end up as the provider's side is, the version unless a
confirmed commit is still to be handled or a query to be answered, or a call
failed; the handler of the former asks for the latter. Until the row has an id its handlers are not
run and callbacks are dropped: `Nameless` shows that none of those says
anything yet. `Gone` follows a termination: only reports of the data plane and
readings that say "terminated" come behind terminateConfirmed. For the version,
`VInv` says that the versions of the readings in flight rise from the one of the
row to the one of the provider (`Rising`), which holds for any part of the queue
in its order, and that what the provider may commit is newer than what it has
(`Newer`).

`AuthWorkflow_proofs` (for all values of the constants that satisfy
`WorkflowAssumption`: any number of domains, any graphs):

* `TypeCorrect`: `Spec => []TypeOK`, with late answers and disabled workflows.
  The invariant `TInv` adds that a request that is served is at a domain of the
  path.
* `OnlyAllAuthorize`: `Spec => []AuthorizedByAll`,
  `DecidedFlowsRemoved`: `Spec => []DecidedLeavesNoFlow`, and
  `ProvisionsOnce`: `Spec => ProvisionedOnce`.

The last three hold with late and repeated answers and with workflows that are
disabled, requests being served one after the other as they are in this module.
They rest on one more assumption: a set `Q` of nodes with `QuietNodes(Q)`: no request
node is in `Q`, both edges of a node in `Q` stay in `Q`, and whatever follows
the requester's own answer is in `Q`. For graphs that never ask the requester
the empty set is such a `Q`; `workflow_requester_first` is the counterexample
without it.

Why it is true: the code never looks at the verdicts before it authorizes. It
concludes from "nobody is asked" that everybody agreed. So the invariant
`IInv(Q)` has to follow the two passes of `continueWorkflows`. While the
circuit waits, a domain that was started has either a flow or a verdict for
the circuit (`InProgress`). The pass that may not ask leaves every flow at a
request node (`FirstPass`), because a row that moves on arrives there as
WAITING (`Fresh`). The pass that asks finds them there and, unless a question
is open, has brought each domain it went past to its end (`SecondPass`):
from a request node it asks, or takes the requester's answer and goes on
through quiet nodes to an accepting or a denying one. At the end of that pass
no open question means no flow, hence a verdict of each domain (`Approving`).
`Between` keeps the flows at request nodes while no request is served, and
`FlowsWait` says that only a circuit that waits has flows. One lemma per action
shows that it keeps the invariant; `LoopEndKeeps` and `StillRunningKeeps` are
shared by those of `BpmFlow::execute`.

`AuthWorkflowPrompt_proofs`, all with prompt answers (`LateAnswers = FALSE`: the
page's check that a question is open and the answer to it are one step) and no
workflow disabled meanwhile (`MayDisable = FALSE`):

* `AskedOnesAnswer`: `Spec => []OnlyTheAskedAnswers`, a lemma about the rows
  that the others rest on, and that no run checks;
* `AskedOneByOne`: `Spec => []OneQuestion`;
* `WaitsForSomebody`: `Spec => []WaitingIsAsked`;
* `KeepsThePromise`: `Spec => PromiseKept`, the refinement of `AuthPromise`, for
  a `Q` with `QuietNodes(Q)`.

A row that asks somebody does not name the node it asks for; an answer goes to
the flow of the domain, wherever that is. `OpenRows` closes the gap: while a
question of a domain is open, its flow, if there is one, is at the node that
asks this manager; `TheirAnswers`, that the answers
in the flows are those of whom the nodes ask, follows. `PromptInv` then
follows the two passes as `IInv` does: the pass that may not ask goes over
flows that just arrived, with nobody asked (`NotAsking`); the row that an answer
moved on is not READY, so that nobody is asked before the next pass
(`Responding`); the pass that asks ends with its first question
(`EndsWithQuestion`); so at most one is open (`OneOpen`). `OpenWaits` says that
the circuit waits as long as somebody is asked, `Awaited` that somebody is
asked as long as it waits and no request is served. Each step of the code then
maps to a verdict, a decision or a stutter. Promptness is needed for that: a
late answer may deny the circuit while another question is open, and a
cancellation or the expiry writes its own status over DENIED.

`AuthOverlap_proofs` (for all values of the constants that satisfy
`OverlapAssumption`: any number of domains, workers, keys and requests, any
graphs): `NobodySpeaksForTheManagers`: `Spec => []VerdictIsAnswered`.

That a domain's workflow leaves a verdict to its managers is stated by a set of
nodes: `LeftTo(answer, Q)` says that whatever follows a node of `Q` without the
answer of a manager is in `Q`, and that no node of `Q` gives the verdict. The
proof fixes a domain, an answer and such a `Q` with the first node of the
domain in it, and shows that as long as nobody sent the answer everything stays
in `Q` (`Unsaid`): every row of the domain, every copy of one that any worker
holds (`Spares`), and with it the node each of them will insert. Nothing can be
said of the order in which workers do this. What makes it true is that a copy,
however old, differs from the row with its key in the status only (`Versions`),
as keys in use are not given again: so a late save puts a status into a row of
the same node, and the statuses YES and NO of a row that asks come from an
answer that was sent, or from the requester (`Knows`). One lemma per statement
shows that it keeps the invariant, over one that says what a step of a single
worker has to keep (`OneWorker`).

`WorkflowEditor_proofs` (any kinds of modules, any set of identities):

* `WiresListed`: `EditorSpec => []ListsAgree`,
* `WiresLeadToInputs`: `EditorSpec => []OutputToInput`: every wire but the one
  that is dragged leads from an output to an input, which no run checks,
* `StoredIsWhole`: `EditorSpec => []SavedIsWhole`,
* `LoadedAsSaved`: `EditorSpec => LoadRestores`,
* `WorkflowsComeToAnEnd`: `EditorSpec => []WorkflowsEnd`.

The argument for the first four is in two layers. `LayerInv` says that the three lists of wires
are the `Listing` of one set, that each wire of it is whole or the one being
dragged, and that the containers are distinct; one lemma per operation of WireIt
(`AttachListing`, `RemoveListing`, `RemoveAllListing`) says what it does to a
listing, and each action of the user is such an operation. `RequestInv` says of
what is posted and of what is saved that its wires are those of a layer: that
the positions exist and the names are terminals of the modules there, unless a
wire without an end makes the server refuse it. With it `LoadPipeRestores`
shows that loading onto fresh identities and reading the positions again gives
what was saved.

The last one speaks of the modules that are reached by any number of steps.
`Reach` is the least set that is closed under the wires, so no induction over
the steps is needed: the set of modules that do not reach themselves is shown to
be closed, too, and to hold what a New_Request leads to (`CycleIsClosed`,
`CycleComesIn`). It is closed because every input takes one wire at most but
those of the modules that have no output. That is `OneEntry`, which is not
inductive either: a wire that is dragged away from an input must have made room
there (`DragHasRoom`), and what is posted and saved must have it, since it is
loaded again (`SavedEntries`).

`FormPages_proofs`, for every value of the constants that satisfies their
assumptions (any workflows, users, domains, devices and places, days of any
length, any number of clicks and requests). Each page has an invariant of its
own, which is what its property needs to be inductive:

| theorem | property | what the invariant adds |
|---|---|---|
| `SingleActive` | `AtMostOneActive` | `actionActive` works in two statements: between them no workflow is active and the one to be enabled exists; the server is busy then, so no other request of the user is handled |
| `DialogOfItsEvent` | `DialogIsOfTheEvent` | every event of the calendar is in order: the calendar drops an end that does not lie behind the start, whatever the picker held (`NormalizedIsOrdered`) |
| `NoticesComeInOrder` | `NoticesInOrder` | one request for a page is on its way at most, and it is for the page that comes next, or its answer is that page as the rows were when it was read (`ComesNext`): that is what `waitingNext` and `count` see to; the rows that stay as they are (`steady`) are shown, have the date of one that is, or are still to come |
| `PostedEndsMatch` | `PostedEndMatches` | a list is that of the choice in the select before it (`ChoicesMatch`), and the newest request for a list is for that choice and finds its select empty (`AskedForTheChoice`) |
| `ScheduleReadsBack` | `CronReadsBack` | the hidden input is what the selects say, for every option of every select; the shape of an expression tells its period (`CombinationsDiffer`) |
| `OnlyTypedFieldsChange` | `OnlyTypedIsChanged` | the form, and every one that was posted, differs only in typed fields from what it was filled with (`OnlyTyped`) |
| `FormShowsWhatIsSaved` | `FormShowsWhatItSaves` | what is shown is the text of the value or of none (`ShowsItsValue`), and what is offered is from the list |
| `CanvasShowsLayer` | `CanvasShowsTheLayer` | what the mouse holds is on the canvas, what is saved has wires between its own containers, and focus and invitation are those of one container |
| `FormsOfferTheirGroups` | `GroupsOfTheDomain` | of a user who waits at most one answer is to come, and it is for what the form shows (`AtMostOneToCome`) |

`NetworkPages_proofs`, for any sites, topologies, circuits and descriptions:

| theorem | property | what the invariant adds |
|---|---|---|
| `LegsFollowThePath` | `DrawnLegsFollowThePath` | the path has two points at least, each of its type; every way to change it draws the map anew from the points, or adds one before the last, which passes no leg (`Follow`) |
| `ListsAreOfTheChosen` | `ListsOfTheChosen` | a list is that of the choice made before it or of the one that a request on its way will make (`ChoiceToBe`); there is one newest request for each select, and it finds the select empty (`Awaited`) |
| `MapAndGraphHoldTheSame` | `MapAndGraphAgree` | links are asked for only when all nodes at their ends are there; switching views keeps nodes and links (`SameMap`, `SameGraph`) |
| `LegsShowDataPlane`, `PollsAreAnswered` | `LinksShowDataPlane`, `PollsForAnAnswer` | what the script knows is what the block shows; polls and requests are about points of the path |
| `TrafficOfTheListed` | `TrafficIsOfTheListed` | the counts on the links are numbers |
| `PlotIsOfTheLink` | `HistoryIsOfTheLink` | unless somebody was hasty, only the last dialog waits; it has heard all but what it still asks for, one answer for each request, and the plot draws what it has heard (`Follows`) |
| `DescribedComesThere` | `DescribedIsThere` | see below |

The lemmas about `LMap` say what each method does to the nodes and the links of
any map. Those about sums say of `FoldSet` what the code takes for granted of
`+=` in a loop: that the order makes no difference (`SumsInAnyOrder`) and that
weights which grow on some elements make the sum grow by those (`SumsAddUp`).
They need an induction over the subsets of a finite set, which is done with a
smallest subset for which the claim fails (`SmallestSubset`, from the
well-foundedness of strict inclusion), since induction theorems over a predicate
cannot be instantiated.

The discovery: a change is found when the search is made and applied later, and
clicks on single changes come in between. While nobody else has changed the
topology (`Live`), the invariant says what a task can still give (`Finds`): what
is lacking is the subject of a change that creates it and is not applied; no
change takes away anything that was described (`Harmless`); ports that are there
are in their places. And of each request that applies them all (`Gives`): what
is lacking is among the changes it has just read, or is of a type whose turn is
to come. A turn that ends leaves nothing of its type lacking, and a change
applied to a database without what it needs (a device whose network is not
there) cannot happen in a turn, because the types before it are complete; a
click may do that, but then the change is not marked as applied. So after the
last turn nothing is lacking.

`Pages_proofs`: `PagesKeepTheirPromises`. A behaviour of the browser is, seen
from one page, a behaviour of that page, since the steps of the others leave its
variables as they are (one lemma per page); so `PagesSpec` implies all
invariants of the run `web_pages`.

What the proofs assume of the constants is in the named assumptions of each
module, which TLC evaluates on every run. They say that bounds are numbers, that
sets that are counted are finite, and that `None`, the value that stands for
nothing, is not a number, a period, a site, a database, a wire or a form: in
JavaScript and PHP null is none of these. The bounds on clicks and requests
appear in the guards only; no proof uses them.

Every invariant and every action property that a passing run checks is thus a
theorem, `SerialImplements` excepted; AuthWorkflow's and Connection's under the
assumptions named above, which the runs make, too. Stays with TLC:
`SerialImplements`, whose mapping picks the row of a domain by CHOOSE, and `CancelIsConfirmed`,
`AuthorizedIsProvisioned` and `RequestsEnd`, which are liveness under fairness,
out of the prover's reach; and the five runs that end with a counterexample.

## What is not modelled

* The filters of a workflow (`checkDuration`, `checkHour`, `checkBandwidth`)
  are a free choice of the engine: what they compute is a question of data.
* The scheduler: the crontab is rewritten by console processes, and what a
  lost entry means depends on cron.
* `Reservation::confirm` over several circuits, and two confirmations at once.
  One circuit is `Connection`; the loop calls it for one after the other.
* Discovery: providers, services, peerings, unidirectional ports and links, and
  the NMWG format. They go through the same comparison and the same changes as
  the networks, devices and ports that are modelled.
* Copying a workflow, its owner, and the rows of the saved graph.
* The pages that only show or save a form (users, groups, domains, networks,
  devices, providers, configuration): one request, one row. Permission checks
  restrict who may take an action, and every user may in the models.
* Parsers (NSI, NMWG, perfSONAR), the OSCARS bridge and the dummy requester of
  the tests: they read or forward and keep nothing the modelled parts rely on.
* Layout, translations, tooltips, labels, libraries; scripts that no page loads
  (`create.js`, `view.js`, `config.js`, `topologyDevice.js`) and functions that
  nobody calls (`loadProviders` and `loadNetworks` of the viewer, the hours and
  week days of the workflow language, the hover events of WireIt).

`NewWorkflow`, `RulesPage`, `PortsPage`, `FeedbackDialog`, `AuthorizationPage`
and `AuthorizationCalendar` take part in `web_pages` without a property of
their own there: what could go wrong in the first four is among the behaviours
listed under the findings, and the models show it, but nothing in the
repository says what they should do instead.

## What could come next

1. `Reservation` over several circuits, and two confirmations.
2. Two discovery tasks over one topology, in a run of their own.
