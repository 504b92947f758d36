----------------------------- MODULE Connection -----------------------------
(***************************************************************************)
(* The life of one circuit: the row of meican_connection, the requests a   *)
(* user makes on it, the requests MEICAN sends to the NSI provider and the *)
(* callbacks the provider posts back to RequesterController.               *)
(*                                                                         *)
(* Every web request (a user action or a callback) is one step: it loads   *)
(* the row, decides, saves it and calls the provider.  The exception is    *)
(* the creation of the circuit, which waits for the answer of the provider *)
(* to learn the id under which callbacks find the row, and is two steps.   *)
(* The authorization workflows are reduced to their outcome here; module   *)
(* AuthWorkflow opens them.                                                *)
(***************************************************************************)
EXTENDS Naturals, Sequences, SequencesExt

CONSTANTS
    InOrder,     \* TRUE: callbacks are handled in the order they were posted
    IsNormal,    \* TRUE: a NORMAL reservation, FALSE: an automated test
    MayUpdate,   \* TRUE: the user may edit the circuit
    MayRefresh,  \* TRUE: the user may ask for a refresh
    MaxVersion,  \* bound: the provider refuses later versions
    MaxInbox,    \* bound: reports wait while so many callbacks are in flight
    MaxLost,     \* bound on the callbacks that are lost
    MaxFaults    \* bound on the web requests whose calls of the provider fail

ASSUME ConstantsAssumption ==
    /\ {InOrder, IsNormal, MayUpdate, MayRefresh} \subseteq BOOLEAN
    /\ MaxVersion \in Nat \ {0}
    /\ {MaxInbox, MaxLost, MaxFaults} \subseteq Nat

VARIABLES
    conn,      \* the row of the circuit
    update,    \* the newest USER_UPDATE event: what the user asked for
    creating,  \* a request is waiting for the provider's answer to reserve
    inbox,     \* callbacks posted by the provider and not handled yet
    lost,      \* callbacks lost so far
    faults,    \* web requests whose calls of the provider failed so far
    nsa        \* the provider's side of the circuit (external)

vars == <<conn, update, creating, inbox, lost, faults, nsa>>

-----------------------------------------------------------------------------
(***************************************************************************)
(* Values.                                                                 *)
(***************************************************************************)

\* "BLANK" is what MySQL stores for a value outside the ENUM of the column.
Statuses ==
    {"PENDING", "CREATED", "CONFIRMED", "SUBMITTED", "PROVISIONED",
     "CANCEL REQUESTED", "CANCELLED", "WAITING_DATAPLANE", "RELEASED",
     "FAILED ON CONFIRM", "FAILED ON SUBMIT", "BLANK"}

AuthStatuses == {"UNEXECUTED", "WAITING", "AUTHORIZED", "DENIED", "EXPIRED"}

Versions == 0..MaxVersion

ConnectionRow ==
    [status    : Statuses,
     resources : {"PROVISIONED", "RELEASED"},
     dataplane : {"ACTIVE", "INACTIVE"},
     auth      : AuthStatuses,
     version   : Versions,
     hasId     : BOOLEAN]        \* external_id # NULL

\* needRelease of the newest USER_UPDATE event, or none was ever made.
UpdateEvents == {"NONE", "KEEP", "NEED_RELEASE"}

Provider ==
    [lifecycle   : {"NONE", "CREATED", "TERMINATING", "TERMINATED"},
     reservation : {"START", "CHECKING", "HELD", "COMMITTING", "FAILED"},
     held        : Versions,
     version     : Versions,     \* the committed one, 0 before the first
     provision   : {"RELEASED", "PROVISIONING", "PROVISIONED", "RELEASING"},
     active      : BOOLEAN,
     queries     : 0..1]         \* a querySummary is waiting for its answer

Callbacks ==
    [type : {"reserveConfirmed", "reserveFailed", "reserveTimeout",
             "reserveCommitConfirmed", "reserveCommitFailed",
             "provisionConfirmed", "releaseConfirmed", "terminateConfirmed"}]
    \union [type : {"dataPlaneStateChange"}, active : BOOLEAN]
    \union [type : {"querySummaryConfirmed"}, version : Versions,
            provisioned : BOOLEAN, terminated : BOOLEAN, active : BOOLEAN]

TypeOK ==
    /\ conn \in ConnectionRow
    /\ update \in UpdateEvents
    /\ creating \in BOOLEAN
    /\ inbox \in Seq(Callbacks)
    /\ lost \in 0..MaxLost
    /\ faults \in 0..MaxFaults
    /\ nsa \in Provider

IsCancelStatus(c) == c.status \in {"CANCELLED", "CANCEL REQUESTED"}

\* setActiveDataStatus
DataStatus(active) == IF active THEN "ACTIVE" ELSE "INACTIVE"

-----------------------------------------------------------------------------
(***************************************************************************)
(* What MEICAN asks of the provider.  A SOAP call is acknowledged at once  *)
(* and answered later by a callback.  A call the provider's state machine  *)
(* does not allow is a fault, and so is one that does not get through:     *)
(* ConnectionRequesterClient swallows both, and nobody calls again.        *)
(* A call made before the row has an external id names no circuit.         *)
(***************************************************************************)

RequestReserve(n, v) ==
    IF n.lifecycle = "CREATED" /\ n.reservation = "START"
          /\ n.version < v /\ v <= MaxVersion
    THEN [n EXCEPT !.reservation = "CHECKING", !.held = v]
    ELSE n

RequestCommit(n) ==
    IF n.lifecycle = "CREATED" /\ n.reservation = "HELD"
    THEN [n EXCEPT !.reservation = "COMMITTING"] ELSE n

RequestProvision(n) ==
    IF n.lifecycle = "CREATED" /\ n.version > 0 /\ n.provision = "RELEASED"
    THEN [n EXCEPT !.provision = "PROVISIONING"] ELSE n

RequestRelease(n) ==
    IF n.lifecycle = "CREATED" /\ n.provision = "PROVISIONED"
    THEN [n EXCEPT !.provision = "RELEASING"] ELSE n

RequestTerminate(n) ==
    IF n.lifecycle = "CREATED"
    THEN [n EXCEPT !.lifecycle = "TERMINATING"] ELSE n

RequestSummary(n) ==
    IF n.lifecycle # "NONE" THEN [n EXCEPT !.queries = 1] ELSE n

\* The calls of one web request lead the provider to done, or to one of those in
\* failed if some of them end in a SoapFault.  The code goes on all the same.
Calls(done, failed) ==
    \/ nsa' = done /\ UNCHANGED faults
    \/ faults < MaxFaults /\ faults' = faults + 1 /\ nsa' \in failed

Call(done) == Calls(done, {nsa})

\* NSIRequester::updateContinue; without an event json_decode($event->data)
\* aborts the request.
UpdateContinue(c, n) ==
    IF update = "NONE" THEN n ELSE RequestReserve(n, c.version + 1)

-----------------------------------------------------------------------------
(***************************************************************************)
(* Requests of users.                                                      *)
(***************************************************************************)

NoCircuit ==
    [lifecycle |-> "NONE", reservation |-> "START", held |-> 0, version |-> 0,
     provision |-> "RELEASED", active |-> FALSE, queries |-> 0]

NewRow ==
    [status |-> "PENDING", resources |-> "RELEASED", dataplane |-> "INACTIVE",
     auth |-> "UNEXECUTED", version |-> 0, hasId |-> FALSE]

Init ==
    /\ conn = NewRow
    /\ update = "NONE"
    /\ creating = FALSE
    /\ inbox = << >>
    /\ lost = 0
    /\ faults = 0
    /\ nsa = NoCircuit

\* The user confirms the reservation: reserve is sent, the answer is awaited.
RequestCreate ==
    /\ ~conn.hasId /\ ~creating
    /\ creating' = TRUE
    /\ nsa' = [NoCircuit EXCEPT !.lifecycle = "CREATED",
                                !.reservation = "CHECKING", !.held = 1]
    /\ UNCHANGED <<conn, update, inbox, lost, faults>>

\* The answer names the circuit: external_id and CREATED are saved, over
\* whatever the row holds by now.
CreateAnswered ==
    /\ creating
    /\ creating' = FALSE
    /\ conn' = [conn EXCEPT !.hasId = TRUE, !.status = "CREATED"]
    /\ UNCHANGED <<update, inbox, lost, faults, nsa>>

\* No answer, or one without a connectionId: the request dies on it before
\* failedCreate.  What the provider reserved is named by no row any more.
CreateAborted ==
    /\ creating
    /\ creating' = FALSE
    /\ nsa' = NoCircuit
    /\ inbox' = << >>
    /\ UNCHANGED <<conn, update, lost, faults>>

\* ConnectionForm::save records the wanted change as a USER_UPDATE event.
SubmitUpdate ==
    /\ MayUpdate
    /\ update' \in UpdateEvents \ {"NONE"}
    /\ UNCHANGED <<conn, creating, inbox, lost, faults, nsa>>

\* actionUpdate(confirm): the newest change is sent.  Without an external id
\* the call names no circuit.
RequestUpdate ==
    /\ update # "NONE" /\ conn.hasId
    /\ Call(IF \/ conn.dataplane = "ACTIVE" /\ update = "NEED_RELEASE"
               \/ conn.dataplane = "INACTIVE" /\ conn.resources = "PROVISIONED"
            THEN RequestRelease(nsa)
            ELSE UpdateContinue(conn, nsa))
    /\ UNCHANGED <<conn, update, creating, inbox, lost>>

\* actionCancel; the pending authorization request, if any, expires.
RequestCancel ==
    /\ conn' = [conn EXCEPT !.status = "CANCEL REQUESTED",
                            !.auth = IF @ = "WAITING" THEN "EXPIRED" ELSE @]
    /\ Call(IF conn.hasId THEN RequestTerminate(nsa) ELSE nsa)
    /\ UNCHANGED <<update, creating, inbox, lost>>

\* actionRefresh
RequestRefresh ==
    /\ MayRefresh
    /\ conn.status # "PENDING" /\ conn.hasId
    /\ Call(RequestSummary(nsa))
    /\ UNCHANGED <<conn, update, creating, inbox, lost>>

\* Mutant: nothing is asked of the provider.
AuthorizeOnPaper(outcome) ==
    /\ conn.auth = "WAITING"
    /\ conn' = [conn EXCEPT !.auth = outcome]
    /\ UNCHANGED <<update, creating, inbox, lost, faults, nsa>>

\* The last answer of the authorization workflows, or the expiry of the
\* pending request.  An authorized circuit is provisioned at once, unless it
\* is being cancelled.
Authorize(outcome) ==
    /\ conn.auth = "WAITING"
    /\ conn' = [conn EXCEPT !.auth = outcome]
    /\ IF outcome = "AUTHORIZED" /\ ~IsCancelStatus(conn)
       THEN Call(RequestProvision(nsa)) ELSE UNCHANGED <<faults, nsa>>
    /\ UNCHANGED <<update, creating, inbox, lost>>

-----------------------------------------------------------------------------
(***************************************************************************)
(* Callbacks of the provider, one action per handler.                      *)
(***************************************************************************)

\* Mutant: the newest callback comes first.
ReceiveNewest(m) ==
    /\ inbox # << >> /\ m = Last(inbox)
    /\ inbox' = Front(inbox)
    /\ UNCHANGED <<update, creating, lost>>

\* The next callback is m.  Its row is found by the external id.
Receive(m) ==
    \E i \in DOMAIN inbox :
        /\ InOrder => i = 1
        /\ m = inbox[i]
        /\ inbox' = RemoveAt(inbox, i)
        /\ UNCHANGED <<update, creating, lost>>

Handle(m) == Receive(m) /\ conn.hasId

\* if(!$conn) return "";
IgnoreCallback(m) ==
    /\ Receive(m) /\ ~conn.hasId
    /\ UNCHANGED <<conn, faults, nsa>>

ReserveConfirmed(m) ==
    /\ m.type = "reserveConfirmed" /\ Handle(m)
    /\ IF conn.dataplane = "ACTIVE" /\ conn.resources = "PROVISIONED"
       THEN /\ conn' = [conn EXCEPT !.status = "WAITING_DATAPLANE"]
            /\ UNCHANGED <<faults, nsa>>
       ELSE /\ conn' = [conn EXCEPT !.status = "CONFIRMED"]
            /\ Call(RequestCommit(nsa))

ReserveFailed(m) ==
    /\ m.type = "reserveFailed" /\ Handle(m)
    /\ conn' = [conn EXCEPT !.status = "FAILED ON CONFIRM"]
    /\ UNCHANGED <<faults, nsa>>

\* Mutant: the column takes any value.
TimeoutIsStored(m) ==
    /\ m.type = "reserveTimeout" /\ Handle(m)
    /\ conn' = [conn EXCEPT !.status = "FAILED ON CREATED"]
    /\ UNCHANGED <<faults, nsa>>

\* failedCreate saves 'FAILED ON CREATED', which the ENUM of the column does
\* not list: a strict MySQL rejects the save, another one stores a blank.
ReserveTimeout(m) ==
    /\ m.type = "reserveTimeout" /\ Handle(m)
    /\ \E stored \in {conn.status, "BLANK"} :
           conn' = [conn EXCEPT !.status = stored]
    /\ UNCHANGED <<faults, nsa>>

\* Mutants: the version is not looked at; the circuit is not read.
CommitAlwaysProvisions(m) ==
    /\ m.type = "reserveCommitConfirmed" /\ Handle(m)
    /\ conn' = [conn EXCEPT !.status = "SUBMITTED"]
    /\ Call(RequestSummary(RequestProvision(nsa)))

CommitIsNotRead(m) ==
    /\ m.type = "reserveCommitConfirmed" /\ Handle(m)
    /\ conn' = [conn EXCEPT !.status = "SUBMITTED"]
    /\ IF conn.version > 0 /\ conn.resources = "RELEASED"
       THEN Call(RequestProvision(nsa)) ELSE UNCHANGED <<faults, nsa>>

\* A circuit whose first version was read already is being altered: it is put
\* in service.  Each of the two calls may fail.
ReserveCommitConfirmed(m) ==
    LET provisioned == IF conn.version > 0 /\ conn.resources = "RELEASED"
                       THEN RequestProvision(nsa) ELSE nsa
    IN
    /\ m.type = "reserveCommitConfirmed" /\ Handle(m)
    /\ conn' = [conn EXCEPT !.status = "SUBMITTED"]
    /\ Calls(RequestSummary(provisioned), {nsa, provisioned, RequestSummary(nsa)})

ReserveCommitFailed(m) ==
    /\ m.type = "reserveCommitFailed" /\ Handle(m)
    /\ conn' = [conn EXCEPT !.status = "FAILED ON SUBMIT"]
    /\ UNCHANGED <<faults, nsa>>

\* Mutant: only the status is saved.
ProvisionForgetsResources(m) ==
    /\ m.type = "provisionConfirmed" /\ Handle(m)
    /\ conn' = [conn EXCEPT !.status = "PROVISIONED"]
    /\ UNCHANGED <<faults, nsa>>

ProvisionConfirmed(m) ==
    /\ m.type = "provisionConfirmed" /\ Handle(m)
    /\ conn' = [conn EXCEPT !.status = "PROVISIONED", !.resources = "PROVISIONED"]
    /\ UNCHANGED <<faults, nsa>>

\* A release is only asked for an update, which goes on once the circuit is
\* known to carry no traffic.
ReleaseConfirmed(m) ==
    /\ m.type = "releaseConfirmed" /\ Handle(m)
    /\ IF conn.dataplane = "ACTIVE"
       THEN /\ conn' = [conn EXCEPT !.status = "WAITING_DATAPLANE",
                                    !.resources = "RELEASED"]
            /\ UNCHANGED <<faults, nsa>>
       ELSE /\ conn' = [conn EXCEPT !.status = "RELEASED", !.resources = "RELEASED"]
            /\ Call(UpdateContinue(conn, nsa))

\* Mutant: a termination the row did not ask for is ignored.
TerminateIfRequested(m) ==
    /\ m.type = "terminateConfirmed" /\ Handle(m)
    /\ conn' = [conn EXCEPT !.status = IF @ = "CANCEL REQUESTED"
                                       THEN "CANCELLED" ELSE @]
    /\ UNCHANGED <<faults, nsa>>

TerminateConfirmed(m) ==
    /\ m.type = "terminateConfirmed" /\ Handle(m)
    /\ conn' = [conn EXCEPT !.status = "CANCELLED"]
    /\ UNCHANGED <<faults, nsa>>

DataPlaneStateChange(m) ==
    /\ m.type = "dataPlaneStateChange" /\ Handle(m)
    /\ conn' = [conn EXCEPT !.dataplane = DataStatus(m.active)]
    /\ IF conn.status # "WAITING_DATAPLANE" THEN UNCHANGED <<faults, nsa>>
       ELSE Call(IF m.active THEN RequestCommit(nsa) ELSE UpdateContinue(conn, nsa))

\* executeWorkflows, seen from the circuit: the first run of the workflows
\* ends decided or waiting for an administrator.  A path that cannot be
\* stored leaves them unexecuted.
WorkflowOutcomes == {"WAITING", "AUTHORIZED", "DENIED"}

\* What the row takes over from a reading.
\* Mutant: the provision state is looked at first.
ProvisionedFirst(m) ==
    IF m.provisioned THEN "PROVISIONED"
    ELSE IF m.terminated THEN "CANCELLED" ELSE conn.status

ReadStatus(m) ==
    IF m.terminated THEN "CANCELLED"
    ELSE IF m.provisioned THEN "PROVISIONED" ELSE conn.status

\* Mutant: a reading leaves the resources as they are.
ResourcesStay(m) == conn.resources

ReadResources(m) ==
    IF m.terminated THEN conn.resources
    ELSE IF m.provisioned THEN "PROVISIONED" ELSE "RELEASED"

FirstReading(m) == conn.version = 0 /\ m.version # 0

QuerySummaryConfirmed(m) ==
    /\ m.type = "querySummaryConfirmed" /\ Handle(m)
    /\ \E auth \in {conn.auth} \union
                   (IF FirstReading(m) /\ conn.auth = "UNEXECUTED" /\ IsNormal
                    THEN WorkflowOutcomes ELSE {}) :
        /\ conn' = [conn EXCEPT
                !.auth      = auth,
                !.version   = m.version,
                !.status    = ReadStatus(m),
                !.resources = ReadResources(m),
                !.dataplane = DataStatus(m.active)]
        /\ IF auth = "AUTHORIZED" /\ conn.auth = "UNEXECUTED" /\ ~IsCancelStatus(conn)
           THEN Call(RequestProvision(nsa)) ELSE UNCHANGED <<faults, nsa>>

Callback ==
    \E m \in Range(inbox) :
        \/ IgnoreCallback(m)
        \/ ReserveConfirmed(m)
        \/ ReserveFailed(m)
        \/ ReserveTimeout(m)
        \/ ReserveCommitConfirmed(m)
        \/ ReserveCommitFailed(m)
        \/ ProvisionConfirmed(m)
        \/ ReleaseConfirmed(m)
        \/ TerminateConfirmed(m)
        \/ DataPlaneStateChange(m)
        \/ QuerySummaryConfirmed(m)

-----------------------------------------------------------------------------
(***************************************************************************)
(* The provider (external) and the network.  What the provider does comes  *)
(* from the callbacks RequesterController answers to and the requests      *)
(* NSIRequester makes: it checks, holds and commits a reservation,         *)
(* provisions, releases and terminates, and reports the data plane.        *)
(***************************************************************************)

Post(m) ==
    /\ inbox' = Append(inbox, m)
    /\ UNCHANGED <<conn, update, creating, lost, faults>>

\* Answers to queries and reports of the data plane may repeat for ever; they
\* wait while the inbox is full.
Report(m) == Len(inbox) < MaxInbox /\ Post(m)

Alive == nsa.lifecycle = "CREATED"

CheckReservation ==
    /\ Alive /\ nsa.reservation = "CHECKING"
    /\ \/ /\ nsa' = [nsa EXCEPT !.reservation = "HELD"]
          /\ Post([type |-> "reserveConfirmed"])
       \/ /\ nsa' = [nsa EXCEPT !.reservation = "FAILED"]
          /\ Post([type |-> "reserveFailed"])

\* MEICAN never sends reserveAbort: FAILED is left by no one.
HoldTimesOut ==
    /\ Alive /\ nsa.reservation = "HELD"
    /\ nsa' = [nsa EXCEPT !.reservation = "FAILED"]
    /\ Post([type |-> "reserveTimeout"])

Commit ==
    /\ Alive /\ nsa.reservation = "COMMITTING"
    /\ \/ /\ nsa' = [nsa EXCEPT !.reservation = "START", !.version = nsa.held]
          /\ Post([type |-> "reserveCommitConfirmed"])
       \/ /\ nsa' = [nsa EXCEPT !.reservation = "START"]
          /\ Post([type |-> "reserveCommitFailed"])

Provision ==
    /\ Alive /\ nsa.provision = "PROVISIONING"
    /\ nsa' = [nsa EXCEPT !.provision = "PROVISIONED"]
    /\ Post([type |-> "provisionConfirmed"])

Release ==
    /\ Alive /\ nsa.provision = "RELEASING"
    /\ nsa' = [nsa EXCEPT !.provision = "RELEASED"]
    /\ Post([type |-> "releaseConfirmed"])

Terminate ==
    /\ nsa.lifecycle = "TERMINATING"
    /\ nsa' = [nsa EXCEPT !.lifecycle = "TERMINATED"]
    /\ Post([type |-> "terminateConfirmed"])

Activate ==
    /\ Alive /\ nsa.provision = "PROVISIONED" /\ ~nsa.active
    /\ nsa' = [nsa EXCEPT !.active = TRUE]
    /\ Report([type |-> "dataPlaneStateChange", active |-> TRUE])

\* After a release or a termination, at the end time, or by a failure.
Deactivate ==
    /\ nsa.active
    /\ nsa' = [nsa EXCEPT !.active = FALSE]
    /\ Report([type |-> "dataPlaneStateChange", active |-> FALSE])

\* A change is held for a circuit in service: the provider reports again.
ReportActive ==
    /\ Alive /\ nsa.active /\ nsa.reservation = "HELD"
    /\ UNCHANGED nsa
    /\ Report([type |-> "dataPlaneStateChange", active |-> TRUE])

Snapshot(n) ==
    [type |-> "querySummaryConfirmed", version |-> n.version,
     provisioned |-> n.provision = "PROVISIONED",
     terminated |-> n.lifecycle = "TERMINATED", active |-> n.active]

AnswerQuery ==
    /\ nsa.queries = 1
    /\ nsa' = [nsa EXCEPT !.queries = 0]
    /\ Report(Snapshot(nsa))

\* MEICAN is down or refuses the callback, and the provider gives up.
LoseCallback ==
    /\ lost < MaxLost /\ inbox # << >>
    /\ lost' = lost + 1
    /\ inbox' = Tail(inbox)
    /\ UNCHANGED <<conn, update, creating, faults, nsa>>

\* The steps that answer a request, in contrast to spontaneous reports.
ProviderAnswers ==
    \/ CheckReservation \/ Commit \/ Provision \/ Release \/ Terminate
    \/ AnswerQuery

Next ==
    \/ RequestCreate \/ CreateAnswered \/ CreateAborted
    \/ SubmitUpdate \/ RequestUpdate
    \/ RequestCancel \/ RequestRefresh
    \/ \E outcome \in {"AUTHORIZED", "DENIED", "EXPIRED"} : Authorize(outcome)
    \/ Callback
    \/ ProviderAnswers \/ HoldTimesOut
    \/ Activate \/ Deactivate \/ ReportActive
    \/ LoseCallback

Spec == Init /\ [][Next]_vars

-----------------------------------------------------------------------------
(***************************************************************************)
(* Safety.                                                                 *)
(***************************************************************************)

\* Unless the user edits the circuit, the provider is never asked to put it
\* in service before the authorization workflows authorized it.  Holds when
\* callbacks are handled in order, and in any order if nobody refreshes the
\* circuit by hand while it is being created.
ProvisionNeedsApproval ==
    nsa.provision # "RELEASED" => conn.auth = "AUTHORIZED" \/ update # "NONE"

\* The comment in Connection::confirmCommit: a circuit that is provisioned
\* because it is being altered was authorized before.
AlteredCircuitIsAuthorized ==
    nsa.provision # "RELEASED" => conn.auth = "AUTHORIZED"

Settled == inbox = << >> /\ nsa.queries = 0

\* Once every callback is handled, the row tells whether the provider holds
\* the resources provisioned and whether the circuit carries traffic.
RowTellsTheTruth ==
    Settled => /\ nsa.provision = "PROVISIONED" => conn.resources = "PROVISIONED"
               /\ nsa.provision = "RELEASED" => conn.resources = "RELEASED"
               /\ (conn.dataplane = "ACTIVE") = nsa.active

\* Once every callback is handled, the row has the version the provider
\* committed: no confirmed reservation or alteration goes unread, as long as
\* no call of the provider failed (a query that fails is not repeated).
CommittedVersionIsRead ==
    Settled /\ Alive /\ conn.hasId /\ faults = 0 => conn.version = nsa.version

\* A terminated circuit never comes back: no callback handled after its
\* termination leaves it looking usable.
CancelledStaysCancelled ==
    nsa.lifecycle = "TERMINATED" /\ Settled => IsCancelStatus(conn)

\* The version of the row never goes back to an older one.
VersionNeverDecreases == [][conn'.version >= conn.version]_vars

\* A reading of the provider heals the row, whatever callbacks were lost or
\* handled in the wrong order before it, if the provider has not moved on and
\* nothing else is in flight.
Healed ==
    /\ conn.version = nsa.version
    /\ (conn.dataplane = "ACTIVE") = nsa.active
    /\ IF nsa.lifecycle = "TERMINATED"
       THEN conn.status = "CANCELLED"
       ELSE (conn.resources = "PROVISIONED") = (nsa.provision = "PROVISIONED")

ReadingHealsTheRow ==
    [][(conn.hasId /\ inbox = <<Snapshot(nsa)>> /\ inbox' = << >> /\ lost' = lost)
           => Healed']_vars

-----------------------------------------------------------------------------
(***************************************************************************)
(* Liveness.  A request that is being served runs to its end, callbacks    *)
(* are handled as they come and the provider answers what it accepted.     *)
(***************************************************************************)

Fairness ==
    /\ WF_vars(CreateAnswered)
    /\ WF_vars(Callback)
    /\ WF_vars(CheckReservation) /\ WF_vars(Commit) /\ WF_vars(Provision)
    /\ WF_vars(Release) /\ WF_vars(Terminate) /\ WF_vars(AnswerQuery)

FairSpec == Spec /\ Fairness

\* A cancellation the provider accepted ends in the row as CANCELLED.
CancelIsConfirmed ==
    (nsa.lifecycle = "TERMINATING") ~> (conn.status = "CANCELLED")

\* An authorized circuit whose reservation is committed gets its resources
\* provisioned, or is cancelled or altered meanwhile, unless a call of the
\* provider failed: a request to provision that fails is not repeated.
AuthorizedIsProvisioned ==
    (conn.auth = "AUTHORIZED" /\ conn.status = "SUBMITTED")
        ~> \/ conn.resources = "PROVISIONED" \/ IsCancelStatus(conn)
           \/ update # "NONE" \/ faults > 0
=============================================================================
