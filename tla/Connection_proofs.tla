------------------------- MODULE Connection_proofs -------------------------
(***************************************************************************)
(* Proofs about module Connection: its types, and that the provider is     *)
(* not asked to put an unapproved circuit in service; then what the row    *)
(* says once every callback is handled, if the provider's callbacks are    *)
(* handled in order and none of them is lost, and that its version never   *)
(* goes back, even if some are lost.                                       *)
(***************************************************************************)
EXTENDS Connection, SequenceTheorems, TLAPS

\* What is left of a sequence when its i-th element is taken out.
LEMMA RemoveAtProperties ==
    ASSUME NEW S, NEW s \in Seq(S), NEW i \in 1..Len(s)
    PROVE  /\ RemoveAt(s, i) \in Seq(S)
           /\ Len(RemoveAt(s, i)) = Len(s) - 1
           /\ \A j \in 1..(Len(s) - 1) :
                  RemoveAt(s, i)[j] = IF j < i THEN s[j] ELSE s[j+1]
<1>1. /\ SubSeq(s, 1, i-1) \in Seq(S)
      /\ Len(SubSeq(s, 1, i-1)) = i - 1
      /\ \A j \in 1..(i-1) : SubSeq(s, 1, i-1)[j] = s[j]
  OBVIOUS
<1>2. /\ SubSeq(s, i+1, Len(s)) \in Seq(S)
      /\ Len(SubSeq(s, i+1, Len(s))) = Len(s) - i
      /\ \A j \in 1..(Len(s) - i) : SubSeq(s, i+1, Len(s))[j] = s[i+j]
  OBVIOUS
<1>3. ASSUME NEW p \in Seq(S), NEW q \in Seq(S), Len(p) = i - 1, Len(q) = Len(s) - i,
             \A j \in 1..(i-1) : p[j] = s[j],
             \A j \in 1..(Len(s) - i) : q[j] = s[i+j]
      PROVE  /\ p \o q \in Seq(S)
             /\ Len(p \o q) = Len(s) - 1
             /\ \A j \in 1..(Len(s) - 1) :
                    (p \o q)[j] = IF j < i THEN s[j] ELSE s[j+1]
  <2>0. i \in Nat /\ Len(s) \in Nat /\ 1 <= i /\ i <= Len(s)
    BY LenProperties
  <2>1. /\ p \o q \in Seq(S)
        /\ Len(p \o q) = Len(s) - 1
        /\ \A j \in 1..(Len(p) + Len(q)) :
               (p \o q)[j] = IF j <= Len(p) THEN p[j] ELSE q[j - Len(p)]
    <3>1. Len(p \o q) = Len(p) + Len(q)
      BY ConcatProperties
    <3>2. Len(p \o q) = Len(s) - 1
      BY <3>1, <2>0, <1>3
    <3>3. QED
      BY <3>2, ConcatProperties
  <2>2. ASSUME NEW j \in 1..(Len(s) - 1)
        PROVE  (p \o q)[j] = IF j < i THEN s[j] ELSE s[j+1]
    <3>1. CASE j < i
      BY <1>3, <2>0, <2>1, <3>1
    <3>2. CASE ~(j < i)
      <4>1. (p \o q)[j] = q[j - (i-1)]
        BY <1>3, <2>0, <2>1, <3>2
      <4>2. j - (i-1) \in 1..(Len(s) - i) /\ i + (j - (i-1)) = j + 1
        BY <2>0, <3>2
      <4>3. q[j - (i-1)] = s[i + (j - (i-1))]
        BY <1>3, <4>2
      <4>4. QED
        BY <3>2, <4>1, <4>2, <4>3
    <3>3. QED
      BY <3>1, <3>2
  <2>3. QED
    BY <2>1, <2>2
<1>4. QED
  BY <1>1, <1>2, <1>3 DEF RemoveAt

-----------------------------------------------------------------------------
(***************************************************************************)
(* Types.                                                                  *)
(***************************************************************************)

\* What MEICAN asks of the provider leaves it a provider.
LEMMA RequestTypes ==
    ASSUME NEW n \in Provider
    PROVE  /\ \A v \in Nat \ {0} : RequestReserve(n, v) \in Provider
           /\ RequestCommit(n) \in Provider
           /\ RequestProvision(n) \in Provider
           /\ RequestRelease(n) \in Provider
           /\ RequestTerminate(n) \in Provider
           /\ RequestSummary(n) \in Provider
           /\ \A c \in ConnectionRow : UpdateContinue(c, n) \in Provider
<1>1. ASSUME NEW v \in Nat \ {0}
      PROVE  RequestReserve(n, v) \in Provider
  <2>1. CASE RequestReserve(n, v) = n
    BY <2>1
  <2>2. CASE RequestReserve(n, v) # n
    <3>1. v <= MaxVersion /\ MaxVersion \in Nat
      BY <2>2, ConstantsAssumption DEF RequestReserve
    <3>2. v \in Versions
      BY <3>1 DEF Versions
    <3>3. RequestReserve(n, v) = [n EXCEPT !.reservation = "CHECKING", !.held = v]
      BY <2>2 DEF RequestReserve
    <3>4. QED
      BY <3>2, <3>3 DEF Provider
  <2>3. QED
    BY <2>1, <2>2
<1>2. /\ RequestCommit(n) \in Provider
      /\ RequestProvision(n) \in Provider
      /\ RequestRelease(n) \in Provider
      /\ RequestTerminate(n) \in Provider
  BY DEF RequestCommit, RequestProvision, RequestRelease, RequestTerminate, Provider
<1>3. RequestSummary(n) \in Provider
  BY DEF RequestSummary, Provider
<1>4. ASSUME NEW c \in ConnectionRow
      PROVE  UpdateContinue(c, n) \in Provider
  <2>1. c.version + 1 \in Nat \ {0}
    BY ConstantsAssumption DEF ConnectionRow, Versions
  <2>2. QED
    BY <1>1, <2>1 DEF UpdateContinue
<1>5. QED
  BY <1>1, <1>2, <1>3, <1>4

\* What fails is counted.
LEMMA FaultTypes ==
    ASSUME TypeOK, Next
    PROVE  faults' \in 0..MaxFaults /\ faults' >= faults
<1> DEFINE Counted == \/ faults' = faults
                      \/ faults < MaxFaults /\ faults' = faults + 1
<1>1. \A done, failed : Calls(done, failed) => Counted
  BY DEF Calls
<1>2. \A done : Call(done) => Counted
  BY <1>1 DEF Call
<1> SUFFICES Counted
  BY ConstantsAssumption DEF TypeOK
<1> HIDE DEF Counted
<1>3. UNCHANGED faults => Counted
  BY DEF Counted
<1>4. UNCHANGED <<faults, nsa>> => Counted
  BY <1>3
<1>5. CASE RequestCreate \/ CreateAnswered \/ CreateAborted
           \/ SubmitUpdate \/ LoseCallback
  BY <1>3, <1>5 DEF RequestCreate, CreateAnswered, CreateAborted, SubmitUpdate,
                    LoseCallback, NoCircuit, TypeOK, ConnectionRow, Provider
<1>6. CASE \/ RequestUpdate \/ RequestCancel \/ RequestRefresh
           \/ \E outcome \in {"AUTHORIZED", "DENIED", "EXPIRED"} : Authorize(outcome)
  <2>1. ASSUME NEW outcome, Authorize(outcome)
        PROVE  Counted
    BY <1>4, <1>2, <2>1, Zenon DEF Authorize
  <2>2. CASE RequestUpdate \/ RequestCancel \/ RequestRefresh
    BY <1>2, <2>2, Zenon DEF RequestUpdate, RequestCancel, RequestRefresh
  <2>3. QED
    BY <1>6, <2>1, <2>2
<1>7. ASSUME NEW m,
             \/ IgnoreCallback(m) \/ ReserveConfirmed(m) \/ ReserveFailed(m)
             \/ ReserveTimeout(m) \/ ReserveCommitConfirmed(m)
             \/ ReserveCommitFailed(m) \/ ProvisionConfirmed(m)
             \/ ReleaseConfirmed(m) \/ TerminateConfirmed(m)
             \/ DataPlaneStateChange(m) \/ QuerySummaryConfirmed(m)
      PROVE  Counted
  <2>1. CASE \/ IgnoreCallback(m) \/ ReserveFailed(m) \/ ReserveTimeout(m)
             \/ ReserveCommitFailed(m) \/ ProvisionConfirmed(m) \/ TerminateConfirmed(m)
    BY <1>4, <2>1, Zenon DEF IgnoreCallback, ReserveFailed, ReserveTimeout, ReserveCommitFailed,
                ProvisionConfirmed, TerminateConfirmed
  <2>2. CASE ReserveConfirmed(m) \/ ReleaseConfirmed(m) \/ DataPlaneStateChange(m)
    BY <1>4, <1>2, <2>2, Zenon DEF ReserveConfirmed, ReleaseConfirmed, DataPlaneStateChange
  <2>3. CASE ReserveCommitConfirmed(m)
    BY <1>1, <2>3, Zenon DEF ReserveCommitConfirmed
  <2>4. CASE QuerySummaryConfirmed(m)
    BY <1>4, <1>2, <2>4, Zenon DEF QuerySummaryConfirmed
  <2>5. QED
    BY <1>7, <2>1, <2>2, <2>3, <2>4
<1>8. CASE ProviderAnswers \/ HoldTimesOut \/ Activate \/ Deactivate \/ ReportActive
  BY <1>3, <1>8 DEF ProviderAnswers, HoldTimesOut, Activate, Deactivate, ReportActive,
              CheckReservation, Commit, Provision, Release, Terminate, AnswerQuery,
              Report, Post, TypeOK, Provider
<1>9. QED
  BY <1>5, <1>6, <1>7, <1>8 DEF Next, Callback

\* The next callback is a callback, and so are those that stay.
LEMMA ReceiveTypes ==
    ASSUME TypeOK, NEW m, Receive(m)
    PROVE  /\ m \in Callbacks
           /\ inbox' \in Seq(Callbacks)
           /\ update' \in UpdateEvents
           /\ creating' \in BOOLEAN
           /\ lost' \in 0..MaxLost
<1>1. PICK i \in 1..Len(inbox) : m = inbox[i] /\ inbox' = RemoveAt(inbox, i)
  BY DEF Receive, TypeOK
<1>2. inbox' \in Seq(Callbacks)
  BY <1>1, RemoveAtProperties DEF TypeOK
<1>3. QED
  BY <1>1, <1>2, ElementOfSeq DEF Receive, TypeOK

LEMMA PostTypes ==
    ASSUME TypeOK, NEW m \in Callbacks, Post(m)
    PROVE  /\ conn' \in ConnectionRow
           /\ inbox' \in Seq(Callbacks)
           /\ update' \in UpdateEvents
           /\ creating' \in BOOLEAN
           /\ lost' \in 0..MaxLost
BY AppendProperties DEF Post, TypeOK

\* A handler that leaves the row a row and the provider a provider.
LEMMA HandlerTypes ==
    ASSUME TypeOK, NEW m \in Range(inbox),
           \/ IgnoreCallback(m) \/ ReserveConfirmed(m) \/ ReserveFailed(m)
           \/ ReserveTimeout(m) \/ ReserveCommitConfirmed(m)
           \/ ReserveCommitFailed(m) \/ ProvisionConfirmed(m)
           \/ ReleaseConfirmed(m) \/ TerminateConfirmed(m)
           \/ DataPlaneStateChange(m) \/ QuerySummaryConfirmed(m)
    PROVE  TypeOK'
<1> USE DEF Handle
<1>1. Receive(m)
  BY DEF IgnoreCallback, ReserveConfirmed, ReserveFailed, ReserveTimeout,
         ReserveCommitConfirmed, ReserveCommitFailed, ProvisionConfirmed,
         ReleaseConfirmed, TerminateConfirmed, DataPlaneStateChange,
         QuerySummaryConfirmed
<1>2. /\ m \in Callbacks
      /\ inbox' \in Seq(Callbacks) /\ update' \in UpdateEvents
      /\ creating' \in BOOLEAN /\ lost' \in 0..MaxLost
  BY <1>1, ReceiveTypes
<1>3. conn \in ConnectionRow /\ nsa \in Provider
  BY DEF TypeOK
<1>4. conn' \in ConnectionRow /\ nsa' \in Provider
  <2>1. CASE IgnoreCallback(m)
    BY <2>1, <1>3 DEF IgnoreCallback
  <2>2. CASE ReserveConfirmed(m)
    BY <2>2, <1>3, RequestTypes DEF ReserveConfirmed, ConnectionRow, Statuses,
                                    Call, Calls
  <2>3. CASE ReserveFailed(m) \/ ReserveCommitFailed(m) \/ TerminateConfirmed(m)
    BY <2>3, <1>3 DEF ReserveFailed, ReserveCommitFailed, TerminateConfirmed,
                      ConnectionRow, Statuses
  <2>4. CASE ReserveTimeout(m)
    BY <2>4, <1>3 DEF ReserveTimeout, ConnectionRow, Statuses
  <2>5. CASE ReserveCommitConfirmed(m)
    <3>1. conn' \in ConnectionRow
      BY <2>5, <1>3 DEF ReserveCommitConfirmed, ConnectionRow, Statuses
    <3>2. nsa' \in Provider
      BY <2>5, <1>3, RequestTypes DEF ReserveCommitConfirmed, Calls
    <3>3. QED
      BY <3>1, <3>2
  <2>6. CASE ProvisionConfirmed(m)
    BY <2>6, <1>3 DEF ProvisionConfirmed, ConnectionRow, Statuses
  <2>7. CASE ReleaseConfirmed(m)
    BY <2>7, <1>3, RequestTypes DEF ReleaseConfirmed, ConnectionRow, Statuses,
                                    Call, Calls
  <2>8. CASE DataPlaneStateChange(m)
    <3>1. conn' \in ConnectionRow
      BY <2>8, <1>3 DEF DataPlaneStateChange, ConnectionRow, DataStatus
    <3>2. nsa' \in Provider
      BY <2>8, <1>3, RequestTypes DEF DataPlaneStateChange, Call, Calls
    <3>3. QED
      BY <3>1, <3>2
  <2>9. CASE QuerySummaryConfirmed(m)
    <3>1. m.version \in Versions
      BY <2>9, <1>2 DEF QuerySummaryConfirmed, Callbacks
    <3>2. conn' \in ConnectionRow
      BY <2>9, <1>3, <3>1 DEF QuerySummaryConfirmed, ConnectionRow, Statuses,
                              AuthStatuses, WorkflowOutcomes, ReadStatus,
                              ReadResources, DataStatus
    <3>3. nsa' \in Provider
      BY <2>9, <1>3, RequestTypes DEF QuerySummaryConfirmed, Call, Calls
    <3>4. QED
      BY <3>2, <3>3
  <2>10. QED
    BY <2>1, <2>2, <2>3, <2>4, <2>5, <2>6, <2>7, <2>8, <2>9
<1>5. faults' \in 0..MaxFaults
  BY FaultTypes DEF Next, Callback
<1>6. QED
  BY <1>2, <1>4, <1>5 DEF TypeOK

\* What the provider does leaves it a provider.
LEMMA ProviderTypes ==
    ASSUME TypeOK,
           \/ ProviderAnswers \/ HoldTimesOut
           \/ Activate \/ Deactivate \/ ReportActive
    PROVE  TypeOK'
<1>1. nsa \in Provider
  BY DEF TypeOK
<1>2. nsa' \in Provider
  <2>1. CASE CheckReservation \/ HoldTimesOut
    BY <1>1, <2>1 DEF CheckReservation, HoldTimesOut, Provider
  <2>2. CASE Commit
    BY <1>1, <2>2 DEF Commit, Provider
  <2>3. CASE Provision \/ Release
    BY <1>1, <2>3 DEF Provision, Release, Provider
  <2>4. CASE Terminate
    BY <1>1, <2>4 DEF Terminate, Provider
  <2>5. CASE AnswerQuery
    BY <1>1, <2>5 DEF AnswerQuery, Provider
  <2>6. CASE Activate \/ Deactivate \/ ReportActive
    BY <1>1, <2>6 DEF Activate, Deactivate, ReportActive, Provider
  <2>7. QED
    BY <2>1, <2>2, <2>3, <2>4, <2>5, <2>6 DEF ProviderAnswers
<1>3. \E m \in Callbacks : Post(m)
  <2>1. Snapshot(nsa) \in Callbacks
    BY <1>1 DEF Snapshot, Callbacks, Provider
  <2>2. CASE AnswerQuery
    BY <2>1, <2>2 DEF AnswerQuery, Report
  <2>3. CASE HoldTimesOut \/ CheckReservation \/ Commit \/ Provision \/ Release
             \/ Terminate
    BY <2>3 DEF HoldTimesOut, CheckReservation, Commit, Provision, Release,
                Terminate, Callbacks
  <2>4. CASE Activate \/ Deactivate \/ ReportActive
    BY <2>4 DEF Activate, Deactivate, ReportActive, Report, Callbacks
  <2>5. QED
    BY <2>2, <2>3, <2>4 DEF ProviderAnswers
<1>4. faults' \in 0..MaxFaults
  BY FaultTypes DEF Next
<1>5. QED
  BY <1>2, <1>3, <1>4, PostTypes DEF TypeOK

LEMMA TypeInit == Init => TypeOK
<1>1. 0 \in Versions /\ 0 \in 0..MaxLost /\ 0 \in 0..MaxFaults /\ << >> \in Seq(Callbacks)
  BY ConstantsAssumption DEF Versions
<1>2. NewRow \in ConnectionRow
  BY <1>1 DEF NewRow, ConnectionRow, Statuses, AuthStatuses
<1>3. NoCircuit \in Provider
  BY <1>1 DEF NoCircuit, Provider
<1>4. QED
  BY <1>1, <1>2, <1>3 DEF Init, TypeOK, UpdateEvents

LEMMA TypeStep == TypeOK /\ [Next]_vars => TypeOK'
<1> SUFFICES ASSUME TypeOK, [Next]_vars
             PROVE  TypeOK'
  OBVIOUS
<1>1. CASE UNCHANGED vars
  BY <1>1 DEF vars, TypeOK
<1>2. CASE RequestCreate \/ CreateAnswered \/ CreateAborted
  <2>1. NoCircuit \in Provider /\ 1 \in Versions /\ << >> \in Seq(Callbacks)
    BY ConstantsAssumption DEF NoCircuit, Provider, Versions
  <2>2. CASE RequestCreate
    BY <2>1, <2>2 DEF RequestCreate, TypeOK, Provider
  <2>3. CASE CreateAnswered
    BY <2>3 DEF CreateAnswered, TypeOK, ConnectionRow, Statuses
  <2>4. CASE CreateAborted
    BY <2>1, <2>4 DEF CreateAborted, TypeOK
  <2>5. QED
    BY <1>2, <2>2, <2>3, <2>4
<1>3. CASE SubmitUpdate \/ RequestUpdate \/ RequestCancel \/ RequestRefresh
  <2>1. conn \in ConnectionRow /\ nsa \in Provider
    BY DEF TypeOK
  <2>2. CASE SubmitUpdate
    BY <2>2 DEF SubmitUpdate, TypeOK
  <2>3. CASE RequestUpdate
    <3>1. nsa' \in Provider
      BY <2>1, <2>3, RequestTypes DEF RequestUpdate, Call, Calls
    <3>2. faults' \in 0..MaxFaults
      BY <2>3, FaultTypes DEF Next
    <3>3. QED
      BY <2>3, <3>1, <3>2 DEF RequestUpdate, TypeOK
  <2>4. CASE RequestCancel
    <3>1. conn' \in ConnectionRow
      BY <2>1, <2>4 DEF RequestCancel, ConnectionRow, Statuses, AuthStatuses
    <3>2. nsa' \in Provider
      BY <2>1, <2>4, RequestTypes DEF RequestCancel, Call, Calls
    <3>3. faults' \in 0..MaxFaults
      BY <2>4, FaultTypes DEF Next
    <3>4. QED
      BY <2>4, <3>1, <3>2, <3>3 DEF RequestCancel, TypeOK
  <2>5. CASE RequestRefresh
    <3>1. nsa' \in Provider
      BY <2>1, <2>5, RequestTypes DEF RequestRefresh, Call, Calls
    <3>2. faults' \in 0..MaxFaults
      BY <2>5, FaultTypes DEF Next
    <3>3. QED
      BY <2>5, <3>1, <3>2 DEF RequestRefresh, TypeOK
  <2>6. QED
    BY <1>3, <2>2, <2>3, <2>4, <2>5
<1>4. ASSUME NEW outcome \in {"AUTHORIZED", "DENIED", "EXPIRED"}, Authorize(outcome)
      PROVE  TypeOK'
  <2>1. conn' \in ConnectionRow
    BY <1>4 DEF Authorize, TypeOK, ConnectionRow, AuthStatuses
  <2>2. nsa' \in Provider
    BY <1>4, RequestTypes DEF Authorize, Call, Calls, TypeOK
  <2>3. faults' \in 0..MaxFaults
    BY <1>4, FaultTypes DEF Next
  <2>4. QED
    BY <1>4, <2>1, <2>2, <2>3 DEF Authorize, TypeOK
<1>5. CASE Callback
  BY <1>5, HandlerTypes DEF Callback
<1>6. CASE ProviderAnswers \/ HoldTimesOut \/ Activate \/ Deactivate \/ ReportActive
  BY <1>6, ProviderTypes
<1>7. CASE LoseCallback
  <2>1. inbox' \in Seq(Callbacks)
    BY <1>7, HeadTailProperties DEF LoseCallback, TypeOK
  <2>2. lost' \in 0..MaxLost
    BY <1>7, ConstantsAssumption DEF LoseCallback, TypeOK
  <2>3. QED
    BY <1>7, <2>1, <2>2 DEF LoseCallback, TypeOK
<1>8. QED
  BY <1>1, <1>2, <1>3, <1>4, <1>5, <1>6, <1>7 DEF Next

\* The row only ever holds values its columns can hold, and the callbacks in
\* flight are callbacks the RequesterController has a handler for.
THEOREM TypeCorrect == Spec => []TypeOK
BY TypeInit, TypeStep, PTL DEF Spec

-----------------------------------------------------------------------------
(***************************************************************************)
(* The inductive invariant.  The first version is decisive: it is read     *)
(* (conn.version > 0) only after its commit was handled, so a commit that  *)
(* is handled with a version already read is one of an update.             *)
(***************************************************************************)

Committed(m) == m.type = "reserveCommitConfirmed"
ReadsVersion(m) == m.type = "querySummaryConfirmed" /\ m.version > 0

\* Before the provider has named the circuit nothing is known of it.
Unnamed ==
    /\ creating => ~conn.hasId
    /\ ~conn.hasId => conn.version = 0
    /\ ~conn.hasId /\ ~creating => inbox = << >> /\ nsa = NoCircuit

\* What is being reserved is a version to come.
HeldIsAVersion ==
    nsa.reservation \in {"CHECKING", "HELD", "COMMITTING"} => nsa.held > 0

\* No commit of the provider is waiting to be handled ...
NoCommit(q) == \A i \in 1..Len(q) : ~Committed(q[i])

\* ... nor a reading of a committed version.
Quiet(q) == \A i \in 1..Len(q) : ~Committed(q[i]) /\ ~ReadsVersion(q[i])

\* At most one commit is waiting, and every reading is handled after it.
OneCommit(q) ==
    \A i, j \in 1..Len(q) : Committed(q[i]) /\ i # j =>
        /\ ~Committed(q[j])
        /\ ReadsVersion(q[j]) => InOrder /\ i < j

\* A circuit nobody edits is reserved once.  Nothing tells of its version
\* before it is committed, the commit is handled before the version is read,
\* and, if callbacks may overtake each other, nobody asks before that.
NeverEdited ==
    /\ nsa.version > 0 => nsa.reservation = "START"
    /\ nsa.version = 0 => conn.version = 0 /\ Quiet(inbox)
    /\ OneCommit(inbox)
    /\ conn.version > 0 => NoCommit(inbox)
    /\ ~InOrder /\ (nsa.version = 0 \/ ~NoCommit(inbox)) => nsa.queries = 0
    /\ nsa.provision # "RELEASED" => conn.auth = "AUTHORIZED"

IInv ==
    /\ TypeOK
    /\ Unnamed
    /\ HeldIsAVersion
    /\ update = "NONE" => NeverEdited

\* Handling a callback: what is in flight afterwards.
LEMMA ReceiveInbox ==
    ASSUME TypeOK, NEW m, Receive(m)
    PROVE  /\ NoCommit(inbox) => NoCommit(inbox') /\ ~Committed(m)
           /\ Quiet(inbox) => Quiet(inbox') /\ ~Committed(m) /\ ~ReadsVersion(m)
           /\ OneCommit(inbox) =>
                 /\ OneCommit(inbox')
                 /\ Committed(m) \/ ReadsVersion(m) => NoCommit(inbox')
<1>1. PICK k \in 1..Len(inbox) :
          (InOrder => k = 1) /\ m = inbox[k] /\ inbox' = RemoveAt(inbox, k)
  BY DEF Receive, TypeOK
<1> DEFINE old(j) == IF j < k THEN j ELSE j + 1
<1>2. Len(inbox) \in Nat /\ Len(inbox') = Len(inbox) - 1
  BY <1>1, RemoveAtProperties, LenProperties DEF TypeOK
<1>3. ASSUME NEW j \in 1..Len(inbox')
      PROVE  /\ old(j) \in 1..Len(inbox) /\ old(j) # k
             /\ inbox'[j] = inbox[old(j)]
  <2>1. inbox'[j] = inbox[old(j)]
    BY <1>1, <1>2, RemoveAtProperties DEF TypeOK
  <2>2. QED
    BY <1>2, <2>1
<1>4. \A i, j \in 1..Len(inbox') :
          (i # j => old(i) # old(j)) /\ (old(i) < old(j) => i < j)
  BY <1>2
<1> HIDE DEF old
<1>5. NoCommit(inbox) => NoCommit(inbox') /\ ~Committed(m)
  BY <1>1, <1>3 DEF NoCommit
<1>6. Quiet(inbox) => Quiet(inbox') /\ ~Committed(m) /\ ~ReadsVersion(m)
  BY <1>1, <1>3 DEF Quiet
<1>7. ASSUME OneCommit(inbox)
      PROVE  OneCommit(inbox')
  BY <1>3, <1>4, <1>7 DEF OneCommit
<1>8. ASSUME OneCommit(inbox), Committed(m) \/ ReadsVersion(m)
      PROVE  NoCommit(inbox')
  <2>1. CASE Committed(m)
    BY <1>1, <1>3, <1>8, <2>1 DEF OneCommit, NoCommit
  <2>2. CASE ReadsVersion(m)
    <3>1. ASSUME NEW j \in 1..Len(inbox'), Committed(inbox'[j])
          PROVE  FALSE
      <4>1. InOrder /\ old(j) < k
        BY <1>1, <1>3, <1>8, <2>2, <3>1 DEF OneCommit
      <4>2. QED
        BY <1>1, <1>3, <4>1
    <3>2. QED
      BY <3>1 DEF NoCommit
  <2>3. QED
    BY <1>8, <2>1, <2>2
<1>9. QED
  BY <1>5, <1>6, <1>7, <1>8

\* Posting a callback.
LEMMA PostInbox ==
    ASSUME TypeOK, NEW m \in Callbacks, Post(m)
    PROVE  /\ ~Committed(m) /\ ~ReadsVersion(m) =>
                 /\ Quiet(inbox) => Quiet(inbox')
                 /\ OneCommit(inbox) => OneCommit(inbox')
           /\ ~Committed(m) => (NoCommit(inbox') <=> NoCommit(inbox))
           /\ Committed(m) /\ Quiet(inbox) => OneCommit(inbox')
           /\ ReadsVersion(m) /\ (InOrder \/ NoCommit(inbox)) /\ OneCommit(inbox)
                 => OneCommit(inbox')
<1>1. /\ Len(inbox) \in Nat
      /\ Len(inbox') = Len(inbox) + 1
      /\ inbox'[Len(inbox) + 1] = m
      /\ \A i \in 1..Len(inbox) : inbox'[i] = inbox[i]
  BY AppendProperties, LenProperties DEF Post, TypeOK
<1>2. \A i \in 1..Len(inbox') :
          \/ i \in 1..Len(inbox) /\ inbox'[i] = inbox[i]
          \/ i = Len(inbox) + 1 /\ inbox'[i] = m
  BY <1>1
<1>3. 1..Len(inbox) \subseteq 1..Len(inbox')
  BY <1>1
<1>4. ~(Committed(m) /\ ReadsVersion(m))
  BY DEF Committed, ReadsVersion
<1>5. ~Committed(m) => (NoCommit(inbox') <=> NoCommit(inbox))
  BY <1>1, <1>2, <1>3 DEF NoCommit
<1>6. ~Committed(m) /\ ~ReadsVersion(m) /\ Quiet(inbox) => Quiet(inbox')
  BY <1>2 DEF Quiet
<1>7. ~Committed(m) /\ ~ReadsVersion(m) /\ OneCommit(inbox) => OneCommit(inbox')
  BY <1>2 DEF OneCommit
<1>8. Committed(m) /\ Quiet(inbox) => OneCommit(inbox')
  BY <1>2, <1>4 DEF OneCommit, Quiet
<1>9. ReadsVersion(m) /\ (InOrder \/ NoCommit(inbox)) /\ OneCommit(inbox)
          => OneCommit(inbox')
  BY <1>1, <1>2, <1>4 DEF OneCommit, NoCommit
<1>10. QED
  BY <1>5, <1>6, <1>7, <1>8, <1>9

\* Losing the oldest callback.
LEMMA LoseInbox ==
    ASSUME TypeOK, inbox # << >>, inbox' = Tail(inbox)
    PROVE  /\ NoCommit(inbox) => NoCommit(inbox')
           /\ Quiet(inbox) => Quiet(inbox')
           /\ OneCommit(inbox) => OneCommit(inbox')
<1>1. /\ Len(inbox) \in Nat
      /\ Len(inbox') = Len(inbox) - 1
      /\ \A i \in 1..Len(inbox') : inbox'[i] = inbox[i+1]
  BY HeadTailProperties, LenProperties DEF TypeOK
<1>2. \A i \in 1..Len(inbox') : i + 1 \in 1..Len(inbox)
  BY <1>1
<1>3. NoCommit(inbox) => NoCommit(inbox')
  BY <1>1, <1>2 DEF NoCommit
<1>4. Quiet(inbox) => Quiet(inbox')
  BY <1>1, <1>2 DEF Quiet
<1>5. ASSUME OneCommit(inbox)
      PROVE  OneCommit(inbox')
  <2>1. \A i, j \in 1..Len(inbox') :
            (i # j => i + 1 # j + 1) /\ (i + 1 < j + 1 => i < j)
    BY <1>1
  <2>2. QED
    BY <1>1, <1>2, <1>5, <2>1 DEF OneCommit
<1>6. QED
  BY <1>3, <1>4, <1>5

-----------------------------------------------------------------------------
(***************************************************************************)
(* The invariant is inductive.                                             *)
(***************************************************************************)

\* What each request leaves as it was.
LEMMA ReserveFrame ==
    ASSUME NEW n \in Provider, NEW v \in Nat \ {0}
    PROVE  \/ RequestReserve(n, v) = n
           \/ /\ RequestReserve(n, v).reservation = "CHECKING"
              /\ RequestReserve(n, v).held = v
BY DEF RequestReserve, Provider

LEMMA CommitFrame ==
    ASSUME NEW n \in Provider
    PROVE  LET r == RequestCommit(n)
           IN  /\ r.lifecycle = n.lifecycle /\ r.version = n.version
               /\ r.held = n.held /\ r.provision = n.provision
               /\ r.queries = n.queries
               /\ \/ r.reservation = n.reservation
                  \/ n.reservation = "HELD" /\ r.reservation = "COMMITTING"
BY DEF RequestCommit, Provider

LEMMA ProvisionFrame ==
    ASSUME NEW n \in Provider
    PROVE  LET r == RequestProvision(n)
           IN  /\ r.lifecycle = n.lifecycle /\ r.version = n.version
               /\ r.held = n.held /\ r.reservation = n.reservation
               /\ r.queries = n.queries
BY DEF RequestProvision, Provider

LEMMA ReleaseFrame ==
    ASSUME NEW n \in Provider
    PROVE  LET r == RequestRelease(n)
           IN  /\ r.version = n.version /\ r.held = n.held
               /\ r.reservation = n.reservation /\ r.queries = n.queries
BY DEF RequestRelease, Provider

LEMMA TerminateFrame ==
    ASSUME NEW n \in Provider
    PROVE  LET r == RequestTerminate(n)
           IN  /\ r.version = n.version /\ r.held = n.held
               /\ r.reservation = n.reservation /\ r.provision = n.provision
               /\ r.queries = n.queries
BY DEF RequestTerminate, Provider

LEMMA SummaryFrame ==
    ASSUME NEW n \in Provider
    PROVE  LET r == RequestSummary(n)
           IN  /\ r.lifecycle = n.lifecycle /\ r.version = n.version
               /\ r.held = n.held /\ r.provision = n.provision
               /\ r.reservation = n.reservation
BY DEF RequestSummary, Provider

\* Nothing but the answer to reserve names the circuit.
LEMMA UnnamedStep ==
    ASSUME TypeOK, Unnamed, [Next]_vars
    PROVE  Unnamed'
<1>1. CASE UNCHANGED vars
  BY <1>1 DEF vars, Unnamed
<1>2. CASE RequestCreate \/ CreateAnswered \/ CreateAborted
  BY <1>2 DEF RequestCreate, CreateAnswered, CreateAborted, Unnamed, TypeOK,
              ConnectionRow
<1>3. CASE SubmitUpdate \/ RequestUpdate \/ RequestCancel \/ RequestRefresh
  <2>1. /\ conn'.hasId = conn.hasId /\ conn'.version = conn.version
        /\ UNCHANGED <<creating, inbox>>
    BY <1>3 DEF SubmitUpdate, RequestUpdate, RequestCancel, RequestRefresh,
                TypeOK, ConnectionRow
  <2>2. ~conn.hasId => nsa' = nsa
    BY <1>3 DEF SubmitUpdate, RequestUpdate, RequestCancel, RequestRefresh, Call, Calls
  <2>3. QED
    BY <2>1, <2>2 DEF Unnamed
<1>4. ASSUME NEW outcome \in {"AUTHORIZED", "DENIED", "EXPIRED"}, Authorize(outcome)
      PROVE  Unnamed'
  <2>1. nsa = NoCircuit => nsa' = NoCircuit
    BY <1>4 DEF Authorize, Call, Calls, RequestProvision, NoCircuit
  <2>2. QED
    BY <1>4, <2>1 DEF Authorize, Unnamed, TypeOK, ConnectionRow
<1>5. ASSUME NEW m \in Range(inbox), Handle(m),
             conn'.hasId = conn.hasId
      PROVE  Unnamed'
  BY <1>5 DEF Handle, Receive, Unnamed
<1>6. CASE Callback
  <2>1. PICK m \in Range(inbox) :
           \/ IgnoreCallback(m)
           \/ Handle(m) /\ conn'.hasId = conn.hasId
    BY <1>6 DEF Callback, ReserveConfirmed, ReserveFailed, ReserveTimeout,
                ReserveCommitConfirmed, ReserveCommitFailed, ProvisionConfirmed,
                ReleaseConfirmed, TerminateConfirmed, DataPlaneStateChange,
                QuerySummaryConfirmed, TypeOK, ConnectionRow
  <2>2. CASE IgnoreCallback(m)
    <3>1. inbox # << >>
      BY <2>2 DEF IgnoreCallback, Receive
    <3>2. QED
      BY <2>2, <3>1 DEF IgnoreCallback, Receive, Unnamed
  <2>3. QED
    BY <1>5, <2>1, <2>2
<1>7. CASE ProviderAnswers \/ HoldTimesOut \/ Activate \/ Deactivate \/ ReportActive
  <2>1. nsa # NoCircuit
    BY <1>7 DEF ProviderAnswers, HoldTimesOut, Activate, Deactivate, ReportActive,
                CheckReservation, Commit, Provision, Release, Terminate,
                AnswerQuery, Alive, NoCircuit
  <2>2. UNCHANGED <<conn, creating>>
    BY <1>7 DEF ProviderAnswers, HoldTimesOut, Activate, Deactivate, ReportActive,
                CheckReservation, Commit, Provision, Release, Terminate,
                AnswerQuery, Report, Post
  <2>3. QED
    BY <2>1, <2>2 DEF Unnamed
<1>8. CASE LoseCallback
  BY <1>8 DEF LoseCallback, Unnamed
<1>9. QED
  BY <1>1, <1>2, <1>3, <1>4, <1>6, <1>7, <1>8 DEF Next

\* Only a reserve request changes the held version, to the next one.
LEMMA HeldStep ==
    ASSUME TypeOK, HeldIsAVersion, [Next]_vars
    PROVE  HeldIsAVersion'
<1> DEFINE Calm ==
        \/ nsa'.reservation = nsa.reservation /\ nsa'.held = nsa.held
        \/ nsa'.reservation \in {"START", "FAILED"}
        \/ nsa.reservation \in {"CHECKING", "HELD"} /\ nsa'.held = nsa.held
        \/ nsa'.held > 0
<1>1. SUFFICES Calm
  BY DEF HeldIsAVersion
<1>2. conn \in ConnectionRow /\ nsa \in Provider /\ conn.version + 1 \in Nat \ {0}
  BY ConstantsAssumption DEF TypeOK, ConnectionRow, Versions
<1>3. UpdateContinue(conn, nsa) = nsa \/ UpdateContinue(conn, nsa).held > 0
  BY <1>2, ReserveFrame DEF UpdateContinue
<1>4. CASE UNCHANGED vars
  BY <1>4 DEF vars
<1>5. CASE RequestCreate \/ CreateAnswered \/ CreateAborted
  <2>1. CASE RequestCreate
    BY <2>1 DEF RequestCreate, NoCircuit
  <2>2. CASE CreateAnswered
    BY <2>2 DEF CreateAnswered
  <2>3. CASE CreateAborted
    BY <2>3 DEF CreateAborted, NoCircuit
  <2>4. QED
    BY <1>5, <2>1, <2>2, <2>3
<1>6. CASE SubmitUpdate \/ RequestUpdate \/ RequestCancel \/ RequestRefresh
  BY <1>2, <1>3, <1>6, ReleaseFrame, TerminateFrame, SummaryFrame
     DEF SubmitUpdate, RequestUpdate, RequestCancel, RequestRefresh, Call, Calls
<1>7. ASSUME NEW outcome \in {"AUTHORIZED", "DENIED", "EXPIRED"}, Authorize(outcome)
      PROVE  Calm
  BY <1>2, <1>7, ProvisionFrame DEF Authorize, Call, Calls
<1>8. CASE Callback
  <2>1. PICK m \in Range(inbox) :
           \/ nsa' \in {nsa, RequestCommit(nsa), RequestProvision(nsa),
                        UpdateContinue(conn, nsa)}
           \/ ReserveCommitConfirmed(m)
    BY <1>8 DEF Callback, IgnoreCallback, ReserveConfirmed, ReserveFailed,
                ReserveTimeout, ReserveCommitFailed, ProvisionConfirmed,
                ReleaseConfirmed, TerminateConfirmed, DataPlaneStateChange,
                QuerySummaryConfirmed, Call, Calls
  <2>2. CASE ReserveCommitConfirmed(m)
    <3>1. RequestProvision(nsa) \in Provider
      BY <1>2, RequestTypes
    <3>2. QED
      BY <1>2, <2>2, <3>1, ProvisionFrame, SummaryFrame
         DEF ReserveCommitConfirmed, Calls
  <2>3. CASE nsa' \in {nsa, RequestCommit(nsa), RequestProvision(nsa),
                       UpdateContinue(conn, nsa)}
    BY <1>2, <1>3, <2>3, CommitFrame, ProvisionFrame
  <2>4. QED
    BY <2>1, <2>2, <2>3
<1>9. CASE ProviderAnswers \/ HoldTimesOut \/ Activate \/ Deactivate \/ ReportActive
  BY <1>2, <1>9 DEF ProviderAnswers, HoldTimesOut, Activate, Deactivate,
                    ReportActive, CheckReservation, Commit, Provision, Release,
                    Terminate, AnswerQuery, Provider
<1>10. CASE LoseCallback
  BY <1>10 DEF LoseCallback
<1>11. QED
  BY <1>4, <1>5, <1>6, <1>7, <1>8, <1>9, <1>10 DEF Next

\* A handler that neither reads a version nor decides on the authorization.
LEMMA PlainHandler ==
    ASSUME TypeOK, NeverEdited, NEW m, Receive(m),
           conn'.version = conn.version, conn'.auth = conn.auth,
           nsa' = nsa \/ nsa' = RequestCommit(nsa)
    PROVE  NeverEdited'
<1>1. /\ nsa \in Provider
      /\ nsa'.version = nsa.version /\ nsa'.provision = nsa.provision
      /\ nsa'.queries = nsa.queries
      /\ nsa.reservation = "START" => nsa'.reservation = "START"
  BY CommitFrame DEF TypeOK
<1>2. /\ Quiet(inbox) => Quiet(inbox')
      /\ NoCommit(inbox) => NoCommit(inbox')
      /\ OneCommit(inbox) => OneCommit(inbox')
  BY ReceiveInbox
<1>3. QED
  BY <1>1, <1>2 DEF NeverEdited

\* The commit is handled while no version was read: nothing is provisioned.
LEMMA CommitHandler ==
    ASSUME TypeOK, NeverEdited, NEW m, ReserveCommitConfirmed(m)
    PROVE  NeverEdited'
<1>1. Receive(m) /\ Committed(m)
  BY DEF ReserveCommitConfirmed, Handle, Committed
<1>2. /\ Quiet(inbox) => Quiet(inbox') /\ ~Committed(m)
      /\ NoCommit(inbox) => ~Committed(m)
      /\ OneCommit(inbox) => OneCommit(inbox') /\ NoCommit(inbox')
  BY <1>1, ReceiveInbox
<1>3. conn.version \in Nat /\ nsa \in Provider /\ nsa.version \in Nat
  BY ConstantsAssumption DEF TypeOK, ConnectionRow, Provider, Versions
<1>4. conn.version = 0 /\ nsa.version # 0
  BY <1>1, <1>2, <1>3 DEF NeverEdited
<1>5. nsa' \in {nsa, RequestSummary(nsa)}
  BY <1>4 DEF ReserveCommitConfirmed, Calls
<1>6. /\ nsa'.version = nsa.version /\ nsa'.provision = nsa.provision
      /\ nsa'.reservation = nsa.reservation
  BY <1>3, <1>5, SummaryFrame
<1>7. conn'.version = conn.version /\ conn'.auth = conn.auth
  BY DEF ReserveCommitConfirmed, TypeOK, ConnectionRow
<1>8. QED
  BY <1>1, <1>2, <1>4, <1>6, <1>7 DEF NeverEdited

\* A reading provisions the circuit only if it found it authorized.
LEMMA SummaryHandler ==
    ASSUME TypeOK, NeverEdited, NEW m, QuerySummaryConfirmed(m)
    PROVE  NeverEdited'
<1>1. Receive(m)
  BY DEF QuerySummaryConfirmed, Handle
<1>2. m.type = "querySummaryConfirmed" /\ m \in Callbacks
  BY <1>1, ReceiveTypes DEF QuerySummaryConfirmed
<1>3. /\ m.version \in Nat /\ nsa \in Provider /\ nsa.version \in Nat
      /\ conn.version \in Nat
  BY <1>2, ConstantsAssumption DEF Callbacks, TypeOK, ConnectionRow, Provider, Versions
<1>4. /\ Quiet(inbox) => Quiet(inbox') /\ ~ReadsVersion(m)
      /\ NoCommit(inbox) => NoCommit(inbox')
      /\ OneCommit(inbox) => OneCommit(inbox')
      /\ OneCommit(inbox) /\ ReadsVersion(m) => NoCommit(inbox')
  BY <1>1, ReceiveInbox
<1>5. PICK auth : /\ conn'.auth = auth /\ conn'.version = m.version
                  /\ auth = conn.auth \/ conn.auth = "UNEXECUTED"
                  /\ \/ nsa' = nsa
                     \/ auth = "AUTHORIZED" /\ nsa' = RequestProvision(nsa)
  BY DEF QuerySummaryConfirmed, Call, Calls, TypeOK, ConnectionRow
<1>6. /\ nsa'.version = nsa.version /\ nsa'.queries = nsa.queries
      /\ nsa'.reservation = nsa.reservation
  BY <1>3, <1>5, ProvisionFrame
<1>7. nsa'.provision # "RELEASED" => conn'.auth = "AUTHORIZED"
  BY <1>5 DEF NeverEdited
<1>8. ReadsVersion(m) <=> m.version # 0
  BY <1>2, <1>3 DEF ReadsVersion
<1>9. QED
  BY <1>3, <1>4, <1>5, <1>6, <1>7, <1>8 DEF NeverEdited

LEMMA CallbackStep ==
    ASSUME TypeOK, NeverEdited, update = "NONE", Callback
    PROVE  NeverEdited'
<1>1. PICK m \in Range(inbox) :
          \/ IgnoreCallback(m) \/ ReserveConfirmed(m) \/ ReserveFailed(m)
          \/ ReserveTimeout(m) \/ ReserveCommitConfirmed(m)
          \/ ReserveCommitFailed(m) \/ ProvisionConfirmed(m)
          \/ ReleaseConfirmed(m) \/ TerminateConfirmed(m)
          \/ DataPlaneStateChange(m) \/ QuerySummaryConfirmed(m)
  BY DEF Callback
<1>2. conn \in ConnectionRow
  BY DEF TypeOK
<1>3. CASE IgnoreCallback(m)
  BY <1>3, PlainHandler DEF IgnoreCallback
<1>4. CASE ReserveFailed(m) \/ ReserveCommitFailed(m) \/ TerminateConfirmed(m)
           \/ ReserveTimeout(m) \/ ProvisionConfirmed(m)
  <2>1. /\ Receive(m) /\ nsa' = nsa
        /\ conn'.version = conn.version /\ conn'.auth = conn.auth
    BY <1>2, <1>4 DEF ReserveFailed, ReserveCommitFailed, TerminateConfirmed,
           ReserveTimeout, ProvisionConfirmed, Handle, ConnectionRow
  <2>2. QED
    BY <2>1, PlainHandler
<1>5. CASE ReserveConfirmed(m) \/ ReleaseConfirmed(m) \/ DataPlaneStateChange(m)
  <2>1. /\ Receive(m) /\ (nsa' = nsa \/ nsa' = RequestCommit(nsa))
        /\ conn'.version = conn.version /\ conn'.auth = conn.auth
    BY <1>2, <1>5 DEF ReserveConfirmed, ReleaseConfirmed, DataPlaneStateChange,
           UpdateContinue, Call, Calls, Handle, ConnectionRow
  <2>2. QED
    BY <2>1, PlainHandler
<1>6. QED
  BY <1>1, <1>3, <1>4, <1>5, CommitHandler, SummaryHandler

\* The provider posts a commit when nothing tells of one yet, and a reading of
\* the committed version when the commit was handled or will be before it.
LEMMA ProviderStep ==
    ASSUME TypeOK, HeldIsAVersion, NeverEdited,
           \/ ProviderAnswers \/ HoldTimesOut
           \/ Activate \/ Deactivate \/ ReportActive
    PROVE  NeverEdited'
<1>1. nsa \in Provider /\ nsa.version \in Nat /\ nsa.held \in Nat
      /\ conn.version \in Nat
  BY ConstantsAssumption DEF TypeOK, ConnectionRow, Provider, Versions
<1>2. ASSUME NEW m \in Callbacks, Post(m), ~Committed(m), ~ReadsVersion(m),
             nsa'.version = nsa.version, nsa'.queries <= nsa.queries,
             nsa'.queries \in 0..1,
             nsa'.provision # "RELEASED" => nsa.provision # "RELEASED",
             nsa.reservation = "START" => nsa'.reservation = "START"
      PROVE  NeverEdited'
  <2>1. /\ Quiet(inbox) => Quiet(inbox')
        /\ OneCommit(inbox) => OneCommit(inbox')
        /\ NoCommit(inbox') <=> NoCommit(inbox)
    BY <1>2, PostInbox
  <2>2. conn' = conn
    BY <1>2 DEF Post
  <2>3. nsa.queries = 0 => nsa'.queries = 0
    BY <1>1, <1>2
  <2>4. QED
    BY <1>2, <2>1, <2>2, <2>3 DEF NeverEdited
<1>3. CASE CheckReservation \/ HoldTimesOut \/ Provision \/ Release \/ Terminate
           \/ Activate \/ Deactivate \/ ReportActive
  <2>1. PICK m \in Callbacks : Post(m) /\ ~Committed(m) /\ ~ReadsVersion(m)
    <3>1. \A m : m.type \in {"reserveConfirmed", "reserveFailed", "reserveTimeout",
                             "provisionConfirmed", "releaseConfirmed",
                             "terminateConfirmed", "dataPlaneStateChange"}
                     => ~Committed(m) /\ ~ReadsVersion(m)
      BY DEF Committed, ReadsVersion
    <3>2. CASE CheckReservation \/ HoldTimesOut
      BY <3>1, <3>2 DEF CheckReservation, HoldTimesOut, Callbacks
    <3>3. CASE Provision \/ Release \/ Terminate
      BY <3>1, <3>3 DEF Provision, Release, Terminate, Callbacks
    <3>4. CASE Activate \/ Deactivate \/ ReportActive
      <4>1. \A b \in BOOLEAN :
                /\ [type |-> "dataPlaneStateChange", active |-> b] \in Callbacks
                /\ [type |-> "dataPlaneStateChange", active |-> b].type
                       = "dataPlaneStateChange"
        BY DEF Callbacks
      <4>2. \E b \in BOOLEAN : Post([type |-> "dataPlaneStateChange", active |-> b])
        BY <3>4 DEF Activate, Deactivate, ReportActive, Report
      <4>3. QED
        BY <3>1, <4>1, <4>2
    <3>5. QED
      BY <1>3, <3>2, <3>3, <3>4
  <2>2. /\ nsa'.version = nsa.version /\ nsa'.queries = nsa.queries
        /\ nsa'.provision # "RELEASED" => nsa.provision # "RELEASED"
        /\ nsa.reservation = "START" => nsa'.reservation = "START"
    <3>1. CASE CheckReservation \/ HoldTimesOut
      BY <1>1, <3>1 DEF CheckReservation, HoldTimesOut, Provider
    <3>2. CASE Provision \/ Release \/ Terminate
      BY <1>1, <3>2 DEF Provision, Release, Terminate, Provider
    <3>3. CASE Activate \/ Deactivate \/ ReportActive
      BY <1>1, <3>3 DEF Activate, Deactivate, ReportActive, Provider
    <3>4. QED
      BY <1>3, <3>1, <3>2, <3>3
  <2>3. nsa.queries \in 0..1 /\ nsa.queries <= nsa.queries
    BY <1>1 DEF Provider
  <2>4. QED
    BY <1>2, <2>1, <2>2, <2>3
<1>4. CASE Commit
  <2>1. nsa.version = 0 /\ nsa.held > 0
    BY <1>1, <1>4 DEF Commit, NeverEdited, HeldIsAVersion
  <2>2. Quiet(inbox) /\ conn.version = 0 /\ conn' = conn
    BY <1>4, <2>1 DEF Commit, Post, NeverEdited
  <2>3. CASE /\ nsa' = [nsa EXCEPT !.reservation = "START"]
             /\ Post([type |-> "reserveCommitFailed"])
    <3>1. /\ [type |-> "reserveCommitFailed"] \in Callbacks
          /\ ~Committed([type |-> "reserveCommitFailed"])
          /\ ~ReadsVersion([type |-> "reserveCommitFailed"])
      BY DEF Callbacks, Committed, ReadsVersion
    <3>2. /\ Quiet(inbox') /\ OneCommit(inbox')
          /\ NoCommit(inbox') <=> NoCommit(inbox)
      BY <2>2, <2>3, <3>1, PostInbox DEF NeverEdited
    <3>3. /\ nsa'.queries = nsa.queries /\ nsa'.provision = nsa.provision
          /\ nsa'.reservation = "START"
      BY <1>1, <2>3 DEF Provider
    <3>4. QED
      BY <2>1, <2>2, <3>2, <3>3 DEF NeverEdited
  <2>4. CASE /\ nsa' = [nsa EXCEPT !.reservation = "START", !.version = nsa.held]
             /\ Post([type |-> "reserveCommitConfirmed"])
    <3>1. /\ [type |-> "reserveCommitConfirmed"] \in Callbacks
          /\ Committed([type |-> "reserveCommitConfirmed"])
      BY DEF Callbacks, Committed
    <3>2. OneCommit(inbox')
      BY <2>2, <2>4, <3>1, PostInbox
    <3>3. /\ nsa'.queries = nsa.queries /\ nsa'.provision = nsa.provision
          /\ nsa'.reservation = "START" /\ nsa'.version = nsa.held
      BY <1>1, <2>4 DEF Provider
    <3>4. QED
      BY <1>1, <2>1, <2>2, <3>2, <3>3 DEF NeverEdited
  <2>5. QED
    BY <1>4, <2>3, <2>4 DEF Commit
<1>5. CASE AnswerQuery
  <2>1. /\ nsa'.version = nsa.version /\ nsa'.reservation = nsa.reservation
        /\ nsa'.provision = nsa.provision /\ nsa'.queries = 0
    BY <1>1, <1>5 DEF AnswerQuery, Provider
  <2>2. Snapshot(nsa) \in Callbacks /\ Post(Snapshot(nsa))
    BY <1>1, <1>5 DEF AnswerQuery, Report, Snapshot, Callbacks, Provider
  <2>3. ~Committed(Snapshot(nsa)) /\ (ReadsVersion(Snapshot(nsa)) <=> nsa.version > 0)
    BY DEF Snapshot, Committed, ReadsVersion
  <2>4. InOrder \/ NoCommit(inbox)
    BY <1>5 DEF AnswerQuery, NeverEdited
  <2>5. /\ nsa.version = 0 => Quiet(inbox')
        /\ OneCommit(inbox')
        /\ NoCommit(inbox') <=> NoCommit(inbox)
    BY <1>1, <2>2, <2>3, <2>4, PostInbox DEF NeverEdited
  <2>6. conn' = conn
    BY <2>2 DEF Post
  <2>7. QED
    BY <2>1, <2>5, <2>6 DEF NeverEdited
<1>6. QED
  BY <1>3, <1>4, <1>5 DEF ProviderAnswers

\* Requests of users: none of them edits the circuit, as update stays "NONE".
LEMMA UserStep ==
    ASSUME TypeOK, Unnamed, NeverEdited, update = "NONE", update' = "NONE",
           InOrder \/ ~MayRefresh,
           \/ RequestCreate \/ CreateAnswered \/ CreateAborted
           \/ SubmitUpdate \/ RequestUpdate \/ RequestCancel \/ RequestRefresh
           \/ \E outcome \in {"AUTHORIZED", "DENIED", "EXPIRED"} : Authorize(outcome)
    PROVE  NeverEdited'
<1>1. conn \in ConnectionRow /\ nsa \in Provider
  BY DEF TypeOK
<1>2. OneCommit(<< >>) /\ NoCommit(<< >>) /\ Quiet(<< >>)
  BY DEF OneCommit, NoCommit, Quiet
<1>3. CASE RequestCreate \/ CreateAborted
  <2>1. /\ inbox' = << >> /\ conn' = conn /\ conn.version = 0
        /\ nsa'.version = 0 /\ nsa'.queries = 0 /\ nsa'.provision = "RELEASED"
    <3>1. CASE RequestCreate
      BY <3>1 DEF RequestCreate, Unnamed, NoCircuit
    <3>2. CASE CreateAborted
      BY <3>2 DEF CreateAborted, Unnamed, NoCircuit
    <3>3. QED
      BY <1>3, <3>1, <3>2
  <2>2. QED
    BY <1>2, <2>1 DEF NeverEdited
<1>4. CASE CreateAnswered
  <2>1. /\ conn'.version = conn.version /\ conn'.auth = conn.auth
        /\ UNCHANGED <<nsa, inbox>>
    BY <1>1, <1>4 DEF CreateAnswered, ConnectionRow
  <2>2. QED
    BY <2>1 DEF NeverEdited
<1>5. ~SubmitUpdate /\ ~RequestUpdate
  BY DEF SubmitUpdate, RequestUpdate
<1>6. CASE RequestCancel
  <2>1. /\ conn'.version = conn.version /\ inbox' = inbox
        /\ conn.auth = "AUTHORIZED" => conn'.auth = "AUTHORIZED"
    BY <1>1, <1>6 DEF RequestCancel, ConnectionRow
  <2>2. /\ nsa'.version = nsa.version /\ nsa'.queries = nsa.queries
        /\ nsa'.reservation = nsa.reservation /\ nsa'.provision = nsa.provision
    BY <1>1, <1>6, TerminateFrame DEF RequestCancel, Call, Calls
  <2>3. QED
    BY <2>1, <2>2 DEF NeverEdited
<1>7. CASE RequestRefresh
  <2>1. /\ InOrder /\ conn' = conn /\ inbox' = inbox
        /\ nsa' \in {nsa, RequestSummary(nsa)}
    BY <1>7 DEF RequestRefresh, Call, Calls
  <2>2. /\ nsa'.version = nsa.version
        /\ nsa'.reservation = nsa.reservation /\ nsa'.provision = nsa.provision
    BY <1>1, <2>1, SummaryFrame
  <2>3. QED
    BY <2>1, <2>2 DEF NeverEdited
<1>8. ASSUME NEW outcome \in {"AUTHORIZED", "DENIED", "EXPIRED"}, Authorize(outcome)
      PROVE  NeverEdited'
  <2>1. /\ conn'.version = conn.version /\ conn'.auth = outcome /\ inbox' = inbox
        /\ conn.auth = "WAITING"
    BY <1>1, <1>8 DEF Authorize, ConnectionRow
  <2>2. /\ nsa'.version = nsa.version /\ nsa'.queries = nsa.queries
        /\ nsa'.reservation = nsa.reservation
    BY <1>1, <1>8, ProvisionFrame DEF Authorize, Call, Calls
  <2>3. nsa'.provision # "RELEASED" => outcome = "AUTHORIZED"
    BY <1>8, <2>1 DEF Authorize, Call, Calls, NeverEdited
  <2>4. QED
    BY <2>1, <2>2, <2>3 DEF NeverEdited
<1>9. QED
  BY <1>3, <1>4, <1>5, <1>6, <1>7, <1>8

LEMMA NeverEditedStep ==
    ASSUME InOrder \/ ~MayRefresh, IInv, [Next]_vars, update' = "NONE"
    PROVE  NeverEdited'
<1>1. update = "NONE"
  BY DEF Next, vars, RequestCreate, CreateAnswered, CreateAborted, SubmitUpdate,
         RequestUpdate, RequestCancel, RequestRefresh, Authorize, Callback,
         IgnoreCallback, ReserveConfirmed, ReserveFailed, ReserveTimeout,
         ReserveCommitConfirmed, ReserveCommitFailed, ProvisionConfirmed,
         ReleaseConfirmed, TerminateConfirmed, DataPlaneStateChange,
         QuerySummaryConfirmed, Handle, Receive, ProviderAnswers, HoldTimesOut,
         Activate, Deactivate, ReportActive, CheckReservation, Commit, Provision,
         Release, Terminate, AnswerQuery, Report, Post, LoseCallback
<1>2. TypeOK /\ Unnamed /\ HeldIsAVersion /\ NeverEdited
  BY <1>1 DEF IInv
<1>3. CASE UNCHANGED vars
  BY <1>2, <1>3 DEF vars, NeverEdited
<1>4. CASE LoseCallback
  BY <1>2, <1>4, LoseInbox DEF LoseCallback, NeverEdited
<1>5. CASE Callback
  BY <1>1, <1>2, <1>5, CallbackStep
<1>6. CASE ProviderAnswers \/ HoldTimesOut \/ Activate \/ Deactivate \/ ReportActive
  BY <1>2, <1>6, ProviderStep
<1>7. QED
  BY <1>1, <1>2, <1>3, <1>4, <1>5, <1>6, UserStep DEF Next

LEMMA InvInit == Init => IInv
<1> SUFFICES ASSUME Init
             PROVE  IInv
  OBVIOUS
<1>1. inbox = << >> /\ conn = NewRow /\ nsa = NoCircuit /\ creating = FALSE
  BY DEF Init
<1>2. Unnamed /\ HeldIsAVersion
  BY <1>1 DEF Unnamed, HeldIsAVersion, NewRow, NoCircuit
<1>3. NeverEdited
  BY <1>1 DEF NeverEdited, NewRow, NoCircuit, OneCommit, NoCommit, Quiet
<1>4. QED
  BY <1>2, <1>3, TypeInit DEF IInv

\* Unless somebody edits the circuit, the provider is asked to put it in
\* service only after the workflows authorized it, for every order in which
\* callbacks are handled and any number of lost ones and of failed calls, as
\* long as nobody refreshes a circuit whose callbacks may overtake each other.
THEOREM ApprovedBeforeProvisioned ==
    ASSUME InOrder \/ ~MayRefresh
    PROVE  Spec => []ProvisionNeedsApproval
<1>1. Init => IInv
  BY InvInit
<1>2. IInv /\ [Next]_vars => IInv'
  BY TypeStep, UnnamedStep, HeldStep, NeverEditedStep DEF IInv
<1>3. IInv => ProvisionNeedsApproval
  BY DEF IInv, NeverEdited, ProvisionNeedsApproval
<1>4. QED
  BY <1>1, <1>2, <1>3, PTL DEF Spec


-----------------------------------------------------------------------------
(***************************************************************************)
(* Once every callback is handled.                                         *)
(***************************************************************************)

Reading(m) == m.type = "querySummaryConfirmed"

\* What callback m tells of a column of the row: nothing, or the value it sets.
Word(column, m) ==
    IF column = "resources"
    THEN IF m.type = "provisionConfirmed" THEN {"PROVISIONED"}
         ELSE IF m.type = "releaseConfirmed" THEN {"RELEASED"}
         ELSE IF Reading(m) /\ ~m.terminated
         THEN {IF m.provisioned THEN "PROVISIONED" ELSE "RELEASED"} ELSE {}
    ELSE IF column = "dataplane"
    THEN IF Reading(m) \/ m.type = "dataPlaneStateChange"
         THEN {DataStatus(m.active)} ELSE {}
    ELSE IF Reading(m) THEN {m.version} ELSE {}

\* The column holds c now and will hold v when the callbacks of q are handled:
\* the last word on it is v, or there is none and v is what it holds.
Says(column, c, q, v) ==
    \/ \E k \in 1..Len(q) :
          /\ Word(column, q[k]) = {v}
          /\ \A j \in 1..Len(q) : j > k => Word(column, q[j]) = {}
    \/ c = v /\ \A k \in 1..Len(q) : Word(column, q[k]) = {}

\* A callback is posted: it has the last word.
LEMMA PostSays ==
    ASSUME NEW column, NEW c, NEW v, NEW q \in Seq(Callbacks), NEW m \in Callbacks
    PROVE  /\ Word(column, m) = {v} => Says(column, c, Append(q, m), v)
           /\ Word(column, m) = {} /\ Says(column, c, q, v)
                 => Says(column, c, Append(q, m), v)
<1> DEFINE p == Append(q, m)
<1>1. /\ Len(q) \in Nat /\ Len(p) = Len(q) + 1
      /\ p[Len(q) + 1] = m
      /\ \A i \in 1..Len(q) : p[i] = q[i]
  BY AppendProperties, LenProperties
<1> HIDE DEF p
<1>2. Len(q) + 1 \in 1..Len(p) /\ 1..Len(q) \subseteq 1..Len(p)
  BY <1>1
<1>3. \A i \in 1..Len(p) : i \in 1..Len(q) \/ i = Len(q) + 1
  BY <1>1
<1>4. \A j \in 1..Len(p) : ~(j > Len(q) + 1)
  BY <1>1
<1>5. Word(column, m) = {v} => Says(column, c, p, v)
  BY <1>1, <1>2, <1>4 DEF Says
<1>6. Word(column, m) = {} /\ Says(column, c, q, v) => Says(column, c, p, v)
  BY <1>1, <1>2, <1>3 DEF Says
<1> QED
  BY <1>5, <1>6 DEF p

\* The oldest callback is handled: the column takes what it tells.
LEMMA HandleSays ==
    ASSUME NEW column, NEW c, NEW d, NEW v, NEW q \in Seq(Callbacks), Len(q) > 0,
           \/ Word(column, q[1]) = {d}
           \/ Word(column, q[1]) = {} /\ d = c,
           Says(column, c, q, v)
    PROVE  Says(column, d, RemoveAt(q, 1), v)
<1> DEFINE p == RemoveAt(q, 1)
<1>1. /\ Len(q) \in Nat /\ Len(p) = Len(q) - 1
      /\ \A i \in 1..(Len(q) - 1) : p[i] = q[i + 1]
  BY RemoveAtProperties, LenProperties
<1> HIDE DEF p
<1>2. \A i \in 1..Len(p) : i + 1 \in 1..Len(q) /\ p[i] = q[i + 1]
  BY <1>1
<1>3. ASSUME NEW k \in 1..Len(q), Word(column, q[k]) = {v},
             \A j \in 1..Len(q) : j > k => Word(column, q[j]) = {}
      PROVE  Says(column, d, p, v)
  <2>1. CASE k = 1
    <3>1. d = v
      BY <1>3, <2>1
    <3>2. \A i \in 1..Len(p) : Word(column, p[i]) = {}
      BY <1>2, <1>3, <2>1
    <3> QED
      BY <3>1, <3>2 DEF Says
  <2>2. CASE k # 1
    <3>1. k - 1 \in 1..Len(p) /\ p[k - 1] = q[k]
      BY <1>1, <2>2
    <3>2. \A j \in 1..Len(p) : j > k - 1 => j + 1 > k
      BY <1>1
    <3>3. \A j \in 1..Len(p) : j > k - 1 => Word(column, p[j]) = {}
      BY <1>2, <1>3, <3>2
    <3> QED
      BY <3>1, <3>3, <1>3 DEF Says
  <2> QED
    BY <2>1, <2>2
<1>4. ASSUME c = v, \A k \in 1..Len(q) : Word(column, q[k]) = {}
      PROVE  Says(column, d, p, v)
  <2>1. 1 \in 1..Len(q)
    BY <1>1
  <2>2. d = v
    BY <1>4, <2>1
  <2>3. \A i \in 1..Len(p) : Word(column, p[i]) = {}
    BY <1>2, <1>4
  <2> QED
    BY <2>2, <2>3 DEF Says
<1> QED
  BY <1>3, <1>4 DEF Says, p

-----------------------------------------------------------------------------
(***************************************************************************)
(* The invariant.                                                          *)
(***************************************************************************)

\* The row will say what the provider's side is: whether it holds the resources
\* provisioned, whether the circuit carries traffic, and the committed version,
\* unless a commit is still to be handled or a query to be answered, or a call
\* of the provider failed, which may have been the query.
RowFollows ==
    /\ nsa.provision = "PROVISIONED"
          => Says("resources", conn.resources, inbox, "PROVISIONED")
    /\ nsa.provision \in {"RELEASED", "PROVISIONING"}
          => Says("resources", conn.resources, inbox, "RELEASED")
    /\ Says("dataplane", conn.dataplane, inbox, DataStatus(nsa.active))
    /\ \/ Says("version", conn.version, inbox, nsa.version)
       \/ nsa.queries = 1
       \/ ~NoCommit(inbox)
       \/ faults > 0

\* Before the row has an id no callback tells it anything, and there is nothing
\* to tell: the provider has not committed anything.
Plain(m) == m.type \in {"reserveConfirmed", "reserveFailed", "reserveTimeout"}

Nameless ==
    ~conn.hasId =>
        /\ conn.resources = "RELEASED" /\ conn.dataplane = "INACTIVE"
        /\ conn.version = 0
        /\ nsa.version = 0 /\ nsa.provision = "RELEASED" /\ ~nsa.active
        /\ nsa.queries = 0
        /\ nsa.lifecycle \in {"NONE", "CREATED"}
        /\ nsa.reservation # "COMMITTING"
        /\ \A k \in 1..Len(inbox) : Plain(inbox[k])

\* Handled after the termination, these leave a circuit terminated.
Harmless(m) == m.type = "dataPlaneStateChange" \/ (Reading(m) /\ m.terminated)

\* The row will be cancelled, or is, and nothing in flight changes that.
Gone ==
    \/ \E k \in 1..Len(inbox) :
          /\ inbox[k].type = "terminateConfirmed"
          /\ \A j \in 1..Len(inbox) : j > k => Harmless(inbox[j])
    \/ IsCancelStatus(conn) /\ \A k \in 1..Len(inbox) : Harmless(inbox[k])

SInv ==
    /\ TypeOK
    /\ Unnamed
    /\ conn.hasId \/ creating => nsa.lifecycle # "NONE"
    /\ Nameless
    /\ conn.hasId => RowFollows /\ (nsa.lifecycle = "TERMINATED" => Gone)

LEMMA NamelessFollows ==
    ASSUME Nameless, ~conn.hasId
    PROVE  RowFollows /\ nsa.lifecycle # "TERMINATED"
<1>1. \A column : \A k \in 1..Len(inbox) : Word(column, inbox[k]) = {}
  BY DEF Nameless, Plain, Word, Reading
<1>2. DataStatus(nsa.active) = "INACTIVE"
  BY DEF Nameless, DataStatus
<1> QED
  BY <1>1, <1>2 DEF Nameless, RowFollows, Says

-----------------------------------------------------------------------------
(***************************************************************************)
(* The invariant is inductive.                                             *)
(***************************************************************************)

\* What MEICAN's requests change of the provider's side n, which is p then.
Asked(n, p) ==
    /\ p.active = n.active /\ p.version = n.version
    /\ \/ p.provision = n.provision
       \/ n.provision = "RELEASED" /\ p.provision = "PROVISIONING"
       \/ p.provision = "RELEASING"
    /\ n.queries = 1 => p.queries = 1
    /\ p.lifecycle = n.lifecycle \/ p.lifecycle = "TERMINATING"

LEMMA RequestsAsk ==
    ASSUME NEW n \in Provider
    PROVE  /\ Asked(n, n)
           /\ \A v : Asked(n, RequestReserve(n, v))
           /\ Asked(n, RequestCommit(n))
           /\ Asked(n, RequestProvision(n))
           /\ Asked(n, RequestRelease(n))
           /\ Asked(n, RequestTerminate(n))
           /\ Asked(n, RequestSummary(n))
           /\ \A c : Asked(n, UpdateContinue(c, n))
<1>1. /\ Asked(n, n)
      /\ Asked(n, RequestCommit(n))
      /\ Asked(n, RequestProvision(n))
      /\ Asked(n, RequestRelease(n))
      /\ Asked(n, RequestTerminate(n))
      /\ Asked(n, RequestSummary(n))
  BY DEF Asked, Provider, RequestCommit, RequestProvision, RequestRelease,
         RequestTerminate, RequestSummary
<1>2. \A v : Asked(n, RequestReserve(n, v))
  BY <1>1 DEF Asked, Provider, RequestReserve
<1> QED
  BY <1>1, <1>2 DEF UpdateContinue

\* After a commit the circuit is read, whatever else was asked for.
LEMMA CommitAsks ==
    ASSUME NEW n \in Provider, n.lifecycle # "NONE"
    PROVE  /\ Asked(n, RequestSummary(RequestProvision(n)))
           /\ RequestSummary(RequestProvision(n)).queries = 1
           /\ RequestSummary(n).queries = 1
BY DEF Asked, Provider, RequestProvision, RequestSummary

\* What is asked of the provider leaves it to say what it said.
LEMMA AskedFollows ==
    ASSUME TypeOK, RowFollows, Asked(nsa, nsa'), UNCHANGED inbox,
           faults > 0 => faults' > 0,
           UNCHANGED <<conn.resources, conn.dataplane, conn.version>>
    PROVE  RowFollows'
BY DEF RowFollows, Asked, TypeOK, Provider

LEMMA UserFollows ==
    ASSUME TypeOK, RowFollows, nsa.lifecycle = "TERMINATED" => Gone,
           \/ SubmitUpdate \/ RequestUpdate \/ RequestCancel \/ RequestRefresh
           \/ \E outcome \in {"AUTHORIZED", "DENIED", "EXPIRED"} : Authorize(outcome)
    PROVE  RowFollows' /\ (nsa'.lifecycle = "TERMINATED" => Gone')
<1>1. /\ UNCHANGED <<inbox, conn.resources, conn.dataplane, conn.version>>
      /\ IsCancelStatus(conn) => IsCancelStatus(conn)'
  BY DEF SubmitUpdate, RequestUpdate, RequestCancel, RequestRefresh, Authorize,
         TypeOK, ConnectionRow, IsCancelStatus
<1>2. Asked(nsa, nsa')
  BY RequestsAsk DEF SubmitUpdate, RequestUpdate, RequestCancel, RequestRefresh,
         Authorize, Call, Calls, TypeOK
<1>3. RowFollows'
  <2>1. faults > 0 => faults' > 0
    BY FaultTypes, ConstantsAssumption DEF Next, TypeOK
  <2> QED
    BY <1>1, <1>2, <2>1, AskedFollows
<1>4. nsa'.lifecycle = "TERMINATED" => Gone'
  BY <1>1, <1>2 DEF Asked, Gone, TypeOK, Provider
<1> QED
  BY <1>3, <1>4

\* The row takes over what a callback tells it.
LEMMA HandlerWords ==
    ASSUME TypeOK, NEW m \in Callbacks,
           \/ ReserveConfirmed(m) \/ ReserveFailed(m) \/ ReserveTimeout(m)
           \/ ReserveCommitConfirmed(m) \/ ReserveCommitFailed(m)
           \/ ProvisionConfirmed(m) \/ ReleaseConfirmed(m)
           \/ TerminateConfirmed(m) \/ DataPlaneStateChange(m)
           \/ QuerySummaryConfirmed(m)
    PROVE  /\ \/ Word("resources", m) = {conn'.resources}
              \/ Word("resources", m) = {} /\ conn'.resources = conn.resources
           /\ \/ Word("dataplane", m) = {conn'.dataplane}
              \/ Word("dataplane", m) = {} /\ conn'.dataplane = conn.dataplane
           /\ \/ Word("version", m) = {conn'.version}
              \/ Word("version", m) = {} /\ conn'.version = conn.version
<1> USE DEF TypeOK, ConnectionRow, Word, Reading
<1>1. CASE QuerySummaryConfirmed(m)
  <2>1. /\ m.type = "querySummaryConfirmed"
        /\ conn'.version = m.version
        /\ conn'.resources = ReadResources(m)
        /\ conn'.dataplane = DataStatus(m.active)
    BY <1>1 DEF QuerySummaryConfirmed
  <2> QED
    BY <2>1 DEF ReadResources
<1>2. CASE ReserveConfirmed(m) \/ ReserveFailed(m) \/ ReserveTimeout(m)
  BY <1>2 DEF ReserveConfirmed, ReserveFailed, ReserveTimeout
<1>3. CASE ReserveCommitConfirmed(m) \/ ReserveCommitFailed(m)
  BY <1>3 DEF ReserveCommitConfirmed, ReserveCommitFailed
<1>4. CASE ProvisionConfirmed(m) \/ ReleaseConfirmed(m)
  BY <1>4 DEF ProvisionConfirmed, ReleaseConfirmed
<1>5. CASE TerminateConfirmed(m) \/ DataPlaneStateChange(m)
  BY <1>5 DEF TerminateConfirmed, DataPlaneStateChange
<1> QED
  BY <1>1, <1>2, <1>3, <1>4, <1>5

\* ... and asks the provider something, or nothing.
LEMMA HandlerAsks ==
    ASSUME TypeOK, NEW m \in Callbacks, nsa.lifecycle # "NONE",
           \/ ReserveConfirmed(m) \/ ReserveFailed(m) \/ ReserveTimeout(m)
           \/ ReserveCommitConfirmed(m) \/ ReserveCommitFailed(m)
           \/ ProvisionConfirmed(m) \/ ReleaseConfirmed(m)
           \/ TerminateConfirmed(m) \/ DataPlaneStateChange(m)
           \/ QuerySummaryConfirmed(m)
    PROVE  /\ Asked(nsa, nsa')
           /\ Committed(m) => nsa'.queries = 1 \/ faults' > 0
<1>0. nsa \in Provider
  BY DEF TypeOK
<1>1. CASE ReserveCommitConfirmed(m)
  <2>1. Asked(nsa, nsa')
    BY <1>0, <1>1, RequestsAsk, CommitAsks DEF ReserveCommitConfirmed, Calls
  <2>2. CASE UNCHANGED faults
    BY <1>0, <1>1, <2>1, <2>2, CommitAsks, ConstantsAssumption
       DEF ReserveCommitConfirmed, Calls, TypeOK
  <2>3. CASE faults' = faults + 1
    BY <2>1, <2>3, ConstantsAssumption DEF TypeOK
  <2> QED
    BY <1>1, <2>2, <2>3 DEF ReserveCommitConfirmed, Calls
<1>2. CASE ReserveConfirmed(m) \/ ReserveFailed(m) \/ ReserveTimeout(m)
  BY <1>0, <1>2, RequestsAsk
     DEF ReserveConfirmed, ReserveFailed, ReserveTimeout, Committed, Call, Calls
<1>3. CASE ReserveCommitFailed(m) \/ ProvisionConfirmed(m) \/ ReleaseConfirmed(m)
  BY <1>0, <1>3, RequestsAsk
     DEF ReserveCommitFailed, ProvisionConfirmed, ReleaseConfirmed, Committed,
         Call, Calls
<1>4. CASE TerminateConfirmed(m) \/ DataPlaneStateChange(m)
  BY <1>0, <1>4, RequestsAsk
     DEF TerminateConfirmed, DataPlaneStateChange, Committed, Call, Calls
<1>5. CASE QuerySummaryConfirmed(m)
  BY <1>0, <1>5, RequestsAsk DEF QuerySummaryConfirmed, Committed, Call, Calls
<1> QED
  BY <1>1, <1>2, <1>3, <1>4, <1>5

\* The callback that is handled is the oldest one.
LEMMA ReceiveOldest ==
    ASSUME TypeOK, InOrder, NEW m, Receive(m)
    PROVE  /\ Len(inbox) > 0 /\ m = inbox[1] /\ m \in Callbacks
           /\ inbox' = RemoveAt(inbox, 1)
           /\ Len(inbox) \in Nat /\ Len(inbox') = Len(inbox) - 1
           /\ \A j \in 1..Len(inbox') : inbox'[j] = inbox[j + 1]
<1>1. /\ 1 \in 1..Len(inbox) /\ m = inbox[1]
      /\ inbox' = RemoveAt(inbox, 1)
  BY DEF Receive, TypeOK
<1>2. Len(inbox) \in Nat
  BY LenProperties DEF TypeOK
<1>3. /\ Len(inbox') = Len(inbox) - 1
      /\ \A j \in 1..Len(inbox') : inbox'[j] = inbox[j + 1]
  <2>1. /\ Len(inbox') = Len(inbox) - 1
        /\ \A j \in 1..(Len(inbox) - 1) :
              inbox'[j] = IF j < 1 THEN inbox[j] ELSE inbox[j + 1]
    BY <1>1, RemoveAtProperties DEF TypeOK
  <2>2. \A j \in 1..(Len(inbox) - 1) : ~(j < 1)
    BY <1>2
  <2> QED
    BY <2>1, <2>2
<1>4. m \in Callbacks
  BY ReceiveTypes
<1> QED
  BY <1>1, <1>2, <1>3, <1>4

LEMMA HandlerFollows ==
    ASSUME TypeOK, RowFollows, nsa.lifecycle # "NONE", InOrder,
           nsa.lifecycle = "TERMINATED" => Gone, NEW m, Receive(m),
           \/ ReserveConfirmed(m) \/ ReserveFailed(m) \/ ReserveTimeout(m)
           \/ ReserveCommitConfirmed(m) \/ ReserveCommitFailed(m)
           \/ ProvisionConfirmed(m) \/ ReleaseConfirmed(m)
           \/ TerminateConfirmed(m) \/ DataPlaneStateChange(m)
           \/ QuerySummaryConfirmed(m)
    PROVE  RowFollows' /\ (nsa'.lifecycle = "TERMINATED" => Gone')
<1>1. /\ Len(inbox) > 0 /\ m = inbox[1] /\ m \in Callbacks
      /\ inbox' = RemoveAt(inbox, 1)
      /\ Len(inbox) \in Nat /\ Len(inbox') = Len(inbox) - 1
      /\ \A j \in 1..Len(inbox') : inbox'[j] = inbox[j + 1]
  BY ReceiveOldest
<1>2. inbox \in Seq(Callbacks)
  BY DEF TypeOK
<1>3. /\ Asked(nsa, nsa')
      /\ Committed(m) => nsa'.queries = 1 \/ faults' > 0
      /\ faults > 0 => faults' > 0
  <2>1. Callback
    <3>1. m \in Range(inbox)
      BY DEF Receive, Range
    <3> QED
      BY <3>1 DEF Callback
  <2> QED
    BY <1>1, <2>1, HandlerAsks, FaultTypes, ConstantsAssumption DEF Next, TypeOK
<1>4. \A v : Says("resources", conn.resources, inbox, v)
                => Says("resources", conn'.resources, inbox', v)
  BY <1>1, <1>2, HandlerWords, HandleSays
<1>5. \A v : Says("dataplane", conn.dataplane, inbox, v)
                => Says("dataplane", conn'.dataplane, inbox', v)
  BY <1>1, <1>2, HandlerWords, HandleSays
<1>6. \A v : Says("version", conn.version, inbox, v)
                => Says("version", conn'.version, inbox', v)
  BY <1>1, <1>2, HandlerWords, HandleSays
<1>7. NoCommit(inbox') => NoCommit(inbox) \/ nsa'.queries = 1 \/ faults' > 0
  <2> SUFFICES ASSUME NoCommit(inbox'), ~Committed(m), NEW k \in 1..Len(inbox)
               PROVE  ~Committed(inbox[k])
    BY <1>3 DEF NoCommit
  <2>1. CASE k = 1
    BY <1>1, <2>1
  <2>2. CASE k # 1
    <3>1. k - 1 \in 1..Len(inbox') /\ inbox'[k - 1] = inbox[k]
      BY <1>1, <2>2
    <3> QED
      BY <3>1 DEF NoCommit
  <2> QED
    BY <2>1, <2>2
<1>8. RowFollows'
  BY <1>3, <1>4, <1>5, <1>6, <1>7 DEF RowFollows, Asked, TypeOK, Provider
<1>9. ASSUME nsa'.lifecycle = "TERMINATED" PROVE Gone'
  <2>1. Gone
    BY <1>3, <1>9 DEF Asked
  <2>2. \A j \in 1..Len(inbox') : j + 1 \in 1..Len(inbox) /\ inbox'[j] = inbox[j + 1]
    BY <1>1
  <2>3. ASSUME NEW k \in 1..Len(inbox), inbox[k].type = "terminateConfirmed",
               \A j \in 1..Len(inbox) : j > k => Harmless(inbox[j])
        PROVE  Gone'
    <3>1. CASE k = 1
      <4>1. IsCancelStatus(conn)'
        BY <1>1, <2>3, <3>1
           DEF ReserveConfirmed, ReserveFailed, ReserveTimeout,
               ReserveCommitConfirmed, ReserveCommitFailed, ProvisionConfirmed,
               ReleaseConfirmed, TerminateConfirmed, DataPlaneStateChange,
               QuerySummaryConfirmed, IsCancelStatus, TypeOK, ConnectionRow
      <4>2. \A j \in 1..Len(inbox') : Harmless(inbox'[j])
        BY <2>2, <2>3, <3>1
      <4> QED
        BY <4>1, <4>2 DEF Gone
    <3>2. CASE k # 1
      <4>1. k - 1 \in 1..Len(inbox') /\ inbox'[k - 1] = inbox[k]
        BY <1>1, <3>2
      <4>2. \A j \in 1..Len(inbox') : j > k - 1 => Harmless(inbox'[j])
        BY <2>2, <2>3
      <4> QED
        BY <4>1, <4>2, <2>3 DEF Gone
    <3> QED
      BY <3>1, <3>2
  <2>4. ASSUME IsCancelStatus(conn), \A k \in 1..Len(inbox) : Harmless(inbox[k])
        PROVE  Gone'
    <3>1. Harmless(m)
      BY <1>1, <2>4
    <3>2. IsCancelStatus(conn)'
      <4>1. CASE m.type = "dataPlaneStateChange"
        BY <2>4, <4>1
           DEF ReserveConfirmed, ReserveFailed, ReserveTimeout,
               ReserveCommitConfirmed, ReserveCommitFailed, ProvisionConfirmed,
               ReleaseConfirmed, TerminateConfirmed, DataPlaneStateChange,
               QuerySummaryConfirmed, IsCancelStatus, TypeOK, ConnectionRow
      <4>2. CASE Reading(m) /\ m.terminated
        <5>1. QuerySummaryConfirmed(m)
          BY <4>2
             DEF Reading, ReserveConfirmed, ReserveFailed, ReserveTimeout,
                 ReserveCommitConfirmed, ReserveCommitFailed, ProvisionConfirmed,
                 ReleaseConfirmed, TerminateConfirmed, DataPlaneStateChange
        <5>2. conn'.status = ReadStatus(m)
          BY <5>1 DEF QuerySummaryConfirmed, TypeOK, ConnectionRow
        <5> QED
          BY <4>2, <5>2 DEF ReadStatus, IsCancelStatus
      <4> QED
        BY <3>1, <4>1, <4>2 DEF Harmless
    <3>3. \A j \in 1..Len(inbox') : Harmless(inbox'[j])
      BY <2>2, <2>4
    <3> QED
      BY <3>2, <3>3 DEF Gone
  <2> QED
    BY <2>1, <2>3, <2>4 DEF Gone
<1> QED
  BY <1>8, <1>9

\* The provider posts a callback that agrees with its side afterwards.
LEMMA PostFollows ==
    ASSUME TypeOK, TypeOK', RowFollows, NEW m \in Callbacks, Post(m),
           nsa'.version = nsa.version \/ Committed(m),
           nsa'.queries = nsa.queries \/ Word("version", m) = {nsa'.version},
           \/ Word("version", m) = {nsa'.version}
           \/ Word("version", m) = {},
           \/ Word("dataplane", m) = {DataStatus(nsa'.active)}
           \/ Word("dataplane", m) = {} /\ nsa'.active = nsa.active,
           nsa'.provision = "PROVISIONED" =>
              \/ Word("resources", m) = {"PROVISIONED"}
              \/ Word("resources", m) = {} /\ nsa.provision = "PROVISIONED",
           nsa'.provision \in {"RELEASED", "PROVISIONING"} =>
              \/ Word("resources", m) = {"RELEASED"}
              \/ Word("resources", m) = {} /\ nsa.provision \in {"RELEASED", "PROVISIONING"}
    PROVE  RowFollows'
<1>1. /\ inbox \in Seq(Callbacks) /\ inbox' = Append(inbox, m)
      /\ conn' = conn /\ faults' = faults
  BY DEF TypeOK, Post
<1>2. \A column, c, v :
         /\ Word(column, m) = {v} => Says(column, c, inbox', v)
         /\ Word(column, m) = {} /\ Says(column, c, inbox, v)
               => Says(column, c, inbox', v)
  BY <1>1, PostSays
<1>3. /\ Len(inbox) \in Nat /\ Len(inbox') = Len(inbox) + 1
      /\ inbox'[Len(inbox) + 1] = m
      /\ \A i \in 1..Len(inbox) : inbox'[i] = inbox[i]
  BY <1>1, AppendProperties, LenProperties
<1>4. Committed(m) => ~NoCommit(inbox')
  BY <1>3 DEF NoCommit
<1>5. ~NoCommit(inbox) => ~NoCommit(inbox')
  BY <1>3 DEF NoCommit
<1>6. /\ nsa'.provision = "PROVISIONED"
            => Says("resources", conn'.resources, inbox', "PROVISIONED")
      /\ nsa'.provision \in {"RELEASED", "PROVISIONING"}
            => Says("resources", conn'.resources, inbox', "RELEASED")
      /\ Says("dataplane", conn'.dataplane, inbox', DataStatus(nsa'.active))
  BY <1>1, <1>2 DEF RowFollows
<1>7. \/ Says("version", conn'.version, inbox', nsa'.version)
      \/ nsa'.queries = 1
      \/ ~NoCommit(inbox')
      \/ faults' > 0
  BY <1>1, <1>2, <1>4, <1>5 DEF RowFollows
<1> QED
  BY <1>6, <1>7 DEF RowFollows

\* After the termination the provider posts nothing else.
LEMMA PostGone ==
    ASSUME TypeOK, Gone, NEW m \in Callbacks, Post(m), Harmless(m)
    PROVE  Gone'
<1>1. /\ Len(inbox) \in Nat /\ Len(inbox') = Len(inbox) + 1
      /\ inbox'[Len(inbox) + 1] = m
      /\ \A i \in 1..Len(inbox) : inbox'[i] = inbox[i]
      /\ conn' = conn
  BY AppendProperties, LenProperties DEF TypeOK, Post
<1>2. /\ 1..Len(inbox) \subseteq 1..Len(inbox')
      /\ \A i \in 1..Len(inbox') : i \in 1..Len(inbox) \/ i = Len(inbox) + 1
  BY <1>1
<1> QED
  BY <1>1, <1>2 DEF Gone, IsCancelStatus

LEMMA PostTerminated ==
    ASSUME TypeOK, NEW m \in Callbacks, Post(m), m.type = "terminateConfirmed"
    PROVE  Gone'
<1>1. /\ Len(inbox) \in Nat /\ Len(inbox') = Len(inbox) + 1
      /\ inbox'[Len(inbox) + 1] = m
  BY AppendProperties, LenProperties DEF TypeOK, Post
<1> QED
  BY <1>1 DEF Gone

\* What the provider does for a circuit that has its name.
LEMMA ProviderFollows ==
    ASSUME TypeOK, TypeOK', RowFollows, nsa.lifecycle = "TERMINATED" => Gone,
           \/ ProviderAnswers \/ HoldTimesOut
           \/ Activate \/ Deactivate \/ ReportActive
    PROVE  RowFollows' /\ (nsa'.lifecycle = "TERMINATED" => Gone')
<1> USE DEF TypeOK, Provider, Word, Reading, Committed
<1>1. CASE CheckReservation \/ HoldTimesOut
  <2>1. PICK m \in Callbacks : Post(m) /\ Plain(m)
    BY <1>1 DEF CheckReservation, HoldTimesOut, Plain, Callbacks
  <2>2. /\ nsa'.version = nsa.version /\ nsa'.queries = nsa.queries
        /\ nsa'.active = nsa.active /\ nsa'.provision = nsa.provision
        /\ nsa'.lifecycle = "CREATED"
    BY <1>1 DEF CheckReservation, HoldTimesOut, Alive
  <2>3. \A column : Word(column, m) = {}
    BY <2>1 DEF Plain
  <2>4. RowFollows'
    BY <2>1, <2>2, <2>3, PostFollows
  <2> QED
    BY <2>2, <2>4
<1>2. CASE Commit
  <2>1. PICK m \in Callbacks :
           Post(m) /\ m.type \in {"reserveCommitConfirmed", "reserveCommitFailed"}
           /\ (nsa'.version = nsa.version \/ Committed(m))
    BY <1>2 DEF Commit, Callbacks
  <2>2. /\ nsa'.queries = nsa.queries
        /\ nsa'.active = nsa.active /\ nsa'.provision = nsa.provision
        /\ nsa'.lifecycle = "CREATED"
    BY <1>2 DEF Commit, Alive
  <2>3. \A column : Word(column, m) = {}
    BY <2>1
  <2>4. RowFollows'
    BY <2>1, <2>2, <2>3, PostFollows
  <2> QED
    BY <2>2, <2>4
<1>3. CASE Provision \/ Release
  <2>1. PICK m \in Callbacks :
           /\ Post(m)
           /\ \/ /\ m.type = "provisionConfirmed" /\ nsa'.provision = "PROVISIONED"
              \/ /\ m.type = "releaseConfirmed" /\ nsa'.provision = "RELEASED"
    BY <1>3 DEF Provision, Release, Callbacks
  <2>2. /\ nsa'.version = nsa.version /\ nsa'.queries = nsa.queries
        /\ nsa'.active = nsa.active /\ nsa'.lifecycle = "CREATED"
    BY <1>3 DEF Provision, Release, Alive
  <2>3. /\ Word("resources", m) = {nsa'.provision}
        /\ Word("dataplane", m) = {} /\ Word("version", m) = {}
    BY <2>1
  <2>4. RowFollows'
    BY <2>1, <2>2, <2>3, PostFollows
  <2> QED
    BY <2>2, <2>4
<1>4. CASE Terminate
  <2>1. PICK m \in Callbacks : Post(m) /\ m.type = "terminateConfirmed"
    BY <1>4 DEF Terminate, Callbacks
  <2>2. /\ nsa'.version = nsa.version /\ nsa'.queries = nsa.queries
        /\ nsa'.active = nsa.active /\ nsa'.provision = nsa.provision
    BY <1>4 DEF Terminate
  <2>3. \A column : Word(column, m) = {}
    BY <2>1
  <2>4. RowFollows'
    BY <2>1, <2>2, <2>3, PostFollows
  <2> QED
    BY <2>1, <2>4, PostTerminated
<1>5. CASE Activate \/ Deactivate \/ ReportActive
  <2> DEFINE m == [type |-> "dataPlaneStateChange", active |-> nsa'.active]
  <2>1. Post(m)
    <3>1. CASE Activate
      <4>1. nsa'.active = TRUE
        BY <3>1 DEF Activate
      <4> QED
        BY <3>1, <4>1 DEF Activate, Report
    <3>2. CASE Deactivate
      <4>1. nsa'.active = FALSE
        BY <3>2 DEF Deactivate
      <4> QED
        BY <3>2, <4>1 DEF Deactivate, Report
    <3>3. CASE ReportActive
      <4>1. nsa'.active = TRUE
        BY <3>3 DEF ReportActive
      <4> QED
        BY <3>3, <4>1 DEF ReportActive, Report
    <3> QED
      BY <1>5, <3>1, <3>2, <3>3
  <2>5. /\ m \in Callbacks
        /\ m.type = "dataPlaneStateChange" /\ m.active = nsa'.active
    BY DEF Callbacks
  <2> HIDE DEF m
  <2>2. /\ nsa'.version = nsa.version /\ nsa'.queries = nsa.queries
        /\ nsa'.provision = nsa.provision /\ nsa'.lifecycle = nsa.lifecycle
    BY <1>5 DEF Activate, Deactivate, ReportActive
  <2>3. /\ Word("dataplane", m) = {DataStatus(nsa'.active)}
        /\ Word("resources", m) = {} /\ Word("version", m) = {}
    BY <2>5
  <2>4. RowFollows'
    BY <2>1, <2>5, <2>2, <2>3, PostFollows
  <2>6. Harmless(m)
    BY <2>5 DEF Harmless
  <2>7. nsa'.lifecycle = "TERMINATED" => Gone'
    BY <2>1, <2>5, <2>2, <2>6, PostGone
  <2> QED
    BY <2>4, <2>7
<1>6. CASE AnswerQuery
  <2>1. Snapshot(nsa) \in Callbacks /\ Post(Snapshot(nsa))
    BY <1>6 DEF AnswerQuery, Report, Snapshot, Callbacks
  <2> DEFINE m == Snapshot(nsa)
  <2>2. /\ Reading(m) /\ m.version = nsa'.version /\ m.active = nsa'.active
        /\ m.provisioned = (nsa'.provision = "PROVISIONED")
        /\ m.terminated = (nsa'.lifecycle = "TERMINATED")
        /\ m.type = "querySummaryConfirmed"
    BY <1>6 DEF AnswerQuery, Snapshot
  <2>3. /\ nsa'.version = nsa.version /\ nsa'.active = nsa.active
        /\ nsa'.provision = nsa.provision /\ nsa'.lifecycle = nsa.lifecycle
    BY <1>6 DEF AnswerQuery
  <2> HIDE DEF m
  <2>4. /\ Word("dataplane", m) = {DataStatus(nsa'.active)}
        /\ Word("version", m) = {nsa'.version}
        /\ \/ Word("resources", m) = {}
           \/ /\ nsa'.provision = "PROVISIONED"
              /\ Word("resources", m) = {"PROVISIONED"}
           \/ /\ nsa'.provision # "PROVISIONED"
              /\ Word("resources", m) = {"RELEASED"}
    BY <2>2
  <2>5. m \in Callbacks /\ Post(m)
    BY <2>1 DEF m
  <2>6. RowFollows'
    BY <2>3, <2>4, <2>5, PostFollows
  <2>7. nsa'.lifecycle = "TERMINATED" => Gone'
    BY <2>2, <2>3, <2>5, PostGone DEF Harmless
  <2> QED
    BY <2>6, <2>7
<1> QED
  BY <1>1, <1>2, <1>3, <1>4, <1>5, <1>6 DEF ProviderAnswers

-----------------------------------------------------------------------------
\* A circuit without an id: the provider has said and done nothing yet that the
\* row would have to know.
LEMMA NamelessStep ==
    ASSUME SInv, [Next]_vars, MaxLost = 0, ~conn'.hasId
    PROVE  Nameless'
<1> USE DEF SInv
<1>0. ~LoseCallback
  BY ConstantsAssumption DEF LoseCallback, TypeOK
<1>1. CASE UNCHANGED vars
  BY <1>1 DEF vars, Nameless
<1>2. CASE RequestCreate \/ CreateAborted
  <2>1. conn' = conn /\ (inbox' = inbox \/ inbox' = << >>)
    BY <1>2 DEF RequestCreate, CreateAborted
  <2>2. /\ nsa'.version = 0 /\ nsa'.provision = "RELEASED" /\ ~nsa'.active
        /\ nsa'.queries = 0
        /\ nsa'.lifecycle \in {"NONE", "CREATED"}
        /\ nsa'.reservation # "COMMITTING"
    <3>1. CASE RequestCreate
      BY <3>1 DEF RequestCreate, NoCircuit
    <3>2. CASE CreateAborted
      BY <3>2 DEF CreateAborted, NoCircuit
    <3> QED
      BY <1>2, <3>1, <3>2
  <2>3. \A k \in 1..Len(inbox') : Plain(inbox'[k])
    BY <2>1 DEF Nameless
  <2> QED
    BY <2>1, <2>2, <2>3 DEF Nameless
<1>3. CASE CreateAnswered
  BY <1>3 DEF CreateAnswered, TypeOK, ConnectionRow
<1>4. CASE SubmitUpdate \/ RequestUpdate \/ RequestCancel \/ RequestRefresh
  BY <1>4 DEF SubmitUpdate, RequestUpdate, RequestCancel, RequestRefresh,
     Call, Calls, Nameless, TypeOK, ConnectionRow
<1>5. ASSUME NEW outcome \in {"AUTHORIZED", "DENIED", "EXPIRED"}, Authorize(outcome)
      PROVE  Nameless'
  <2>1. conn'.hasId = conn.hasId /\ conn'.resources = conn.resources
        /\ conn'.dataplane = conn.dataplane /\ conn'.version = conn.version
    BY <1>5 DEF Authorize, TypeOK, ConnectionRow
  <2>2. nsa' = nsa
    BY <1>5, <2>1 DEF Authorize, Call, Calls, RequestProvision, Nameless
  <2> QED
    BY <1>5, <2>1, <2>2 DEF Nameless, Authorize
<1>6. CASE Callback
  <2>1. PICK m \in Range(inbox) : IgnoreCallback(m)
    BY <1>6 DEF Callback, ReserveConfirmed, ReserveFailed, ReserveTimeout,
                ReserveCommitConfirmed, ReserveCommitFailed, ProvisionConfirmed,
                ReleaseConfirmed, TerminateConfirmed, DataPlaneStateChange,
                QuerySummaryConfirmed, Handle, TypeOK, ConnectionRow
  <2>2. PICK i \in 1..Len(inbox) : inbox' = RemoveAt(inbox, i)
    BY <2>1 DEF IgnoreCallback, Receive, TypeOK
  <2>3. \A k \in 1..Len(inbox') : \E j \in 1..Len(inbox) : inbox'[k] = inbox[j]
    <3>1. /\ Len(inbox) \in Nat /\ Len(inbox') = Len(inbox) - 1
          /\ \A j \in 1..(Len(inbox) - 1) :
                inbox'[j] = IF j < i THEN inbox[j] ELSE inbox[j + 1]
      BY <2>2, RemoveAtProperties, LenProperties DEF TypeOK
    <3>2. \A j \in 1..(Len(inbox) - 1) : j \in 1..Len(inbox) /\ j + 1 \in 1..Len(inbox)
      BY <3>1
    <3> QED
      BY <3>1, <3>2
  <2> QED
    BY <2>1, <2>3 DEF IgnoreCallback, Nameless
<1>7. CASE ProviderAnswers \/ HoldTimesOut \/ Activate \/ Deactivate \/ ReportActive
  <2>1. conn' = conn
    BY <1>7 DEF ProviderAnswers, HoldTimesOut, Activate, Deactivate, ReportActive,
                CheckReservation, Commit, Provision, Release, Terminate,
                AnswerQuery, Report, Post
  <2>2. CheckReservation \/ HoldTimesOut
    BY <1>7, <2>1 DEF ProviderAnswers, Activate, Deactivate, ReportActive,
                Commit, Provision, Release, Terminate, AnswerQuery, Nameless
  <2>3. PICK m \in Callbacks : Post(m) /\ Plain(m)
    BY <2>2 DEF CheckReservation, HoldTimesOut, Plain, Callbacks
  <2>4. /\ nsa'.version = nsa.version /\ nsa'.queries = nsa.queries
        /\ nsa'.active = nsa.active /\ nsa'.provision = nsa.provision
        /\ nsa'.lifecycle = "CREATED" /\ nsa'.reservation # "COMMITTING"
    BY <2>2 DEF CheckReservation, HoldTimesOut, Alive, TypeOK, Provider
  <2>5. \A k \in 1..Len(inbox') : inbox'[k] = m \/ \E j \in 1..Len(inbox) : inbox'[k] = inbox[j]
    BY <2>3, AppendProperties, LenProperties DEF Post, TypeOK
  <2> QED
    BY <2>1, <2>3, <2>4, <2>5 DEF Nameless
<1> QED
  BY <1>0, <1>1, <1>2, <1>3, <1>4, <1>5, <1>6, <1>7 DEF Next

\* The provider knows a circuit that has an id or waits for one.
LEMMA KnownStep ==
    ASSUME SInv, [Next]_vars, conn'.hasId \/ creating'
    PROVE  nsa'.lifecycle # "NONE"
<1> USE DEF SInv
<1>0. nsa \in Provider
  BY DEF TypeOK
<1>1. CASE RequestCreate
  BY <1>1 DEF RequestCreate, NoCircuit
<1>2. CASE CreateAnswered \/ CreateAborted
  <2>1. CASE CreateAnswered
    BY <2>1 DEF CreateAnswered
  <2>2. CASE CreateAborted
    BY <2>2 DEF CreateAborted, Unnamed
  <2> QED
    BY <1>2, <2>1, <2>2
<1>3. CASE SubmitUpdate \/ RequestUpdate \/ RequestCancel \/ RequestRefresh
  <2>1. Asked(nsa, nsa')
    BY <1>0, <1>3, RequestsAsk DEF SubmitUpdate, RequestUpdate, RequestCancel,
       RequestRefresh, Call, Calls
  <2>2. conn'.hasId = conn.hasId /\ creating' = creating
    BY <1>3 DEF SubmitUpdate, RequestUpdate, RequestCancel, RequestRefresh,
       TypeOK, ConnectionRow
  <2> QED
    BY <2>1, <2>2 DEF Asked
<1>4. ASSUME NEW outcome \in {"AUTHORIZED", "DENIED", "EXPIRED"}, Authorize(outcome)
      PROVE  nsa'.lifecycle # "NONE"
  <2>1. Asked(nsa, nsa')
    BY <1>0, <1>4, RequestsAsk DEF Authorize, Call, Calls
  <2>2. conn'.hasId = conn.hasId /\ creating' = creating
    BY <1>4 DEF Authorize, TypeOK, ConnectionRow
  <2> QED
    BY <2>1, <2>2 DEF Asked
<1>5. CASE Callback
  <2>1. PICK m \in Range(inbox) :
           \/ IgnoreCallback(m) \/ ReserveConfirmed(m) \/ ReserveFailed(m)
           \/ ReserveTimeout(m) \/ ReserveCommitConfirmed(m)
           \/ ReserveCommitFailed(m) \/ ProvisionConfirmed(m)
           \/ ReleaseConfirmed(m) \/ TerminateConfirmed(m)
           \/ DataPlaneStateChange(m) \/ QuerySummaryConfirmed(m)
    BY <1>5 DEF Callback
  <2>2. CASE IgnoreCallback(m)
    BY <2>2 DEF IgnoreCallback, Receive
  <2>3. CASE ~IgnoreCallback(m)
    <3>1. Receive(m) /\ conn.hasId
      BY <2>1, <2>3 DEF Handle, ReserveConfirmed, ReserveFailed, ReserveTimeout,
         ReserveCommitConfirmed, ReserveCommitFailed, ProvisionConfirmed,
         ReleaseConfirmed, TerminateConfirmed, DataPlaneStateChange,
         QuerySummaryConfirmed
    <3>2. m \in Callbacks
      BY <3>1, ReceiveTypes
    <3> QED
      BY <2>1, <2>3, <3>1, <3>2, HandlerAsks DEF Asked
  <2> QED
    BY <2>2, <2>3
<1>6. CASE ProviderAnswers \/ HoldTimesOut \/ Activate \/ Deactivate \/ ReportActive
  <2>1. conn' = conn /\ creating' = creating
    BY <1>6 DEF ProviderAnswers, HoldTimesOut, Activate, Deactivate, ReportActive,
                CheckReservation, Commit, Provision, Release, Terminate,
                AnswerQuery, Report, Post
  <2>2. nsa'.lifecycle = nsa.lifecycle \/ nsa'.lifecycle = "TERMINATED"
    BY <1>0, <1>6 DEF ProviderAnswers, HoldTimesOut, Activate, Deactivate,
                ReportActive, CheckReservation, Commit, Provision, Release,
                Terminate, AnswerQuery, Provider
  <2> QED
    BY <2>1, <2>2
<1>7. CASE LoseCallback \/ UNCHANGED vars
  BY <1>7 DEF LoseCallback, vars
<1> QED
  BY <1>1, <1>2, <1>3, <1>4, <1>5, <1>6, <1>7 DEF Next

LEMMA FollowsStep ==
    ASSUME SInv, [Next]_vars, InOrder, MaxLost = 0, TypeOK', conn'.hasId
    PROVE  RowFollows' /\ (nsa'.lifecycle = "TERMINATED" => Gone')
<1> USE DEF SInv
<1>0. ~LoseCallback
  BY ConstantsAssumption DEF LoseCallback, TypeOK
<1>1. CASE UNCHANGED vars
  BY <1>1 DEF vars, RowFollows, Gone, IsCancelStatus
<1>2. CASE RequestCreate \/ CreateAborted
  BY <1>2 DEF RequestCreate, CreateAborted, Unnamed
<1>3. CASE CreateAnswered
  <2>1. /\ UNCHANGED <<inbox, nsa>>
        /\ UNCHANGED <<conn.resources, conn.dataplane, conn.version>>
    BY <1>3 DEF CreateAnswered, TypeOK, ConnectionRow
  <2>2. RowFollows /\ nsa.lifecycle # "TERMINATED"
    BY <1>3, NamelessFollows DEF CreateAnswered, Unnamed
  <2>3. RowFollows'
    BY <1>3, <2>1, <2>2 DEF RowFollows, CreateAnswered
  <2> QED
    BY <2>1, <2>2, <2>3
<1>4. CASE \/ SubmitUpdate \/ RequestUpdate \/ RequestCancel \/ RequestRefresh
           \/ \E outcome \in {"AUTHORIZED", "DENIED", "EXPIRED"} : Authorize(outcome)
  <2>1. conn'.hasId = conn.hasId
    BY <1>4 DEF SubmitUpdate, RequestUpdate, RequestCancel, RequestRefresh,
       Authorize, TypeOK, ConnectionRow
  <2> QED
    BY <1>4, <2>1, UserFollows
<1>5. CASE Callback
  <2>1. PICK m \in Range(inbox) :
           \/ IgnoreCallback(m) \/ ReserveConfirmed(m) \/ ReserveFailed(m)
           \/ ReserveTimeout(m) \/ ReserveCommitConfirmed(m)
           \/ ReserveCommitFailed(m) \/ ProvisionConfirmed(m)
           \/ ReleaseConfirmed(m) \/ TerminateConfirmed(m)
           \/ DataPlaneStateChange(m) \/ QuerySummaryConfirmed(m)
    BY <1>5 DEF Callback
  <2>2. ~IgnoreCallback(m)
    BY DEF IgnoreCallback
  <2>3. Receive(m) /\ conn.hasId
    BY <2>1, <2>2 DEF Handle, ReserveConfirmed, ReserveFailed, ReserveTimeout,
       ReserveCommitConfirmed, ReserveCommitFailed, ProvisionConfirmed,
       ReleaseConfirmed, TerminateConfirmed, DataPlaneStateChange,
       QuerySummaryConfirmed
  <2> QED
    BY <2>1, <2>2, <2>3, HandlerFollows
<1>6. CASE ProviderAnswers \/ HoldTimesOut \/ Activate \/ Deactivate \/ ReportActive
  <2>1. conn' = conn
    BY <1>6 DEF ProviderAnswers, HoldTimesOut, Activate, Deactivate, ReportActive,
                CheckReservation, Commit, Provision, Release, Terminate,
                AnswerQuery, Report, Post
  <2> QED
    BY <1>6, <2>1, ProviderFollows
<1> QED
  BY <1>0, <1>1, <1>2, <1>3, <1>4, <1>5, <1>6 DEF Next

LEMMA SettledInit == Init => SInv
<1> SUFFICES ASSUME Init PROVE SInv
  OBVIOUS
<1>1. TypeOK
  BY TypeInit
<1>2. Nameless /\ Unnamed /\ ~conn.hasId /\ ~creating
  BY DEF Init, NewRow, NoCircuit, Nameless, Unnamed
<1> QED
  BY <1>1, <1>2 DEF SInv

LEMMA SettledStep ==
    ASSUME SInv, [Next]_vars, InOrder, MaxLost = 0
    PROVE  SInv'
<1>1. TypeOK' /\ Unnamed'
  BY TypeStep, UnnamedStep DEF SInv
<1>2. CASE conn'.hasId
  BY <1>1, <1>2, FollowsStep, KnownStep DEF SInv, Nameless
<1>3. CASE ~conn'.hasId
  BY <1>1, <1>3, NamelessStep, KnownStep DEF SInv
<1> QED
  BY <1>2, <1>3

\* When nothing is in flight the last word on a column is what it holds.
LEMMA SettledRow ==
    ASSUME SInv, Settled
    PROVE  /\ RowTellsTheTruth
           /\ CommittedVersionIsRead
           /\ CancelledStaysCancelled
<1>1. /\ \A column, c, v : Says(column, c, inbox, v) => c = v
      /\ NoCommit(inbox)
      /\ ~ \E k \in 1..Len(inbox) : inbox[k].type = "terminateConfirmed"
  BY DEF Settled, Says, NoCommit
<1>2. RowFollows /\ (nsa.lifecycle = "TERMINATED" => Gone)
  BY NamelessFollows DEF SInv
<1>3. (conn.dataplane = "ACTIVE") = nsa.active
  BY <1>1, <1>2 DEF SInv, RowFollows, DataStatus, TypeOK, Provider
<1> QED
  BY <1>1, <1>2, <1>3, ConstantsAssumption
     DEF SInv, TypeOK, RowFollows, Gone, Settled, RowTellsTheTruth,
     CommittedVersionIsRead, CancelledStaysCancelled

-----------------------------------------------------------------------------
\* Callbacks are handled in order and none is lost, though calls of the provider
\* may fail: once no callback is in flight, the row says whether the provider holds the resources and whether the circuit
\* carries traffic, whatever the user asked for meanwhile.
THEOREM RowIsTrue ==
    ASSUME InOrder, MaxLost = 0
    PROVE  Spec => []RowTellsTheTruth
<1>1. SInv => RowTellsTheTruth
  BY SettledRow DEF RowTellsTheTruth
<1>2. SInv /\ [Next]_vars => SInv'
  BY SettledStep
<1> QED
  BY <1>1, <1>2, SettledInit, PTL DEF Spec

\* Then, too, the row has the version the provider committed, as long as no call
\* of the provider failed: every confirmed commit is followed by a reading of the
\* circuit, whose query is sent once.
THEOREM CommitsAreRead ==
    ASSUME InOrder, MaxLost = 0
    PROVE  Spec => []CommittedVersionIsRead
<1>1. SInv => CommittedVersionIsRead
  BY SettledRow DEF CommittedVersionIsRead
<1>2. SInv /\ [Next]_vars => SInv'
  BY SettledStep
<1> QED
  BY <1>1, <1>2, SettledInit, PTL DEF Spec

\* And a circuit the provider terminated is cancelled, or waits to be: nothing the
\* provider reports after terminateConfirmed makes it look usable again.
THEOREM TerminatedIsCancelled ==
    ASSUME InOrder, MaxLost = 0
    PROVE  Spec => []CancelledStaysCancelled
<1>1. SInv => CancelledStaysCancelled
  BY SettledRow DEF CancelledStaysCancelled
<1>2. SInv /\ [Next]_vars => SInv'
  BY SettledStep
<1> QED
  BY <1>1, <1>2, SettledInit, PTL DEF Spec

-----------------------------------------------------------------------------
(***************************************************************************)
(* The version of the row.                                                 *)
(***************************************************************************)

\* The versions that readings bring lie between lo and hi and never fall.
Rising(q, lo, hi) ==
    \A i \in 1..Len(q) : Reading(q[i]) =>
        /\ lo <= q[i].version /\ q[i].version <= hi
        /\ \A j \in 1..Len(q) :
              i < j /\ Reading(q[j]) => q[i].version <= q[j].version

\* What the provider may commit is newer than what it has committed.
Newer(n) ==
    n.reservation \in {"CHECKING", "HELD", "COMMITTING"} => n.version < n.held

VInv ==
    /\ TypeOK /\ Unnamed
    /\ conn.version <= nsa.version
    /\ Rising(inbox, conn.version, nsa.version)
    /\ Newer(nsa)

LEMMA ReadingVersion ==
    ASSUME NEW m \in Callbacks, Reading(m)
    PROVE  m.version \in Nat
BY ConstantsAssumption DEF Callbacks, Reading, Versions

\* What is left when the oldest callback is gone rises as before, and from the
\* version on that it brought.
LEMMA RisingReceive ==
    ASSUME TypeOK, Len(inbox) > 0, NEW lo \in Nat, NEW hi \in Nat,
           Rising(inbox, lo, hi), Len(inbox') = Len(inbox) - 1,
           \A j \in 1..Len(inbox') : inbox'[j] = inbox[j + 1]
    PROVE  /\ Rising(inbox', lo, hi)
           /\ Reading(inbox[1]) =>
                 /\ lo <= inbox[1].version /\ inbox[1].version <= hi
                 /\ Rising(inbox', inbox[1].version, hi)
<1>1. /\ Len(inbox) \in Nat
      /\ 1 \in 1..Len(inbox)
      /\ \A j \in 1..Len(inbox') : j + 1 \in 1..Len(inbox) /\ 1 < j + 1
      /\ \A i, j \in 1..Len(inbox') : i < j => i + 1 < j + 1
  BY LenProperties DEF TypeOK
<1>2. Rising(inbox', lo, hi)
  BY <1>1 DEF Rising
<1>3. ASSUME Reading(inbox[1])
      PROVE  /\ lo <= inbox[1].version /\ inbox[1].version <= hi
             /\ Rising(inbox', inbox[1].version, hi)
  BY <1>1, <1>3 DEF Rising
<1> QED
  BY <1>2, <1>3

LEMMA RisingPost ==
    ASSUME TypeOK, NEW m \in Callbacks, Post(m), NEW lo \in Nat, NEW hi \in Nat,
           NEW top \in Nat, hi <= top, lo <= hi, Rising(inbox, lo, hi),
           Reading(m) => m.version = hi /\ hi = top
    PROVE  Rising(inbox', lo, top)
<1>1. /\ Len(inbox) \in Nat /\ Len(inbox') = Len(inbox) + 1
      /\ inbox'[Len(inbox) + 1] = m
      /\ \A i \in 1..Len(inbox) : inbox'[i] = inbox[i]
  BY AppendProperties, LenProperties DEF TypeOK, Post
<1>2. \A i \in 1..Len(inbox) : inbox[i] \in Callbacks
  BY ElementOfSeq DEF TypeOK
<1>3. ASSUME NEW i \in 1..Len(inbox'), Reading(inbox'[i])
      PROVE  /\ lo <= inbox'[i].version /\ inbox'[i].version <= top
             /\ \A j \in 1..Len(inbox') :
                   i < j /\ Reading(inbox'[j]) => inbox'[i].version <= inbox'[j].version
  <2>1. CASE i = Len(inbox) + 1
    BY <1>1, <1>3, <2>1
  <2>2. CASE i \in 1..Len(inbox)
    <3>1. /\ inbox'[i] = inbox[i] /\ inbox[i].version \in Nat
          /\ lo <= inbox[i].version /\ inbox[i].version <= hi
      BY <1>1, <1>2, <1>3, <2>2, ReadingVersion DEF Rising
    <3>2. ASSUME NEW j \in 1..Len(inbox'), i < j, Reading(inbox'[j])
          PROVE  inbox'[i].version <= inbox'[j].version
      <4>1. CASE j = Len(inbox) + 1
        BY <1>1, <3>1, <3>2, <4>1
      <4>2. CASE j \in 1..Len(inbox)
        BY <1>1, <1>3, <2>2, <3>1, <3>2, <4>2 DEF Rising
      <4> QED
        BY <1>1, <4>1, <4>2
    <3> QED
      BY <3>1, <3>2
  <2> QED
    BY <1>1, <2>1, <2>2
<1> QED
  BY <1>3 DEF Rising

LEMMA RequestsNewer ==
    ASSUME NEW n \in Provider, Newer(n)
    PROVE  /\ \A v \in Nat \ {0} : Newer(RequestReserve(n, v))
           /\ Newer(RequestCommit(n))
           /\ Newer(RequestProvision(n))
           /\ Newer(RequestRelease(n))
           /\ Newer(RequestTerminate(n))
           /\ Newer(RequestSummary(n))
           /\ Newer(RequestSummary(RequestProvision(n)))
           /\ \A c \in ConnectionRow : Newer(UpdateContinue(c, n))
<1>1. \A v \in Nat \ {0} : Newer(RequestReserve(n, v))
  BY DEF Newer, Provider, RequestReserve
<1>2. \A c \in ConnectionRow : c.version + 1 \in Nat \ {0}
  BY ConstantsAssumption DEF ConnectionRow, Versions
<1>3. /\ Newer(RequestCommit(n))
      /\ Newer(RequestProvision(n))
      /\ Newer(RequestRelease(n))
      /\ Newer(RequestTerminate(n))
      /\ Newer(RequestSummary(n))
      /\ Newer(RequestSummary(RequestProvision(n)))
  BY DEF Newer, Provider, RequestCommit, RequestProvision, RequestRelease,
         RequestTerminate, RequestSummary
<1> QED
  BY <1>1, <1>2, <1>3 DEF UpdateContinue

LEMMA VersionStep ==
    ASSUME VInv, [Next]_vars, InOrder
    PROVE  VInv' /\ conn'.version >= conn.version
<1> USE DEF VInv
<1>0. /\ TypeOK' /\ Unnamed'
      /\ nsa \in Provider /\ conn \in ConnectionRow
      /\ conn.version \in Nat /\ nsa.version \in Nat
  BY TypeStep, UnnamedStep, ConstantsAssumption
     DEF TypeOK, ConnectionRow, Provider, Versions
<1>1. CASE UNCHANGED vars
  BY <1>0, <1>1 DEF vars, Rising
<1>2. CASE RequestCreate \/ CreateAborted
  <2>1. conn' = conn /\ conn.version = 0 /\ inbox' = << >>
    BY <1>2 DEF RequestCreate, CreateAborted, Unnamed
  <2>2. nsa'.version = 0 /\ Newer(nsa')
    <3>1. CASE RequestCreate
      BY <3>1 DEF RequestCreate, NoCircuit, Newer
    <3>2. CASE CreateAborted
      BY <3>2 DEF CreateAborted, NoCircuit, Newer
    <3> QED
      BY <1>2, <3>1, <3>2
  <2>3. Rising(inbox', 0, 0)
    BY <2>1 DEF Rising
  <2> QED
    BY <1>0, <2>1, <2>2, <2>3
<1>3. CASE CreateAnswered
  <2>1. conn'.version = conn.version /\ UNCHANGED <<inbox, nsa>>
    BY <1>3 DEF CreateAnswered, TypeOK, ConnectionRow
  <2> QED
    BY <1>0, <2>1
<1>4. CASE \/ SubmitUpdate \/ RequestUpdate \/ RequestCancel \/ RequestRefresh
           \/ \E outcome \in {"AUTHORIZED", "DENIED", "EXPIRED"} : Authorize(outcome)
  <2>1. conn'.version = conn.version /\ UNCHANGED inbox
    BY <1>4 DEF SubmitUpdate, RequestUpdate, RequestCancel, RequestRefresh,
       Authorize, TypeOK, ConnectionRow
  <2>2. Asked(nsa, nsa')
    BY <1>0, <1>4, RequestsAsk DEF SubmitUpdate, RequestUpdate, RequestCancel,
       RequestRefresh, Authorize, Call, Calls
  <2>3. Newer(nsa')
    BY <1>0, <1>4, RequestsNewer DEF SubmitUpdate, RequestUpdate, RequestCancel,
       RequestRefresh, Authorize, Call, Calls
  <2> QED
    BY <1>0, <2>1, <2>2, <2>3 DEF Asked
<1>5. CASE Callback
  <2>1. PICK m \in Range(inbox) :
           \/ IgnoreCallback(m) \/ ReserveConfirmed(m) \/ ReserveFailed(m)
           \/ ReserveTimeout(m) \/ ReserveCommitConfirmed(m)
           \/ ReserveCommitFailed(m) \/ ProvisionConfirmed(m)
           \/ ReleaseConfirmed(m) \/ TerminateConfirmed(m)
           \/ DataPlaneStateChange(m) \/ QuerySummaryConfirmed(m)
    BY <1>5 DEF Callback
  <2>2. Receive(m)
    BY <2>1 DEF IgnoreCallback, Handle, ReserveConfirmed, ReserveFailed,
       ReserveTimeout, ReserveCommitConfirmed, ReserveCommitFailed,
       ProvisionConfirmed, ReleaseConfirmed, TerminateConfirmed,
       DataPlaneStateChange, QuerySummaryConfirmed
  <2>3. /\ Len(inbox) > 0 /\ m = inbox[1] /\ m \in Callbacks
        /\ Len(inbox') = Len(inbox) - 1
        /\ \A j \in 1..Len(inbox') : inbox'[j] = inbox[j + 1]
    BY <2>2, ReceiveOldest
  <2>4. /\ Rising(inbox', conn.version, nsa.version)
        /\ Reading(m) =>
              /\ conn.version <= m.version /\ m.version <= nsa.version
              /\ Rising(inbox', m.version, nsa.version)
    BY <1>0, <2>3, RisingReceive
  <2>5. nsa'.version = nsa.version /\ Newer(nsa')
    <3>1. CASE IgnoreCallback(m) \/ ReserveFailed(m) \/ ReserveTimeout(m)
               \/ ReserveCommitFailed(m) \/ ProvisionConfirmed(m)
               \/ TerminateConfirmed(m)
      BY <3>1 DEF IgnoreCallback, ReserveFailed, ReserveTimeout,
         ReserveCommitFailed, ProvisionConfirmed, TerminateConfirmed
    <3>2. CASE ReserveConfirmed(m) \/ ReserveCommitConfirmed(m)
      BY <1>0, <3>2, RequestsNewer
         DEF ReserveConfirmed, ReserveCommitConfirmed, RequestCommit,
             RequestSummary, RequestProvision, Provider, Call, Calls
    <3>3. CASE ReleaseConfirmed(m) \/ DataPlaneStateChange(m)
      <4>1. Newer(nsa')
        BY <1>0, <3>3, RequestsNewer
           DEF ReleaseConfirmed, DataPlaneStateChange, Call, Calls
      <4>2. Asked(nsa, nsa')
        BY <1>0, <3>3, RequestsAsk
           DEF ReleaseConfirmed, DataPlaneStateChange, Call, Calls
      <4> QED
        BY <4>1, <4>2 DEF Asked
    <3>4. CASE QuerySummaryConfirmed(m)
      <4>1. Newer(nsa')
        BY <1>0, <3>4, RequestsNewer DEF QuerySummaryConfirmed, Call, Calls
      <4>2. Asked(nsa, nsa')
        BY <1>0, <3>4, RequestsAsk DEF QuerySummaryConfirmed, Call, Calls
      <4> QED
        BY <4>1, <4>2 DEF Asked
    <3> QED
      BY <2>1, <3>1, <3>2, <3>3, <3>4
  <2>6. CASE IgnoreCallback(m)
    BY <1>0, <2>4, <2>5, <2>6 DEF IgnoreCallback
  <2>7. CASE ~IgnoreCallback(m)
    <3>1. \/ Word("version", m) = {conn'.version}
          \/ Word("version", m) = {} /\ conn'.version = conn.version
      BY <2>1, <2>3, <2>7, HandlerWords
    <3>2. IF Reading(m) THEN conn'.version = m.version
          ELSE conn'.version = conn.version
      BY <3>1 DEF Word
    <3>3. Reading(m) => m.version \in Nat
      BY <2>3, ReadingVersion
    <3> QED
      BY <1>0, <2>4, <2>5, <3>2, <3>3
  <2> QED
    BY <2>6, <2>7
<1>6. CASE ProviderAnswers \/ HoldTimesOut \/ Activate \/ Deactivate \/ ReportActive
  <2> DEFINE Rises(m) ==
        /\ Post(m) /\ Newer(nsa')
        /\ nsa.version <= nsa'.version
        /\ Reading(m) => m.version = nsa.version /\ nsa'.version = nsa.version
  <2>1. PICK m \in Callbacks : Rises(m)
    <3>1. \A type \in {"reserveConfirmed", "reserveFailed", "reserveTimeout",
                       "reserveCommitConfirmed", "reserveCommitFailed",
                       "provisionConfirmed", "releaseConfirmed",
                       "terminateConfirmed"} :
             [type |-> type] \in Callbacks /\ ~Reading([type |-> type])
      BY DEF Callbacks, Reading
    <3>2. \A active \in BOOLEAN :
             LET m == [type |-> "dataPlaneStateChange", active |-> active]
             IN  m \in Callbacks /\ ~Reading(m)
      BY DEF Callbacks, Reading
    <3>3. Snapshot(nsa) \in Callbacks /\ Snapshot(nsa).version = nsa.version
      BY <1>0 DEF Snapshot, Callbacks, Provider
    <3>4. ASSUME NEW m \in Callbacks, Post(m), ~Reading(m),
                 \/ CheckReservation \/ HoldTimesOut \/ Commit
                 \/ Provision \/ Release \/ Terminate
                 \/ Activate \/ Deactivate \/ ReportActive
          PROVE  Rises(m)
      <4>1. nsa.held \in Nat
        BY <1>0, ConstantsAssumption DEF Provider, Versions
      <4>2. CASE CheckReservation \/ HoldTimesOut
        <5>1. /\ nsa.reservation \in {"CHECKING", "HELD"}
              /\ nsa'.version = nsa.version /\ nsa'.held = nsa.held
          BY <1>0, <4>2 DEF CheckReservation, HoldTimesOut, Provider
        <5> QED
          BY <1>0, <3>4, <5>1 DEF Newer
      <4>3. CASE Commit
        <5>1. /\ nsa.reservation = "COMMITTING" /\ nsa'.reservation = "START"
              /\ nsa'.version \in {nsa.version, nsa.held}
          BY <1>0, <4>3 DEF Commit, Provider
        <5> QED
          BY <1>0, <3>4, <4>1, <5>1 DEF Newer
      <4>4. CASE Provision \/ Release \/ Terminate
        BY <1>0, <3>4, <4>4 DEF Provision, Release, Terminate, Newer, Provider
      <4>5. CASE Activate \/ Deactivate \/ ReportActive
        BY <1>0, <3>4, <4>5 DEF Activate, Deactivate, ReportActive, Newer, Provider
      <4> QED
        BY <3>4, <4>2, <4>3, <4>4, <4>5
    <3>5. CASE CheckReservation
      BY <3>1, <3>4, <3>5 DEF CheckReservation
    <3>6. CASE HoldTimesOut \/ Provision \/ Release \/ Terminate
      BY <3>1, <3>4, <3>6 DEF HoldTimesOut, Provision, Release, Terminate
    <3>7. CASE Commit
      BY <3>1, <3>4, <3>7 DEF Commit
    <3>8. CASE Activate \/ Deactivate \/ ReportActive
      BY <3>2, <3>4, <3>8 DEF Activate, Deactivate, ReportActive, Report
    <3>9. CASE AnswerQuery
      <4>1. Rises(Snapshot(nsa))
        BY <1>0, <3>3, <3>9 DEF AnswerQuery, Report, Newer, Provider
      <4> QED
        BY <3>3, <4>1
    <3> QED
      BY <1>6, <3>5, <3>6, <3>7, <3>8, <3>9 DEF ProviderAnswers
  <2>2. conn' = conn /\ nsa'.version \in Nat
    BY <1>0, <2>1, ConstantsAssumption DEF Post, TypeOK, Provider, Versions
  <2>3. Rising(inbox', conn.version, nsa'.version)
    BY <1>0, <2>1, <2>2, RisingPost
  <2> QED
    BY <1>0, <2>1, <2>2, <2>3
<1>7. CASE LoseCallback
  <2>1. /\ UNCHANGED <<conn, nsa>>
        /\ Len(inbox) > 0 /\ Len(inbox') = Len(inbox) - 1
        /\ \A j \in 1..Len(inbox') : inbox'[j] = inbox[j + 1]
    BY <1>7, HeadTailProperties, EmptySeq DEF LoseCallback, TypeOK
  <2>2. Rising(inbox', conn.version, nsa.version)
    BY <1>0, <2>1, RisingReceive
  <2> QED
    BY <1>0, <2>1, <2>2
<1> QED
  BY <1>1, <1>2, <1>3, <1>4, <1>5, <1>6, <1>7 DEF Next

\* When callbacks are handled in order, even if some are lost, the version of
\* the row never goes back to an older one.
THEOREM VersionRises ==
    ASSUME InOrder
    PROVE  Spec => VersionNeverDecreases
<1>1. Init => VInv
  <2>1. Init => Unnamed
    BY DEF Init, Unnamed, NewRow, NoCircuit
  <2> QED
    BY <2>1, TypeInit, ConstantsAssumption
       DEF Init, VInv, NewRow, NoCircuit, Rising, Newer, Versions
<1>2. VInv /\ [Next]_vars => VInv' /\ [conn'.version >= conn.version]_vars
  BY VersionStep
<1> QED
  BY <1>1, <1>2, PTL DEF Spec, VersionNeverDecreases

-----------------------------------------------------------------------------
(***************************************************************************)
(* What a reading heals.                                                   *)
(***************************************************************************)

\* The reading is handled: the row agrees with the provider.
LEMMA ReadingHealsStep ==
    ASSUME TypeOK, QuerySummaryConfirmed(Snapshot(nsa))
    PROVE  Healed'
<1> DEFINE m == Snapshot(nsa)
<1>1. /\ nsa \in Provider /\ conn \in ConnectionRow
      /\ nsa.provision \in {"RELEASED", "PROVISIONING", "PROVISIONED", "RELEASING"}
      /\ nsa.active \in BOOLEAN
  BY DEF TypeOK, Provider
<1>2. /\ m.version = nsa.version /\ m.active = nsa.active
      /\ m.terminated = (nsa.lifecycle = "TERMINATED")
      /\ m.provisioned = (nsa.provision = "PROVISIONED")
  BY DEF Snapshot
<1>3. /\ nsa'.version = nsa.version /\ nsa'.active = nsa.active
      /\ nsa'.lifecycle = nsa.lifecycle
      /\ (nsa'.provision = "PROVISIONED") = (nsa.provision = "PROVISIONED")
  BY <1>1 DEF QuerySummaryConfirmed, RequestProvision, Provider, Call, Calls
<1> HIDE DEF m
<1>4. /\ conn'.version = m.version
      /\ conn'.status = ReadStatus(m)
      /\ conn'.resources = ReadResources(m)
      /\ conn'.dataplane = DataStatus(m.active)
  BY <1>1 DEF QuerySummaryConfirmed, ConnectionRow, m
<1> QED
  BY <1>1, <1>2, <1>3, <1>4 DEF Healed, ReadStatus, ReadResources, DataStatus

\* A reading of the provider that is alone in flight and up to date heals the
\* row, in whatever order callbacks were handled, however many were lost, and
\* however many calls failed.
THEOREM ReadingHeals == Spec => ReadingHealsTheRow
<1> DEFINE HInv == TypeOK /\ Unnamed
           Read == /\ conn.hasId /\ inbox = <<Snapshot(nsa)>>
                   /\ inbox' = << >> /\ lost' = lost
<1>1. Init => HInv
  <2>1. Init => Unnamed
    BY DEF Init, Unnamed, NewRow, NoCircuit
  <2> QED
    BY <2>1, TypeInit
<1>2. HInv /\ [Next]_vars => HInv'
  BY TypeStep, UnnamedStep
<1>3. ASSUME HInv, Next, Read
      PROVE  Healed'
  <2>1. /\ Snapshot(nsa).type = "querySummaryConfirmed"
        /\ inbox # << >> /\ inbox # inbox'
        /\ Range(inbox) = {Snapshot(nsa)}
    BY <1>3 DEF Snapshot, Range
  <2>2. CASE RequestCreate \/ CreateAnswered \/ CreateAborted
    BY <1>3, <2>1, <2>2 DEF RequestCreate, CreateAnswered, CreateAborted, Unnamed
  <2>3. CASE \/ SubmitUpdate \/ RequestUpdate \/ RequestCancel \/ RequestRefresh
             \/ \E outcome \in {"AUTHORIZED", "DENIED", "EXPIRED"} : Authorize(outcome)
    BY <2>1, <2>3 DEF SubmitUpdate, RequestUpdate, RequestCancel, RequestRefresh,
       Authorize
  <2>4. CASE Callback
    <3>1. QuerySummaryConfirmed(Snapshot(nsa))
      BY <1>3, <2>1, <2>4 DEF Callback, IgnoreCallback, ReserveConfirmed,
         ReserveFailed, ReserveTimeout, ReserveCommitConfirmed, ReserveCommitFailed,
         ProvisionConfirmed, ReleaseConfirmed, TerminateConfirmed,
         DataPlaneStateChange
    <3> QED
      BY <1>3, <3>1, ReadingHealsStep
  <2>5. CASE ProviderAnswers \/ HoldTimesOut \/ Activate \/ Deactivate \/ ReportActive
    <3>1. PICK m : inbox' = Append(inbox, m)
      BY <2>5 DEF ProviderAnswers, CheckReservation, Commit, Provision, Release,
         Terminate, AnswerQuery, HoldTimesOut, Activate, Deactivate, ReportActive,
         Report, Post
    <3>2. Append(inbox, m) # << >>
      BY <1>3
    <3> QED
      BY <1>3, <3>1, <3>2
  <2>6. CASE LoseCallback
    BY <1>3, <2>6, ConstantsAssumption DEF LoseCallback, TypeOK
  <2> QED
    BY <1>3, <2>2, <2>3, <2>4, <2>5, <2>6 DEF Next
<1>4. HInv /\ [Next]_vars => [Read => Healed']_vars
  BY <1>3
<1> QED
  BY <1>1, <1>2, <1>4, PTL DEF Spec, ReadingHealsTheRow
=============================================================================
