----------------------------- MODULE NotifyMenu -----------------------------
(***************************************************************************)
(* The menu of notifications in the bar of every page (notify.js), and the *)
(* part of the server that fills it (Notification::getNotifications).      *)
(* Opening the menu loads the newest six notifications, scrolling to the   *)
(* end the six before the date of the last one shown, and a timer keeps    *)
(* asking how many are unread.  Meanwhile notifications are written, dated *)
(* anew and deleted; two of them may have the same date, to the second.    *)
(***************************************************************************)
EXTENDS WebPage

CONSTANTS
    Notices,      \* the notifications a user may get
    MaxDate,      \* bound: dates are 1..MaxDate, later ones are greater
    PageSize,     \* the number of notifications of an answer, six in the code
    MaxOpenings,  \* bound on how often the menu is opened
    MaxRewrites   \* bound on how often notifications are written or deleted

ASSUME NotifyAssumption ==
    /\ {MaxDate, MaxOpenings, MaxRewrites} \subseteq Nat
    /\ PageSize \in Nat \ {0}

VARIABLES
    menu,       \* [open, content, lastDate, count, waitingNext]
    written,     \* the rows of the user's notifications
    notices,    \* the get-all requests to come back, and the answers of those
                \* the server has read the rows for
    overtaken,  \* the menu was opened again while it waited for a page
    steady,     \* the rows that are as the first page's reading found them
    timer,      \* of the number of unread: "asked", "set" or "lost"
    openings,   \* openings counted against MaxOpenings
    rewrites    \* writings and deletions counted against MaxRewrites

notifyVars ==
    <<menu, written, notices, overtaken, steady, timer, openings, rewrites>>

Row == [notice : Notices, date : 1..MaxDate]

-----------------------------------------------------------------------------
(***************************************************************************)
(* The server.                                                             *)
(***************************************************************************)

Rewrite(rows) ==
    /\ rewrites < MaxRewrites /\ rewrites' = rewrites + 1
    /\ written' = rows
    /\ steady' = steady \intersect rows
    /\ UNCHANGED <<menu, notices, overtaken, timer, openings>>

\* A notification is written, or dated anew: a date the caller gives may be any,
\* and a date of its own is moved back to the last second without another one.
Notify(n, date) ==
    Rewrite({r \in written : r.notice # n} \union {[notice |-> n, date |-> date]})

\* The role that let the user answer a question is taken away.
DeleteNotification(n) == Rewrite({r \in written : r.notice # n})

\* The rows a request is about: all, or those before its date, strictly.
RowsOf(request) ==
    IF request.first THEN written ELSE {r \in written : r.date < request.date}

Newest(told) == \A i, j \in DOMAIN told : i < j => told[i].date >= told[j].date

\* The rows are taken from the newest on, in any order if their dates are equal.
\* Those that tell of something that is gone are deleted, the others told, until
\* there are PageSize of them; more says that some row is left after these.
Tells(rows, told, gone) ==
    LET left == rows \ (Range(told) \union gone)
    IN  /\ Newest(told)
        /\ \A i, j \in DOMAIN told : i # j => told[i] # told[j]
        /\ gone \intersect Range(told) = {}
        /\ \A r \in left, s \in Range(told) \union gone : s.date >= r.date
        /\ left # {} => Len(told) = PageSize
        /\ Len(told) = PageSize => \A r \in gone : r.date >= Last(told).date

\* The date of the answer is that of its last notification, null (0) without one.
Info(told, more) ==
    [told |-> told, date |-> IF told = << >> THEN 0 ELSE Last(told).date, more |-> more]

GetNotifications(k) ==
    /\ notices[k].answers = {}
    /\ \E n \in 0..PageSize :
       \E told \in [1..n -> RowsOf(notices[k])], gone \in SUBSET RowsOf(notices[k]) :
          /\ Tells(RowsOf(notices[k]), told, gone)
          /\ notices' = [notices EXCEPT ![k].answers =
                {Info(told, ~(RowsOf(notices[k]) \subseteq Range(told) \union gone))}]
          /\ written' = written \ gone
          /\ steady' = IF notices[k].first THEN written' ELSE steady \intersect written'
    /\ UNCHANGED <<menu, overtaken, timer, openings, rewrites>>

-----------------------------------------------------------------------------
(***************************************************************************)
(* The menu.                                                               *)
(***************************************************************************)

GetAll(first, date) == [first |-> first, date |-> date, answers |-> {}]

\* The button: the menu is emptied and its first page asked for.
ToggleOpen ==
    /\ ~menu.open /\ openings < MaxOpenings
    /\ openings' = openings + 1
    /\ menu' = [menu EXCEPT !.open = TRUE, !.content = << >>, !.count = 0]
    /\ notices' = Append(notices, GetAll(TRUE, 0))
    /\ overtaken' = (overtaken \/ notices # << >>)
    /\ UNCHANGED <<written, steady, timer, rewrites>>

\* The button, or a click anywhere else.
CloseMenu ==
    /\ menu.open
    /\ menu' = [menu EXCEPT !.open = FALSE]
    /\ UNCHANGED <<written, notices, overtaken, steady, timer, openings, rewrites>>

\* What count becomes: -1 once there is no more.
Count(n, answer) == IF answer.more THEN n + PageSize ELSE -1

\* The first answer replaces what the menu shows, another one is appended to it.
Deliver(k, first, content, count) ==
    /\ notices[k].first = first
    /\ \E answer \in notices[k].answers :
          menu' = [menu EXCEPT !.content = content \o answer.told,
                               !.lastDate = answer.date,
                               !.count = Count(count, answer),
                               !.waitingNext = FALSE]
    /\ notices' = RemoveAt(notices, k)
    /\ UNCHANGED <<written, overtaken, steady, timer, openings, rewrites>>

FirstPage(k) == Deliver(k, TRUE, << >>, 0)
NextPage(k) == Deliver(k, FALSE, menu.content, menu.count)

\* Mutant: nothing remembers that a page was asked for.
ScrollAgain ==
    /\ menu.open /\ menu.count > 0 /\ Len(notices) < 2
    /\ notices' = Append(notices, GetAll(FALSE, menu.lastDate))
    /\ UNCHANGED <<menu, written, overtaken, steady, timer, openings, rewrites>>

\* Scrolling to the bottom asks for what is older than the last one shown.
Scroll ==
    /\ menu.open /\ menu.count > 0 /\ ~menu.waitingNext
    /\ menu' = [menu EXCEPT !.waitingNext = TRUE]
    /\ notices' = Append(notices, GetAll(FALSE, menu.lastDate))
    /\ UNCHANGED <<written, overtaken, steady, timer, openings, rewrites>>

\* timerAuths: set again by an answer, and by nothing else.
TimerAuths ==
    /\ \/ timer = "asked" /\ timer' \in {"set", "lost"}
       \/ timer = "set" /\ timer' = "asked"
    /\ UNCHANGED <<menu, written, notices, overtaken, steady, openings, rewrites>>

-----------------------------------------------------------------------------
NotifyInit ==
    /\ menu = [open |-> FALSE, content |-> << >>, lastDate |-> 0, count |-> 0,
               waitingNext |-> FALSE]
    /\ written \in {rows \in SUBSET Row :
                      \A r, s \in rows : r.notice = s.notice => r = s}
    /\ notices = << >>
    /\ overtaken = FALSE
    /\ steady = {}
    /\ timer = "asked"
    /\ openings = 0 /\ rewrites = 0

NotifyNext ==
    \/ \E n \in Notices : DeleteNotification(n) \/ \E d \in 1..MaxDate : Notify(n, d)
    \/ ToggleOpen \/ CloseMenu \/ Scroll
    \/ \E k \in DOMAIN notices : GetNotifications(k) \/ FirstPage(k) \/ NextPage(k)
    \/ TimerAuths

NotifySpec == NotifyInit /\ [][NotifyNext]_notifyVars

-----------------------------------------------------------------------------
(***************************************************************************)
(* Properties.                                                             *)
(***************************************************************************)

\* Row r is shown, or dated as one that is: at a page's end such a one is left
\* out, as the next page starts before the date of the last one shown.
Accounted(r) == \E i \in DOMAIN menu.content : menu.content[i].date = r.date

\* The menu shows notifications from the newest to the oldest, none of them
\* twice, and of those that stay as they are while it is open only such are left
\* out whose date is that of one it shows, as long as there is more to scroll
\* to.  All this holds unless the menu was opened again while a page was still on
\* its way: then the late answer is appended to the new list.
NoticesInOrder ==
    overtaken \/
    /\ Newest(menu.content)
    /\ \A i, j \in DOMAIN menu.content : i # j => menu.content[i] # menu.content[j]
    /\ menu.count # 0 => \A r \in steady :
          Accounted(r) \/ (menu.count > 0 /\ r.date < menu.lastDate)
=============================================================================
