--------------------------- MODULE TrafficHistory ---------------------------
(***************************************************************************)
(* The dialog with the history of a link, on the page of the traffic       *)
(* (traffic.js).  Every click on a link asks for the history of its        *)
(* circuits in both directions and polls for the answers; but there is one *)
(* plot, that of the link clicked last, which the answers and the timers   *)
(* of all dialogs write to.                                                *)
(*                                                                         *)
(* Of a line of the plot its width and its colour matter: its own, the     *)
(* default of the aggregate traffic, or None.  The tooltip that follows    *)
(* the mouse is left out.                                                  *)
(***************************************************************************)
EXTENDS WebPage

CONSTANTS
    CircuitsOf,    \* CircuitsOf[l]: the circuits on link l
    MaxDialogs     \* bound on how often a link is clicked

ASSUME HistoryAssumption ==
    /\ \A l \in DOMAIN CircuitsOf : IsFiniteSet(CircuitsOf[l])
    /\ MaxDialogs \in Nat

VARIABLES
    dialogs,    \* dialogs[k]: [link, asked, series, polls] of the k-th click
    plot,       \* [aggregate, lines, legend]: the switch, and what is plotted
    hasty       \* a link was clicked, or the switch used, while answers or a
                \* timer of a dialog were to come

historyVars == <<dialogs, plot, hasty>>

Stacks == {"in", "out"}

-----------------------------------------------------------------------------
(***************************************************************************)
(* The plot.                                                               *)
(***************************************************************************)

\* Each circuit is plotted in a colour of its own.
SetData(series) ==
    [i \in DOMAIN series |->
        [circuit |-> series[i].circuit, stack |-> series[i].stack,
         thin |-> FALSE, color |-> "own", oldColor |-> None]]

\* The legend names the lines of all circuits, or two: the first of those in,
\* and the first other one, whatever its direction.
BuildLegend(lines, aggregate) ==
    LET all   == [i \in DOMAIN lines |-> lines[i].stack]
        first == SelectInSeq(all, LAMBDA s : s = "in")
        rest  == IF first = 0 THEN all ELSE RemoveAt(all, first)
    IN  IF ~aggregate THEN all
        ELSE (IF first = 0 THEN <<>> ELSE <<"in">>)
                \o (IF rest = <<>> THEN <<>> ELSE <<Head(rest)>>)

Draw(lines, aggregate) ==
    [aggregate |-> aggregate, lines |-> lines,
     legend |-> BuildLegend(lines, aggregate)]

ShowCircuitsOnGraphic(p) ==
    Draw([i \in DOMAIN p.lines |-> [p.lines[i] EXCEPT
             !.thin = FALSE, !.color = p.lines[i].oldColor]], FALSE)

\* Of each stack the last line keeps its width.
IsLast(lines, i) == \A j \in (i + 1)..Len(lines) : lines[j].stack # lines[i].stack

\* Mutant: the colours are not kept.
HideForGood(p) ==
    Draw([i \in DOMAIN p.lines |-> [p.lines[i] EXCEPT
             !.thin = @ \/ ~IsLast(p.lines, i), !.color = "default"]], TRUE)

HideCircuitsOnGraphic(p) ==
    Draw([i \in DOMAIN p.lines |-> [p.lines[i] EXCEPT
             !.thin = @ \/ ~IsLast(p.lines, i),
             !.oldColor = p.lines[i].color, !.color = "default"]], TRUE)

-----------------------------------------------------------------------------
Pending(k) == dialogs[k].asked # {} \/ dialogs[k].polls

\* initStats: an empty plot, and two requests for each circuit on the link.
LinkClick(l) ==
    /\ CircuitsOf[l] # {} /\ Len(dialogs) < MaxDialogs
    /\ dialogs' = Append(dialogs,
          [link |-> l, asked |-> CircuitsOf[l] \X Stacks, series |-> <<>>, polls |-> TRUE])
    /\ plot' = [aggregate |-> TRUE, lines |-> <<>>, legend |-> <<>>]
    /\ hasty' = (hasty \/ \E k \in DOMAIN dialogs : Pending(k))

\* loadTrafficHistory: an answer makes the series of its dialog those of the plot.
\* Errors are not handled: a lost answer is one that never comes.
HistoryAnswered(k, a) ==
    LET series == Append(dialogs[k].series, [circuit |-> a[1], stack |-> a[2]])
    IN  /\ a \in dialogs[k].asked
        /\ dialogs' = [dialogs EXCEPT ![k].asked = @ \ {a}, ![k].series = series]
        /\ plot' = [plot EXCEPT !.lines = SetData(series)]
        /\ UNCHANGED hasty

\* showGraphicWhenReady, when all have been counted; else the timer is set again.
ShowGraphic(k) ==
    /\ dialogs[k].polls
    /\ Len(dialogs[k].series) = 2 * Cardinality(CircuitsOf[dialogs[k].link])
    /\ dialogs' = [dialogs EXCEPT ![k].polls = FALSE]
    /\ plot' = HideCircuitsOnGraphic(plot)
    /\ UNCHANGED hasty

\* The switch "Aggregate traffic".
GraphicModeSwitch ==
    /\ dialogs # <<>>
    /\ plot' = IF plot.aggregate THEN ShowCircuitsOnGraphic(plot)
               ELSE HideCircuitsOnGraphic(plot)
    /\ hasty' = (hasty \/ \E k \in DOMAIN dialogs : Pending(k))
    /\ UNCHANGED dialogs

-----------------------------------------------------------------------------
HistoryInit ==
    /\ dialogs = <<>>
    /\ plot = [aggregate |-> TRUE, lines |-> <<>>, legend |-> <<>>]
    /\ hasty = FALSE

HistoryNext ==
    \/ \E l \in DOMAIN CircuitsOf : LinkClick(l)
    \/ \E k \in DOMAIN dialogs :
          \/ \E a \in dialogs[k].asked : HistoryAnswered(k, a)
          \/ ShowGraphic(k)
    \/ GraphicModeSwitch

HistorySpec == HistoryInit /\ [][HistoryNext]_historyVars

-----------------------------------------------------------------------------
(***************************************************************************)
(* Properties.                                                             *)
(***************************************************************************)

\* Once its timer has run out, the dialog of the link clicked last shows all
\* circuits of that link: each in its own colour, or one line for each direction,
\* however often the switch was used; unless somebody was hasty.  (Then colours
\* are lost, or the plot shows the circuits of a link clicked earlier.)
HistoryIsOfTheLink ==
    LET k == Len(dialogs)
    IN  k = 0 \/ hasty \/ dialogs[k].polls \/
        /\ {<<l.circuit, l.stack>> : l \in ToSet(plot.lines)}
              = CircuitsOf[dialogs[k].link] \X Stacks
        /\ IF plot.aggregate
           THEN \A s \in Stacks :
                   Cardinality({i \in DOMAIN plot.lines :
                      plot.lines[i].stack = s /\ ~plot.lines[i].thin}) = 1
           ELSE \A l \in ToSet(plot.lines) : l.color = "own" /\ ~l.thin
=============================================================================
