--------------------------- MODULE Pages_proofs -----------------------------
(***************************************************************************)
(* Proofs about the browser that has every page: what modules              *)
(* FormPages_proofs and NetworkPages_proofs prove about a page by itself   *)
(* holds of it here.                                                       *)
(***************************************************************************)
EXTENDS Pages, FormPages_proofs, NetworkPages_proofs, TLAPS

(***************************************************************************)
(* A behaviour of the browser is, seen from one page, a behaviour of that  *)
(* page: the steps of the others leave it as it is.                        *)
(***************************************************************************)

LEMMA ReservationOfPages == PagesSpec => ReservationSpec
<1>1. PagesInit => ReservationInit
  BY DEF PagesInit
<1>2. [PagesNext]_pagesVars => [ReservationNext]_reservationVars
  BY DEF PagesNext, OthersStay, pagesVars
<1> QED
  BY <1>1, <1>2, PTL DEF PagesSpec, ReservationSpec

LEMMA CircuitOfPages == PagesSpec => CircuitSpec
<1>1. PagesInit => CircuitInit
  BY DEF PagesInit
<1>2. [PagesNext]_pagesVars => [CircuitNext]_circuitVars
  BY DEF PagesNext, OthersStay, pagesVars
<1> QED
  BY <1>1, <1>2, PTL DEF PagesSpec, CircuitSpec

LEMMA ViewerOfPages == PagesSpec => ViewerSpec
<1>1. PagesInit => ViewerInit
  BY DEF PagesInit
<1>2. [PagesNext]_pagesVars => [ViewerNext]_viewerVars
  BY DEF PagesNext, OthersStay, pagesVars
<1> QED
  BY <1>1, <1>2, PTL DEF PagesSpec, ViewerSpec

LEMMA NotifyOfPages == PagesSpec => NotifySpec
<1>1. PagesInit => NotifyInit
  BY DEF PagesInit
<1>2. [PagesNext]_pagesVars => [NotifyNext]_notifyVars
  BY DEF PagesNext, OthersStay, pagesVars
<1> QED
  BY <1>1, <1>2, PTL DEF PagesSpec, NotifySpec

LEMMA TesterOfPages == PagesSpec => TesterSpec
<1>1. PagesInit => TesterInit
  BY DEF PagesInit
<1>2. [PagesNext]_pagesVars => [TesterNext]_testerVars
  BY DEF PagesNext, OthersStay, pagesVars
<1> QED
  BY <1>1, <1>2, PTL DEF PagesSpec, TesterSpec

LEMMA CronOfPages == PagesSpec => CronSpec
<1>1. PagesInit => CronInit
  BY DEF PagesInit
<1>2. [PagesNext]_pagesVars => [CronNext]_cronVars
  BY DEF PagesNext, OthersStay, pagesVars
<1> QED
  BY <1>1, <1>2, PTL DEF PagesSpec, CronSpec

LEMMA ListOfPages == PagesSpec => ListSpec
<1>1. PagesInit => ListInit
  BY DEF PagesInit
<1>2. [PagesNext]_pagesVars => [ListNext]_listVars
  BY DEF PagesNext, OthersStay, pagesVars
<1> QED
  BY <1>1, <1>2, PTL DEF PagesSpec, ListSpec

LEMMA FormOfPages == PagesSpec => FormSpec
<1>1. PagesInit => FormInit
  BY DEF PagesInit
<1>2. [PagesNext]_pagesVars => [FormNext]_formVars
  BY DEF PagesNext, OthersStay, pagesVars
<1> QED
  BY <1>1, <1>2, PTL DEF PagesSpec, FormSpec

LEMMA DialogsOfPages == PagesSpec => DialogsSpec
<1>1. PagesInit => DialogsInit
  BY DEF PagesInit
<1>2. [PagesNext]_pagesVars => [DialogsNext]_dialogsVars
  BY DEF PagesNext, OthersStay, pagesVars
<1> QED
  BY <1>1, <1>2, PTL DEF PagesSpec, DialogsSpec

LEMMA RolesOfPages == PagesSpec => RolesSpec
<1>1. PagesInit => RolesInit
  BY DEF PagesInit
<1>2. [PagesNext]_pagesVars => [RolesNext]_rolesVars
  BY DEF PagesNext, OthersStay, pagesVars
<1> QED
  BY <1>1, <1>2, PTL DEF PagesSpec, RolesSpec

LEMMA CanvasOfPages == PagesSpec => CanvasSpec
<1>1. PagesInit => CanvasInit
  BY DEF PagesInit
<1>2. [PagesNext]_pagesVars => [CanvasNext]_canvasVars
  BY DEF PagesNext, OthersStay, pagesVars
<1> QED
  BY <1>1, <1>2, PTL DEF PagesSpec, CanvasSpec

LEMMA ScheduleOfPages == PagesSpec => ScheduleSpec
<1>1. PagesInit => ScheduleInit
  BY DEF PagesInit
<1>2. [PagesNext]_pagesVars => [ScheduleNext]_scheduleVars
  BY DEF PagesNext, OthersStay, pagesVars
<1> QED
  BY <1>1, <1>2, PTL DEF PagesSpec, ScheduleSpec

LEMMA DiscoveryOfPages == PagesSpec => DiscoverySpec
<1>1. PagesInit => DiscoveryInit
  BY DEF PagesInit
<1>2. [PagesNext]_pagesVars => [DiscoveryNext]_discoveryVars
  BY DEF PagesNext, OthersStay, pagesVars
<1> QED
  BY <1>1, <1>2, PTL DEF PagesSpec, DiscoverySpec

LEMMA TrafficOfPages == PagesSpec => TrafficSpec
<1>1. PagesInit => TrafficInit
  BY DEF PagesInit
<1>2. [PagesNext]_pagesVars => [TrafficNext]_trafficVars
  BY DEF PagesNext, OthersStay, pagesVars
<1> QED
  BY <1>1, <1>2, PTL DEF PagesSpec, TrafficSpec

LEMMA HistoryOfPages == PagesSpec => HistorySpec
<1>1. PagesInit => HistoryInit
  BY DEF PagesInit
<1>2. [PagesNext]_pagesVars => [HistoryNext]_historyVars
  BY DEF PagesNext, OthersStay, pagesVars
<1> QED
  BY <1>1, <1>2, PTL DEF PagesSpec, HistorySpec

-----------------------------------------------------------------------------
\* The browser, whatever page is open: the pages proved about one by one keep
\* their promises in the specification that has them all, for every network, list,
\* schedule, workflow and number of clicks.
THEOREM PagesKeepTheirPromises ==
    PagesSpec =>
        /\ []DrawnLegsFollowThePath
        /\ []ListsOfTheChosen
        /\ []LinksShowDataPlane
        /\ []PollsForAnAnswer
        /\ []MapAndGraphAgree
        /\ []NoticesInOrder
        /\ []PostedEndMatches
        /\ []CronReadsBack
        /\ []AtMostOneActive
        /\ []FormShowsWhatItSaves
        /\ []OnlyTypedIsChanged
        /\ []GroupsOfTheDomain
        /\ []CanvasShowsTheLayer
        /\ []DialogIsOfTheEvent
        /\ []DescribedIsThere
        /\ []TrafficIsOfTheListed
        /\ []HistoryIsOfTheLink
BY ReservationOfPages, CircuitOfPages, ViewerOfPages, NotifyOfPages,
   TesterOfPages, CronOfPages, ListOfPages, FormOfPages, DialogsOfPages,
   RolesOfPages, CanvasOfPages, ScheduleOfPages, DiscoveryOfPages,
   TrafficOfPages, HistoryOfPages, LegsFollowThePath, ListsAreOfTheChosen,
   LegsShowDataPlane, PollsAreAnswered, MapAndGraphHoldTheSame,
   NoticesComeInOrder, PostedEndsMatch, ScheduleReadsBack, SingleActive,
   FormShowsWhatIsSaved, OnlyTypedFieldsChange, FormsOfferTheirGroups,
   CanvasShowsLayer, DialogOfItsEvent, DescribedComesThere,
   TrafficOfTheListed, PlotIsOfTheLink
=============================================================================
