SPECIFICATION PagesSpec
CONSTANTS
    None = None
    Sites = {"A", "B"}
    MaxPoints = 3
    MaxClicks = 3
    MaxAsked = 3
    CircuitPath <- MCPath
    MaxLoads = 2
    Ports = {"p1", "p2"}
    Crossed <- MCCrossed
    TrafficOf <- MCTraffic
    MaxRefreshes = 2
    DomainOf <- MCDomainOf
    DeviceLinks <- MCDeviceLinks
    Notices = {"i1", "i2", "i3"}
    MaxDate = 2
    PageSize = 2
    MaxOpenings = 2
    MaxRewrites = 1
    DevicesOf <- MCDevicesOf
    MaxChanges = 6
    MaxTests = 2
    Sampled = {0, 1, 2, 12}
    Workflows = {"w1", "w2"}
    MaxChosen = 3
    Listed = {"u1", "u2"}
    Auths = {"a1", "a2"}
    MaxOpen = 2
    CircuitsOf <- MCCircuitsOf
    MaxDialogs = 2
    Messages = {"m1", "m2"}
    MaxEdits = 4
    RoleDomains = {"x", "y"}
    MaxForms = 3
    Nets = {"u1"}
    Nodes = {"n1", "n2"}
    NetOf <- MCNetOf
    Known <- MCKnown
    MaxTasks = 1
    MaxEdited = 1
    Boxes = {"b1", "b2", "b3"}
    MaxPlace = 1
    MaxDrags = 4
    Day = 2
    MaxHour = 2
    MaxEvents = 2
    PortsOf <- MCPortsOf
    MaxOpened = 3
    Rules = {"r1", "r2"}
    MaxStarts = 2
    MaxSends = 2
    WorkflowDomains = {"x", "y"}
INVARIANTS
    DrawnLegsFollowThePath
    ListsOfTheChosen
    LinksShowDataPlane
    PollsForAnAnswer
    TrafficIsOfTheListed
    MapAndGraphAgree
    
    PostedEndMatches
    CronReadsBack
    AtMostOneActive
    FormShowsWhatItSaves
    HistoryIsOfTheLink
    OnlyTypedIsChanged
    GroupsOfTheDomain
    DescribedIsThere
    CanvasShowsTheLayer
    DialogIsOfTheEvent
CHECK_DEADLOCK FALSE
