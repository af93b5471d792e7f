SPECIFICATION MCSpec
CONSTRAINT Bound
CONSTANTS
  o1 = o1
  o2 = o2
  t1 = t1
  t2 = t2
  h2 = h2
  g1 = g1
  Operations = {o1, o2}
  Items = {t1, t2}
  MaxEdits = 2
  Handlers = {h1, h2}
  QueueLists <- MCQueueLists
  Styles = {1, 2, 3}
  Allowed <- MCAllowed
  PerkRows = {1, 2, 3}
  PerksOf <- MCPerksOf
  MaxReads = 2
  Games = 2
  MaxLiveChanges = 3
  HistoryPage = 2
  HistoryLimit = 6
  MaxGames = 5
  Names = {"game", "startupStatus"}
  Settings = {"a", "b"}
  AllTabs = {"dashboard", "live", "settings"}
  PhoneTabs = {"dashboard", "live"}
  Desktop = {"launch", "stop", "toggle-mask"}
  MaxLaunches = 2
  MaxFeedChanges = 3
  SkinAccounts = {"A", "B"}
  SkinIds = {"s1", "s2"}
  MaxSkinChanges = 2
  Switches = {"a", "b"}
  Friends = {"f1", "f2"}
  FriendRequests = {"r1"}
  MaxPresets = 2
  MaxSets = 3
  StudioChampions = {1, 2}
  Icons = {1, 2}
  Tokens = {1}
  MaxSaved = 2
  BackupLimit = 2
  MaxMade = 3
  LookupChampions = {"x", "y"}
  RiotIDs = {"a", "b"}
  MaxProfiles = 3
  Grants = {g1, g2}
  Options = {1, 2}
  MaxPreviews = 1
  MasteryPage = 2
  Mastered <- MCMastered
  Roles = {"mid", "top"}
  Queues = {"draft", "aram"}
  EventLimit = 3
  MaxMoves = 1
  Rules = {"grind", "honor"}
  Reviewed = {"grind"}
  Paths = {"a", "b"}
  TTL = 2
  JSON_CACHE_MAX = 1
  MaxTime = 4
  MaxClears = 1
INVARIANTS
  ShowsWhatIsStored
  OneActionAtATime
  BelongsToWhatIsShown
  ListsAreRight
PROPERTIES
  StepsKeepToWhatIsShown
  RecipesOfSelection
  PagesSettle
CHECK_DEADLOCK FALSE
