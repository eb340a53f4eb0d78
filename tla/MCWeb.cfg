\* Two tabs: a profile, lists of one or two entries, a gallery of four objects in
\* pages of one, and one canvas.
SPECIFICATION Spec
CONSTANTS
  Tabs = {1, 2}
  None = None
  Texts = {"x"}
  Unread = Unread
  MaxRequests = 3
  Wallets = {"w1", "w2"}
  HistoryMax = 2
  MaxSearches = 2
  MaxChanges = 3
  Objects = {1, 2, 3, 4}
  PageSize = 1
  Limit = 2
  MaxPages = 2
  MaxFields = 3
  MaxMoves = 1
  Canvases = {"panel"}
  Pool = 2
  Burst = 2
INVARIANTS ProfileHonest ListsHonest GalleryHonest MotionHonest
PROPERTY OthersKept
CHECK_DEADLOCK FALSE
