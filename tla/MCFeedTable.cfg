\* A reader with pages of two rows while up to six transactions arrive, two
\* timestamps, the first transaction older than the indexer.  A user on three
\* pages of one row, up to four rows whose digests are in any order.
SPECIFICATION TableSpec
CONSTANTS
  Limit = 2
  FirstIndexed = 2
  MaxTx = 6
  MaxTs = 2
  PAGE_SIZE = 1
  PageTx = 5
  PageTs = 1
  MaxPage = 2
  Away = Away
  Absent = Absent
INVARIANTS PagesDescend NothingSkipped PagesHonest
CHECK_DEADLOCK FALSE
