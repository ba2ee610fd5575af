SPECIFICATION NoticesFairSpec
CONSTANTS
  Gid <- MCGid
  TorrentLinks <- MCGid
  Cap = 2
  Stay = 1
  MaxChanges = 3
  MaxNews = 2
  MaxBoth = 2
  MaxToasts = 3
  MaxPending = 2
INVARIANTS
  NoticesConsistent
  NotedOnce
PROPERTIES
  ToastsStayOrLeave
CHECK_DEADLOCK FALSE
