SPECIFICATION IntakeSpec
CONSTANTS
  Texts <- MCTexts
  Torrents <- MCTorrents
  MAX_BENCODE_DEPTH = 5
  Serves <- MCServes
  Requests <- MCRequests
  TypedLinks <- MCTyped
  Prefs = {"http", "ftp", "magnet", "ed2k", "thunder", "bt_infohash"}
  MaxInputs = 3
INVARIANTS
  IntakeConsistent
  SentOnce
  SelectionIsOfTorrent
CHECK_DEADLOCK FALSE
