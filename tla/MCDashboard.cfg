SPECIFICATION DashboardSpec
CONSTANTS
  None = None
  Habits = {{}}
  absent = absent byStatus = byStatus byId = byId all = all
  User <- MCUser
  Status <- MCStatus
  Absent = absent
  Filter <- MCFilter
  All = all
  Keeps <- MCKeeps
  Only <- MCOnly
  FirstUsers <- MCFirst
  Limit = 2
  Sent = Sent
  MaxStep <- MCStep
  MaxOther = 1
  ann = ann annSpace = annSpace five = five fiveAnd = fiveAnd
  link = link dead = dead bob = bob empty = empty
  Text <- MCText
  Empty = empty
  Trim <- MCTrim
  Ids <- MCIds
  Url = {link, dead}
  Username <- MCUsername
  MaxEvent = 4
  Core = {"c1", "c2", "c3"}
  FirstCore <- FirstCores
  Kind <- Kinds
  Name = {"", "a"}
  Blank = ""
  Draft <- Drafts
  Config <- Configs
  Garbage = Garbage
  Import <- Imported
  Rejected <- Refused
  Persist <- Persisted
  Broken = {"w2"}
  Accepted <- Valid
  Filled <- FilledIn
  Invalid = {}
  NewDraft <- FirstDraft
  NewText <- FirstText
  MaxEdit = 2
  MaxSave = 1
  MaxMount = 2
  MaxOtherSave = 1
INVARIANTS
  BulkHitsVisible EditHasUser 
  BoxMeansFilter
  OwnConfig TextMeansDraft 
PROPERTIES LateAnswerIgnored OneSearch
CHECK_DEADLOCK FALSE
