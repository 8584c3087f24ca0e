CONSTANTS
  absent = absent byStatus = byStatus byId = byId all = all
  User <- MCUser
  Status <- MCStatus
  Absent = absent
  Filter <- MCFilter
  All = all
  Keeps <- MCKeeps
  Only <- MCOnly
  FirstUsers <- MCFirst
  Limit = 2
  None = None
  Sent = Sent
  Habits = {{"empty"}}
  MaxStep <- MCStep
  MaxOther = 1
CHECK_DEADLOCK FALSE
SPECIFICATION TableSpec
INVARIANTS BulkHitsVisible
