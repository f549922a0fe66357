SPECIFICATION Spec
CONSTANTS
  w1 = w1  w2 = w2
  t1 = t1  t2 = t2
  o1 = o1  o2 = o2
  Tasks = {t1, t2}
  Obligations = {o1, o2}
  Assignees = {ann}
  Reviewers = {rex}
  Author = rex
  Workers = {w1, w2}
  Scheduler = scheduler
  None = None
  LastDay = 1
  Scenes <- AllScenes
  Keys = {"gstr3b", "tds", "itr", "itr_draft", "audit", "bank", "close", "other"}
  OpenKeys = {"other"}
  Nature <- NatureOf
INVARIANT RowsSound
INVARIANT OneUnread
PROPERTY ClosedStays
PROPERTY TasksFollowWorkflow
PROPERTY EventuallyOverdue
CHECK_DEADLOCK FALSE
