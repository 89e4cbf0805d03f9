SPECIFICATION FairSpec
CONSTANTS
  ann = ann
  ben = ben
  edited = edited
  task = task
  People = {ann, ben}
  Topics = {edited, task}
  Tasks = {task}
  Limit = 1
  Nobody = Nobody
INVARIANTS
  MarksMatchMails
PROPERTIES
  NewsIsMailed
