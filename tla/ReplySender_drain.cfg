CONSTANTS
  Tasks = {t1}
  MaxReplies = 1
  Capacity = 1
  BatchSize = 1
SPECIFICATION Spec
PROPERTY DrainsBeforeExit
