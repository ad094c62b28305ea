CONSTANTS
  Tasks = {t1, t2}
  MaxReplies = 2
  Capacity = 2
  BatchSize = 2
SPECIFICATION FairSpec
INVARIANTS TypeOK EachReplyAccounted DeliveredInOrder
PROPERTIES ImplementsPipe QueueMoves ListenerReturns
