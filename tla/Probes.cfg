SPECIFICATION MCSpec
CONSTANTS
  Catalog <- Shipped
  Limit = 30
  SeqModulus = 8
  StreamLength = 4
  MaxSegment = 2
  MaxStreamBytes = 3
INVARIANTS
  TypeOK
  NothingLeftOpen
  AlarmNeedsPeer
  AllItemsVisited
  PromisedNotToRaise
  
  
  
  RebuildsPrefix
  WeakestLinkReported
  
PROPERTIES
  Ends
  RefinesTask
