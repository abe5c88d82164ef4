CONSTANTS
 BufferSize = 2
 MaxItems = 4
 MaxMap = 4
 MaxHeap = 6
 InitialBuckets = 2
 Capacities = {0, 1, 2, 3}
 FixedCapacity = 2
 Addresses = {11, 12, 13, 14}
 Values = {1, 2}
 HeapValues = {1, 2, 3, 4}
 TreeKeys = {1, 2, 3, 4, 5, 6, 7, 8}
 TreeValues = {1}
 TableKeys = {1, 2, 3, 5, 6, 9}
 CacheKeys = {1, 2, 3, 4}
 StringNames = {1, 2, 3}
 Characters = {"a", "b"}
 MaxLength = 2
SPECIFICATION Spec
INVARIANTS
 TypeOK
 HoldsSequence
 HeapServesLargest
 TableIsMap
 TreeIsMap
 CacheKeepsLatest
 
CHECK_DEADLOCK FALSE
