\* 3 string ids for 7 strings: the id space is exhausted and recycled.
\* 2 slots and a counter modulo 3 for 3 threads: slots wrap and collide.
SPECIFICATION OrderSpec
CONSTANTS
  f = f  long = long  pid1 = pid1  tid1 = tid1  tid2 = tid2
  tid3 = tid3  process = process  empty = empty
  Strings <- MCStrings
  CallerStrings <- MCCallerStrings
  EmptyString = empty
  Effective <- MCEffective
  Threads <- MCThreads
  PidName <- MCPidName
  TidName <- MCTidName
  ProcessLabel = process
  MaxStringId = 3
  MaxThreadSlots = 2
  CounterModulus = 3
  MaxHeld = 2
INVARIANTS TypeOK IdsDense TablesMatchReader ThreadsFaithful FaithfulUntilExhausted
  HeldAboveOneStayValid
PROPERTIES OnlyIdOneIsRecycled ThreadSlotsAreARing
