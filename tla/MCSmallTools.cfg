CONSTANTS
  e1 = e1
  e2 = e2
  n1 = n1
  n2 = n2
  d1 = d1
  d2 = d2
  b1 = b1
  k1 = k1
  k2 = k2
  k3 = k3
  s1 = s1
  s2 = s2
  Nobody = Nobody
  Names <- MCNames
  Emitters <- MCEmitters
  MaxHandlers = 3
  MaxEmits = 2
  Funcs <- MCJobs
  Dispatchers <- MCDispatchers
  Events <- MCNames
  MaxOns = 2
  MaxDispatches = 2
  Buckets <- MCBuckets
  Cap = 1
  Period = 2
  MaxClock = 6
  Keys <- MCKeys
  SizeOf <- MCSizeOf
  MaxSizes <- MCMaxSizes
  MaxCalls = 6
  Starters <- MCStarters
  MaxAmount = 2
  MaxTicks = 3
  MaxStarts = 2
  Inputs <- MCInputs
  ByteOrders <- MCByteOrders
  MaxWrites = 3
  MaxFailing = 4
  Conversions <- MCConversions
  Samples = {0, 3}
  MaxSamples = 6
  MaxSinkFailing = 3
  SamplesPerAnalysis = 2
  MinAnalyses = 2
  MaxChunk = 9
  MaxLength = 13
SPECIFICATION MCSpec
INVARIANTS EmitCallsInOrder DispatchesInBlocks WindowBounded CacheIsLRU RatesTelescope BitsInOrder FramesKept RunsFramed
PROPERTIES DispatchReturns
CHECK_DEADLOCK FALSE
