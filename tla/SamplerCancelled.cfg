SPECIFICATION SamplerSpec
CONSTANTS
  Device = {d1, d2}
  MaxPuts = 4
  MaxErrors = 2
INVARIANT RetainsData
