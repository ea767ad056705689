SPECIFICATION DiskSpec
CONSTANTS
  k1 = k1
  k2 = k2
  k3 = k3
  k4 = k4
  Nobody = Nobody
  Keys <- FourKeys
  RecordSizes = {1, 2, 3, 4}
  FilterSizes = {1}
  BaseMetadata = 1
  DocLimit = 3
  DiskLimit = 5
  MetaLimit = 5
  EntryLimit = 3
SYMMETRY Symmetry
INVARIANTS Tiled StoreAccounted RecordsIntact
