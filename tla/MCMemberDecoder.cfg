SPECIFICATION DecoderSpec
CONSTANTS
  DecodePolicies <- MCPolicies
  RecordLists <- MCRecordLists
  NameTexts = {"name", "raw", "malformed"}
  MaxHeaders = 4
INVARIANTS
  MetadataIsLastWord
  PolicyIsExact
  RawNamesNeedBinary
