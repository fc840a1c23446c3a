SPECIFICATION Spec
CONSTANTS
  WORDS = 65536
  INT_END = 128
  MAX_TESTS = 10
  Tests = {"a", "b"}
  Texts <- MCTexts
  Addresses <- MCAddresses
INVARIANTS
  TypeOK
  ListedTestRuns
  FittingNumberMeant
  AddressShown
