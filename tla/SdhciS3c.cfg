SPECIFICATION Spec
CONSTANTS
  Rates = {48, 400, 1024, 2600}
  Wanted = {1, 3, 5, 50, 1300}
  Word = 4096
INVARIANTS NearestSource CardNotTooFast
