SPECIFICATION Spec
CONSTANTS
  Inputs <- MCInputs
  Texts <- MCTexts
  Sizes <- MCSizes
INVARIANTS TypeOK EncodeFits DecodeFits RoundTrip
CHECK_DEADLOCK FALSE
