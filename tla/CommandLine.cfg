\* Every line of up to seven characters: both limits of getargs() are passed.
SPECIFICATION Spec
CONSTANTS
  MaxLine = 7
  TokenLen = 4
  MaxCom = 3
  MaxChar = 7
INVARIANTS TokensRight ParsedAsMeant ArgsAreWords
CHECK_DEADLOCK FALSE
