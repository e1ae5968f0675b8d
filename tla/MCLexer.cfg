SPECIFICATION Spec
CONSTANTS
  Digits <- MCDigits
  HexLetters <- MCHexLetters
  Letters <- MCLetters
  Keywords <- MCKeywords
  NUL <- MCNul
  Sources <- MCSources
INVARIANTS
  TokensExact
  PlacesExact
PROPERTY
  Terminates
