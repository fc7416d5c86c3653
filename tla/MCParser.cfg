\* Every text of up to three characters; every sequence of up to four tokens;
\* definitions of operators with an error in the prototype; programs of the
\* grammar that define and use an operator; each written in several ways.
SPECIFICATION Spec
CONSTANTS
  Texts <- AllTexts
  Letters <- LetterPieces
  Digits <- DigitPieces
  Spaces <- SpaceCharacters
  LineEnds <- LineEndCharacters
  Keywords <- KeywordPieces
  Strtod <- NumberToken
  Ascii <- Characters
  NumberValue <- Values
  BuiltinPrecedence <- MainPrecedence
  WellFormed <- Grammatical
  Alphabet = {"id", "n5", "(", ")", ",", "=", "+", "*", ";", "then",
              "var", "def"}
  Longest = 4
INVARIANTS
  TypeOK
  LexedAsWritten
  EveryCharacter
  OperatorsBind
  NothingDropped
  ItemsWhole
PROPERTIES
  Termination
CHECK_DEADLOCK FALSE
