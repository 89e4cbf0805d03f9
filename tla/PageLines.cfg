SPECIFICATION Spec
CONSTANTS
  Words = {milk, bread}
  Blank = Blank
  Heading = Heading
  Writers = {v, w}
  First <- MCFirst
  Imports <- MCImports
  MaxLines = 2
  MaxIds = 7
  MaxCards = 5
  MaxSteps = 5
  milk = milk
  bread = bread
  v = v
  w = w
SYMMETRY Symmetry
INVARIANTS
  BoardMatchesPage
PROPERTIES
  RecognisedLinesKeepTheirIds
