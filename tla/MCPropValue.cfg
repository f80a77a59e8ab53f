SPECIFICATION Spec
CONSTANTS
  BasePrefix <- MCBase
  RawStarts <- MCStarts
  RawEnds <- MCEnds
  MaxDepth = 4
  MaxDecls = 2
  MaxNumber = 1
INVARIANTS NsExact PrefixesOneToOne  NamesKept ValueTakesItsElement
