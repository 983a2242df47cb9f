CONSTANTS
  Width = 32
  kPolynomial <- MCPolynomial
  BufferSize = 2
  Pairs <- MCPairs
SPECIFICATION Spec
INVARIANTS TableIsDefinition WholeStream ChangeNoticed
CHECK_DEADLOCK FALSE
